------------------------------ MODULE Outcome ------------------------------
(***************************************************************************)
(* runners/outcome.py: several signals are true of one attempt at once and *)
(* one outcome is reported, the one of the signal that ranks highest.      *)
(***************************************************************************)
EXTENDS Naturals, Sequences

\* A signal and the outcome it is reported as, most specific first.
Rank == << [signal |-> "cancelled",          outcome |-> "CANCELLED"],
           [signal |-> "startup_error",      outcome |-> "STARTUP_FAILED"],
           [signal |-> "budget_exceeded",    outcome |-> "BUDGET_EXCEEDED"],
           [signal |-> "timed_out",          outcome |-> "TIMED_OUT"],
           [signal |-> "egress_denied",      outcome |-> "NETWORK_DENIED"],
           [signal |-> "disk_full",          outcome |-> "DISK_FULL"],
           [signal |-> "oom_killed",         outcome |-> "OOM_KILLED"],
           [signal |-> "setup_error",        outcome |-> "BLOCKED"],
           [signal |-> "no_model_turn",      outcome |-> "NO_MODEL_RESPONSE"],
           [signal |-> "provider_error",     outcome |-> "PROVIDER_ERROR"],
           [signal |-> "exit_code",          outcome |-> "NON_ZERO_EXIT"],
           [signal |-> "verdict_blocked",    outcome |-> "BLOCKED"],
           [signal |-> "tests_failed",       outcome |-> "TESTS_FAILED"],
           [signal |-> "dropped_commit",     outcome |-> "DROPPED_COMMIT"],
           [signal |-> "empty_diff",         outcome |-> "EMPTY_DIFF"] >>

Signals == {Rank[i].signal : i \in DOMAIN Rank}
Outcomes == {Rank[i].outcome : i \in DOMAIN Rank} \cup {"SUCCEEDED"}

\* Completion: the signals observed.
classify(completion) ==
    IF completion = {} THEN "SUCCEEDED"
    ELSE Rank[CHOOSE i \in DOMAIN Rank :
                /\ Rank[i].signal \in completion
                /\ \A j \in 1..(i - 1) : Rank[j].signal \notin completion].outcome
=============================================================================
