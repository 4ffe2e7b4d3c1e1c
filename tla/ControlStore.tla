---------------------------- MODULE ControlStore ----------------------------
(***************************************************************************)
(* store/control.py for one run: the steering inbox (table "steering") and *)
(* the cancel latch (table "cancellations").  Every operator below is the  *)
(* body of one transaction; RunLifecycle decides who calls it and when.    *)
(*                                                                         *)
(* "handed" is a history variable: how many times a claim gave the message *)
(* to a process.                                                           *)
(***************************************************************************)
EXTENDS Integers, Sequences, FiniteSetsExt

CONSTANTS Priorities,    \* the priorities a message may be sent with
          MaxMessages,   \* bound: messages sent over the life of the run
          ClaimLimit     \* MAX_CLAIM

ASSUME ControlAssumption == Priorities \subseteq Int /\ MaxMessages \in Nat /\ ClaimLimit \in Nat

VARIABLES inbox, handed, cancel
controlVars == <<inbox, handed, cancel>>

Message == [priority : Priorities, state : {"unread", "delivered", "failed"},
            ordinal : Nat]

NoCancel == [state |-> "none", by |-> "nobody"]
Cancellation == [state : {"pending", "acknowledged"}, by : {"operator", "watchdog"}]
                \cup {NoCancel}

ControlTypeOK ==
    /\ inbox \in Seq(Message)
    /\ handed \in Seq(Nat) /\ Len(handed) = Len(inbox)
    /\ cancel \in Cancellation

ControlInit == inbox = <<>> /\ handed = <<>> /\ cancel = NoCancel

Unread == {i \in DOMAIN inbox : inbox[i].state = "unread"}

-----------------------------------------------------------------------------
(* Inbox *)

send(priority) ==
    /\ Len(inbox) < MaxMessages
    /\ inbox' = Append(inbox, [priority |-> priority, state |-> "unread", ordinal |-> 0])
    /\ handed' = Append(handed, 0)
    /\ UNCHANGED cancel

\* ORDER BY priority DESC, seq
Before(i, j) == \/ inbox[i].priority > inbox[j].priority
                \/ inbox[i].priority = inbox[j].priority /\ i < j

Rank(i) == Cardinality({j \in Unread : Before(j, i)})

\* Mutant: numbered after the messages still in flight only.
Bug_next_ordinal == Cardinality({i \in DOMAIN inbox : inbox[i].state = "delivered"}) + 1

next_ordinal == Max({0} \cup {inbox[i].ordinal : i \in DOMAIN inbox}) + 1

Claimed == {i \in Unread : Rank(i) < ClaimLimit}

Delivered(i) == [priority |-> inbox[i].priority, state |-> "delivered",
                 ordinal |-> next_ordinal + Rank(i)]

claim ==
    /\ inbox' = [i \in DOMAIN inbox |-> IF i \in Claimed THEN Delivered(i) ELSE inbox[i]]
    /\ handed' = [i \in DOMAIN handed |-> IF i \in Claimed THEN handed[i] + 1 ELSE handed[i]]
    /\ UNCHANGED cancel

FailOpen(states) ==
    [i \in DOMAIN inbox |-> IF inbox[i].state \in states
                            THEN [inbox[i] EXCEPT !.state = "failed"] ELSE inbox[i]]

\* Mutant: the messages of a dead process are queued again.
Bug_abandon ==
    [i \in DOMAIN inbox |-> IF inbox[i].state = "delivered"
                            THEN [inbox[i] EXCEPT !.state = "unread"] ELSE inbox[i]]

\* resume: the process these were delivered to is gone
abandon == FailOpen({"delivered"})

\* Mutant: only what nobody has seen is closed out.
Bug_close == FailOpen({"unread"})

\* the run is over
close == FailOpen({"unread", "delivered"})

-----------------------------------------------------------------------------
(* Cancellations *)

\* INSERT OR IGNORE: the first writer wins.
request(by) ==
    cancel' = IF cancel = NoCancel THEN [state |-> "pending", by |-> by] ELSE cancel

acknowledge ==
    cancel' = IF cancel.state = "pending" THEN [cancel EXCEPT !.state = "acknowledged"]
                                          ELSE cancel

-----------------------------------------------------------------------------
(***************************************************************************)
(* A steering message is an instruction, and following it twice is worse   *)
(* than losing it: over crashes, resumes and concurrent claimants no       *)
(* message is ever handed to a process a second time.                      *)
(***************************************************************************)
HandedAtMostOnce == \A i \in DOMAIN handed : handed[i] <= 1

(***************************************************************************)
(* The agent reads messages in the order of their file names, which start  *)
(* with the ordinal.  Over every sequence of claims, limits and failures   *)
(* the ordinals given out are 1..n with none repeated, and exactly the     *)
(* messages that were handed over have one.                                *)
(***************************************************************************)
Given == {i \in DOMAIN inbox : handed[i] > 0}

OrdinalsAreADenseOrder ==
    /\ {inbox[i].ordinal : i \in Given} = 1..Cardinality(Given)
    /\ \A i \in DOMAIN inbox \ Given : inbox[i].ordinal = 0
=============================================================================
