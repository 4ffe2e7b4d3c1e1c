----------------------------- MODULE Scheduler -----------------------------
(***************************************************************************)
(* runners/scheduler.py: bounded concurrency in front of a RunnerPort.     *)
(*                                                                         *)
(* As in AgentRunner, a call is a task inside dispatch(), and an admission *)
(* is the task of _admit, with the number of the call that created it.  An *)
(* admission takes a slot of its repository and then one of the fleet, is  *)
(* inside the inner port until that answers, and gives both back.  A step  *)
(* is what a task does between two awaits.                                 *)
(*                                                                         *)
(* The inner port is abstract: a dispatch ends, with a result or raising.  *)
(***************************************************************************)
EXTENDS Semaphore

CONSTANTS Keys,            \* idempotency keys: attempts
          Repos,
          RepoOf,          \* the repository of a key
          RepoCap,         \* max_concurrent_runs, by repository
          Limit,           \* limit: the fleet's
          MaxRemembered,   \* max_remembered
          MaxCalls         \* bound: callers of dispatch, as in AgentRunner

SchedulerAssumption ==
    /\ Keys # {} /\ RepoOf \in [Keys -> Repos]
    /\ RepoCap \in [Repos -> Nat \ {0}]
    /\ Limit \in Nat \ {0} /\ MaxRemembered \in Nat \ {0} /\ MaxCalls \in Nat

VARIABLES
    calls,      \* the callers of dispatch
    adm,        \* the admissions, by the call that created them
    runs,       \* _runs: the admissions that are remembered, oldest first
    fleet,      \* _slots
    repo,       \* _per_repo
    disowned    \* history: the keys whose admission was removed from _runs by a
                \* caller that waited for another

vars == <<calls, adm, runs, fleet, repo, disowned>>

Calls == 1..MaxCalls
Ended == {"answered", "failed", "cancelled"}
Live == {"created", "repo", "fleet", "inside"}

TypeOK ==
    /\ calls \in [Calls -> [key : Keys, task : Calls \cup {0},
                            at : {"idle", "waiting", "unwinding", "gone"}]]
    /\ adm \in [Calls -> [at : Live \cup Ended \cup {"none"}, hit : BOOLEAN, record : Calls,
                          started : BOOLEAN, stopped : BOOLEAN, early : BOOLEAN]]
    /\ runs \in BoundedSeq(Calls, MaxCalls)
    /\ fleet \in Semaphores(Calls, Limit)
    /\ \A r \in Repos : repo[r] \in Semaphores(Calls, RepoCap[r])
    /\ disowned \subseteq Keys

\* hit: a CancelledError waits to be delivered.  record: the entry _admit works on,
\* which it looks up by key when it is first run.  early: stopped before that.
NoAdmission(c) == [at |-> "none", hit |-> FALSE, record |-> c, started |-> FALSE,
                   stopped |-> FALSE, early |-> FALSE]
Nobody == [key |-> CHOOSE k \in Keys : TRUE, task |-> 0, at |-> "idle"]

Init ==
    /\ calls = [c \in Calls |-> Nobody]
    /\ adm = [c \in Calls |-> NoAdmission(c)]
    /\ runs = <<>>
    /\ fleet = NewSemaphore(Limit)
    /\ repo = [r \in Repos |-> NewSemaphore(RepoCap[r])]
    /\ disowned = {}

Key(e) == calls[e].key
RepoKey(e) == RepoOf[Key(e)]
Mine(c) == calls[c].task = c
Done(e) == adm[e].at \in Ended

\* The admission remembered for a key, if there is one.
Entries(k) == {e \in ToSet(runs) : Key(e) = k}
Entry(k) == CHOOSE e \in Entries(k) : TRUE

-----------------------------------------------------------------------------
(* dispatch and cancel *)

\* Mutant: the oldest is forgotten whether it is done or not.
Bug_Remember(c) ==
    LET all == Append(runs, c)
        surplus == IF Len(all) > MaxRemembered THEN Len(all) - MaxRemembered ELSE 0
    IN  runs' = SubSeq(all, surplus + 1, Len(all))

\* _remember: the oldest are forgotten while there are too many and the next is done.
Remember(c) ==
    LET all == Append(runs, c)
        surplus == IF Len(all) > MaxRemembered THEN Len(all) - MaxRemembered ELSE 0
    IN  \E n \in 0..surplus :
            /\ \A i \in 1..n : Done(all[i])
            /\ n = surplus \/ ~Done(all[n + 1])
            /\ runs' = SubSeq(all, n + 1, Len(all))

Idle == {c \in Calls : calls[c].at = "idle"}

\* The callers are alike, and the first idle one calls.
dispatch(c, k) ==
    /\ c \in Idle /\ \A d \in Idle : c <= d
    /\ \/ /\ Entries(k) # {}
          /\ calls' = [calls EXCEPT ![c] = [key |-> k, task |-> Entry(k), at |-> "waiting"]]
          /\ UNCHANGED <<adm, runs>>
       \/ /\ Entries(k) = {}
          /\ calls' = [calls EXCEPT ![c] = [key |-> k, task |-> c, at |-> "waiting"]]
          /\ adm' = [adm EXCEPT ![c].at = "created"]
          /\ Remember(c)
    /\ UNCHANGED <<fleet, repo, disowned>>

\* self._runs.pop(key): whatever is remembered for it by now.
Pop(c) ==
    /\ runs' = IF Entries(Key(c)) = {} THEN runs
               ELSE RemoveAt(runs, CHOOSE i \in DOMAIN runs : runs[i] = Entry(Key(c)))
    /\ disowned' = IF Entries(Key(c)) \subseteq {calls[c].task} THEN disowned
                   ELSE disowned \cup {Key(c)}

Keep == UNCHANGED <<runs, disowned>>

\* A caller that only joined may call again.
Leaves(c) ==
    calls' = [calls EXCEPT ![c] = IF Mine(c) THEN [calls[c] EXCEPT !.at = "gone"] ELSE Nobody]

\* The shielded task is done and the caller wakes.  Only a failure is forgotten.
Woken(c) ==
    /\ calls[c].at = "waiting" /\ Done(calls[c].task)
    /\ Leaves(c)
    /\ IF adm[calls[c].task].at = "failed" THEN Pop(c) ELSE Keep
    /\ UNCHANGED <<adm, fleet, repo>>

\* task.cancel(): a task that waits for a semaphore has its future cancelled.
Hit(e) ==
    /\ fleet' = IF adm[e].at = "fleet" THEN CancelWaiter(fleet, e) ELSE fleet
    /\ repo' = IF adm[e].at = "repo"
               THEN [repo EXCEPT ![RepoKey(e)] = CancelWaiter(repo[RepoKey(e)], e)] ELSE repo

\* The caller is cancelled.  Only the one that created the admission cancels it.
GivesUp(c) ==
    /\ calls[c].at = "waiting"
    /\ IF Mine(c) /\ ~Done(c)
       THEN /\ adm' = [adm EXCEPT ![c].hit = TRUE]
            /\ Hit(c)
            /\ calls' = [calls EXCEPT ![c].at = "unwinding"]
       ELSE Leaves(c) /\ UNCHANGED <<adm, fleet, repo>>
    /\ Keep

\* The task of a caller that gave up has ended.  A failure is not suppressed, and
\* leaves before the admission is forgotten; unless the caller is cancelled once more
\* between the end of the task and its own waking, which replaces the failure.  Before
\* the task has ended a second cancellation is passed on to it, which is hit already.
Unwound(c) ==
    /\ calls[c].at = "unwinding" /\ Done(calls[c].task)
    /\ Leaves(c)
    /\ \/ adm[calls[c].task].at = "failed" /\ Keep
       \/ Pop(c)
    /\ UNCHANGED <<adm, fleet, repo>>

\* cancel() of an admission that has not started.  Any other is the inner port's.
cancel(k) ==
    /\ Entries(k) # {} /\ ~Done(Entry(k)) /\ ~adm[Entry(k)].started /\ ~adm[Entry(k)].stopped
    /\ adm' = [adm EXCEPT ![Entry(k)].stopped = TRUE, ![Entry(k)].hit = TRUE,
                          ![Entry(k)].early = adm[Entry(k)].at = "created"]
    /\ Hit(Entry(k))
    /\ Keep /\ UNCHANGED calls

-----------------------------------------------------------------------------
(* _admit and _admitted *)

AdmitUnchanged == UNCHANGED <<calls, runs, disowned>>

\* Nothing of an admission that is over is read again.
Ends(e, at) == adm' = [adm EXCEPT ![e] = [NoAdmission(e) EXCEPT !.at = at]]

\* A CancelledError that reaches _admit: an answer if the entry was stopped.
Interrupted(e) == IF adm[adm[e].record].stopped THEN "answered" ELSE "cancelled"

\* Having the repository's slot, the admission asks for the fleet's.  In one step
\* with that, since acquire() awaits nothing where a slot is free.
AsksFleet(e, record) ==
    IF Locked(fleet)
    THEN /\ fleet' = Joined(fleet, e)
         /\ adm' = [adm EXCEPT ![e].at = "fleet", ![e].record = record]
    ELSE /\ fleet' = Held(fleet)
         /\ adm' = [[adm EXCEPT ![e].at = "inside", ![e].record = record]
                      EXCEPT ![record].started = TRUE]

\* The task is run for the first time.  A cancellation that came before that is
\* raised where nothing catches it; an entry that is gone is a KeyError.
Starts(e) ==
    /\ adm[e].at = "created"
    /\ IF adm[e].hit \/ Entries(Key(e)) = {}
       THEN /\ Ends(e, IF adm[e].hit THEN "cancelled" ELSE "failed")
            /\ UNCHANGED <<fleet, repo>>
       ELSE IF Locked(repo[RepoKey(e)])
       THEN /\ repo' = [repo EXCEPT ![RepoKey(e)] = Joined(repo[RepoKey(e)], e)]
            /\ adm' = [adm EXCEPT ![e].at = "repo", ![e].record = Entry(Key(e))]
            /\ UNCHANGED fleet
       ELSE /\ repo' = [repo EXCEPT ![RepoKey(e)] = Held(repo[RepoKey(e)])]
            /\ AsksFleet(e, Entry(Key(e)))
    /\ AdmitUnchanged

\* The repository's slot was handed over, or the wait was cancelled.
GetsRepo(e) ==
    /\ adm[e].at = "repo" /\ (adm[e].hit \/ e \in Granted(repo[RepoKey(e)]))
    /\ repo' = [repo EXCEPT ![RepoKey(e)] = Left(repo[RepoKey(e)], e, ~adm[e].hit)]
    /\ IF adm[e].hit
       THEN Ends(e, Interrupted(e)) /\ UNCHANGED fleet
       ELSE AsksFleet(e, adm[e].record)
    /\ AdmitUnchanged

\* Mutant: a cancelled wait for the fleet does not give back the repository's slot.
Bug_GetsFleet(e) ==
    /\ adm[e].at = "fleet" /\ (adm[e].hit \/ e \in Granted(fleet))
    /\ fleet' = Left(fleet, e, ~adm[e].hit)
    /\ IF adm[e].hit
       THEN Ends(e, Interrupted(e))
       ELSE /\ adm' = [[adm EXCEPT ![e].at = "inside"] EXCEPT ![adm[e].record].started = TRUE]
    /\ AdmitUnchanged /\ UNCHANGED repo

\* The fleet's slot was handed over, or the wait was cancelled.
GetsFleet(e) ==
    /\ adm[e].at = "fleet" /\ (adm[e].hit \/ e \in Granted(fleet))
    /\ fleet' = Left(fleet, e, ~adm[e].hit)
    /\ IF adm[e].hit
       THEN /\ Ends(e, Interrupted(e))
            /\ repo' = [repo EXCEPT ![RepoKey(e)] = Released(repo[RepoKey(e)])]
       ELSE /\ adm' = [[adm EXCEPT ![e].at = "inside"] EXCEPT ![adm[e].record].started = TRUE]
            /\ UNCHANGED repo
    /\ AdmitUnchanged

\* The inner dispatch is over, and both slots are given back.
InnerEnds(e) ==
    /\ adm[e].at = "inside"
    /\ Ends(e, "failed") \/ Ends(e, IF adm[e].hit THEN Interrupted(e) ELSE "answered")
    /\ fleet' = Released(fleet)
    /\ repo' = [repo EXCEPT ![RepoKey(e)] = Released(repo[RepoKey(e)])]
    /\ AdmitUnchanged

Admit(e) == Starts(e) \/ GetsRepo(e) \/ GetsFleet(e) \/ InnerEnds(e)

Next ==
    \/ \E c \in Calls : \/ \E k \in Keys : dispatch(c, k)
                       \/ Woken(c) \/ GivesUp(c) \/ Unwound(c) \/ Admit(c)
    \/ \E k \in Keys : cancel(k)

Spec == Init /\ [][Next]_vars

\* The event loop runs the task of every admission that can run, and the inner port
\* answers (a hung run is the watchdog's, which stops it).  The callers owe nothing.
Fairness == \A c \in Calls : WF_vars(Admit(c))

FairSpec == Spec /\ Fairness

-----------------------------------------------------------------------------
(* Properties *)

Holders(r) == {e \in Calls : adm[e].at \in {"fleet", "inside"} /\ RepoKey(e) = r}
Inside == {e \in Calls : adm[e].at = "inside"}

\* No slot is lost or made, whoever is cancelled wherever it waits: what is free,
\* handed over and held is the limit, for the fleet and for every repository.
SlotsAreConserved ==
    /\ fleet.value + Cardinality(Granted(fleet)) + Cardinality(Inside) = Limit
    /\ \A r \in Repos :
         repo[r].value + Cardinality(Granted(repo[r])) + Cardinality(Holders(r)) = RepoCap[r]

\* A slot, or a cancellation that frees one, is on its way to a task.
HandingOver == \/ Granted(fleet) # {} \/ \E r \in Repos : Granted(repo[r]) # {}
               \/ \E e \in Calls : adm[e].at \in Live /\ adm[e].hit

\* A run waits only for work that is really going on: in its own repository, which
\* is full, or in the whole fleet.  One busy repository holds up no other.
OnlyWorkBlocks ==
    \A e \in Calls : adm[e].at \in {"repo", "fleet"} /\ ~adm[e].hit =>
        \/ HandingOver
        \/ Cardinality(Inside) = Limit
        \/ Cardinality(Inside \cap Holders(RepoKey(e))) = RepoCap[RepoKey(e)]

\* A run that was stopped in the queue never reaches the tier.
StoppedInTheQueueNeverRuns == \A e \in Inside : ~adm[e].stopped

\* A stop that cancel() has promised in the queue is an answer and not an error,
\* unless it came before the task's first step.
StoppedIsAnswered ==
    [][\A e \in Calls : adm[e].stopped /\ adm'[e].at \in Ended =>
            adm'[e].at = "answered" \/ adm[e].early]_vars

\* However often an attempt is delivered, it is admitted once, unless a caller that
\* waited for a failed admission has forgotten the next one.
AdmittedOnce ==
    \A d, e \in Calls : adm[d].at \in Live /\ adm[e].at \in Live /\ Key(d) = Key(e) =>
        d = e \/ Key(d) \in disowned

\* Every admission that waits is admitted or cancelled, whatever else is queued.
EveryoneIsServed ==
    \A e \in Calls : (adm[e].at \in {"repo", "fleet"}) ~> (adm[e].at \notin {"repo", "fleet"})

\* What the module says, without the exception.
EveryStopIsAnswered ==
    [][\A e \in Calls : adm[e].stopped /\ adm'[e].at \in Ended => adm'[e].at = "answered"]_vars
=============================================================================
