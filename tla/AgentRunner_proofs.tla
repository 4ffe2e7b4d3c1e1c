------------------------- MODULE AgentRunner_proofs -------------------------
(***************************************************************************)
(* Proofs about AgentRunner, for any keys, any number of callers and any   *)
(* number of faults.                                                       *)
(***************************************************************************)
EXTENDS AgentRunner, WellFoundedInduction, TLAPS

-----------------------------------------------------------------------------
(* The ranking of the signals *)

LEMMA SignalNames ==
    {"cancelled", "startup_error", "budget_exceeded", "timed_out", "setup_error", "exit_code"}
        \subseteq Signals
<1> DOMAIN Rank = 1..15
  BY DEF Rank
<1>1. Rank[1].signal = "cancelled" /\ Rank[2].signal = "startup_error"
      /\ Rank[3].signal = "budget_exceeded" /\ Rank[4].signal = "timed_out"
      /\ Rank[8].signal = "setup_error" /\ Rank[11].signal = "exit_code"
  BY DEF Rank
<1> QED
  BY <1>1 DEF Signals

\* The signal a completion is named after ranks highest of its signals.
LEMMA Highest ==
    ASSUME NEW completion \in SUBSET Signals, completion # {}
    PROVE  \E i \in DOMAIN Rank : /\ Rank[i].signal \in completion
                                  /\ classify(completion) = Rank[i].outcome
<1> DEFINE ranks == {i \in DOMAIN Rank : Rank[i].signal \in completion}
           Top(i) == /\ Rank[i].signal \in completion
                     /\ \A j \in 1..(i - 1) : Rank[j].signal \notin completion
<1>1. DOMAIN Rank = 1..15
  BY DEF Rank
<1>2. ranks # {} /\ ranks \subseteq Nat
  BY <1>1 DEF Signals
<1>3. PICK i \in ranks : \A j \in ranks : i <= j
  <2>1. OpToRel(<, Nat) = {p \in Nat \X Nat : p[1] < p[2]}
    BY Zenon DEF OpToRel
  <2>2. IsWellFoundedOn({p \in Nat \X Nat : p[1] < p[2]}, Nat)
    BY <2>1, NatLessThanWellFounded, Zenon
  <2>3. PICK i \in ranks : \A j \in ranks : ~ (<<j, i>> \in {p \in Nat \X Nat : p[1] < p[2]})
    BY <1>2, <2>2, WFMin
  <2>4. ASSUME NEW j \in ranks PROVE i <= j
    <3>1. i \in Nat /\ j \in Nat
      BY <1>2
    <3>2. ~ (j < i)
      BY <2>3, <3>1
    <3> QED
      BY <3>1, <3>2
  <2> QED
    BY <2>4
<1>4. i \in DOMAIN Rank /\ Top(i)
  BY <1>1, <1>3
<1>5. /\ (CHOOSE n \in DOMAIN Rank : Top(n)) \in DOMAIN Rank
      /\ Top(CHOOSE n \in DOMAIN Rank : Top(n))
  BY <1>4
<1>6. classify(completion) = Rank[CHOOSE n \in DOMAIN Rank : Top(n)].outcome
  BY DEF classify
<1> QED
  BY <1>5, <1>6

LEMMA ClassifyNamesAnOutcome ==
    ASSUME NEW completion \in SUBSET Signals
    PROVE  classify(completion) \in Outcomes
<1>1. CASE completion = {}
  BY <1>1 DEF classify, Outcomes
<1>2. CASE completion # {}
  BY <1>2, Highest DEF Outcomes
<1> QED
  BY <1>1, <1>2

\* Nothing is called CANCELLED but what was cancelled.
LEMMA ClassifyCancelled ==
    ASSUME NEW completion \in SUBSET Signals, classify(completion) = "CANCELLED"
    PROVE  "cancelled" \in completion
<1>1. \A i \in DOMAIN Rank : Rank[i].outcome = "CANCELLED" => Rank[i].signal = "cancelled"
  BY DEF Rank
<1>2. completion # {}
  BY DEF classify
<1> QED
  BY <1>1, <1>2, Highest

-----------------------------------------------------------------------------
(* The container engine *)

EngineTypeOK ==
    /\ boxes \in [Keys \X Phases -> Calls \cup {0}]
    /\ missed \subseteq Keys \X Phases
    /\ faults \in 0..MaxFaults

\* Nothing is created, and a removal that was missed stays so until it is done.
OnlyRemoves ==
    /\ \A b \in Keys \X Phases : boxes'[b] \in {0, boxes[b]}
    /\ \A b \in missed : b \in missed' \/ boxes'[b] = 0

RemovedOrMissed(names) == \A b \in names : boxes'[b] = 0 \/ b \in missed'

LEMMA Removal ==
    ASSUME EngineTypeOK, NEW names \in SUBSET (Keys \X Phases), Removes(names)
    PROVE  EngineTypeOK' /\ OnlyRemoves /\ RemovedOrMissed(names)
BY RunnerAssumption DEF RunnerAssumption, EngineTypeOK, Removes, Present, OnlyRemoves,
                        RemovedOrMissed, Calls

LEMMA PartialRemoval ==
    ASSUME EngineTypeOK, NEW names \in SUBSET (Keys \X Phases), RemovesSome(names)
    PROVE  EngineTypeOK' /\ OnlyRemoves
BY DEF EngineTypeOK, RemovesSome, Present, OnlyRemoves

LEMMA NoRemoval ==
    ASSUME EngineTypeOK, EngineUnchanged
    PROVE  EngineTypeOK' /\ OnlyRemoves
BY DEF EngineTypeOK, EngineUnchanged, OnlyRemoves

-----------------------------------------------------------------------------
(* What an execution may do *)

\* A step of execution e, or of a task beside it, seen from the others and from
\* what the invariant needs to know of it.
Own(e) ==
    /\ ExecutionUnchanged /\ EngineTypeOK'
    /\ exec' \in [Calls -> Execution]
    /\ \A d \in Calls \ {e} : exec'[d] = exec[d]
    /\ exec[e].at \in Running /\ exec'[e].at \in Running \cup Ended

\* It ends cancelled, or is on its way there, only if it was hit.
KeepsHits(e) ==
    \/ exec'[e].at = "cancelled"
    \/ exec'[e].at \in Running /\ (exec'[e].hit \/ exec'[e].raised)
    => exec[e].hit \/ exec[e].raised

\* It is told only what the control plane was told.
KeepsTold(e) ==
    exec'[e].at \in Running /\ exec'[e].told # "no" => exec[e].told # "no" \/ Key(e) \in signal

\* Its completion says cancelled, and its answer too, only for a stop.
KeepsReason(e) ==
    \/ exec'[e].at \in Running /\ "cancelled" \in exec'[e].completion
    \/ exec'[e].at = "answered" /\ exec'[e].answer = "CANCELLED"
    => "cancelled" \in exec[e].completion \/ exec[e].told # "no" \/ Key(e) \in stopping

\* It creates the container of its phase, under a free name, and no other.
KeepsBoxes(e) ==
    /\ \A b \in Keys \X Phases :
        \/ boxes'[b] \in {0, boxes[b]}
        \/ boxes[b] = 0 /\ boxes'[b] = e /\ b = Box(e) /\ exec[e].at = "spawning"
    /\ \A b \in missed : b \in missed' \/ boxes'[b] = 0

\* It enters its first phase and gives its answer with its containers removed.
KeepsClean(e) ==
    /\ exec'[e].at \in InPhase /\ exec[e].at \notin InPhase => RemovedOrMissed(Boxes(e))
    /\ exec'[e].at = "answered" => exec[e].at = "checking" \/ RemovedOrMissed(Boxes(e))
    /\ exec'[e].at \in {"checking", "preparing"} => exec[e].at \in {"checking", "preparing"}

Keeps(e) == Own(e) /\ KeepsHits(e) /\ KeepsTold(e) /\ KeepsReason(e) /\ KeepsClean(e)

OwnStep(e) == Keeps(e) /\ KeepsBoxes(e)

LEMMA ExecutionFields ==
    /\ Idle \in Execution
    /\ Ended \subseteq {"answered", "cancelled", "failed"} /\ InPhase \subseteq Running
    /\ Ended \cap Running = {}
<1>1. Idle \in Execution
  BY DEF Idle, Execution, Ended, Running, InPhase, Attended, Phases
<1> QED
  BY <1>1 DEF Ended, Running, InPhase, Attended

LEMMA TheBoxes ==
    ASSUME TypeOK, NEW e \in Calls
    PROVE  /\ EngineTypeOK /\ exec[e] \in Execution /\ Key(e) \in Keys
           /\ Boxes(e) \in SUBSET (Keys \X Phases) /\ {Box(e)} \in SUBSET (Keys \X Phases)
           /\ Box(e) \in Boxes(e)
<1>1. exec[e] \in Execution /\ Key(e) \in Keys /\ EngineTypeOK
  BY DEF TypeOK, EngineTypeOK, Key
<1>2. exec[e].phase \in Phases
  BY <1>1 DEF Execution
<1> QED
  BY <1>1, <1>2 DEF Boxes, Box

LEMMA Update ==
    ASSUME TypeOK, NEW e \in Calls, NEW r \in Execution, Becomes(e, r),
           exec[e].at \in Running, r.at \in Running \cup Ended,
           ExecutionUnchanged, EngineTypeOK'
    PROVE  Own(e) /\ exec'[e] = r
BY DEF TypeOK, Becomes, Own

\* A step that leaves the containers alone.
LEMMA Boxless ==
    ASSUME TypeOK, NEW e \in Calls, EngineUnchanged
    PROVE  KeepsBoxes(e) /\ EngineTypeOK'
<1>1. EngineTypeOK
  BY TheBoxes
<1> QED
  BY <1>1, NoRemoval DEF KeepsBoxes, OnlyRemoves

\* The forms of a fresh record.
LEMMA OverRecord ==
    ASSUME NEW at \in Ended, NEW answer \in Outcomes \cup {Unsettled}
    PROVE  /\ Over(at, answer) \in Execution
           /\ Over(at, answer).at = at /\ Over(at, answer).answer = answer
BY ExecutionFields DEF Execution, Idle, Ended, Over

LEMMA CollectingRecord ==
    ASSUME NEW completion \in SUBSET Signals, NEW r, r = Collecting(completion)
    PROVE  /\ r \in Execution /\ r.at = "collecting" /\ r.completion = completion
           /\ r.hit = FALSE /\ r.raised = FALSE /\ r.told = "no"
BY ExecutionFields DEF Execution, Idle, Running, Collecting

LEMMA UnwindingRecord ==
    /\ Unwinding \in Execution /\ Unwinding.at = "teardown"
    /\ Unwinding.completion = {} /\ Unwinding.told = "no"
BY ExecutionFields DEF Execution, Idle, Running, Unwinding

LEMMA FailingRecord ==
    ASSUME NEW r, r = Failing
    PROVE  /\ r \in Execution /\ r.at = "teardown" /\ r.completion = {}
           /\ r.hit = FALSE /\ r.raised = FALSE /\ r.told = "no"
BY ExecutionFields DEF Execution, Idle, Running, Failing

LEMMA ErringRecord ==
    ASSUME NEW phase \in Phases, NEW halting \in BOOLEAN, NEW r, r = Erring(phase, halting)
    PROVE  /\ r \in Execution /\ r.at = "joining" /\ r.completion = {}
           /\ r.hit = FALSE /\ r.raised = FALSE /\ r.told = "no"
BY ExecutionFields DEF Execution, Idle, Running, InPhase, Erring

LEMMA SpawningRecord ==
    ASSUME NEW phase \in Phases, NEW r, r = Spawning(phase)
    PROVE  /\ r \in Execution /\ r.at = "spawning" /\ r.completion = {}
           /\ r.hit = FALSE /\ r.raised = FALSE /\ r.told = "no"
BY ExecutionFields DEF Execution, Idle, Running, InPhase, Spawning

\* The task ends, its containers aside.
LEMMA OwnEnd ==
    ASSUME TypeOK, NEW e \in Calls, NEW at \in Ended, NEW answer \in Outcomes \cup {Unsettled},
           Ends(e, at, answer), exec[e].at \in Running, ExecutionUnchanged, EngineTypeOK'
    PROVE  Own(e) /\ exec'[e].at = at /\ exec'[e].answer = answer
BY OverRecord, Update DEF Ends

LEMMA OwnCheck == ASSUME TypeOK, NEW e \in Calls, Check(e) PROVE OwnStep(e)
<1> USE ExecutionFields, TheBoxes, Boxless
<1>1. /\ exec[e].at = "checking" /\ ExecutionUnchanged /\ EngineUnchanged
      /\ exec[e] \in Execution /\ exec[e].at \in Running
  BY DEF Check, Running
<1>2. KeepsBoxes(e) /\ EngineTypeOK'
  BY <1>1
<1>3. CASE Ends(e, "cancelled", Unsettled) /\ exec[e].hit
  <2>1. Own(e) /\ exec'[e].at = "cancelled"
    BY <1>1, <1>2, <1>3, OwnEnd DEF Ended
  <2> QED
    BY <1>2, <1>3, <2>1 DEF OwnStep, Keeps, KeepsHits, KeepsTold, KeepsReason, KeepsClean,
                            Running, InPhase, Attended
<1>4. CASE Becomes(e, [exec[e] EXCEPT !.at = "preparing"])
  <2> DEFINE r == [exec[e] EXCEPT !.at = "preparing"]
  <2>1. /\ r \in Execution /\ r.at = "preparing" /\ r.hit = exec[e].hit
        /\ r.raised = exec[e].raised /\ r.told = exec[e].told
        /\ r.completion = exec[e].completion
    BY <1>1 DEF Execution, Running
  <2>2. Own(e) /\ exec'[e] = r
    <3> HIDE DEF r
    <3> QED
      BY <1>1, <1>2, <1>4, <2>1, Update DEF r, Running
  <2> HIDE DEF r
  <2> QED
    BY <1>1, <1>2, <2>1, <2>2 DEF OwnStep, Keeps, KeepsHits, KeepsTold, KeepsReason, KeepsClean,
                            Running, InPhase, Attended
<1>5. CASE Ends(e, "answered", classify({"startup_error"}))
  <2>1. {"startup_error"} \in SUBSET Signals
    BY SignalNames
  <2>2. classify({"startup_error"}) \in Outcomes /\ classify({"startup_error"}) # "CANCELLED"
    BY <2>1, ClassifyNamesAnOutcome, ClassifyCancelled
  <2>3. /\ Own(e) /\ exec'[e].at = "answered" /\ exec'[e].answer # "CANCELLED"
    BY <1>1, <1>2, <1>5, <2>2, OwnEnd DEF Ended
  <2> QED
    BY <1>1, <1>2, <2>3 DEF OwnStep, Keeps, KeepsHits, KeepsTold, KeepsReason, KeepsClean,
                            Running, InPhase, Attended
<1>6. CASE Ends(e, "failed", Unsettled)
  <2>1. Own(e) /\ exec'[e].at = "failed"
    BY <1>1, <1>2, <1>6, OwnEnd DEF Ended
  <2> QED
    BY <1>2, <2>1 DEF OwnStep, Keeps, KeepsHits, KeepsTold, KeepsReason, KeepsClean,
                      Running, InPhase, Attended
<1> QED
  BY <1>3, <1>4, <1>5, <1>6 DEF Check

LEMMA OwnPrepare == ASSUME TypeOK, NEW e \in Calls, Prepare(e) PROVE OwnStep(e)
<1> USE ExecutionFields, TheBoxes
<1>1. /\ exec[e].at = "preparing" /\ ExecutionUnchanged
      /\ exec[e].at \in Running /\ exec[e].at \notin InPhase
  BY DEF Prepare, Running, InPhase, Attended
<1>2. CASE exec[e].hit
  <2>1. Ends(e, "cancelled", Unsettled) /\ RemovesSome(Boxes(e))
    BY <1>2 DEF Prepare
  <2>2. EngineTypeOK' /\ OnlyRemoves
    BY <2>1, PartialRemoval
  <2>3. Own(e) /\ exec'[e].at = "cancelled"
    BY <1>1, <2>1, <2>2, OwnEnd DEF Ended
  <2> QED
    BY <1>2, <2>2, <2>3 DEF OwnStep, Keeps, KeepsHits, KeepsTold, KeepsReason, KeepsClean, KeepsBoxes,
                            OnlyRemoves, Running, InPhase, Attended
<1>3. CASE ~exec[e].hit
  <2>1. /\ Becomes(e, Spawning(FirstPhase(e))) \/ Ends(e, "failed", Unsettled)
        /\ Removes(Boxes(e))
    BY <1>3 DEF Prepare
  <2>2. EngineTypeOK' /\ OnlyRemoves /\ RemovedOrMissed(Boxes(e))
    BY <2>1, Removal
  <2>3. CASE Becomes(e, Spawning(FirstPhase(e)))
    <3>1. PICK r : r = Spawning(FirstPhase(e))
      OBVIOUS
    <3>2. FirstPhase(e) \in Phases
      BY DEF FirstPhase, Phases
    <3>3. /\ r \in Execution /\ r.at = "spawning" /\ r.completion = {}
          /\ r.hit = FALSE /\ r.raised = FALSE /\ r.told = "no"
      BY <3>1, <3>2, SpawningRecord
    <3>4. Becomes(e, r)
      BY <2>3, <3>1
    <3>5. Own(e) /\ exec'[e] = r
      BY <1>1, <2>2, <3>3, <3>4, Update DEF Running, InPhase
    <3> QED
      BY <1>1, <2>2, <3>3, <3>5 DEF OwnStep, Keeps, KeepsHits, KeepsTold, KeepsReason, KeepsClean,
                                    KeepsBoxes, OnlyRemoves
  <2>4. CASE Ends(e, "failed", Unsettled)
    <3>1. Own(e) /\ exec'[e].at = "failed"
      BY <1>1, <2>2, <2>4, OwnEnd DEF Ended
    <3> QED
      BY <2>2, <3>1 DEF OwnStep, Keeps, KeepsHits, KeepsTold, KeepsReason, KeepsClean, KeepsBoxes,
                        OnlyRemoves, Running, InPhase, Attended
  <2> QED
    BY <2>1, <2>3, <2>4
<1> QED
  BY <1>2, <1>3

\* The task leaves its phases by an exception ...
LEMMA OwnRaised ==
    ASSUME TypeOK, NEW e \in Calls, exec[e].at \in InPhase, Raised(e),
           exec[e].hit \/ exec[e].raised, ExecutionUnchanged, EngineTypeOK'
    PROVE  Keeps(e)
<1> USE ExecutionFields
<1>1. exec[e].at \in Running
  OBVIOUS
<1>2. CASE Key(e) \in stopping
  <2>1. {"cancelled"} \in SUBSET Signals
    BY SignalNames
  <2>2. \E r : r = Collecting({"cancelled"})
    OBVIOUS
  <2>3. PICK r : r = Collecting({"cancelled"})
    BY <2>2
  <2>4. r \in Execution /\ r.at = "collecting" /\ r.told = "no"
        /\ r.hit = FALSE /\ r.raised = FALSE
    <3>1. ASSUME NEW c \in SUBSET Signals, r = Collecting(c)
          PROVE  /\ r \in Execution /\ r.at = "collecting" /\ r.told = "no"
                 /\ r.hit = FALSE /\ r.raised = FALSE
      BY <3>1, CollectingRecord
    <3> QED
      BY <2>1, <2>3, <3>1
  <2>5. Becomes(e, r)
    BY <1>2, <2>3 DEF Raised
  <2>6. Own(e) /\ exec'[e] = r
    BY <1>1, <2>4, <2>5, Update DEF Running
  <2> QED
    BY <1>2, <2>4, <2>6 DEF Keeps, KeepsHits, KeepsTold, KeepsReason, KeepsClean, InPhase, Attended
<1>3. CASE Key(e) \notin stopping
  <2>1. Own(e) /\ exec'[e] = Unwinding
    BY <1>1, <1>3, UnwindingRecord, Update DEF Running, Raised
  <2> QED
    BY <2>1, UnwindingRecord DEF Keeps, KeepsHits, KeepsTold, KeepsReason, KeepsClean, InPhase, Attended
<1> QED
  BY <1>2, <1>3

\* ... by another exception ...
LEMMA OwnFails ==
    ASSUME TypeOK, NEW e \in Calls, exec[e].at \in InPhase, Becomes(e, Failing),
           ExecutionUnchanged, EngineTypeOK'
    PROVE  Keeps(e)
<1> USE ExecutionFields
<1>1. exec[e].at \in Running
  OBVIOUS
<1>2. PICK r : r = Failing
  OBVIOUS
<1>3. /\ r \in Execution /\ r.at = "teardown" /\ r.completion = {}
      /\ r.hit = FALSE /\ r.raised = FALSE /\ r.told = "no"
  BY <1>2, FailingRecord
<1>4. Own(e) /\ exec'[e] = r
  BY <1>1, <1>2, <1>3, Update DEF Running
<1> QED
  BY <1>3, <1>4 DEF Keeps, KeepsHits, KeepsTold, KeepsReason, KeepsClean, InPhase, Attended

\* ... or with a completion.
LEMMA OwnCompletes ==
    ASSUME TypeOK, NEW e \in Calls, exec[e].at \in InPhase,
           NEW exit, NEW seen \in SUBSET Signals, Completes(e, exit, seen),
           "cancelled" \in seen => exec[e].told # "no", ExecutionUnchanged, EngineTypeOK'
    PROVE  Keeps(e)
<1> USE ExecutionFields
<1>1. exec[e].at \in Running
  OBVIOUS
<1>2. CASE Becomes(e, Spawning("agent"))
  <2>1. PICK r : r = Spawning("agent")
    OBVIOUS
  <2>2. /\ r \in Execution /\ r.at = "spawning" /\ r.completion = {}
        /\ r.hit = FALSE /\ r.raised = FALSE /\ r.told = "no"
    BY <2>1, SpawningRecord DEF Phases
  <2>3. Becomes(e, r)
    BY <1>2, <2>1
  <2>4. Own(e) /\ exec'[e] = r
    BY <1>1, <2>2, <2>3, Update DEF Running, InPhase
  <2> QED
    BY <2>2, <2>4 DEF Keeps, KeepsHits, KeepsTold, KeepsReason, KeepsClean
<1>3. ASSUME NEW completion \in SUBSET Signals, completion \subseteq seen \cup {"setup_error"},
             Becomes(e, Collecting(completion))
      PROVE  Keeps(e)
  <2>1. PICK r : r = Collecting(completion)
    OBVIOUS
  <2>2. /\ r \in Execution /\ r.at = "collecting" /\ r.completion = completion
        /\ r.hit = FALSE /\ r.raised = FALSE /\ r.told = "no"
    BY <2>1, CollectingRecord, ZenonT(40)
  <2>3. Becomes(e, r)
    BY <1>3, <2>1
  <2>4. Own(e) /\ exec'[e] = r
    BY <1>1, <2>2, <2>3, Update DEF Running
  <2>5. "cancelled" \in completion => exec[e].told # "no"
    BY <1>3
  <2> QED
    BY <2>2, <2>4, <2>5 DEF Keeps, KeepsHits, KeepsTold, KeepsReason, KeepsClean, InPhase, Attended
<1>4. seen \cup {"setup_error"} \in SUBSET Signals
  BY SignalNames
<1> QED
  BY <1>2, <1>3, <1>4 DEF Completes

\* An amended record of a task that stays in its phase.
Amends(e, r) ==
    /\ r \in Execution /\ r.at \in InPhase
    /\ r.hit \/ r.raised => exec[e].hit \/ exec[e].raised
    /\ r.told # "no" => exec[e].told # "no" \/ Key(e) \in signal
    /\ r.completion \subseteq exec[e].completion

LEMMA OwnAmends ==
    ASSUME TypeOK, NEW e \in Calls, NEW r, Amends(e, r), Becomes(e, r),
           exec[e].at \in InPhase, ExecutionUnchanged, EngineTypeOK'
    PROVE  Keeps(e)
<1>1. /\ r.at \in Running /\ exec[e].at \in Running
      /\ r.at \notin Ended \cup {"checking", "preparing"}
  BY ExecutionFields DEF Amends, Ended, Running, InPhase, Attended
<1>2. Own(e) /\ exec'[e] = r
  BY <1>1, Update DEF Amends
<1>3. r.at # "cancelled" /\ r.at # "answered"
  BY <1>1 DEF Ended
<1> QED
  BY <1>1, <1>2, <1>3 DEF Keeps, KeepsHits, KeepsTold, KeepsReason, KeepsClean, Amends

LEMMA OwnRemoves == ASSUME OnlyRemoves, NEW e \in Calls PROVE KeepsBoxes(e)
BY DEF KeepsBoxes, OnlyRemoves

LEMMA OwnDrive ==
    ASSUME TypeOK, NEW e \in Calls,
           Drive(e) \/ TimesOut(e) \/ Interrupted(e) \/ Hears(e) \/ Overspends(e)
           \/ AgentExits(e) \/ HaltReaps(e) \/ DriveFails(e)
    PROVE  OwnStep(e)
<1> USE ExecutionFields, TheBoxes
<1>1. /\ exec[e] \in Execution /\ exec[e].at \in Attended
      /\ ExecutionUnchanged /\ EngineTypeOK' /\ OnlyRemoves
  BY NoRemoval DEF Drive, DriveFails, TimesOut, Interrupted, Hears, Overspends, AgentExits,
                   HaltReaps, Attended
<1>2. exec[e].at \in InPhase
  BY <1>1 DEF InPhase
<1>3. ASSUME NEW r, Amends(e, r), Becomes(e, r)
      PROVE  OwnStep(e)
  BY <1>1, <1>2, <1>3, OwnAmends, OwnRemoves DEF OwnStep
<1>4. CASE Drive(e)
  <2> DEFINE r == [exec[e] EXCEPT !.at = "joining"]
  <2>1. Amends(e, r)
    BY <1>1, <1>4 DEF Drive, Amends, Execution, Attended, Running, InPhase
  <2>2. Becomes(e, r)
    BY <1>4 DEF Drive
  <2> QED
    BY <1>3, <2>1, <2>2
<1>5. CASE TimesOut(e)
  <2> DEFINE r == [exec[e] EXCEPT !.at = "removing", !.timedOut = TRUE]
  <2>1. Amends(e, r)
    BY <1>1, <1>5 DEF TimesOut, Amends, Execution, Attended, Running, InPhase
  <2>2. Becomes(e, r)
    BY <1>5 DEF TimesOut
  <2> QED
    BY <1>3, <2>1, <2>2
<1>6. CASE Interrupted(e)
  <2> DEFINE r == [exec[e] EXCEPT !.at = "removing", !.hit = FALSE, !.raised = TRUE]
  <2>1. Amends(e, r)
    BY <1>1, <1>6, ZenonT(40) DEF Interrupted, Amends, Execution, Attended, Running, InPhase
  <2>2. Becomes(e, r)
    BY <1>6 DEF Interrupted
  <2> QED
    BY <1>3, <2>1, <2>2
<1>7. CASE Hears(e)
  <2> DEFINE r == [exec[e] EXCEPT !.told = "heard"]
  <2>1. Amends(e, r)
    BY <1>1, <1>7 DEF Hears, Amends, Execution, Attended, Running, InPhase
  <2>2. Becomes(e, r)
    BY <1>7 DEF Hears
  <2> QED
    BY <1>3, <2>1, <2>2
<1>8. CASE Overspends(e)
  <2> DEFINE r == [exec[e] EXCEPT !.overspent = TRUE, !.halting = TRUE]
  <2>1. Amends(e, r)
    BY <1>1, <1>8 DEF Overspends, Amends, Execution, Attended, Running, InPhase
  <2>2. Becomes(e, r)
    BY <1>8 DEF Overspends
  <2> QED
    BY <1>3, <2>1, <2>2
<1>9. CASE AgentExits(e)
  <2>1. PICK exit \in {"zero", "nonzero"} : Becomes(e, [exec[e] EXCEPT !.proc = exit])
    BY <1>9 DEF AgentExits
  <2> DEFINE r == [exec[e] EXCEPT !.proc = exit]
  <2>2. Amends(e, r)
    BY <1>1, <1>2 DEF Amends, Execution
  <2> QED
    BY <1>3, <2>1, <2>2
<1>10. CASE HaltReaps(e)
  <2>1. PICK proc \in {"none", "up", "zero", "nonzero", "refused"} : proc = Killed(exec[e].proc)
    BY <1>1 DEF Killed, Execution
  <2> DEFINE r == [exec[e] EXCEPT !.at = "joining", !.hit = FALSE, !.proc = proc]
  <2>2. Amends(e, r)
    <3>1. r \in Execution
      BY <1>1, ZenonT(40) DEF Execution, Attended, Running, InPhase
    <3>2. /\ r.at = "joining" /\ r.hit = FALSE /\ r.raised = exec[e].raised
          /\ r.told = exec[e].told /\ r.completion = exec[e].completion
      BY <1>1 DEF Execution
    <3> QED
      BY <1>1, <1>2, <3>1, <3>2 DEF Amends, InPhase
  <2>3. Becomes(e, r)
    BY <1>10, <2>1 DEF HaltReaps
  <2> QED
    BY <1>3, <2>2, <2>3
<1>11. CASE DriveFails(e)
  <2>1. PICK r : r = Erring(exec[e].phase, exec[e].halting)
    OBVIOUS
  <2>2. exec[e].phase \in Phases /\ exec[e].halting \in BOOLEAN
    BY <1>1 DEF Execution
  <2>3. /\ r \in Execution /\ r.at = "joining" /\ r.completion = {}
        /\ r.hit = FALSE /\ r.raised = FALSE /\ r.told = "no"
    BY <2>1, <2>2, ErringRecord
  <2>4. Amends(e, r)
    BY <2>3 DEF Amends, InPhase
  <2>5. Becomes(e, r)
    BY <1>11, <2>1 DEF DriveFails
  <2> QED
    BY <1>3, <2>4, <2>5
<1> QED
  BY <1>4, <1>5, <1>6, <1>7, <1>8, <1>9, <1>10, <1>11

LEMMA OwnHalts ==
    ASSUME TypeOK, NEW e \in Calls, HaltRemoves(e) \/ AttendantHalts(e) \/ BudgetHalts(e)
    PROVE  OwnStep(e)
<1> USE ExecutionFields, TheBoxes
<1>1. /\ exec[e] \in Execution /\ exec[e].at \in Attended \cup {"joining"} /\ ExecutionUnchanged
  BY DEF HaltRemoves, AttendantHalts, BudgetHalts, Attended
<1>2. exec[e].at \in InPhase
  BY <1>1 DEF InPhase
<1>3. EngineTypeOK' /\ OnlyRemoves
  <2>1. Removes({Box(e)}) \/ RemovesSome({Box(e)})
    BY DEF HaltRemoves, AttendantHalts, BudgetHalts
  <2> QED
    BY <2>1, Removal, PartialRemoval
<1>4. ASSUME NEW r, Amends(e, r), Becomes(e, r)
      PROVE  OwnStep(e)
  BY <1>1, <1>2, <1>3, <1>4, OwnAmends, OwnRemoves DEF OwnStep
<1>5. CASE HaltRemoves(e) /\ exec[e].hit
  <2> DEFINE r == [exec[e] EXCEPT !.at = "joining", !.hit = FALSE, !.raised = TRUE]
  <2>1. Amends(e, r)
    BY <1>1, <1>5, ZenonT(40) DEF HaltRemoves, Amends, Execution, Attended, Running, InPhase
  <2>2. Becomes(e, r)
    BY <1>5 DEF HaltRemoves
  <2> QED
    BY <1>4, <2>1, <2>2
<1>6. CASE HaltRemoves(e) /\ ~exec[e].hit
  <2> DEFINE r == [exec[e] EXCEPT !.at = "reaping"]
  <2>1. Amends(e, r)
    BY <1>1, <1>6 DEF HaltRemoves, Amends, Execution, Attended, Running, InPhase
  <2>2. Becomes(e, r)
    BY <1>6 DEF HaltRemoves
  <2> QED
    BY <1>4, <2>1, <2>2
<1>7. CASE AttendantHalts(e)
  <2>1. PICK proc \in {"none", "up", "zero", "nonzero", "refused"} : proc = Killed(exec[e].proc)
    BY <1>1 DEF Killed, Execution
  <2> DEFINE r == [exec[e] EXCEPT !.told = "halted", !.proc = proc]
  <2>2. Amends(e, r)
    BY <1>1, <1>7 DEF AttendantHalts, Amends, Execution, Attended, Running, InPhase
  <2>3. Becomes(e, r)
    BY <1>7, <2>1 DEF AttendantHalts
  <2> QED
    BY <1>4, <2>2, <2>3
<1>8. CASE BudgetHalts(e)
  <2>1. PICK proc \in {"none", "up", "zero", "nonzero", "refused"} : proc = Killed(exec[e].proc)
    BY <1>1 DEF Killed, Execution
  <2> DEFINE r == [exec[e] EXCEPT !.halting = FALSE, !.proc = proc]
  <2>2. Amends(e, r)
    <3>1. r \in Execution
      BY <1>1, ZenonT(40) DEF Execution
    <3>2. /\ r.at = exec[e].at /\ r.hit = exec[e].hit /\ r.raised = exec[e].raised
          /\ r.told = exec[e].told /\ r.completion = exec[e].completion
      BY <1>1 DEF Execution
    <3> QED
      BY <1>1, <1>2, <3>1, <3>2 DEF Amends, InPhase
  <2>3. Becomes(e, r)
    BY <1>8, <2>1 DEF BudgetHalts
  <2> QED
    BY <1>4, <2>2, <2>3
<1> QED
  BY <1>5, <1>6, <1>7, <1>8

\* A container is created under a free name.
LEMMA Spawned ==
    ASSUME TypeOK, NEW e \in Calls, exec[e].at = "spawning", NEW box \in {0, e}, Spawns(e, box),
           UNCHANGED <<missed, faults>>
    PROVE  KeepsBoxes(e) /\ EngineTypeOK'
<1>1. EngineTypeOK /\ Box(e) \in Keys \X Phases /\ box \in Calls \cup {0}
  BY TheBoxes
<1>2. boxes' = [boxes EXCEPT ![Box(e)] = IF boxes[Box(e)] = 0 THEN box ELSE boxes[Box(e)]]
  BY DEF Spawns
<1>3. \A b \in Keys \X Phases :
        boxes'[b] = IF b = Box(e) /\ boxes[b] = 0 THEN box ELSE boxes[b]
  BY <1>1, <1>2 DEF EngineTypeOK
<1>4. EngineTypeOK'
  BY <1>1, <1>2, <1>3 DEF EngineTypeOK
<1>5. KeepsBoxes(e)
  BY <1>1, <1>3 DEF KeepsBoxes
<1> QED
  BY <1>4, <1>5

LEMMA OwnSpawn == ASSUME TypeOK, NEW e \in Calls, Spawn(e) PROVE OwnStep(e)
<1> USE ExecutionFields, TheBoxes
<1>1. /\ exec[e] \in Execution /\ exec[e].at = "spawning" /\ exec[e].at \in InPhase
      /\ ExecutionUnchanged /\ UNCHANGED <<missed, faults>>
  BY DEF Spawn, InPhase
<1>2. CASE exec[e].hit
  <2>1. PICK box \in {0, e} : Raised(e) /\ Spawns(e, box)
    BY <1>2 DEF Spawn
  <2> QED
    BY <1>1, <1>2, <2>1, Spawned, OwnRaised DEF OwnStep
<1>3. ASSUME NEW r, Amends(e, r), Becomes(e, r), KeepsBoxes(e), EngineTypeOK'
      PROVE  OwnStep(e)
  BY <1>1, <1>3, OwnAmends DEF OwnStep
<1>4. CASE boxes[Box(e)] = 0 /\ Spawns(e, e)
           /\ Becomes(e, [exec[e] EXCEPT !.at = "driving", !.proc = "up"])
  <2> DEFINE r == [exec[e] EXCEPT !.at = "driving", !.proc = "up"]
  <2>1. Amends(e, r)
    BY <1>1 DEF Amends, Execution, Attended, Running, InPhase
  <2>2. KeepsBoxes(e) /\ EngineTypeOK'
    BY <1>1, <1>4, Spawned
  <2> QED
    BY <1>3, <1>4, <2>1, <2>2
<1>5. ASSUME UNCHANGED boxes
      PROVE  KeepsBoxes(e) /\ EngineTypeOK'
  BY <1>1, <1>5, Boxless DEF EngineUnchanged
<1>6. CASE /\ Becomes(e, [exec[e] EXCEPT !.at = "driving", !.proc = "refused"])
           /\ UNCHANGED boxes
  <2> DEFINE r == [exec[e] EXCEPT !.at = "driving", !.proc = "refused"]
  <2>1. Amends(e, r)
    BY <1>1, ZenonT(40) DEF Amends, Execution, Attended, Running, InPhase
  <2> QED
    BY <1>3, <1>5, <1>6, <2>1
<1>7. CASE Completes(e, "none", {"startup_error"}) /\ UNCHANGED boxes
  <2>1. PICK seen \in SUBSET Signals : seen = {"startup_error"}
    BY SignalNames
  <2>2. Keeps(e)
    BY <1>1, <1>5, <1>7, <2>1, OwnCompletes
  <2> QED
    BY <1>5, <1>7, <2>2 DEF OwnStep
<1>8. CASE Becomes(e, Failing) /\ UNCHANGED boxes
  BY <1>1, <1>5, <1>8, OwnFails DEF OwnStep
<1> QED
  BY <1>2, <1>4, <1>6, <1>7, <1>8 DEF Spawn

LEMMA OwnJoin == ASSUME TypeOK, NEW e \in Calls, Join(e) PROVE OwnStep(e)
<1> USE ExecutionFields, TheBoxes
<1>1. /\ exec[e] \in Execution /\ exec[e].at = "joining" /\ exec[e].at \in InPhase
      /\ ExecutionUnchanged /\ EngineUnchanged
  BY DEF Join, InPhase
<1>2. KeepsBoxes(e) /\ EngineTypeOK'
  BY <1>1, Boxless
<1>3. CASE ~exec[e].erred /\ exec[e].raised
  BY <1>1, <1>2, <1>3, OwnRaised DEF Join, OwnStep
<1>4. CASE ~exec[e].erred /\ ~exec[e].raised
  <2> DEFINE r == [exec[e] EXCEPT !.at = "observing", !.hit = FALSE, !.halting = FALSE]
  <2>1. r \in Execution
    BY <1>1 DEF Execution, Running, InPhase
  <2>2. /\ r.at = "observing" /\ r.hit = FALSE /\ r.raised = exec[e].raised
        /\ r.told = exec[e].told /\ r.completion = exec[e].completion
    BY <1>1 DEF Execution
  <2>3. Amends(e, r)
    BY <2>1, <2>2 DEF Amends, InPhase
  <2>4. Becomes(e, r)
    BY <1>4 DEF Join
  <2> QED
    BY <1>1, <1>2, <2>3, <2>4, OwnAmends DEF OwnStep
<1>5. CASE exec[e].erred
  BY <1>1, <1>2, <1>5, OwnFails DEF Join, OwnStep
<1> QED
  BY <1>3, <1>4, <1>5

LEMMA OwnObserve == ASSUME TypeOK, NEW e \in Calls, Observe(e) PROVE OwnStep(e)
<1> USE ExecutionFields, TheBoxes
<1>1. /\ exec[e] \in Execution /\ exec[e].at = "observing" /\ exec[e].at \in InPhase
      /\ ExecutionUnchanged /\ EngineUnchanged
  BY DEF Observe, InPhase
<1>2. KeepsBoxes(e) /\ EngineTypeOK'
  BY <1>1, Boxless
<1>3. CASE exec[e].hit
  BY <1>1, <1>2, <1>3, OwnRaised DEF Observe, OwnStep
<1>4. CASE ~exec[e].hit
  <2> DEFINE Saw(exit) == Seen(e) \cup (IF exit = "refused" THEN {"startup_error"} ELSE {})
                                 \cup (IF exit = "zero" THEN {} ELSE {"exit_code"})
  <2>1. PICK exit \in Reported(e) : Completes(e, exit, Saw(exit))
    BY <1>4 DEF Observe
  <2>2. PICK seen : seen = Saw(exit)
    OBVIOUS
  <2>3. seen \in SUBSET Signals /\ ("cancelled" \in seen => exec[e].told # "no")
    BY <2>2, SignalNames DEF Seen
  <2>4. Completes(e, exit, seen)
    BY <2>1, <2>2
  <2> QED
    BY <1>1, <1>2, <2>3, <2>4, OwnCompletes DEF OwnStep
<1> QED
  BY <1>3, <1>4

LEMMA OwnCollect == ASSUME TypeOK, NEW e \in Calls, Collect(e) PROVE OwnStep(e)
<1> USE ExecutionFields, TheBoxes
<1>1. /\ exec[e] \in Execution /\ exec[e].at = "collecting"
      /\ exec[e].at \in Running /\ exec[e].at \notin InPhase
      /\ ExecutionUnchanged /\ EngineUnchanged
  BY DEF Collect, Running, InPhase, Attended
<1>2. KeepsBoxes(e) /\ EngineTypeOK'
  BY <1>1, Boxless
<1>3. CASE exec[e].hit
  <2>1. Own(e) /\ exec'[e] = Unwinding
    BY <1>1, <1>2, <1>3, UnwindingRecord, Update DEF Collect, Running
  <2> QED
    BY <1>2, <1>3, <2>1, UnwindingRecord
       DEF OwnStep, Keeps, KeepsHits, KeepsTold, KeepsReason, KeepsClean, InPhase, Attended
<1>4. CASE ~exec[e].hit
  <2>1. PICK found \in {{}, {"startup_error"}} :
          Becomes(e, [exec[e] EXCEPT !.at = "teardown", !.completion = @ \cup found])
    BY <1>4 DEF Collect
  <2>2. PICK completion \in SUBSET Signals : completion = exec[e].completion \cup found
    BY <1>1, SignalNames DEF Execution
  <2> DEFINE r == [exec[e] EXCEPT !.at = "teardown", !.completion = completion]
  <2>3. r \in Execution
    BY <1>1 DEF Execution, Running
  <2>4. /\ r.at = "teardown" /\ r.hit = exec[e].hit /\ r.raised = exec[e].raised
        /\ r.told = exec[e].told /\ r.completion = completion
    BY <1>1 DEF Execution
  <2>5. Becomes(e, r)
    BY <2>1, <2>2
  <2>6. "cancelled" \in completion => "cancelled" \in exec[e].completion
    BY <2>2
  <2> HIDE DEF r
  <2>7. Own(e) /\ exec'[e] = r
    BY <1>1, <1>2, <2>3, <2>4, <2>5, Update DEF Running
  <2> QED
    BY <1>2, <2>4, <2>6, <2>7
       DEF OwnStep, Keeps, KeepsHits, KeepsTold, KeepsReason, KeepsClean, InPhase, Attended
<1> QED
  BY <1>3, <1>4

LEMMA OwnTeardown == ASSUME TypeOK, NEW e \in Calls, Teardown(e) PROVE OwnStep(e)
<1> USE ExecutionFields, TheBoxes
<1>1. /\ exec[e] \in Execution /\ exec[e].at = "teardown" /\ exec[e].at \in Running
      /\ ExecutionUnchanged /\ Allocated(e) = Boxes(e)
  BY DEF Teardown, Running, Allocated
<1>2. ASSUME Ends(e, "cancelled", Unsettled), exec[e].hit \/ exec[e].raised,
             EngineTypeOK', OnlyRemoves
      PROVE  OwnStep(e)
  <2>1. Own(e) /\ exec'[e].at = "cancelled"
    BY <1>1, <1>2, OwnEnd DEF Ended
  <2> QED
    BY <1>2, <2>1, OwnRemoves DEF OwnStep, Keeps, KeepsHits, KeepsTold, KeepsReason, KeepsClean,
                      Running, InPhase, Attended
<1>3. CASE exec[e].hit
  BY <1>1, <1>2, <1>3, PartialRemoval DEF Teardown
<1>4. CASE ~exec[e].hit
  <2>1. EngineTypeOK' /\ OnlyRemoves /\ RemovedOrMissed(Boxes(e))
    BY <1>1, <1>4, Removal DEF Teardown
  <2>2. CASE exec[e].raised
    BY <1>2, <1>4, <2>1, <2>2 DEF Teardown
  <2>3. CASE ~exec[e].raised /\ ~exec[e].erred
    <3>1. exec[e].completion \in SUBSET Signals
      BY <1>1 DEF Execution
    <3>2. /\ classify(exec[e].completion) \in Outcomes
          /\ classify(exec[e].completion) = "CANCELLED" => "cancelled" \in exec[e].completion
      BY <3>1, ClassifyNamesAnOutcome, ClassifyCancelled
    <3>3. Ends(e, "answered", classify(exec[e].completion))
      BY <1>4, <2>3 DEF Teardown
    <3>4. /\ Own(e) /\ exec'[e].at = "answered"
          /\ exec'[e].answer = classify(exec[e].completion)
      BY <1>1, <2>1, <3>2, <3>3, OwnEnd DEF Ended
    <3> QED
      BY <2>1, <3>2, <3>4, OwnRemoves
         DEF OwnStep, Keeps, KeepsHits, KeepsTold, KeepsReason, KeepsClean,
             Running, InPhase, Attended
  <2>4. CASE ~exec[e].raised /\ exec[e].erred
    <3>1. Ends(e, "failed", Unsettled)
      BY <1>4, <2>4 DEF Teardown
    <3>2. Own(e) /\ exec'[e].at = "failed"
      BY <1>1, <2>1, <3>1, OwnEnd DEF Ended
    <3> QED
      BY <2>1, <3>2, OwnRemoves
         DEF OwnStep, Keeps, KeepsHits, KeepsTold, KeepsReason, KeepsClean,
             Running, InPhase, Attended
  <2> QED
    BY <2>2, <2>3, <2>4
<1> QED
  BY <1>3, <1>4

\* Whatever moves an execution.
Moves(e) == Execute(e) \/ Attend(e) \/ TimesOut(e) \/ Overspends(e) \/ BudgetHalts(e)
            \/ AgentExits(e) \/ DriveFails(e)

LEMMA OwnMoves == ASSUME TypeOK, NEW e \in Calls, Moves(e) PROVE OwnStep(e)
BY OwnCheck, OwnPrepare, OwnSpawn, OwnDrive, OwnHalts, OwnJoin, OwnObserve, OwnCollect,
   OwnTeardown DEF Moves, Execute, Attend

-----------------------------------------------------------------------------
(* The invariant *)

\* A caller waits for a task, and only the one that created it unwinds with it.
Joined == \A c \in Calls :
    /\ calls[c].at \in {"waiting", "unwinding"} => calls[c].task \in Calls
    /\ calls[c].at = "unwinding" => Mine(c)

\* A key is in flight as the task of a waiting owner, which is its only one ...
Held ==
    /\ \A k \in Keys : inflight[k] # 0 => Mine(inflight[k])
    /\ \A c \in Calls :
        Mine(c) /\ calls[c].at \in {"waiting", "unwinding"} => inflight[Key(c)] = c

\* ... and a live execution has such an owner.
Owned == \A e \in Calls : Live(e) => Mine(e) /\ calls[e].at \in {"waiting", "unwinding"}

\* A task is created by the call whose number it has, and is blank before.
Created == \A c \in Calls :
    /\ exec[c].at # "none" => Mine(c)
    /\ exec[c].at = "none" => exec[c] = Idle

\* Only an execution that was promised its end is being stopped.
StoppedInFlight == \A k \in stopping : inflight[k] \in promised

\* A container has the name of the execution that made it, which had begun.
Named == \A b \in Keys \X Phases : boxes[b] # 0 =>
    /\ b[1] = Key(boxes[b])
    /\ exec[boxes[b]].at \notin {"none", "checking", "preparing"}

\* From its first phase on an execution meets only containers of its own.
Cleared == \A e \in Calls : exec[e].at \in InPhase =>
    \A b \in Boxes(e) : boxes[b] \in {0, e} \/ b \in missed

\* What reaches a task came from its owner or from cancel().
HitByOwner == \A e \in Calls : Live(e) /\ (exec[e].hit \/ exec[e].raised) =>
    calls[e].at = "unwinding" \/ e \in promised

\* What the attendant heard was said, and a cancelled completion has a reason.
ToldByOperator == \A e \in Calls : Live(e) /\ exec[e].told # "no" => Key(e) \in signal

Reasoned == \A e \in Calls : Live(e) /\ "cancelled" \in exec[e].completion =>
    e \in promised \/ Key(e) \in signal

\* What relates the callers to the tasks, and what the tasks do.
Callers == Joined /\ Held /\ Owned /\ Created /\ StoppedInFlight

Tasks == /\ Named /\ Cleared /\ HitByOwner /\ ToldByOperator /\ Reasoned
         /\ AnsweredLeavesNothing /\ OnlyTheOwnerOrAStopEndsARun /\ CancelledMeansStopped

IInv == TypeOK /\ Callers /\ Tasks

LEMMA InitIInv == Init => IInv
<1> SUFFICES ASSUME Init PROVE IInv
  OBVIOUS
<1>1. Idle \in Execution /\ Idle.at = "none" /\ Idle \in [at : {"none"}, answer : {Unsettled}, phase : Phases,
        proc : {"none"}, hit : {FALSE}, raised : {FALSE}, erred : {FALSE}, told : {"no"}, overspent : {FALSE},
        halting : {FALSE}, timedOut : {FALSE}, completion : {{}}]
  BY ExecutionFields DEF Idle, Phases
<1>2. Nobody.key \in Keys /\ Nobody.task = 0 /\ Nobody.at = "idle"
      /\ Nobody = [key |-> Nobody.key, task |-> 0, at |-> "idle"]
  BY RunnerAssumption DEF RunnerAssumption, Nobody
<1>3. \A c \in Calls : c \in Nat \ {0} /\ exec[c] = Idle /\ calls[c] = Nobody
  BY RunnerAssumption DEF Init, Calls, RunnerAssumption
<1>4. TypeOK
  BY <1>1, <1>2, RunnerAssumption DEF Init, TypeOK, RunnerAssumption
<1>5. Callers
  BY <1>1, <1>2, <1>3 DEF Init, Callers, Joined, Held, Owned, Created, StoppedInFlight, Mine,
                          Live, Running, InPhase, Attended
<1>6. Tasks
  BY <1>1, <1>2, <1>3 DEF Init, Tasks, Named, Cleared, HitByOwner, ToldByOperator, Reasoned,
     AnsweredLeavesNothing, OnlyTheOwnerOrAStopEndsARun, CancelledMeansStopped, Live,
     Running, InPhase, Attended
<1> QED
  BY <1>4, <1>5, <1>6 DEF IInv

-----------------------------------------------------------------------------
(* A step of an execution keeps the invariant *)

LEMMA MovesTypeOK == ASSUME TypeOK, NEW e \in Calls, OwnStep(e) PROVE TypeOK'
BY DEF TypeOK, OwnStep, Keeps, Own, EngineTypeOK, ExecutionUnchanged

LEMMA MovesCallers == ASSUME IInv, NEW e \in Calls, OwnStep(e) PROVE Callers'
<1>1. /\ ExecutionUnchanged /\ exec[e].at \in Running /\ exec'[e].at \in Running \cup Ended
      /\ \A d \in Calls \ {e} : exec'[d] = exec[d]
  BY DEF OwnStep, Keeps, Own
<1>2. exec'[e].at # "none" /\ exec[e].at # "none"
  BY <1>1 DEF Running, Ended, InPhase, Attended
<1>3. calls' = calls /\ inflight' = inflight /\ stopping' = stopping /\ promised' = promised
  BY <1>1 DEF ExecutionUnchanged
<1>4. Joined' /\ Held' /\ StoppedInFlight'
  BY <1>3 DEF IInv, Callers, Joined, Held, StoppedInFlight, Mine, Key
<1>5. Owned'
  BY <1>1, <1>3 DEF IInv, Callers, Owned, Mine, Live
<1>6. Created'
  BY <1>1, <1>2, <1>3 DEF IInv, Callers, Created, Mine
<1> QED
  BY <1>4, <1>5, <1>6 DEF Callers

\* However many callers there are, an attempt runs as one execution at a time.
LEMMA OneOwner ==
    ASSUME TypeOK, Callers
    PROVE  OneExecutionAtATime
BY DEF OneExecutionAtATime, Callers, Owned, Held, Mine, Key

LEMMA MovesTasks == ASSUME IInv, NEW e \in Calls, OwnStep(e) PROVE Tasks'
<1>1. /\ ExecutionUnchanged /\ exec[e].at \in Running /\ exec'[e].at \in Running \cup Ended
      /\ \A d \in Calls \ {e} : exec'[d] = exec[d]
      /\ KeepsHits(e) /\ KeepsTold(e) /\ KeepsReason(e) /\ KeepsBoxes(e) /\ KeepsClean(e)
  BY DEF OwnStep, Keeps, Own
<1>2. calls' = calls /\ inflight' = inflight /\ stopping' = stopping /\ promised' = promised
      /\ signal' = signal
  BY <1>1 DEF ExecutionUnchanged
<1>3. \A d \in Calls : Key(d)' = Key(d) /\ Boxes(d)' = Boxes(d)
  BY <1>2 DEF Key, Boxes
<1>4. Box(e) \in Boxes(e) /\ Boxes(e) \in SUBSET (Keys \X Phases) /\ Key(e) \in Keys
  BY TheBoxes DEF IInv
<1>5. 0 \notin Calls
  BY DEF Calls
<1>6. \A b \in Keys \X Phases : boxes[b] \in Calls \cup {0}
  BY DEF IInv, TypeOK
<1>7. exec[e].at \notin {"none", "dead"} \cup Ended
  BY <1>1 DEF Running, InPhase, Attended, Ended
<1>8. Named'
  <2> SUFFICES ASSUME NEW b \in Keys \X Phases, boxes'[b] # 0
               PROVE  /\ b[1] = Key(boxes'[b])
                      /\ exec'[boxes'[b]].at \notin {"none", "checking", "preparing"}
    BY <1>3, <1>6, <1>1 DEF Named, Key, ExecutionUnchanged
  <2>1. CASE boxes'[b] = boxes[b]
    BY <1>1, <1>6, <1>7, <2>1 DEF IInv, Tasks, Named, KeepsClean, Running, Ended, InPhase, Attended
  <2>2. CASE boxes'[b] = e /\ b = Box(e) /\ exec[e].at = "spawning"
    BY <1>1, <2>2 DEF Box, KeepsClean, Running, Ended, InPhase, Attended
  <2> QED
    BY <1>1, <2>1, <2>2 DEF KeepsBoxes
<1>9. Cleared'
  <2> SUFFICES ASSUME NEW d \in Calls, exec'[d].at \in InPhase, NEW b \in Boxes(d)
               PROVE  boxes'[b] \in {0, d} \/ b \in missed'
    BY <1>3 DEF Cleared
  <2>1. b \in Keys \X Phases /\ b[1] = Key(d)
    BY DEF Boxes, IInv, TypeOK, Key
  <2>2. CASE d # e
    <3>1. exec[d].at \in InPhase /\ Live(d) /\ Live(e)
      BY <1>1, <2>2 DEF Live, Running
    <3>2. Key(d) # Key(e)
      BY <2>2, <3>1, OneOwner DEF IInv, OneExecutionAtATime
    <3>3. b # Box(e)
      BY <2>1, <3>2 DEF Box
    <3> QED
      BY <1>1, <2>1, <3>1, <3>3 DEF KeepsBoxes, IInv, Tasks, Cleared
  <2>3. CASE d = e /\ exec[e].at \notin InPhase
    BY <1>1, <2>3 DEF KeepsClean, RemovedOrMissed
  <2>4. CASE d = e /\ exec[e].at \in InPhase
    <3>1. boxes[b] \in {0, e} \/ b \in missed
      BY <2>4 DEF IInv, Tasks, Cleared
    <3> QED
      BY <1>1, <2>1, <2>4, <3>1 DEF KeepsBoxes
  <2> QED
    BY <2>2, <2>3, <2>4
<1>10. HitByOwner' /\ OnlyTheOwnerOrAStopEndsARun'
  <2>1. Live(e) /\ ((exec[e].hit \/ exec[e].raised) => calls[e].at = "unwinding" \/ e \in promised)
    BY <1>1 DEF IInv, Tasks, HitByOwner, Live
  <2>2. \A d \in Calls : Live(d)' /\ (exec'[d].hit \/ exec'[d].raised)
                            => calls[d].at = "unwinding" \/ d \in promised
    <3>1. ASSUME NEW d \in Calls \ {e}, Live(d)', exec'[d].hit \/ exec'[d].raised
          PROVE  calls[d].at = "unwinding" \/ d \in promised
      BY <1>1, <3>1 DEF IInv, Tasks, HitByOwner, Live
    <3>2. Live(e)' /\ (exec'[e].hit \/ exec'[e].raised) => exec[e].hit \/ exec[e].raised
      BY <1>1 DEF KeepsHits, Live
    <3> QED
      BY <2>1, <3>1, <3>2
  <2>3. exec'[e].at = "cancelled" => calls[e].at = "unwinding" \/ e \in promised
    BY <1>1, <2>1 DEF KeepsHits
  <2>4. \A d \in Calls \ {e} : exec'[d].at = "cancelled" =>
            calls[d].at \in {"unwinding", "cancelled", "dead"} \/ d \in promised
    BY <1>1 DEF IInv, Tasks, OnlyTheOwnerOrAStopEndsARun
  <2> QED
    BY <1>2, <2>2, <2>3, <2>4 DEF HitByOwner, OnlyTheOwnerOrAStopEndsARun
<1>11. ToldByOperator'
  BY <1>1, <1>2, <1>3 DEF IInv, Tasks, ToldByOperator, KeepsTold, Live
<1>12. Reasoned' /\ CancelledMeansStopped'
  <2>1. Key(e) \in stopping => e \in promised
    BY <1>1, <1>4 DEF IInv, Callers, Owned, Held, StoppedInFlight, Live
  <2>2. "cancelled" \in exec[e].completion \/ exec[e].told # "no" \/ Key(e) \in stopping
        => e \in promised \/ Key(e) \in signal
    BY <1>1, <2>1 DEF IInv, Tasks, Reasoned, ToldByOperator, Live
  <2> QED
    BY <1>1, <1>2, <1>3, <2>2 DEF IInv, Tasks, Reasoned, CancelledMeansStopped, KeepsReason, Live
<1>13. AnsweredLeavesNothing'
  <2> SUFFICES ASSUME NEW b \in Keys \X Phases, boxes'[b] # 0, exec'[boxes'[b]].at = "answered"
               PROVE  b \in missed'
    BY DEF AnsweredLeavesNothing
  <2>1. boxes'[b] = boxes[b] \/ (boxes'[b] = e /\ b = Box(e) /\ exec[e].at = "spawning")
    <3>1. \/ boxes'[b] \in {0, boxes[b]}
          \/ boxes[b] = 0 /\ boxes'[b] = e /\ b = Box(e) /\ exec[e].at = "spawning"
      BY <1>1 DEF KeepsBoxes
    <3> QED
      BY <3>1
  <2>2. CASE boxes'[b] # e
    <3>1. exec[boxes[b]].at = "answered" /\ boxes[b] # 0
      BY <1>1, <1>6, <2>1, <2>2
    <3> QED
      BY <1>1, <3>1 DEF IInv, Tasks, AnsweredLeavesNothing, KeepsBoxes
  <2>3. CASE boxes'[b] = e
    <3>1. b \in Boxes(e) /\ exec[e].at # "checking"
      BY <1>4, <1>5, <2>1, <2>3 DEF IInv, Tasks, Named, Boxes
    <3> QED
      BY <1>1, <2>3, <3>1 DEF KeepsClean, RemovedOrMissed
  <2> QED
    BY <2>2, <2>3
<1> QED
  BY <1>8, <1>9, <1>10, <1>11, <1>12, <1>13 DEF Tasks

-----------------------------------------------------------------------------
(* A step of a caller keeps the invariant *)

\* The tasks stay where they are and keep their keys, a task may be hit by its
\* own caller or by cancel(), and a new one may be created.
Calling ==
    /\ DispatchUnchanged /\ promised \subseteq promised'
    /\ \A e \in Calls : exec[e].at # "none" =>
        /\ calls'[e].key = calls[e].key
        /\ exec'[e].at = exec[e].at /\ exec'[e].raised = exec[e].raised
        /\ exec'[e].told = exec[e].told /\ exec'[e].completion = exec[e].completion
        /\ exec'[e].answer = exec[e].answer
        /\ exec'[e].hit => exec[e].hit \/ calls'[e].at = "unwinding" \/ e \in promised'
        /\ calls[e].at = "unwinding" /\ Live(e) => calls'[e].at = "unwinding"
        /\ exec[e].at = "cancelled" /\ calls[e].at \in {"unwinding", "cancelled", "dead"}
            => calls'[e].at \in {"unwinding", "cancelled", "dead"}
    /\ \A e \in Calls : exec[e].at = "none" =>
        /\ exec'[e].at \in {"none", "checking"} /\ ~exec'[e].hit /\ ~exec'[e].raised
        /\ exec'[e].told = "no" /\ exec'[e].completion = {}

LEMMA CallingTasks == ASSUME IInv, Calling PROVE Tasks'
<1>1. boxes' = boxes /\ missed' = missed /\ signal' = signal
  BY DEF Calling, DispatchUnchanged
<1>2. \A e \in Calls : exec[e].at # "none" => Key(e)' = Key(e) /\ Boxes(e)' = Boxes(e)
  BY DEF Calling, Key, Boxes
<1>3. \A b \in Keys \X Phases : boxes[b] # 0 => boxes[b] \in Calls
  BY DEF IInv, TypeOK
<1>4. Named' /\ AnsweredLeavesNothing'
  BY <1>1, <1>2, <1>3 DEF IInv, Tasks, Named, AnsweredLeavesNothing, Calling
<1>5. \A e \in Calls : exec'[e].at \in InPhase => exec[e].at \in InPhase /\ exec[e].at # "none"
  BY DEF Calling, InPhase, Attended
<1>6. Cleared'
  BY <1>1, <1>2, <1>5 DEF IInv, Tasks, Cleared
<1>7. \A e \in Calls : \/ exec[e].at # "none" /\ (Live(e)' <=> Live(e))
                       \/ ~exec'[e].hit /\ ~exec'[e].raised /\ exec'[e].told = "no"
                          /\ exec'[e].completion = {}
  BY DEF Calling, Live
<1>8. HitByOwner'
  <2> SUFFICES ASSUME NEW e \in Calls, Live(e)', exec'[e].hit \/ exec'[e].raised
               PROVE  calls'[e].at = "unwinding" \/ e \in promised'
    BY DEF HitByOwner
  <2>1. exec[e].at # "none" /\ Live(e)
    BY <1>7
  <2>2. exec'[e].hit => exec[e].hit \/ calls'[e].at = "unwinding" \/ e \in promised'
    BY <2>1 DEF Calling
  <2>3. exec'[e].raised = exec[e].raised
    BY <2>1 DEF Calling
  <2>4. exec[e].hit \/ exec[e].raised => calls[e].at = "unwinding" \/ e \in promised
    BY <2>1 DEF IInv, Tasks, HitByOwner
  <2>5. (calls[e].at = "unwinding" => calls'[e].at = "unwinding") /\ (e \in promised => e \in promised')
    BY <2>1 DEF Calling
  <2> QED
    BY <2>2, <2>3, <2>4, <2>5
<1>9. ToldByOperator' /\ Reasoned'
  BY <1>1, <1>2, <1>7 DEF IInv, Tasks, ToldByOperator, Reasoned, Calling
<1>10. OnlyTheOwnerOrAStopEndsARun'
  BY DEF IInv, Tasks, OnlyTheOwnerOrAStopEndsARun, Calling
<1>11. CancelledMeansStopped'
  BY <1>1, <1>2 DEF IInv, Tasks, CancelledMeansStopped, Calling
<1> QED
  BY <1>4, <1>6, <1>8, <1>9, <1>10, <1>11 DEF Tasks

LEMMA BlankTasks ==
    ASSUME IInv, NEW e \in Calls, exec[e].at = "none"
    PROVE  ~exec[e].hit /\ ~exec[e].raised /\ exec[e].told = "no" /\ exec[e].completion = {}
BY DEF IInv, Callers, Created, Idle

LEMMA Positive == ASSUME NEW c \in Calls PROVE c \in Nat /\ c # 0
BY RunnerAssumption DEF Calls, RunnerAssumption

LEMMA DispatchIInv ==
    ASSUME IInv, NEW c \in Calls, NEW k \in Keys, dispatch(c, k)
    PROVE  IInv'
<1>1. /\ exec[c].at = "none" /\ calls[c].at = "idle" /\ DispatchUnchanged
      /\ settled' = settled /\ stopping' = stopping /\ promised' = promised
      /\ exec[c] \in Execution /\ exec[c] = Idle /\ TypeOK /\ Callers
  BY DEF dispatch, IInv, TypeOK, Callers, Created
<1>2. c # 0
  BY Positive
<1>3. \A q \in Keys : inflight[q] # c
  BY <1>1, <1>2 DEF TypeOK
<1>4. CASE inflight[k] # 0
  <2>1. /\ calls' = [calls EXCEPT ![c] = [key |-> k, task |-> inflight[k], at |-> "waiting"]]
        /\ exec' = exec /\ inflight' = inflight
    BY <1>4 DEF dispatch
  <2>2. inflight[k] \in Calls /\ inflight[k] # c
    BY <1>1, <1>3, <1>4 DEF TypeOK
  <2>3. TypeOK'
    BY <1>1, <1>3, <2>1, <2>2 DEF TypeOK, DispatchUnchanged
  <2>4. \A d \in Calls \ {c} : calls'[d] = calls[d]
    BY <1>1, <2>1 DEF TypeOK
  <2>5. calls'[c] = [key |-> k, task |-> inflight[k], at |-> "waiting"]
    BY <1>1, <2>1 DEF TypeOK
  <2>6. Joined' /\ Held'
    BY <1>1, <1>2, <1>3, <2>1, <2>2, <2>4, <2>5 DEF Callers, Joined, Held, Mine, Key, TypeOK
  <2>7. Owned' /\ Created' /\ StoppedInFlight'
    BY <1>1, <2>1, <2>4
       DEF Callers, Owned, Created, StoppedInFlight, Mine, Live, Running, InPhase, Attended
  <2>8. Calling
    BY <1>1, <2>1, <2>4, BlankTasks DEF Calling
  <2> QED
    BY <2>3, <2>6, <2>7, <2>8, CallingTasks DEF IInv, Callers
<1>5. CASE inflight[k] = 0
  <2>1. /\ calls' = [calls EXCEPT ![c] = [key |-> k, task |-> c, at |-> "waiting"]]
        /\ exec' = [exec EXCEPT ![c].at = "checking"]
        /\ inflight' = [inflight EXCEPT ![k] = c]
    BY <1>5 DEF dispatch
  <2>2. \A d \in Calls \ {c} : calls'[d] = calls[d] /\ exec'[d] = exec[d]
    BY <1>1, <2>1 DEF TypeOK
  <2>3. calls'[c] = [key |-> k, task |-> c, at |-> "waiting"]
    BY <1>1, <2>1 DEF TypeOK
  <2>4. /\ exec'[c] \in Execution /\ exec'[c].at = "checking"
        /\ ~exec'[c].hit /\ ~exec'[c].raised /\ exec'[c].told = "no" /\ exec'[c].completion = {}
    <3>1. exec'[c] = [exec[c] EXCEPT !.at = "checking"]
      BY <1>1, <2>1 DEF TypeOK
    <3> QED
      BY <1>1, <3>1, BlankTasks DEF Execution, Running
  <2>5. inflight'[k] = c /\ \A q \in Keys \ {k} : inflight'[q] = inflight[q]
    BY <1>1, <2>1 DEF TypeOK
  <2>6. TypeOK'
    <3>1. exec' \in [Calls -> Execution]
      BY <1>1, <2>1, <2>4 DEF TypeOK
    <3>2. calls' \in [Calls -> [key : Keys, task : Calls \cup {0},
                          at : {"idle", "waiting", "unwinding", "dead"} \cup Ended]]
      BY <1>1, <2>1 DEF TypeOK
    <3>3. inflight' \in [Keys -> Calls \cup {0}]
      BY <1>1, <2>1 DEF TypeOK
    <3>4. \A q \in Keys : inflight'[q] # 0 => /\ calls'[inflight'[q]].key = q
                                          /\ calls'[inflight'[q]].at \in {"waiting", "unwinding"}
      BY <1>1, <1>3, <2>2, <2>3, <2>5 DEF TypeOK
    <3> QED
      BY <1>1, <3>1, <3>2, <3>3, <3>4 DEF TypeOK, DispatchUnchanged
  <2>7. Joined'
    BY <1>1, <2>2, <2>3 DEF Callers, Joined, Mine
  <2>8. Held'
    <3>1. \A d \in Calls : Mine(d)' /\ calls'[d].at \in {"waiting", "unwinding"}
                              => inflight'[Key(d)'] = d
      <4>1. ASSUME NEW d \in Calls \ {c}, Mine(d)', calls'[d].at \in {"waiting", "unwinding"}
            PROVE  inflight'[Key(d)'] = d
        <5>1. Key(d)' = Key(d) /\ inflight[Key(d)] = d /\ d # 0 /\ Key(d) \in Keys
          BY <1>1, <2>2, <4>1, Positive DEF Callers, Held, Mine, Key, TypeOK
        <5> QED
          BY <1>5, <2>5, <5>1
      <4> QED
        BY <2>3, <2>5, <4>1 DEF Key
    <3>2. \A q \in Keys : inflight'[q] # 0 => calls'[inflight'[q]].task = inflight'[q]
      BY <1>1, <1>3, <2>2, <2>3, <2>5 DEF Callers, Held, Mine, TypeOK
    <3> QED
      BY <3>1, <3>2 DEF Held, Mine
  <2>9. Owned' /\ Created'
    BY <1>1, <2>2, <2>3, <2>4 DEF Callers, Owned, Created, Mine, Live
  <2>10. StoppedInFlight'
    <3>1. k \notin stopping
      BY <1>1, <1>2, <1>5, Positive DEF Callers, StoppedInFlight, TypeOK
    <3> QED
      BY <1>1, <2>5, <3>1 DEF Callers, StoppedInFlight, TypeOK
  <2>11. Calling
    BY <1>1, <2>2, <2>4, BlankTasks DEF Calling
  <2> QED
    BY <2>6, <2>7, <2>8, <2>9, <2>10, <2>11, CallingTasks DEF IInv, Callers
<1> QED
  BY <1>4, <1>5

\* A caller is done: its task, if it is its own, has ended.
LEMMA LeavesIInv ==
    ASSUME IInv, NEW c \in Calls, calls[c].at \in {"waiting", "unwinding"}, NEW at \in Ended,
           Leaves(c, at), ~(Mine(c) /\ Live(c)),
           Mine(c) /\ exec[c].at = "cancelled" => at = "cancelled",
           UNCHANGED <<exec, promised>>, DispatchUnchanged,
           settled' \in [Keys -> Outcomes \cup {Unsettled}]
    PROVE  IInv'
<1>1. TypeOK /\ Callers /\ Key(c) \in Keys /\ c # 0
  BY Positive DEF IInv, TypeOK, Key
<1>2. \A d \in Calls \ {c} : calls'[d] = calls[d]
  BY <1>1 DEF Leaves, Gone, TypeOK
<1>3. exec' = exec /\ promised' = promised
  OBVIOUS
<1>4. CASE Mine(c)
  <2>1. /\ calls' = [calls EXCEPT ![c].at = at]
        /\ inflight' = [inflight EXCEPT ![Key(c)] = 0]
        /\ stopping' = stopping \ {Key(c)}
    BY <1>4 DEF Leaves, Gone
  <2>2. /\ calls'[c].at = at /\ calls'[c].key = calls[c].key /\ calls'[c].task = calls[c].task
        /\ calls' \in [Calls -> [key : Keys, task : Calls \cup {0},
                            at : {"idle", "waiting", "unwinding", "dead"} \cup Ended]]
    BY <1>1, <2>1 DEF TypeOK
  <2>3. inflight'[Key(c)] = 0 /\ \A q \in Keys \ {Key(c)} : inflight'[q] = inflight[q]
    BY <1>1, <2>1 DEF TypeOK
  <2>4. \A q \in Keys : inflight'[q] # 0 => inflight'[q] = inflight[q] /\ inflight[q] \in Calls \ {c}
    BY <1>1, <2>3 DEF TypeOK, Key
  <2>5. TypeOK'
    <3>1. inflight' \in [Keys -> Calls \cup {0}]
      BY <1>1, <2>1 DEF TypeOK
    <3> QED
      BY <1>1, <1>2, <2>1, <2>2, <2>4, <3>1 DEF TypeOK, DispatchUnchanged
  <2>6. at \notin {"waiting", "unwinding"}
    BY DEF Ended
  <2>7. Joined'
    BY <1>1, <1>2, <2>2, <2>6 DEF Callers, Joined, Mine
  <2>8. Held'
    <3>1. \A q \in Keys : inflight'[q] # 0 => calls'[inflight'[q]].task = inflight'[q]
      BY <1>1, <1>2, <2>4 DEF Callers, Held, Mine
    <3>2. ASSUME NEW d \in Calls, Mine(d)', calls'[d].at \in {"waiting", "unwinding"}
          PROVE  inflight'[Key(d)'] = d
      <4>1. d # c /\ calls'[d] = calls[d]
        BY <1>2, <2>2, <2>6, <3>2
      <4>2. inflight[Key(d)] = d /\ Key(d)' = Key(d) /\ Key(d) \in Keys
        BY <1>1, <3>2, <4>1 DEF Callers, Held, Mine, Key, TypeOK
      <4>3. Key(d) # Key(c)
        BY <1>1, <1>4, <4>1, <4>2 DEF Callers, Held
      <4> QED
        BY <2>3, <4>2, <4>3
    <3> QED
      BY <3>1, <3>2 DEF Held, Mine
  <2>9. Owned' /\ Created'
    BY <1>1, <1>2, <1>3, <1>4, <2>2 DEF Callers, Owned, Created, Mine, Live
  <2>10. StoppedInFlight'
    BY <1>1, <1>3, <2>1, <2>3 DEF Callers, StoppedInFlight, TypeOK
  <2>11. Calling
    BY <1>2, <1>3, <1>4, <2>2, BlankTasks DEF Calling
  <2> QED
    BY <2>5, <2>7, <2>8, <2>9, <2>10, <2>11, CallingTasks DEF IInv, Callers
<1>5. CASE ~Mine(c)
  <2>1. inflight' = inflight /\ stopping' = stopping /\ calls' = [calls EXCEPT ![c] = Nobody]
    BY <1>5 DEF Leaves, Gone
  <2>2. Nobody.at = "idle" /\ Nobody.task = 0 /\ Nobody.key \in Keys
    BY RunnerAssumption DEF Nobody, RunnerAssumption
  <2>3. calls'[c] = Nobody
    BY <1>1, <2>1 DEF TypeOK
  <2>4. exec[c].at = "none" /\ \A q \in Keys : inflight[q] # c
    BY <1>1, <1>5 DEF Callers, Created, Held
  <2>5. calls' \in [Calls -> [key : Keys, task : Calls \cup {0},
                            at : {"idle", "waiting", "unwinding", "dead"} \cup Ended]]
    BY <1>1, <2>1, <2>2 DEF TypeOK, Nobody
  <2>6. TypeOK'
    BY <1>1, <1>2, <2>1, <2>4, <2>5 DEF TypeOK, DispatchUnchanged
  <2>7. Joined' /\ Created'
    BY <1>1, <1>2, <1>3, <2>2, <2>3, <2>4 DEF Callers, Joined, Created, Mine
  <2>8. Owned'
    BY <1>1, <1>2, <1>3, <2>4 DEF Callers, Owned, Mine, Live, Running, InPhase, Attended
  <2>9. Held' /\ StoppedInFlight'
    BY <1>1, <1>2, <1>3, <2>1, <2>2, <2>3, <2>4 DEF Callers, Held, StoppedInFlight, Mine, Key, TypeOK
  <2>10. Calling
    BY <1>2, <1>3, <2>4, BlankTasks DEF Calling
  <2> QED
    BY <2>6, <2>7, <2>8, <2>9, <2>10, CallingTasks DEF IInv, Callers
<1> QED
  BY <1>4, <1>5

LEMMA AnsweredIInv == ASSUME IInv, NEW c \in Calls, Answered(c) PROVE IInv'
<1>1. /\ calls[c].at = "waiting" /\ calls[c].task \in Calls /\ exec[calls[c].task].at \in Ended
      /\ Leaves(c, exec[calls[c].task].at) /\ UNCHANGED <<exec, promised>> /\ DispatchUnchanged
      /\ exec[calls[c].task] \in Execution
  BY DEF Answered, IInv, Callers, Joined, TypeOK
<1>2. exec[calls[c].task].answer \in Outcomes \cup {Unsettled}
  BY <1>1 DEF Execution
<1>3. settled' \in [Keys -> Outcomes \cup {Unsettled}]
  BY <1>1, <1>2 DEF Answered, IInv, TypeOK
<1>4. Mine(c) => exec[calls[c].task] = exec[c] /\ ~Live(c)
  BY <1>1, ExecutionFields DEF Mine, Live
<1> QED
  BY <1>1, <1>3, <1>4, LeavesIInv

LEMMA UnwoundIInv == ASSUME IInv, NEW c \in Calls, Unwound(c) PROVE IInv'
<1>1. PICK at \in {"failed", "cancelled"} :
          at = IF exec[calls[c].task].at = "failed" THEN "failed" ELSE "cancelled"
  OBVIOUS
<1>2. /\ calls[c].at = "unwinding" /\ Mine(c) /\ exec[calls[c].task].at \in Ended
      /\ Leaves(c, at) /\ UNCHANGED <<exec, promised>> /\ DispatchUnchanged
  BY <1>1 DEF Unwound, IInv, Callers, Joined
<1>3. settled' \in [Keys -> Outcomes \cup {Unsettled}]
  BY DEF Unwound, IInv, TypeOK
<1>4. calls[c].task = c /\ ~Live(c)
  BY <1>2, ExecutionFields DEF Mine, Live
<1>5. at \in Ended /\ (exec[c].at = "cancelled" => at = "cancelled")
  BY <1>1, <1>4 DEF Ended
<1> QED
  BY <1>2, <1>3, <1>4, <1>5, LeavesIInv

\* A task is hit.
LEMMA HitExec ==
    ASSUME TypeOK, NEW e \in Calls, exec' = [exec EXCEPT ![e].hit = TRUE]
    PROVE  /\ exec' \in [Calls -> Execution]
           /\ \A d \in Calls \ {e} : exec'[d] = exec[d]
           /\ exec'[e].at = exec[e].at /\ exec'[e].raised = exec[e].raised
           /\ exec'[e].told = exec[e].told /\ exec'[e].completion = exec[e].completion
           /\ exec'[e].answer = exec[e].answer
<1>1. exec \in [Calls -> Execution] /\ exec[e] \in Execution
  BY DEF TypeOK
<1>2. [exec[e] EXCEPT !.hit = TRUE] \in Execution
  BY <1>1 DEF Execution
<1>3. exec' = [exec EXCEPT ![e] = [exec[e] EXCEPT !.hit = TRUE]]
  OBVIOUS
<1>4. /\ exec' \in [Calls -> Execution] /\ exec'[e] = [exec[e] EXCEPT !.hit = TRUE]
      /\ \A d \in Calls \ {e} : exec'[d] = exec[d]
  BY <1>1, <1>2, <1>3
<1> QED
  BY <1>1, <1>4 DEF Execution

LEMMA GivesUpIInv == ASSUME IInv, NEW c \in Calls, GivesUp(c) PROVE IInv'
<1>1. /\ calls[c].at = "waiting" /\ TypeOK /\ Callers /\ DispatchUnchanged
      /\ settled' = settled /\ promised' = promised
  BY DEF GivesUp, IInv
<1>2. CASE ~(Mine(c) /\ Live(c))
  <2>1. Leaves(c, "cancelled") /\ UNCHANGED exec
    BY <1>2 DEF GivesUp
  <2>2. "cancelled" \in Ended /\ settled' \in [Keys -> Outcomes \cup {Unsettled}]
    BY <1>1 DEF Ended, TypeOK
  <2> QED
    BY <1>1, <1>2, <2>1, <2>2, LeavesIInv
<1>3. CASE Mine(c) /\ Live(c)
  <2>1. /\ exec' = [exec EXCEPT ![c].hit = TRUE]
        /\ calls' = [calls EXCEPT ![c].at = "unwinding"]
        /\ inflight' = inflight /\ stopping' = stopping
    BY <1>3 DEF GivesUp
  <2>2. exec[c].at \notin {"none"} \cup Ended
    BY <1>3 DEF Live, Running, InPhase, Attended, Ended
  <2>3. /\ \A d \in Calls \ {c} : calls'[d] = calls[d]
        /\ calls'[c].at = "unwinding" /\ calls'[c].key = calls[c].key
        /\ calls'[c].task = calls[c].task
        /\ calls' \in [Calls -> [key : Keys, task : Calls \cup {0},
                            at : {"idle", "waiting", "unwinding", "dead"} \cup Ended]]
    BY <1>1, <2>1 DEF TypeOK
  <2>4. TypeOK'
    <3>1. exec' \in [Calls -> Execution]
      BY <1>1, <2>1, HitExec
    <3>2. \A q \in Keys : inflight[q] # 0 => /\ calls'[inflight[q]].key = q
                                         /\ calls'[inflight[q]].at \in {"waiting", "unwinding"}
      BY <1>1, <2>3 DEF TypeOK
    <3> QED
      BY <1>1, <2>1, <2>3, <3>1, <3>2 DEF TypeOK, DispatchUnchanged
  <2>5. Joined' /\ Held' /\ StoppedInFlight'
    BY <1>1, <1>3, <2>1, <2>3 DEF Callers, Joined, Held, StoppedInFlight, Mine, Key, TypeOK
  <2>6. \A d \in Calls : exec'[d].at = exec[d].at /\ Mine(d)' = Mine(d)
    BY <1>1, <2>1, <2>3, HitExec DEF Mine
  <2>7. Owned'
    BY <1>1, <2>3, <2>6 DEF Callers, Owned, Live
  <2>8. Created'
    BY <1>1, <2>1, <2>2, <2>6, HitExec DEF Callers, Created
  <2>9. Calling
    BY <1>1, <2>1, <2>2, <2>3, HitExec, BlankTasks DEF Calling
  <2> QED
    BY <2>4, <2>5, <2>7, <2>8, <2>9, CallingTasks DEF IInv, Callers
<1> QED
  BY <1>2, <1>3

LEMMA CancelIInv == ASSUME IInv, NEW k \in Keys, cancel(k) PROVE IInv'
<1>1. PICK e \in Calls : e = inflight[k]
  BY DEF cancel, IInv, TypeOK
<1>2. /\ Live(e) /\ TypeOK /\ Callers /\ DispatchUnchanged
      /\ exec' = [exec EXCEPT ![e].hit = TRUE]
      /\ stopping' = stopping \cup {k} /\ promised' = promised \cup {e}
      /\ calls' = calls /\ inflight' = inflight /\ settled' = settled
  BY <1>1 DEF cancel, IInv
<1>3. exec[e].at \notin {"none"} \cup Ended
  BY <1>2 DEF Live, Running, InPhase, Attended, Ended
<1>4. TypeOK'
  BY <1>2, HitExec DEF TypeOK, DispatchUnchanged
<1>5. \A d \in Calls : exec'[d].at = exec[d].at /\ Mine(d)' = Mine(d)
  BY <1>2, HitExec DEF Mine
<1>6. Joined' /\ Held' /\ StoppedInFlight'
  BY <1>1, <1>2 DEF Callers, Joined, Held, StoppedInFlight, Mine, Key
<1>7. Owned'
  BY <1>2, <1>5 DEF Callers, Owned, Live
<1>8. Created'
  BY <1>2, <1>3, <1>5, HitExec DEF Callers, Created
<1>9. Calling
  BY <1>2, <1>3, HitExec, BlankTasks DEF Calling
<1> QED
  BY <1>4, <1>6, <1>7, <1>8, <1>9, CallingTasks DEF IInv, Callers

-----------------------------------------------------------------------------
(* The environment keeps it *)

LEMMA StopsRunIInv == ASSUME IInv, NEW k \in Keys, StopsRun(k) PROVE IInv'
<1>1. /\ signal \subseteq signal' /\ signal' \subseteq Keys
      /\ UNCHANGED <<calls, exec, inflight, settled, stopping, promised, boxes, missed, faults>>
  BY DEF StopsRun, EngineUnchanged, IInv, TypeOK
<1>2. TypeOK'
  BY <1>1 DEF IInv, TypeOK
<1>3. Callers'
  BY <1>1 DEF IInv, Callers, Joined, Held, Owned, Created, StoppedInFlight, Mine, Key, Live
<1>4. Named' /\ Cleared' /\ HitByOwner' /\ AnsweredLeavesNothing' /\ OnlyTheOwnerOrAStopEndsARun'
  BY <1>1 DEF IInv, Tasks, Named, Cleared, HitByOwner, AnsweredLeavesNothing,
              OnlyTheOwnerOrAStopEndsARun, Key, Boxes, Live
<1>5. ToldByOperator' /\ Reasoned' /\ CancelledMeansStopped'
  BY <1>1 DEF IInv, Tasks, ToldByOperator, Reasoned, CancelledMeansStopped, Key, Live
<1> QED
  BY <1>2, <1>3, <1>4, <1>5 DEF IInv, Tasks

LEMMA CrashIInv == ASSUME IInv, Crash PROVE IInv'
<1> DEFINE Dead == [Idle EXCEPT !.at = "dead"]
<1>1. TypeOK /\ Callers /\ Tasks
  BY DEF IInv
<1>2. Dead \in Execution /\ Dead.at = "dead"
  BY ExecutionFields DEF Execution, Idle
<1> HIDE DEF Dead
<1>3. /\ \A e \in Calls : exec'[e] = IF Live(e) THEN Dead ELSE exec[e]
      /\ exec' \in [Calls -> Execution]
  BY <1>1, <1>2 DEF Crash, TypeOK, Dead
<1>4. Nobody.at = "idle" /\ Nobody.task = 0 /\ Nobody.key \in Keys
  BY RunnerAssumption DEF Nobody, RunnerAssumption
<1>5. \A c \in Calls :
        \/ calls[c].at \notin {"waiting", "unwinding"} /\ calls'[c] = calls[c]
        \/ /\ calls[c].at \in {"waiting", "unwinding"} /\ Mine(c)
           /\ calls'[c] = [calls[c] EXCEPT !.at = "dead"]
           /\ calls'[c].key = calls[c].key /\ calls'[c].task = c /\ calls'[c].at = "dead"
        \/ calls[c].at \in {"waiting", "unwinding"} /\ ~Mine(c) /\ calls'[c] = Nobody
  BY <1>1 DEF Crash, TypeOK, Mine
<1>6. /\ inflight' = [q \in Keys |-> 0] /\ settled' = [q \in Keys |-> Unsettled]
      /\ stopping' = {} /\ faults < MaxFaults /\ faults' = faults + 1
      /\ UNCHANGED <<signal, promised, boxes, missed>>
  BY DEF Crash
<1>7. \A e \in Calls : ~Live(e)' /\ (exec'[e].at \in {"none"} \cup Ended => exec'[e] = exec[e])
  BY <1>2, <1>3 DEF Live, Running, InPhase, Attended, Ended
<1>8. \A e \in Calls : exec[e].at # "none" => Key(e)' = Key(e) /\ Mine(e)' /\ Mine(e)
  BY <1>1, <1>5 DEF Callers, Created, Mine, Key
<1>9. \A e \in Calls : exec'[e].at # "none" => exec[e].at # "none"
  BY <1>3 DEF Live, Running, InPhase, Attended
<1>10. TypeOK'
  <2>1. calls' \in [Calls -> [key : Keys, task : Calls \cup {0},
                            at : {"idle", "waiting", "unwinding", "dead"} \cup Ended]]
    <3>1. \A c \in Calls : calls'[c] \in [key : Keys, task : Calls \cup {0},
                            at : {"idle", "waiting", "unwinding", "dead"} \cup Ended]
      <4> SUFFICES ASSUME NEW c \in Calls
                   PROVE  calls'[c] \in [key : Keys, task : Calls \cup {0},
                            at : {"idle", "waiting", "unwinding", "dead"} \cup Ended]
        OBVIOUS
      <4>1. calls[c] \in [key : Keys, task : Calls \cup {0},
                            at : {"idle", "waiting", "unwinding", "dead"} \cup Ended]
        BY <1>1 DEF TypeOK
      <4>2. [calls[c] EXCEPT !.at = "dead"] \in [key : Keys, task : Calls \cup {0},
                            at : {"idle", "waiting", "unwinding", "dead"} \cup Ended]
        BY <4>1
      <4>3. Nobody \in [key : Keys, task : Calls \cup {0},
                            at : {"idle", "waiting", "unwinding", "dead"} \cup Ended]
        BY <1>4 DEF Nobody
      <4> QED
        BY <1>5, <4>1, <4>2, <4>3
    <3>2. calls' = [c \in Calls |-> calls'[c]]
      BY DEF Crash
    <3> QED
      BY <3>1, <3>2
  <2>2. faults' \in 0..MaxFaults
    BY <1>1, <1>6, RunnerAssumption DEF TypeOK, RunnerAssumption
  <2> QED
    BY <1>1, <1>3, <1>6, <2>1, <2>2 DEF TypeOK
<1>11. Joined' /\ Held' /\ StoppedInFlight'
  BY <1>4, <1>5, <1>6 DEF Joined, Held, StoppedInFlight, Mine
<1>12. Owned' /\ Created'
  BY <1>1, <1>7, <1>8, <1>9 DEF Callers, Owned, Created
<1>13. Cleared' /\ HitByOwner' /\ ToldByOperator' /\ Reasoned'
  BY <1>7 DEF Cleared, HitByOwner, ToldByOperator, Reasoned, Live, Running
<1>14. Named' /\ AnsweredLeavesNothing'
  <2> SUFFICES ASSUME NEW b \in Keys \X Phases, boxes[b] # 0
               PROVE  /\ b[1] = Key(boxes[b])'
                      /\ exec'[boxes[b]].at \notin {"none", "checking", "preparing"}
                      /\ exec'[boxes[b]].at = "answered" => b \in missed
    BY <1>6 DEF Named, AnsweredLeavesNothing, Key
  <2>1. boxes[b] \in Calls /\ b[1] = Key(boxes[b])
        /\ exec[boxes[b]].at \notin {"none", "checking", "preparing"}
        /\ (exec[boxes[b]].at = "answered" => b \in missed)
    BY <1>1 DEF TypeOK, Tasks, Named, AnsweredLeavesNothing
  <2> QED
    BY <1>2, <1>3, <1>6, <1>8, <2>1 DEF Key
<1>15. OnlyTheOwnerOrAStopEndsARun'
  BY <1>1, <1>5, <1>6, <1>7, <1>8 DEF Tasks, OnlyTheOwnerOrAStopEndsARun, Ended
<1>16. CancelledMeansStopped'
  BY <1>1, <1>6, <1>7, <1>8 DEF Tasks, CancelledMeansStopped, Ended
<1> QED
  BY <1>10, <1>11, <1>12, <1>13, <1>14, <1>15, <1>16 DEF IInv, Callers, Tasks

LEMMA Stutters == ASSUME IInv, UNCHANGED vars PROVE IInv'
<1>1. TypeOK'
  BY DEF IInv, vars, TypeOK
<1>2. Callers'
  BY DEF IInv, vars, Callers, Joined, Held, Owned, Created, StoppedInFlight, Mine, Key, Live
<1>3. Tasks'
  BY DEF IInv, vars, Tasks, Named, Cleared, HitByOwner, AnsweredLeavesNothing, ToldByOperator,
         Reasoned, CancelledMeansStopped, OnlyTheOwnerOrAStopEndsARun, Key, Boxes, Live
<1> QED
  BY <1>1, <1>2, <1>3 DEF IInv

LEMMA NextIInv == IInv /\ [Next]_vars => IInv'
<1> SUFFICES ASSUME IInv, [Next]_vars PROVE IInv'
  OBVIOUS
<1>1. ASSUME NEW c \in Calls, NEW k \in Keys, dispatch(c, k) PROVE IInv'
  BY <1>1, DispatchIInv
<1>2. ASSUME NEW c \in Calls, Answered(c) \/ GivesUp(c) \/ Unwound(c) PROVE IInv'
  BY <1>2, AnsweredIInv, GivesUpIInv, UnwoundIInv
<1>3. ASSUME NEW k \in Keys, cancel(k) \/ StopsRun(k) PROVE IInv'
  BY <1>3, CancelIInv, StopsRunIInv
<1>4. ASSUME NEW e \in Calls, Moves(e) PROVE IInv'
  <2>1. OwnStep(e)
    BY <1>4, OwnMoves DEF IInv
  <2> QED
    BY <2>1, MovesTypeOK, MovesCallers, MovesTasks DEF IInv
<1> QED
  BY <1>1, <1>2, <1>3, <1>4, CrashIInv, Stutters DEF Next, Moves

\* The invariant holds of every behaviour of the runner.
THEOREM RunnerInvariant == Spec => []IInv
BY InitIInv, NextIInv, PTL DEF Spec

-----------------------------------------------------------------------------
(* What follows from it *)

\* The callers, the tasks and the containers have their types, and a key is in
\* flight only as a call for that key which still waits.
THEOREM RunnerTypes == Spec => []TypeOK
<1>1. IInv => TypeOK
  BY DEF IInv
<1> QED
  BY <1>1, RunnerInvariant, PTL

\* However many deliveries of an attempt there are, it runs as one execution.
THEOREM OneExecution == Spec => []OneExecutionAtATime
<1>1. IInv => OneExecutionAtATime
  BY OneOwner DEF IInv
<1> QED
  BY <1>1, RunnerInvariant, PTL

\* A phase meets no container of another execution, but one the engine was told
\* to remove and did not.
THEOREM OwnContainers == Spec => []NoForeignContainer
<1>1. IInv => NoForeignContainer
  BY TheBoxes DEF IInv, Tasks, Cleared, NoForeignContainer
<1> QED
  BY <1>1, RunnerInvariant, PTL

\* An answer is given with the containers of both phases removed.
THEOREM NothingLeft == Spec => []AnsweredLeavesNothing
<1>1. IInv => AnsweredLeavesNothing
  BY DEF IInv, Tasks
<1> QED
  BY <1>1, RunnerInvariant, PTL

\* A redelivery that gives up ends nobody's run.
THEOREM OnlyTheOwner == Spec => []OnlyTheOwnerOrAStopEndsARun
<1>1. IInv => OnlyTheOwnerOrAStopEndsARun
  BY DEF IInv, Tasks
<1> QED
  BY <1>1, RunnerInvariant, PTL

\* CANCELLED is answered only for an attempt that somebody stopped.
THEOREM CancelledWasStopped == Spec => []CancelledMeansStopped
<1>1. IInv => CancelledMeansStopped
  BY DEF IInv, Tasks
<1> QED
  BY <1>1, RunnerInvariant, PTL
=============================================================================
