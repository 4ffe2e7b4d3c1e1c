---------------------------- MODULE AgentRunner ----------------------------
(***************************************************************************)
(* runners/agent.py on the container tier (runners/container.py): the      *)
(* RunnerPort that runs an agent CLI for a request, and everything that    *)
(* may stop it on the way.                                                 *)
(*                                                                         *)
(* Two kinds of task run in one event loop.  A call is a caller inside     *)
(* dispatch(); the first call for an idempotency key creates an execution  *)
(* (the task of _execute) and the later ones join it.  An execution has    *)
(* the number of the call that created it.  A step of the model is what a  *)
(* task does between two awaits, so a cancellation ("hit") is delivered at *)
(* the await the task is in, which decides what it does.                   *)
(*                                                                         *)
(* Beside an execution's own task run the attendant of the phase           *)
(* (_attend), which hears the control plane's stop, and the task that      *)
(* halts a run over its budget.  The agent, the container engine, the      *)
(* operator and a crash of the control plane are the environment.          *)
(***************************************************************************)
EXTENDS Outcome, FiniteSets

CONSTANTS Keys,          \* idempotency keys: attempts
          HasSetup,      \* the keys whose repository has an install command
          MaxCalls,      \* bound: callers of dispatch, and so executions; a caller that
                         \* started none calls again as often as it likes
          MaxFaults      \* bound: crashes of the control plane and removals the
                         \* container engine does not carry out, together

ASSUME RunnerAssumption ==
    /\ Keys # {} /\ HasSetup \subseteq Keys
    /\ MaxCalls \in Nat /\ MaxFaults \in Nat

VARIABLES
    calls,      \* the callers of dispatch
    exec,       \* the executions, by the call that created them
    inflight,   \* _inflight: the execution a key is in flight as, or 0
    settled,    \* _settled: the answer remembered for a key, or Unsettled
    stopping,   \* _stopping: the keys somebody called cancel() for
    boxes,      \* the containers, by key and phase: whose it is, or 0
    signal,     \* the keys whose run the control plane has been told to stop
    promised,   \* history: the executions cancel() answered True for
    missed,     \* history: the containers a removal was asked for and not done
    faults

vars == <<calls, exec, inflight, settled, stopping, boxes, signal, promised, missed,
          faults>>

Calls == 1..MaxCalls
Phases == {"setup", "agent"}
Unsettled == "UNSETTLED"

Ended == {"answered", "cancelled", "failed"}
Attended == {"driving", "removing", "reaping"}
InPhase == Attended \cup {"spawning", "joining", "observing"}
Running == InPhase \cup {"checking", "preparing", "collecting", "teardown"}

Execution ==
    [at : Running \cup Ended \cup {"none", "dead"}, phase : Phases,
     proc : {"none", "up", "zero", "nonzero", "refused"},
     hit : BOOLEAN,        \* a CancelledError waits to be delivered
     raised : BOOLEAN,     \* a CancelledError is on its way out
     erred : BOOLEAN,      \* another exception is
     told : {"no", "heard", "halted"},   \* watcher.cancelled, and its halt is over
     overspent : BOOLEAN,  \* watcher.overspent
     halting : BOOLEAN,    \* the task that halts an overspent run
     timedOut : BOOLEAN,
     completion : SUBSET Signals,
     answer : Outcomes \cup {Unsettled}]

TypeOK ==
    /\ calls \in [Calls -> [key : Keys, task : Calls \cup {0},
                            at : {"idle", "waiting", "unwinding", "dead"} \cup Ended]]
    /\ exec \in [Calls -> Execution]
    /\ inflight \in [Keys -> Calls \cup {0}]
    /\ \A k \in Keys : inflight[k] # 0 => /\ calls[inflight[k]].key = k
                                         /\ calls[inflight[k]].at \in {"waiting", "unwinding"}
    /\ settled \in [Keys -> Outcomes \cup {Unsettled}]
    /\ stopping \subseteq Keys /\ signal \subseteq Keys
    /\ boxes \in [Keys \X Phases -> Calls \cup {0}]
    /\ promised \subseteq Calls
    /\ missed \subseteq Keys \X Phases
    /\ faults \in 0..MaxFaults

Idle == [at |-> "none", phase |-> "agent", proc |-> "none", hit |-> FALSE, raised |-> FALSE,
         erred |-> FALSE, told |-> "no", overspent |-> FALSE, halting |-> FALSE, timedOut |-> FALSE,
         completion |-> {}, answer |-> Unsettled]

Nobody == [key |-> CHOOSE k \in Keys : TRUE, task |-> 0, at |-> "idle"]

Init ==
    /\ calls = [c \in Calls |-> Nobody]
    /\ exec = [e \in Calls |-> Idle]
    /\ inflight = [k \in Keys |-> 0]
    /\ settled = [k \in Keys |-> Unsettled]
    /\ stopping = {} /\ signal = {} /\ promised = {} /\ missed = {}
    /\ boxes = [b \in Keys \X Phases |-> 0]
    /\ faults = 0

Key(e) == calls[e].key
Live(e) == exec[e].at \in Running
Mine(c) == calls[c].task = c
Box(e) == <<Key(e), exec[e].phase>>
Boxes(e) == {Key(e)} \X Phases

-----------------------------------------------------------------------------
(* dispatch and cancel *)

DispatchUnchanged == UNCHANGED <<boxes, signal, missed, faults>>

\* The caller's task up to its first await.  Where a key is settled its answer is
\* returned, where _preflight refuses it raises: nothing changes.
dispatch(c, k) ==
    /\ exec[c].at = "none" /\ calls[c].at = "idle" /\ settled[k] = Unsettled
    /\ \/ /\ inflight[k] # 0
          /\ calls' = [calls EXCEPT ![c] = [key |-> k, task |-> inflight[k], at |-> "waiting"]]
          /\ UNCHANGED <<exec, inflight>>
       \/ /\ inflight[k] = 0
          /\ calls' = [calls EXCEPT ![c] = [key |-> k, task |-> c, at |-> "waiting"]]
          /\ exec' = [exec EXCEPT ![c].at = "checking"]
          /\ inflight' = [inflight EXCEPT ![k] = c]
    /\ UNCHANGED <<settled, stopping, promised>> /\ DispatchUnchanged

\* A caller that joined an execution is done with it.
Gone(c, at) == calls' = [calls EXCEPT ![c] = IF Mine(c) THEN [@ EXCEPT !.at = at] ELSE Nobody]

\* Mutant: the finally forgets to discard the key from _stopping.
Bug_Leaves(c, at) ==
    /\ Gone(c, at)
    /\ inflight' = IF Mine(c) THEN [inflight EXCEPT ![Key(c)] = 0] ELSE inflight
    /\ UNCHANGED stopping

\* Mutant: the finally runs for a joined dispatch too.
Bug_LeavesForAll(c, at) ==
    /\ Gone(c, at)
    /\ inflight' = [inflight EXCEPT ![Key(c)] = 0]
    /\ stopping' = stopping \ {Key(c)}

\* The way out of dispatch, with its finally.
Leaves(c, at) ==
    /\ Gone(c, at)
    /\ inflight' = IF Mine(c) THEN [inflight EXCEPT ![Key(c)] = 0] ELSE inflight
    /\ stopping' = IF Mine(c) THEN stopping \ {Key(c)} ELSE stopping

\* The shielded task is done and the caller wakes.
Answered(c) ==
    /\ calls[c].at = "waiting"
    /\ exec[calls[c].task].at \in Ended
    /\ Leaves(c, exec[calls[c].task].at)
    /\ settled' = IF exec[calls[c].task].at = "answered"
                  THEN [settled EXCEPT ![Key(c)] = exec[calls[c].task].answer] ELSE settled
    /\ UNCHANGED <<exec, promised>> /\ DispatchUnchanged

\* Mutant: any caller that gives up stops the work.
Bug_GivesUp(c) ==
    /\ calls[c].at = "waiting"
    /\ IF Live(calls[c].task)
       THEN /\ exec' = [exec EXCEPT ![calls[c].task].hit = TRUE]
            /\ calls' = [calls EXCEPT ![c].at = "unwinding"]
            /\ UNCHANGED <<inflight, stopping>>
       ELSE Leaves(c, "cancelled") /\ UNCHANGED exec
    /\ UNCHANGED <<settled, promised>> /\ DispatchUnchanged

\* The caller is cancelled: the engine's wait_for, around every stage it runs.
GivesUp(c) ==
    /\ calls[c].at = "waiting"
    /\ IF Mine(c) /\ Live(c)
       THEN /\ exec' = [exec EXCEPT ![c].hit = TRUE]
            /\ calls' = [calls EXCEPT ![c].at = "unwinding"]
            /\ UNCHANGED <<inflight, stopping>>
       ELSE Leaves(c, "cancelled") /\ UNCHANGED exec
    /\ UNCHANGED <<settled, promised>> /\ DispatchUnchanged

\* The task a cancelled caller waits for has ended.  Only its CancelledError is
\* suppressed, and a result it ends with all the same is dropped.
Unwound(c) ==
    /\ calls[c].at = "unwinding" /\ exec[calls[c].task].at \in Ended
    /\ Leaves(c, IF exec[calls[c].task].at = "failed" THEN "failed" ELSE "cancelled")
    /\ UNCHANGED <<exec, settled, promised>> /\ DispatchUnchanged

\* cancel(), where it answers True.  Where it answers False nothing changes.
\* Bound: once per execution.
cancel(k) ==
    /\ inflight[k] # 0 /\ Live(inflight[k]) /\ inflight[k] \notin promised
    /\ stopping' = stopping \cup {k}
    /\ exec' = [exec EXCEPT ![inflight[k]].hit = TRUE]
    /\ promised' = promised \cup {inflight[k]}
    /\ UNCHANGED <<calls, inflight, settled>> /\ DispatchUnchanged

-----------------------------------------------------------------------------
(* The container engine *)

Present(names) == {b \in names : boxes[b] # 0}

\* rm --force of some of an attempt's containers: done, or never answered.
Removes(names) ==
    \E silent \in SUBSET Present(names) :
        /\ silent # {} => faults < MaxFaults
        /\ faults' = IF silent = {} THEN faults ELSE faults + 1
        /\ boxes' = [b \in DOMAIN boxes |-> IF b \in names \ silent THEN 0 ELSE boxes[b]]
        /\ missed' = (missed \ names) \cup silent

\* The same, interrupted: the containers it had got to are gone.
RemovesSome(names) ==
    \E gone \in SUBSET Present(names) :
        /\ boxes' = [b \in DOMAIN boxes |-> IF b \in gone THEN 0 ELSE boxes[b]]
        /\ missed' = missed \ gone
        /\ UNCHANGED faults

EngineUnchanged == UNCHANGED <<boxes, missed, faults>>

-----------------------------------------------------------------------------
(* _execute *)

ExecutionUnchanged == UNCHANGED <<calls, inflight, settled, stopping, signal, promised>>

Becomes(e, execution) == exec' = [exec EXCEPT ![e] = execution]

\* The task after it, with nothing left of the phase it was in.
Spawning(phase) == [Idle EXCEPT !.at = "spawning", !.phase = phase]
Collecting(completion) == [Idle EXCEPT !.at = "collecting", !.completion = completion]
Unwinding == [Idle EXCEPT !.at = "teardown", !.raised = TRUE]

\* An exception leaves the phase, through the finally that joins the tasks beside it;
\* nothing is halted, observed or collected for it.
Erring(phase, halting) ==
    [Idle EXCEPT !.at = "joining", !.phase = phase, !.erred = TRUE, !.halting = halting]
Failing == [Idle EXCEPT !.at = "teardown", !.erred = TRUE]
Over(at, answer) == [Idle EXCEPT !.at = at, !.answer = answer]

Ends(e, at, answer) == Becomes(e, Over(at, answer))

\* A CancelledError leaves the phases: a stop is collected, anything else unwinds.
Raised(e) ==
    Becomes(e, IF Key(e) \in stopping THEN Collecting({"cancelled"}) ELSE Unwinding)

\* _not_runnable: git is asked before anything is prepared.
Check(e) ==
    /\ exec[e].at = "checking"
    /\ IF exec[e].hit THEN Ends(e, "cancelled", Unsettled)
       ELSE \/ Becomes(e, [exec[e] EXCEPT !.at = "preparing"])
            \/ Ends(e, "answered", classify({"startup_error"}))
            \/ Ends(e, "failed", Unsettled)
    /\ ExecutionUnchanged /\ EngineUnchanged

FirstPhase(e) == IF Key(e) \in HasSetup THEN "setup" ELSE "agent"

\* Mutant: the containers an earlier process left are not cleared.
Bug_Prepare(e) ==
    /\ exec[e].at = "preparing"
    /\ IF exec[e].hit THEN Ends(e, "cancelled", Unsettled)
       ELSE Becomes(e, Spawning(FirstPhase(e))) \/ Ends(e, "failed", Unsettled)
    /\ ExecutionUnchanged /\ EngineUnchanged

\* _prepare: the attempt's container names are cleared, its files installed.
Prepare(e) ==
    /\ exec[e].at = "preparing"
    /\ IF exec[e].hit
       THEN Ends(e, "cancelled", Unsettled) /\ RemovesSome(Boxes(e))
       ELSE /\ Becomes(e, Spawning(FirstPhase(e))) \/ Ends(e, "failed", Unsettled)
            /\ Removes(Boxes(e))
    /\ ExecutionUnchanged

\* A phase that gave a completion.  Only a setup that exited 0 leads to the
\* agent, whatever else was seen of it.
Completes(e, exit, seen) ==
    IF exec[e].phase = "setup"
    THEN IF exit = "zero" /\ "startup_error" \notin seen THEN Becomes(e, Spawning("agent"))
         ELSE Becomes(e, Collecting(seen \cup {"setup_error"}))
    ELSE Becomes(e, Collecting(seen))

Spawns(e, box) == boxes' = [boxes EXCEPT ![Box(e)] = IF @ = 0 THEN box ELSE @]

\* The client starts and asks for the container; the engine refuses a name that
\* is taken and an image it does not have; the client may not exist.  _launch may refuse
\* the phase before that.
Spawn(e) ==
    /\ exec[e].at = "spawning"
    /\ IF exec[e].hit
       THEN Raised(e) /\ \E box \in {0, e} : Spawns(e, box)
       ELSE \/ /\ boxes[Box(e)] = 0 /\ Spawns(e, e)
               /\ Becomes(e, [exec[e] EXCEPT !.at = "driving", !.proc = "up"])
            \/ /\ Becomes(e, [exec[e] EXCEPT !.at = "driving", !.proc = "refused"])
               /\ UNCHANGED boxes
            \/ Completes(e, "none", {"startup_error"}) /\ UNCHANGED boxes
            \/ Becomes(e, Failing) /\ UNCHANGED boxes
    /\ UNCHANGED <<missed, faults>> /\ ExecutionUnchanged

\* _drive returns: the client has exited and its pipes are closed.
Drive(e) ==
    /\ exec[e].at = "driving" /\ exec[e].proc # "up" /\ ~exec[e].hit
    /\ Becomes(e, [exec[e] EXCEPT !.at = "joining"])
    /\ ExecutionUnchanged /\ EngineUnchanged

\* The sink raises on a line, which leaves the client as it is.
DriveFails(e) ==
    /\ exec[e].at = "driving" /\ ~exec[e].hit
    /\ Becomes(e, Erring(exec[e].phase, exec[e].halting))
    /\ ExecutionUnchanged /\ EngineUnchanged

\* wait_for's clock, and a cancellation: both go through _halt.
TimesOut(e) ==
    /\ exec[e].at = "driving" /\ ~exec[e].hit
    /\ Becomes(e, [exec[e] EXCEPT !.at = "removing", !.timedOut = TRUE])
    /\ ExecutionUnchanged /\ EngineUnchanged

Interrupted(e) ==
    /\ exec[e].at = "driving" /\ exec[e].hit
    /\ Becomes(e, [exec[e] EXCEPT !.at = "removing", !.hit = FALSE, !.raised = TRUE])
    /\ ExecutionUnchanged /\ EngineUnchanged

Killed(proc) == IF proc = "up" THEN "nonzero" ELSE proc

\* _halt, first half: the container.
HaltRemoves(e) ==
    /\ exec[e].at = "removing"
    /\ IF exec[e].hit
       THEN /\ Becomes(e, [exec[e] EXCEPT !.at = "joining", !.hit = FALSE, !.raised = TRUE])
            /\ RemovesSome({Box(e)})
       ELSE /\ Becomes(e, [exec[e] EXCEPT !.at = "reaping"])
            /\ Removes({Box(e)})
    /\ ExecutionUnchanged

\* Mutant: a client that does not exit is waited for without a bound.
Bug_HaltReaps(e) ==
    /\ exec[e].at = "reaping" /\ exec[e].proc # "up"
    /\ Becomes(e, [exec[e] EXCEPT !.at = "joining", !.hit = FALSE])
    /\ ExecutionUnchanged /\ EngineUnchanged

\* _halt, second half: kill_and_reap, which swallows a cancellation.
HaltReaps(e) ==
    /\ exec[e].at = "reaping"
    /\ Becomes(e, [exec[e] EXCEPT !.at = "joining", !.hit = FALSE, !.proc = Killed(@)])
    /\ ExecutionUnchanged /\ EngineUnchanged

\* The finally of _run_phase: the attendant is cancelled and joined, a halt in
\* flight is waited for.  Each of the waits swallows a cancellation.
Join(e) ==
    /\ exec[e].at = "joining" /\ (exec[e].halting => exec[e].hit)
    /\ IF exec[e].erred THEN Becomes(e, Failing)
       ELSE IF exec[e].raised THEN Raised(e)
       ELSE Becomes(e, [exec[e] EXCEPT !.at = "observing", !.hit = FALSE, !.halting = FALSE])
    /\ ExecutionUnchanged /\ EngineUnchanged

Seen(e) == {s \in {"cancelled", "budget_exceeded", "timed_out"} :
              \/ s = "cancelled" /\ exec[e].told # "no"
              \/ s = "budget_exceeded" /\ exec[e].overspent
              \/ s = "timed_out" /\ exec[e].timedOut}

\* What the engine reports: the exit of the container of that name, whoever
\* started it; without a container the client's own, and a refusal means that
\* nothing started.
Reported(e) ==
    IF boxes[Box(e)] = 0 THEN {exec[e].proc}
    ELSE IF boxes[Box(e)] = e THEN {exec[e].proc} ELSE {"zero", "nonzero"}

Observe(e) ==
    /\ exec[e].at = "observing"
    /\ IF exec[e].hit THEN Raised(e)
       ELSE \E exit \in Reported(e) :
              Completes(e, exit, Seen(e)
                           \cup (IF exit = "refused" THEN {"startup_error"} ELSE {})
                           \cup (IF exit = "zero" THEN {} ELSE {"exit_code"}))
    /\ ExecutionUnchanged /\ EngineUnchanged

\* _collect: git is asked what was done, or cannot say.  What it finds is left out.
Collect(e) ==
    /\ exec[e].at = "collecting"
    /\ IF exec[e].hit THEN Becomes(e, Unwinding)
       ELSE \E found \in {{}, {"startup_error"}} :
              Becomes(e, [exec[e] EXCEPT !.at = "teardown", !.completion = @ \cup found])
    /\ ExecutionUnchanged /\ EngineUnchanged

\* Mutant: only the container of the phase that ran last.
Bug_Allocated(e) == {<<Key(e), "agent">>}

\* What _teardown gives back.
Allocated(e) == Boxes(e)

Teardown(e) ==
    /\ exec[e].at = "teardown"
    /\ IF exec[e].hit
       THEN Ends(e, "cancelled", Unsettled) /\ RemovesSome(Allocated(e))
       ELSE /\ IF exec[e].raised THEN Ends(e, "cancelled", Unsettled)
               ELSE IF exec[e].erred THEN Ends(e, "failed", Unsettled)
               ELSE Ends(e, "answered", classify(exec[e].completion))
            /\ Removes(Allocated(e))
    /\ ExecutionUnchanged

-----------------------------------------------------------------------------
(* The tasks beside it *)

\* _attend: a poll that finds the stop latches it ...
Hears(e) ==
    /\ exec[e].at \in Attended /\ exec[e].told = "no" /\ Key(e) \in signal
    /\ Becomes(e, [exec[e] EXCEPT !.told = "heard"])
    /\ ExecutionUnchanged /\ EngineUnchanged

\* Mutant: the container is removed and the client is left alone.
Bug_AttendantHalts(e) ==
    /\ exec[e].at \in Attended /\ exec[e].told = "heard"
    /\ Removes({Box(e)})
    /\ Becomes(e, [exec[e] EXCEPT !.told = "halted",
                                  !.proc = IF boxes'[Box(e)] = 0 THEN Killed(@) ELSE @])
    /\ ExecutionUnchanged

\* ... and halts the run, once, which is what ends the drive.
AttendantHalts(e) ==
    /\ exec[e].at \in Attended /\ exec[e].told = "heard"
    /\ Removes({Box(e)})
    /\ Becomes(e, [exec[e] EXCEPT !.told = "halted", !.proc = Killed(@)])
    /\ ExecutionUnchanged

\* The line that goes over the budget starts a halt.  The setup has no budget.
Overspends(e) ==
    /\ exec[e].at = "driving" /\ exec[e].phase = "agent"
    /\ exec[e].proc = "up" /\ ~exec[e].overspent
    /\ Becomes(e, [exec[e] EXCEPT !.overspent = TRUE, !.halting = TRUE])
    /\ ExecutionUnchanged /\ EngineUnchanged

BudgetHalts(e) ==
    /\ exec[e].at \in Attended \cup {"joining"} /\ exec[e].halting
    /\ Removes({Box(e)})
    /\ Becomes(e, [exec[e] EXCEPT !.halting = FALSE, !.proc = Killed(@)])
    /\ ExecutionUnchanged

-----------------------------------------------------------------------------
(* The environment *)

AgentExits(e) ==
    /\ exec[e].at \in Attended /\ exec[e].proc = "up"
    /\ \E exit \in {"zero", "nonzero"} : Becomes(e, [exec[e] EXCEPT !.proc = exit])
    /\ ExecutionUnchanged /\ EngineUnchanged

\* The operator stops the run, in the store.
StopsRun(k) ==
    /\ k \notin signal
    /\ signal' = signal \cup {k}
    /\ UNCHANGED <<calls, exec, inflight, settled, stopping, promised>>
    /\ EngineUnchanged

\* The control plane is killed.  Containers are the engine's and survive it.
Crash ==
    /\ faults < MaxFaults /\ \E e \in Calls : Live(e)
    /\ faults' = faults + 1
    /\ calls' = [c \in Calls |-> IF calls[c].at \notin {"waiting", "unwinding"} THEN calls[c]
                                ELSE IF Mine(c) THEN [calls[c] EXCEPT !.at = "dead"]
                                ELSE Nobody]
    /\ exec' = [e \in Calls |-> IF Live(e) THEN [Idle EXCEPT !.at = "dead"] ELSE exec[e]]
    /\ inflight' = [k \in Keys |-> 0]
    /\ settled' = [k \in Keys |-> Unsettled]
    /\ stopping' = {}
    /\ UNCHANGED <<signal, promised, boxes, missed>>

-----------------------------------------------------------------------------

\* The steps of an execution's own task.
Execute(e) ==
    \/ Check(e) \/ Prepare(e) \/ Spawn(e) \/ Drive(e) \/ Interrupted(e)
    \/ HaltRemoves(e) \/ HaltReaps(e) \/ Join(e) \/ Observe(e)
    \/ Collect(e) \/ Teardown(e)

Attend(e) == Hears(e) \/ AttendantHalts(e)

Next ==
    \/ \E c \in Calls : \/ \E k \in Keys : dispatch(c, k)
                       \/ Answered(c) \/ GivesUp(c) \/ Unwound(c)
    \/ \E k \in Keys : cancel(k) \/ StopsRun(k)
    \/ \E e \in Calls : \/ Execute(e) \/ Attend(e) \/ TimesOut(e) \/ DriveFails(e)
                       \/ Overspends(e) \/ BudgetHalts(e) \/ AgentExits(e)
    \/ Crash

Spec == Init /\ [][Next]_vars

\* The event loop runs every task that can run, and the control plane is polled
\* for as long as a phase lasts.  Nothing is assumed of the agent, which may
\* never exit, nor of a clock, which a request need not have.
Fairness ==
    /\ \A e \in Calls : WF_vars(Execute(e)) /\ WF_vars(Attend(e)) /\ WF_vars(BudgetHalts(e))
    /\ \A c \in Calls : WF_vars(Answered(c)) /\ WF_vars(Unwound(c))

FairSpec == Spec /\ Fairness

-----------------------------------------------------------------------------
(* Properties *)

\* However many deliveries of an attempt there are, given up or not, it runs as
\* one execution at a time.
OneExecutionAtATime ==
    \A d, e \in Calls : Live(d) /\ Live(e) /\ Key(d) = Key(e) => d = e

\* A phase never meets a container of an earlier execution (it would be refused
\* its name and report that container's exit), unless the engine did not do a
\* removal it was asked for.
NoForeignContainer ==
    \A e \in Calls : exec[e].at \in InPhase =>
        boxes[Box(e)] \in {0, e} \/ Box(e) \in missed

\* An attempt that has given an answer has left no container, of either phase,
\* unless the engine did not do a removal it was asked for.
AnsweredLeavesNothing ==
    \A b \in Keys \X Phases : boxes[b] # 0 /\ exec[boxes[b]].at = "answered" => b \in missed

\* A run ends cancelled only because the caller that started it gave up, or
\* because cancel() said so: a redelivery that gives up stops nothing.
OnlyTheOwnerOrAStopEndsARun ==
    \A e \in Calls : exec[e].at = "cancelled" =>
        calls[e].at \in {"unwinding", "cancelled", "dead"} \/ e \in promised

\* CANCELLED, which nobody retries, is answered only for an attempt that somebody
\* stopped; a stage that ran out of time is not one of them.
CancelledMeansStopped ==
    \A e \in Calls : exec[e].at = "answered" /\ exec[e].answer = "CANCELLED" =>
        e \in promised \/ Key(e) \in signal

InFlight(k) == \E e \in Calls : Live(e) /\ Key(e) = k

\* A run the control plane is told to stop ends, whatever its agent, its clock
\* and the container engine do.
StopIsHonoured ==
    \A k \in Keys : (InFlight(k) /\ k \in signal) ~> ~InFlight(k)

\* With a wall clock, a caller that gives up is let go, whatever the agent and
\* the container engine do.
WallClock == \A e \in Calls : WF_vars(TimesOut(e))
GivingUpEnds ==
    WallClock => \A c \in Calls : (calls[c].at = "unwinding") ~> (calls[c].at # "unwinding")
=============================================================================
