---------------------------- MODULE RunLifecycle ----------------------------
(***************************************************************************)
(* One run, from the first row to the last: the executor                   *)
(* (engine/executor.py) writing through the durable ledger                 *)
(* (store/ledger.py) into the state store (store/state.py), processes that *)
(* crash and are resumed by an operator, the watchdog (store/watchdog.py)  *)
(* in a process of its own, and the operator steering or stopping the run  *)
(* (store/control.py).                                                     *)
(*                                                                         *)
(* An action is one transaction, or one step between two of them.  Time is *)
(* kept as ages: Tick makes everything one unit older, and an instant that *)
(* a process read earlier is the age ("lag") that instant has by now.      *)
(***************************************************************************)
EXTENDS RunRecord, ControlStore

CONSTANTS
    Stages,          \* number of stages; a stage is its position in the workflow
    Limit,           \* [1..Stages -> Nat \cup {NoLimit}]: timeout_seconds
    NoLimit,         \* the stage declares no timeout
    MaxAttempts,     \* [1..Stages -> Nat \ {0}]: retry.max_attempts
    Continue,        \* stages with on_error: continue
    Guarded,         \* stages with a "when" that may be false
    Faulty,          \* stages whose "when" may fail to evaluate
    Steered,         \* stages whose runner is handed a ControlPort
    Executors,       \* processes that execute the run
    Sweepers,        \* processes that run the watchdog
    DefaultLimit, HeartbeatLimit, SilenceLimit,  \* the watchdog's budgets
    AgeCap,          \* ages saturate here; 0 switches time off
    SweepSpan,       \* no sweep of the watchdog lasts longer
    MaxOpens,        \* bound: executions of the run
    UpdateRetries,   \* OPTIMISTIC_RETRIES
    Overlap,         \* may a run be resumed while another process executes it?
    Prompt,          \* does every live executor keep the watchdog's limits?
    OperatorStops    \* may an operator ask the run to stop?

StageIds == 1..Stages

ASSUME LifecycleAssumption ==
    /\ Stages \in Nat /\ AgeCap \in Nat /\ MaxOpens \in Nat
    /\ UpdateRetries \in Nat \ {0}
    /\ NoLimit \notin Nat
    /\ Limit \in [StageIds -> Nat \cup {NoLimit}]
    /\ MaxAttempts \in [StageIds -> Nat \ {0}]
    /\ Continue \subseteq StageIds /\ Guarded \subseteq StageIds
    /\ Faulty \subseteq StageIds /\ Steered \subseteq StageIds
    /\ DefaultLimit \in Nat /\ HeartbeatLimit \in Nat /\ SilenceLimit \in Nat
    /\ SweepSpan \in Nat
    /\ Overlap \in BOOLEAN /\ Prompt \in BOOLEAN /\ OperatorStops \in BOOLEAN

VARIABLES
    run,     \* the row of "runs"; beat is the age of updated_at
    steps,   \* [StageIds -> Seq(StepRow)]: the rows of "steps"
    log,     \* the audit log, folded (RunRecord)
    pc,      \* [Executors -> where the process is in execute()]
    memo,    \* [Executors -> what its SqliteLedger remembers]
    loop,    \* [Executors -> the locals of execute() and _run_stage()]
    lag,     \* [Executors -> age of the instant it last read from the clock]
    copy,    \* [Executors -> the row update_run read, for _attach_repo]
    sweep,   \* [Sweepers -> where a sweep is, its stalls, the age of its "now"]
    opens    \* bound counter

vars == <<run, steps, log, pc, memo, loop, lag, copy, sweep, opens, controlVars>>

Rows == <<run, steps, log>>
Private == <<memo, loop, lag, copy>>

-----------------------------------------------------------------------------
Younger(a, b) == IF a <= b THEN a ELSE b
Older(a) == IF a < AgeCap THEN a + 1 ELSE a

\* A process in the stage loop: it has opened the run and not yet closed it.
Executing == {"next", "retry", "handling", "claiming", "stopping"}
Attached == {"attach", "attachWrite"}
Where == {"idle", "opening", "announce", "loading"} \cup Executing \cup Attached

\* Mutant: a step that declares no timeout has none, DEFAULT_STEP_SECONDS dropped.
Bug_LimitOf(s) == IF Limit[s] = NoLimit THEN AgeCap ELSE Limit[s]

LimitOf(s) == IF Limit[s] = NoLimit THEN DefaultLimit ELSE Limit[s]

Live(e) == pc[e] \in Executing

NoRow == [status |-> "absent", finished |-> FALSE, beat |-> 0,
          repo |-> FALSE, version |-> 0]

NoMemo == [final |-> [s \in StageIds |-> "none"], highest |-> [s \in StageIds |-> 0]]
NoLoop == [stage |-> 1, attempt |-> 0, tries |-> 0, stopped |-> FALSE]

Idle == [phase |-> "idle", stalls |-> {}, late |-> FALSE, lag |-> 0]

\* A stall of the run itself names no step.
Stall == [kind : {"step", "silent"}, stage : StageIds, row : Nat]
         \cup [kind : {"run"}, stage : {0}, row : {0}]

Sweep == [phase : {"idle", "scanned", "listed", "recovering"},
          stalls : SUBSET Stall, late : BOOLEAN, lag : Nat]

RunRow == [status : RunStatus, finished : BOOLEAN, beat : Nat, repo : BOOLEAN,
           version : Nat]

Memo == [final : [StageIds -> StepStatus \cup {"none"}], highest : [StageIds -> Nat]]

Loop == [stage : 1..Stages + 1, attempt : Nat, tries : Nat, stopped : BOOLEAN]

LifecycleTypeOK ==
    /\ run \in RunRow
    /\ steps \in [StageIds -> Seq(StepRow)]
    /\ pc \in [Executors -> Where]
    /\ memo \in [Executors -> Memo]
    /\ loop \in [Executors -> Loop]
    /\ lag \in [Executors -> Nat]
    /\ copy \in [Executors -> RunRow]
    /\ sweep \in [Sweepers -> Sweep]
    /\ opens \in Nat

TypeOK == LifecycleTypeOK /\ ControlTypeOK

Init ==
    /\ run = NoRow
    /\ steps = [s \in StageIds |-> <<>>]
    /\ log = NoProjection(StageIds)
    /\ pc = [e \in Executors |-> "idle"]
    /\ memo = [e \in Executors |-> NoMemo]
    /\ loop = [e \in Executors |-> NoLoop]
    /\ lag = [e \in Executors |-> 0]
    /\ copy = [e \in Executors |-> NoRow]
    /\ sweep = [w \in Sweepers |-> Idle]
    /\ opens = 0
    /\ ControlInit

-----------------------------------------------------------------------------
(* store/state.py, inside a transaction of the caller *)

\* updated_at = MAX(updated_at, at), no version
touch_run(at) == run' = [run EXCEPT !.beat = Younger(@, at)]

\* update_run where nothing can come between its read and its write
Rewritten(status, finished, at) ==
    [run EXCEPT !.status = status, !.finished = finished, !.beat = at,
                !.version = @ + 1]

Goto(e, place) == pc' = [pc EXCEPT ![e] = place]

\* What a dead process leaves: nothing of its own.
Forget(e) ==
    /\ Goto(e, "idle")
    /\ memo' = [memo EXCEPT ![e] = NoMemo]
    /\ loop' = [loop EXCEPT ![e] = NoLoop]
    /\ lag' = [lag EXCEPT ![e] = 0]
    /\ copy' = [copy EXCEPT ![e] = NoRow]

-----------------------------------------------------------------------------
(* Opening *)

\* `clawdence run`, `clawdence work`, or `run --resume` once the row exists:
\* execute() reads the clock.  A new id is minted, so only its minter opens it.
Enter(e) ==
    /\ pc[e] = "idle"
    /\ opens < MaxOpens
    /\ Overlap \/ \A d \in Executors : pc[d] = "idle"
    /\ run.status = "absent" => \A d \in Executors : pc[d] # "opening"
    /\ opens' = opens + 1
    /\ Goto(e, "opening")
    /\ lag' = [lag EXCEPT ![e] = 0]
    /\ UNCHANGED <<Rows, memo, loop, copy, sweep, controlVars>>

\* open_run of a new run, first transaction: create_run
create_run(e) ==
    /\ pc[e] = "opening"
    /\ run.status = "absent"
    /\ run' = [NoRow EXCEPT !.status = "running", !.beat = lag[e]]
    /\ Goto(e, "announce")
    /\ UNCHANGED <<steps, log, Private, sweep, opens, controlVars>>

\* ... and second transaction: RUN_STARTED
announce_run(e) ==
    /\ pc[e] = "announce"
    /\ log' = fold_run_started(log, FALSE)
    /\ Goto(e, "next")
    /\ UNCHANGED <<run, steps, Private, sweep, opens, controlVars>>

\* open_run of a stored run: _reconcile, status, RUN_STARTED in one transaction
resume_run(e) ==
    /\ pc[e] = "opening"
    /\ run.status # "absent"
    /\ inbox' = abandon
    /\ cancel' = NoCancel
    /\ steps' = [s \in StageIds |-> SettleRunning(steps[s], "cancelled", "interrupted")]
    /\ log' = fold_run_started(fold_interrupted(log, StageIds, steps), TRUE)
    /\ run' = Rewritten("running", FALSE, lag[e])
    /\ Goto(e, "loading")
    /\ UNCHANGED <<Private, sweep, opens, handed>>

\* ... then _load, a read of its own: another process may have written by then.
load_run(e) ==
    /\ pc[e] = "loading"
    /\ memo' = [memo EXCEPT ![e] = [final |-> [s \in StageIds |-> Loaded(steps[s])],
                                    highest |-> [s \in StageIds |-> Highest(steps[s])]]]
    /\ Goto(e, "next")
    /\ UNCHANGED <<Rows, loop, lag, copy, sweep, opens, controlVars>>

-----------------------------------------------------------------------------
(* The stage loop *)

OnStage(e) == pc[e] = "next" /\ loop[e].stage <= Stages

\* Mutant: the number already used, off by one.
Bug_next_attempt(e) == memo[e].highest[loop[e].stage]

next_attempt(e) == memo[e].highest[loop[e].stage] + 1

\* Mutant: a failure no longer stops the run.
Bug_NextStage(e, stopped) ==
    [loop EXCEPT ![e] = [NoLoop EXCEPT !.stage = loop[e].stage + 1]]

NextStage(e, stopped) ==
    [loop EXCEPT ![e] = [NoLoop EXCEPT !.stage = loop[e].stage + 1, !.stopped = stopped]]

Noted(e, s, attempt) ==
    [memo[e] EXCEPT !.highest[s] = IF @ < attempt THEN attempt ELSE @]

\* SqliteLedger.record: the settled row, the heartbeat, the event, the memory.
\* "at" is the clock, read just before.
record(e, s, row) ==
    /\ steps' = [steps EXCEPT ![s] = finish_step(@, row)]
    /\ touch_run(0)
    /\ log' = fold_step_ended(log, s, row.attempt, row.status, row.error)
    /\ memo' = [memo EXCEPT ![e] =
                   [Noted(e, s, row.attempt) EXCEPT !.final[s] = row.status]]

skip_succeeded(e) ==
    /\ OnStage(e)
    /\ memo[e].final[loop[e].stage] = "succeeded"
    /\ loop' = NextStage(e, loop[e].stopped)
    /\ UNCHANGED <<Rows, pc, memo, lag, copy, sweep, opens, controlVars>>

ToRun(e) == OnStage(e) /\ memo[e].final[loop[e].stage] # "succeeded"

\* An earlier stage stopped the run, or the stage's own guard was false.
record_skipped(e) ==
    LET s == loop[e].stage IN
    /\ ToRun(e)
    /\ loop[e].stopped \/ s \in Guarded
    /\ record(e, s, NewRow(next_attempt(e), "skipped", FALSE, "skipped"))
    /\ loop' = NextStage(e, loop[e].stopped)
    /\ UNCHANGED <<pc, lag, copy, sweep, opens, controlVars>>

record_guard_error(e) ==
    LET s == loop[e].stage IN
    /\ ToRun(e)
    /\ ~loop[e].stopped /\ s \in Faulty
    /\ record(e, s, NewRow(next_attempt(e), "failed", TRUE, "condition-error"))
    /\ loop' = NextStage(e, s \notin Continue)
    /\ UNCHANGED <<pc, lag, copy, sweep, opens, controlVars>>

\* SqliteLedger.begin: the first try of a stage, or its next.
Begins(e, attempt, tries) ==
    LET s == loop[e].stage IN
    /\ ~Collides(steps[s], attempt)
    /\ steps' = [steps EXCEPT ![s] = Append(@, NewRow(attempt, Running, TRUE, "none"))]
    /\ touch_run(0)
    /\ log' = fold_step_started(log, s, attempt, Limit[s] # NoLimit)
    /\ memo' = [memo EXCEPT ![e] = Noted(e, s, attempt)]
    /\ loop' = [loop EXCEPT ![e].attempt = attempt, ![e].tries = tries]
    /\ lag' = [lag EXCEPT ![e] = 0]
    /\ Goto(e, "handling")
    /\ UNCHANGED <<copy, sweep, opens, controlVars>>

begin(e) == ToRun(e) /\ ~loop[e].stopped /\ Begins(e, next_attempt(e), 1)

begin_retry(e) ==
    pc[e] = "retry" /\ Begins(e, loop[e].attempt + 1, loop[e].tries + 1)

\* start_step found the attempt already recorded: DuplicateAttemptError leaves
\* execute(), and the process with it.
begin_collides(e) ==
    /\ \/ /\ ToRun(e) /\ ~loop[e].stopped
          /\ Collides(steps[loop[e].stage], next_attempt(e))
       \/ /\ pc[e] = "retry"
          /\ Collides(steps[loop[e].stage], loop[e].attempt + 1)
    /\ Forget(e)
    /\ UNCHANGED <<Rows, sweep, opens, controlVars>>

(***************************************************************************)
(* The handler is over: record it, then retry, stop the run or go on.      *)
(***************************************************************************)
Finish(e, status, error, retryable) ==
    LET s == loop[e].stage
        again == retryable /\ loop[e].tries < MaxAttempts[s]
    IN  /\ record(e, s, NewRow(loop[e].attempt, status, TRUE, error))
        /\ Goto(e, IF again THEN "retry" ELSE "next")
        /\ loop' = IF again THEN loop
                   ELSE NextStage(e, status \in Unsuccessful /\ s \notin Continue)
        /\ UNCHANGED <<lag, copy, sweep, opens, controlVars>>

handler_succeeds(e) ==
    pc[e] = "handling" /\ Finish(e, "succeeded", "none", FALSE)

\* StepFailure.  A runner told to stop reports "cancelled", which is final.
handler_fails(e) ==
    \/ pc[e] = "handling" /\ \E retryable \in BOOLEAN : Finish(e, "failed", "failure", retryable)
    \/ pc[e] = "stopping" /\ Finish(e, "failed", "failure", FALSE)

\* asyncio.wait_for
handler_times_out(e) ==
    /\ pc[e] \in {"handling", "stopping"}
    /\ Limit[loop[e].stage] # NoLimit /\ lag[e] >= Limit[loop[e].stage]
    /\ Finish(e, "timed_out", "timeout", TRUE)

close_run(e) ==
    /\ pc[e] = "next" /\ loop[e].stage > Stages
    /\ LET status == IF loop[e].stopped THEN "halted" ELSE "done"
       IN  /\ run' = Rewritten(status, TRUE, 0)
           /\ log' = fold_run_ended(log, status)
    /\ inbox' = close
    /\ Goto(e, "attach")
    /\ UNCHANGED <<steps, Private, sweep, opens, handed, cancel>>

-----------------------------------------------------------------------------
(* After execute(): the pipeline's _attach_repo, an update_run with no     *)
(* transaction around it; `clawdence run` has nothing left to do.          *)

attach_read(e) ==
    /\ pc[e] = "attach"
    /\ loop[e].tries < UpdateRetries
    /\ copy' = [copy EXCEPT ![e] = run]
    /\ loop' = [loop EXCEPT ![e].tries = @ + 1]
    /\ Goto(e, "attachWrite")
    /\ UNCHANGED <<Rows, memo, lag, sweep, opens, controlVars>>

\* Mutant: the conditional write without "AND version = ?".
Bug_attach_write(e) ==
    /\ pc[e] = "attachWrite"
    /\ run' = [copy[e] EXCEPT !.repo = TRUE, !.version = @ + 1]
    /\ Forget(e)
    /\ UNCHANGED <<steps, log, sweep, opens, controlVars>>

attach_write(e) ==
    /\ pc[e] = "attachWrite"
    /\ run.version = copy[e].version
    /\ run' = [copy[e] EXCEPT !.repo = TRUE, !.version = @ + 1]
    /\ Forget(e)
    /\ UNCHANGED <<steps, log, sweep, opens, controlVars>>

\* Somebody else wrote the row: read it again.
attach_conflict(e) ==
    /\ pc[e] = "attachWrite"
    /\ run.version # copy[e].version
    /\ Goto(e, "attach")
    /\ UNCHANGED <<Rows, Private, sweep, opens, controlVars>>

\* The end of the process: ConcurrentUpdateError, or nothing to attach.
leave(e) ==
    /\ pc[e] = "attach"
    /\ Forget(e)
    /\ UNCHANGED <<Rows, sweep, opens, controlVars>>

\* Any process dies anywhere, or is killed, or an exception leaves execute().
Crash(e) ==
    /\ pc[e] # "idle"
    /\ Forget(e)
    /\ UNCHANGED <<Rows, sweep, opens, controlVars>>

-----------------------------------------------------------------------------
(* The runner attending a steered stage: AgentRunner._attend               *)

Attends(e) == pc[e] = "handling" /\ loop[e].stage \in Steered

\* heartbeat: the instant the newest line arrived, since the step began
heartbeat(e) ==
    /\ Attends(e)
    /\ \E at \in 0..lag[e] : touch_run(at)
    /\ UNCHANGED <<steps, log, pc, Private, sweep, opens, controlVars>>

\* StoreControl.poll, the read; a pending cancel is acknowledged and obeyed.
poll(e) ==
    /\ Attends(e)
    /\ IF cancel = NoCancel
       THEN Goto(e, "claiming") /\ UNCHANGED cancel
       ELSE Goto(e, "stopping") /\ acknowledge
    /\ UNCHANGED <<Rows, Private, sweep, opens, inbox, handed>>

\* ... and the claim, a transaction of its own.
poll_claim(e) ==
    /\ pc[e] = "claiming"
    /\ claim
    /\ Goto(e, "handling")
    /\ UNCHANGED <<Rows, Private, sweep, opens>>

-----------------------------------------------------------------------------
(* The watchdog: detect() reads in three steps, nothing holds the database *)
(* still between them, and recover() then acts stall by stall.  The code   *)
(* recovers in order of started_at; here any order will do.                *)

\* Mutant: overdue on the limit instead of past it.
Bug_Overdue(s, i) == steps[s][i].age >= LimitOf(s)

Overdue(s, i) == steps[s][i].age > LimitOf(s)

\* Nothing heard since the later of the heartbeat and the start of the step.
Silent(s, i) ==
    /\ run.status = "running" /\ cancel = NoCancel
    /\ Younger(run.beat, steps[s][i].age) > SilenceLimit

InFlight == UNION {{s} \X RunningIn(steps[s]) : s \in StageIds}

StallOf(kind, at) == [kind |-> kind, stage |-> at[1], row |-> at[2]]
TheRun == <<0, 0>>

Sweeping(w, phase, stalls) ==
    sweep' = [sweep EXCEPT ![w].phase = phase, ![w].stalls = stalls]

Recovering(w, stalls) ==
    sweep' = [sweep EXCEPT ![w] =
        IF stalls = {} THEN Idle ELSE [@ EXCEPT !.phase = "recovering", !.stalls = stalls]]

\* the steps in flight: overdue, or inside their limit and silent
detect_steps(w) ==
    LET overdue == {at \in InFlight : Overdue(at[1], at[2])}
        silent == {at \in InFlight \ overdue : Silent(at[1], at[2])}
    IN  /\ sweep[w].phase = "idle"
        /\ Sweeping(w, "scanned", {StallOf("step", at) : at \in overdue}
                                   \cup {StallOf("silent", at) : at \in silent})
        /\ UNCHANGED <<Rows, pc, Private, opens, controlVars>>

\* Mutant: every run is listed, whatever its status.
Bug_detect_run_row(w) ==
    /\ sweep[w].phase = "scanned"
    /\ IF \A x \in sweep[w].stalls : x.kind # "step"
       THEN sweep' = [sweep EXCEPT ![w].phase = "listed",
                          ![w].late = run.beat > HeartbeatLimit + sweep[w].lag]
       ELSE Recovering(w, sweep[w].stalls)
    /\ UNCHANGED <<Rows, pc, Private, opens, controlVars>>

\* list_runs(status=RUNNING), and how old its heartbeat is
detect_run_row(w) ==
    /\ sweep[w].phase = "scanned"
    /\ IF run.status = "running" /\ \A x \in sweep[w].stalls : x.kind # "step"
       THEN sweep' = [sweep EXCEPT ![w].phase = "listed",
                          ![w].late = run.beat > HeartbeatLimit + sweep[w].lag]
       ELSE Recovering(w, sweep[w].stalls)
    /\ UNCHANGED <<Rows, pc, Private, opens, controlVars>>

\* running_steps(run_id): a run with a step in flight is not stalled
detect_run(w) ==
    /\ sweep[w].phase = "listed"
    /\ Recovering(w, sweep[w].stalls \cup
           IF InFlight = {} /\ sweep[w].late THEN {StallOf("run", TheRun)} ELSE {})
    /\ UNCHANGED <<Rows, pc, Private, opens, controlVars>>

Recovered(w, stall) == Recovering(w, sweep[w].stalls \ {stall})

\* _ask_to_stop: Cancellations.request, audited when it won
recover_silent(w, stall) ==
    /\ stall.kind = "silent"
    /\ request("watchdog")
    /\ log' = IF cancel = NoCancel THEN fold_run_ended(log, "cancelled") ELSE log
    /\ UNCHANGED <<run, steps, inbox, handed>>

\* _time_out every running row of the stage, then _halt
recover_step(w, stall) ==
    LET s == stall.stage IN
    /\ stall.kind = "step"
    /\ steps' = [steps EXCEPT ![s] = SettleRunning(@, "timed_out", "watchdog-timeout")]
    /\ log' = fold_unmodelled(fold_watchdog_timeouts(log, s, steps[s]))
    /\ run' = Rewritten("halted", TRUE, sweep[w].lag)
    /\ UNCHANGED controlVars

recover_run(w, stall) ==
    /\ stall.kind = "run"
    /\ log' = fold_unmodelled(log)
    /\ run' = Rewritten("halted", TRUE, sweep[w].lag)
    /\ UNCHANGED <<steps, controlVars>>

recover(w) ==
    /\ sweep[w].phase = "recovering"
    /\ \E stall \in sweep[w].stalls :
          /\ recover_silent(w, stall) \/ recover_step(w, stall) \/ recover_run(w, stall)
          /\ Recovered(w, stall)
    /\ UNCHANGED <<pc, Private, opens>>

WatchdogCrash(w) ==
    /\ sweep[w].phase # "idle"
    /\ sweep' = [sweep EXCEPT ![w] = Idle]
    /\ UNCHANGED <<Rows, pc, Private, opens, controlVars>>

-----------------------------------------------------------------------------
(* The operator, and time *)

Send ==
    /\ run.status # "absent"
    /\ \E priority \in Priorities : send(priority)
    /\ UNCHANGED <<Rows, pc, Private, sweep, opens>>

RequestStop ==
    /\ OperatorStops /\ run.status # "absent" /\ cancel = NoCancel
    /\ request("operator")
    /\ log' = fold_run_ended(log, "cancelled")
    /\ UNCHANGED <<run, steps, pc, Private, sweep, opens, inbox, handed>>

\* Prompt: a step is over before its limit is exceeded, and between two of its
\* steps a live executor is never silent for longer than the heartbeat.
InTime(e) ==
    CASE pc[e] \in {"handling", "claiming", "stopping"} -> lag[e] < LimitOf(loop[e].stage)
      [] pc[e] \in {"next", "retry", "announce", "loading"} -> run.beat < HeartbeatLimit
      [] pc[e] = "opening" -> lag[e] < HeartbeatLimit
      [] OTHER -> TRUE

Tick ==
    /\ Prompt => \A e \in Executors : InTime(e)
    /\ \A w \in Sweepers : sweep[w].phase # "idle" => sweep[w].lag < SweepSpan
    /\ run' = [run EXCEPT !.beat = IF run.status = "absent" THEN @ ELSE Older(@)]
    /\ steps' = [s \in StageIds |-> [i \in DOMAIN steps[s] |->
           IF steps[s][i].status = Running THEN [steps[s][i] EXCEPT !.age = Older(@)]
                                           ELSE steps[s][i]]]
    /\ lag' = [e \in Executors |->
           IF pc[e] \in {"opening", "handling", "claiming", "stopping"}
           THEN Older(lag[e]) ELSE lag[e]]
    /\ copy' = [e \in Executors |->
           IF pc[e] = "attachWrite" THEN [copy[e] EXCEPT !.beat = Older(@)] ELSE copy[e]]
    /\ sweep' = [w \in Sweepers |->
           IF sweep[w].phase # "idle" THEN [sweep[w] EXCEPT !.lag = Older(@)] ELSE sweep[w]]
    /\ UNCHANGED <<log, pc, memo, loop, opens, controlVars>>

-----------------------------------------------------------------------------
Execute(e) ==
    \/ Enter(e) \/ create_run(e) \/ announce_run(e)
    \/ resume_run(e) \/ load_run(e)
    \/ skip_succeeded(e) \/ record_skipped(e) \/ record_guard_error(e)
    \/ begin(e) \/ begin_retry(e) \/ begin_collides(e)
    \/ handler_succeeds(e) \/ handler_fails(e) \/ handler_times_out(e)
    \/ close_run(e)
    \/ attach_read(e) \/ attach_write(e) \/ attach_conflict(e) \/ leave(e)
    \/ Crash(e)
    \/ heartbeat(e) \/ poll(e) \/ poll_claim(e)

Watch(w) ==
    \/ detect_steps(w) \/ detect_run_row(w) \/ detect_run(w)
    \/ recover(w)
    \/ WatchdogCrash(w)

Next ==
    \/ \E e \in Executors : Execute(e)
    \/ \E w \in Sweepers : Watch(w)
    \/ Send \/ RequestStop
    \/ Tick

Spec == Init /\ [][Next]_vars
-----------------------------------------------------------------------------
(***************************************************************************)
(* Attempt numbers are global to a stage: whatever crashes, is resumed,    *)
(* retried, skipped or executed twice at once, the rows of a stage carry   *)
(* the attempts 1, 2, 3, ... with no gap and no repetition.                *)
(***************************************************************************)
AttemptsAreContiguous ==
    \A s \in StageIds : \A i \in DOMAIN steps[s] : steps[s][i].attempt = i

(***************************************************************************)
(* Stages run one after the other, and a resume settles what a dead        *)
(* process left: at most one row of the run claims to be running.          *)
(***************************************************************************)
OneStepInFlight == Cardinality(InFlight) <= 1

(***************************************************************************)
(* A run is "done" only over a settled record: the result that counts of   *)
(* every stage is a success, a skip its own guard decided, or a failure    *)
(* the workflow declared non-fatal.                                        *)
(***************************************************************************)
DoneAccountsForEveryStage ==
    run.status = "done" =>
        \A s \in StageIds :
            \/ Final(steps[s]) = "succeeded"
            \/ Final(steps[s]) = "skipped" /\ s \in Guarded
            \/ Final(steps[s]) \in Unsuccessful /\ s \in Continue

(***************************************************************************)
(* "The only thing worth trusting from a dead process is work it           *)
(* finished": once an attempt succeeded, no crash, resume or sweep changes *)
(* its row and the stage gets no further attempt.                          *)
(***************************************************************************)
FinishedWorkIsKept ==
    [][\A s \in StageIds :
          "succeeded" \in {steps[s][i].status : i \in DOMAIN steps[s]}
              => steps'[s] = steps[s]]_vars

(***************************************************************************)
(* A run that is done has nothing open: no step in flight, and no message  *)
(* still recorded as delivered to a process that will not act on it.       *)
(***************************************************************************)
DoneLeavesNothingOpen ==
    run.status = "done" =>
        InFlight = {} /\ \A i \in DOMAIN inbox : inbox[i].state # "delivered"

(***************************************************************************)
(* _attach_repo writes a row it read earlier, outside a transaction: it    *)
(* never undoes the status another process gave the run in between.        *)
(***************************************************************************)
AttachKeepsTheVerdict ==
    [][\A e \in Executors :
          pc[e] = "attachWrite" /\ pc'[e] = "idle"
              => run'.status = run.status /\ run'.finished = run.finished]_vars

\* A sweep that will halt the run, or is about to find that it should.
Accuses(w) == sweep[w].late \/ \E x \in sweep[w].stalls : x.kind # "silent"

(***************************************************************************)
(* What can still move a run that finished, beside a watchdog that acts on *)
(* what it read before (detect, then recover) and a pipeline that writes   *)
(* back a row it read outside any transaction.  Its succeeded stages stay  *)
(* as they are, the late write undoes no verdict, and the watchdog does    *)
(* not turn against a run that is done: such a run is taken from done only *)
(* by an operator who resumes it, or by a sweep that found it stalled      *)
(* BEFORE it was done and now halts it without looking again (see          *)
(* FinishedRunIsNotHalted).                                                *)
(***************************************************************************)
WhatMovesAFinishedRun ==
    /\ FinishedWorkIsKept
    /\ AttachKeepsTheVerdict
    /\ [][run.status = "done" =>
             /\ \A w \in Sweepers : Accuses(w)' => Accuses(w)
             /\ run'.status # "done" =>
                   \/ \E e \in Executors : pc[e] = "opening" /\ pc'[e] = "loading"
                   \/ \E w \in Sweepers : Accuses(w) /\ sweep'[w] # sweep[w]]_vars

(***************************************************************************)
(* "a finished run is never stalled" (tests/store/test_watchdog.py) and    *)
(* recover() is to "Make the state match reality": a run that is done is   *)
(* not halted.  False: recover halts what detect found a moment before,    *)
(* and the run may have finished in between.                               *)
(***************************************************************************)
FinishedRunIsNotHalted == [][run.status = "done" => run'.status # "halted"]_vars

(***************************************************************************)
(* devloop.replay's comparison finds nothing: what the log says of the run *)
(* and of every attempt is what the tables say.                            *)
(***************************************************************************)
Agrees ==
    /\ log.run = run.status /\ log.ended = run.finished /\ log.born = "opened"
    /\ \A s \in StageIds :
          LogView(log.steps[s]) = StateView(steps[s], Limit[s] # NoLimit)

\* Of a run whose RUN_STARTED was written.
LogAgreesWithState == log.born = "opened" => Agrees

(***************************************************************************)
(* "A run whose step is in flight and inside its timeout is not stalled":  *)
(* the watchdog does not halt a run that a live, punctual executor is      *)
(* working on.  (The executor's own close_run moves its pc.)               *)
(***************************************************************************)
TheLivingAreSpared ==
    (\E e \in Executors : Live(e)) /\ pc' = pc /\ run.status = "running"
        => run'.status = "running"

LiveRunIsNotHalted == [][TheLivingAreSpared]_vars

(***************************************************************************)
(* "State and audit commit together": a run that has a row has its start   *)
(* on the log.                                                             *)
(***************************************************************************)
EveryRunIsOnTheLog == run.status # "absent" => log.run # "none"

(***************************************************************************)
(* "A completed run can be replayed from the event log and produces        *)
(* identical state".                                                       *)
(***************************************************************************)
CompletedRunReplays ==
    run.status = "done" /\ log.born = "opened" => Agrees

(***************************************************************************)
(* A run whose process is gone does not stay "running" for ever: unless    *)
(* somebody resumes it, the watchdog halts it.                             *)
(***************************************************************************)
Abandoned == run.status = "running" /\ \A e \in Executors : pc[e] = "idle"

DeadRunIsNoticed == Abandoned ~> ~Abandoned

(***************************************************************************)
(* Time passes, and somebody keeps running `clawdence runs recover`, which *)
(* is one sweep (nothing in the repository runs it periodically yet).  The *)
(* sweeping process may die at any step, but not at the same one for ever. *)
(* Nothing is assumed of executors, of the agent or of whoever stops runs. *)
(***************************************************************************)
Fairness ==
    /\ WF_vars(Tick)
    /\ \A w \in Sweepers :
          /\ WF_vars(detect_steps(w))
          /\ SF_vars(detect_run_row(w)) /\ SF_vars(detect_run(w)) /\ SF_vars(recover(w))

FairSpec == Spec /\ Fairness
=============================================================================
