----------------------------- MODULE RunRecord -----------------------------
(***************************************************************************)
(* What the store keeps about one run, as pure operators: the attempts of  *)
(* a stage (table "steps"), what SqliteLedger remembers of them, and what  *)
(* devloop.replay folds the audit log into.                                *)
(*                                                                         *)
(* The rows of a stage are a sequence in rowid order.  A row carries its   *)
(* attempt number as data, so that nothing here makes numbers unique or    *)
(* contiguous: that is for the writers to achieve (see RunLifecycle).      *)
(*                                                                         *)
(* The audit log is kept folded: fold() is a left fold over the events of  *)
(* a run in seq order, so applying it at every append gives the value it   *)
(* would compute from the whole log.                                       *)
(***************************************************************************)
EXTENDS Integers, Sequences, FiniteSetsExt

Running  == "running"
Settled  == {"succeeded", "failed", "timed_out", "skipped", "cancelled"}
StepStatus == Settled \cup {Running}

\* A status that stops the run unless the stage says on_error: continue.
Unsuccessful == {"failed", "timed_out"}

RunStatus == {"absent", "running", "done", "halted"}

Errors == {"none", "failure", "timeout", "condition-error", "interrupted",
           "skipped", "watchdog-timeout"}

(***************************************************************************)
(* Step rows.  "started" says whether started_at is set, "age" how long    *)
(* ago that was while the row is running (a settled row's age is never     *)
(* read and is kept at 0); finished_at is set by every status but running  *)
(* and skipped.                                                            *)
(***************************************************************************)
StepRow == [attempt : Nat \ {0}, status : StepStatus, started : BOOLEAN,
            age : Nat, error : Errors]

NewRow(attempt, status, started, error) ==
    [attempt |-> attempt, status |-> status, started |-> started,
     age |-> 0, error |-> error]

Ended(status) == status \notin {Running, "skipped"}

HasAttempt(rows, attempt) == \E i \in DOMAIN rows : rows[i].attempt = attempt

\* The primary key of "steps": start_step's INSERT fails.
Collides(rows, attempt) == HasAttempt(rows, attempt)

\* Mutant: always an INSERT.
Bug_finish_step(rows, row) == Append(rows, row)

\* UPDATE ... WHERE idempotency_key = ?, and INSERT when nothing matched.
finish_step(rows, row) ==
    IF HasAttempt(rows, row.attempt)
    THEN [i \in DOMAIN rows |-> IF rows[i].attempt = row.attempt THEN row ELSE rows[i]]
    ELSE Append(rows, row)

Settle(row, status, error) == NewRow(row.attempt, status, row.started, error)

\* Mutant: the rows of a dead process are left as they are.
Bug_SettleNone(rows, status, error) == rows

\* Every row still claiming to run, settled the same way.
SettleRunning(rows, status, error) ==
    [i \in DOMAIN rows |->
        IF rows[i].status = Running
        THEN Settle(rows[i], status, error)
        ELSE rows[i]]

RunningIn(rows) == {i \in DOMAIN rows : rows[i].status = Running}

(***************************************************************************)
(* The highest attempt, and the result that counts: the last one written.  *)
(***************************************************************************)
Highest(rows) == Max({0} \cup {rows[i].attempt : i \in DOMAIN rows})

Final(rows) == IF rows = <<>> THEN "none" ELSE rows[Len(rows)].status

LastSettled(rows) ==
    {i \in DOMAIN rows :
        /\ rows[i].status # Running
        /\ \A j \in DOMAIN rows : j > i => rows[j].status = Running}

\* Mutant: a resume loads no prior result.
Bug_Loaded(rows) == "none"

\* What _load keeps as final: rows still running are passed over.
Loaded(rows) ==
    IF LastSettled(rows) = {} THEN "none"
    ELSE rows[CHOOSE i \in LastSettled(rows) : TRUE].status

-----------------------------------------------------------------------------
(***************************************************************************)
(* The projection replay builds.  run = "none" until an event creates it,  *)
(* "unknown" when that event was not a RUN_STARTED; "born" says which      *)
(* RUN_STARTED supplied created_at, the opening one or a resume; unfolded  *)
(* that a kind outside MODELLED was seen.                                  *)
(***************************************************************************)
StepProjection == [attempt : Nat \ {0}, status : StepStatus \cup {"unknown"},
                   started : BOOLEAN, ended : BOOLEAN, limited : BOOLEAN,
                   error : Errors]

NoProjection(stages) ==
    [run |-> "none", ended |-> FALSE, born |-> "none",
     steps |-> [s \in stages |-> <<>>], unfolded |-> FALSE]

Blank(attempt) ==
    [attempt |-> attempt, status |-> "unknown", started |-> FALSE,
     ended |-> FALSE, limited |-> FALSE, error |-> "none"]

Current(rows, attempt) ==
    IF HasAttempt(rows, attempt)
    THEN rows[CHOOSE i \in DOMAIN rows : rows[i].attempt = attempt]
    ELSE Blank(attempt)

\* Mutant: a resume leaves finished_at in the projection.
Bug_fold_run_started(p, resumed) ==
    [p EXCEPT !.run = "running",
              !.born = IF p.run # "none" THEN @
                       ELSE IF resumed THEN "resumed" ELSE "opened"]

fold_run_started(p, resumed) ==
    [p EXCEPT !.run = "running", !.ended = FALSE,
              !.born = IF p.run # "none" THEN @
                       ELSE IF resumed THEN "resumed" ELSE "opened"]

\* RUN_FINISHED with its status, and RUN_CANCELLED, which carries none.
fold_run_ended(p, status) == [p EXCEPT !.run = status, !.ended = TRUE]

Mentioned(p) == IF p.run = "none" THEN "unknown" ELSE p.run

\* STEP_STARTED and STEP_RETRIED.  "limited": the stage declares a timeout.
fold_step_started(p, s, attempt, limited) ==
    [p EXCEPT !.run = Mentioned(p),
              !.steps[s] = finish_step(@,
                  [Current(@, attempt) EXCEPT !.status = Running,
                                              !.started = TRUE,
                                              !.limited = limited])]

\* STEP_FINISHED and STEP_TIMED_OUT: status is "unknown" when the payload has none.
fold_step_ended(p, s, attempt, status, error) ==
    [p EXCEPT !.run = Mentioned(p),
              !.steps[s] = finish_step(@,
                  [Current(@, attempt) EXCEPT !.status = status,
                                              !.ended = status # "skipped",
                                              !.error = error])]

\* HALTED_FOR_HUMAN and every other kind the fold was not taught.
fold_unmodelled(p) == [p EXCEPT !.unfolded = TRUE]

\* _reconcile's STEP_FINISHED per running row: the rows it settles, in the log.
fold_interrupted(p, stages, rowsOf) ==
    LET hit(s) == {rowsOf[s][i].attempt : i \in RunningIn(rowsOf[s])}
    IN  [p EXCEPT !.run = IF \A s \in stages : hit(s) = {} THEN @ ELSE Mentioned(p),
                  !.steps = [s \in stages |->
                      [i \in DOMAIN p.steps[s] |->
                          IF p.steps[s][i].attempt \in hit(s)
                          THEN [p.steps[s][i] EXCEPT !.status = "cancelled",
                                                     !.ended = TRUE,
                                                     !.error = "interrupted"]
                          ELSE p.steps[s][i]]]]

\* watchdog._time_out's STEP_TIMED_OUT per running row: no status, no error kind.
fold_watchdog_timeouts(p, s, rows) ==
    LET hit == {rows[i].attempt : i \in RunningIn(rows)}
    IN  [p EXCEPT !.run = IF hit = {} THEN @ ELSE Mentioned(p),
                  !.steps[s] = [i \in DOMAIN @ |->
                      IF @[i].attempt \in hit
                      THEN [@[i] EXCEPT !.status = "unknown", !.ended = TRUE, !.error = "none"]
                      ELSE @[i]]]

(***************************************************************************)
(* compare(): the observable fields of the log and of the state.           *)
(***************************************************************************)
StateView(rows, limited) ==
    {[attempt |-> rows[i].attempt, status |-> rows[i].status,
      started |-> rows[i].started, ended |-> Ended(rows[i].status),
      limited |-> limited, error |-> rows[i].error] : i \in DOMAIN rows}

LogView(rows) == {rows[i] : i \in DOMAIN rows}
=============================================================================
