-------------------------- MODULE OneExecutor_proofs --------------------------
(***************************************************************************)
(* Proofs about RunLifecycle for every workflow, every number of watchdogs *)
(* and every bound: what the pipeline's late write keeps, whoever executes *)
(* the run; then what holds of a run that one process at a time executes   *)
(* (~Overlap), any number of processes crashing and resuming one another's *)
(* work; and last what a punctual process and the watchdogs do to each     *)
(* other.                                                                  *)
(***************************************************************************)
EXTENDS RunLifecycle_proofs

\* Places where a process has not opened the run yet.
Outside == {"idle", "opening"}

-----------------------------------------------------------------------------
(* The row of the run, and a copy of it.                                   *)

RowExists == \A e \in Executors : pc[e] \notin Outside => run.status # "absent"

\* The row a process read is the row, if nobody wrote it since.
CopyIsOfItsVersion ==
    \A e \in Executors : pc[e] = "attachWrite" =>
        /\ copy[e].version <= run.version
        /\ copy[e].version = run.version
              => copy[e].status = run.status /\ copy[e].finished = run.finished

VerdictInv == IInv /\ InboxInv /\ RowExists /\ CopyIsOfItsVersion

\* What the version stands for: who does not move it leaves the verdict alone.
SameVerdict == /\ run'.status = run.status /\ run'.finished = run.finished
               /\ run'.version = run.version

RunMoves == \/ SameVerdict
            \/ run'.version > run.version /\ run'.status # "absent"
            \/ run.status = "absent" /\ run'.status # "absent"

LEMMA TouchedVerdict ==
    ASSUME IInv, NEW at, touch_run(at)
    PROVE  SameVerdict
BY DEF IInv, LifecycleTypeOK, RunRow, touch_run, SameVerdict

LEMMA RewrittenVerdict ==
    ASSUME IInv, NEW status, NEW finished, NEW at, run' = Rewritten(status, finished, at)
    PROVE  /\ run'.version = run.version + 1 /\ run'.status = status
           /\ run'.finished = finished
BY DEF IInv, LifecycleTypeOK, RunRow, Rewritten

\* An executor moves only itself, and nobody else moves an executor.
Stays(e) == /\ pc'[e] = pc[e] /\ memo'[e] = memo[e]
            /\ loop'[e] = loop[e] /\ copy'[e] = copy[e]

LEMMA OthersStay ==
    ASSUME IInv, NEW d \in Executors, NEW e \in Executors, d # e, Execute(d)
    PROVE  Stays(e)
BY DEF IInv, LifecycleTypeOK, Stays,
       Execute, Enter, create_run, announce_run, resume_run, load_run, skip_succeeded, NextStage,
       record_skipped, record_guard_error, record, begin, begin_retry, Begins,
       begin_collides, handler_succeeds, handler_fails, handler_times_out, Finish,
       close_run, attach_read, attach_write, attach_conflict, leave, Crash, heartbeat,
       poll, poll_claim, Goto, Forget, Rows, Private

LEMMA SystemStays ==
    ASSUME \/ \E w \in Sweepers : Watch(w)
           \/ Send \/ RequestStop \/ UNCHANGED vars
    PROVE  UNCHANGED <<pc, memo, loop, copy>>
BY DEF Watch, detect_steps, detect_run_row, detect_run, recover, WatchdogCrash,
       Send, RequestStop, Private, vars

LEMMA RunStep ==
    ASSUME VerdictInv, [Next]_vars
    PROVE  RunMoves
<1>1. IInv /\ run.version \in Nat
  BY DEF VerdictInv, IInv, LifecycleTypeOK, RunRow
<1>2. ASSUME run' = run PROVE RunMoves
  BY <1>2 DEF RunMoves, SameVerdict
<1>3. ASSUME NEW status \in RunStatus \ {"absent"}, NEW finished, NEW at,
             run' = Rewritten(status, finished, at)
      PROVE  RunMoves
  BY <1>1, <1>3, RewrittenVerdict DEF RunMoves
<1>4. CASE \E e \in Executors : Execute(e)
  <2>1. PICK e \in Executors : Execute(e)
    BY <1>4
  <2>2. CASE create_run(e)
    BY <2>2 DEF create_run, NoRow, RunMoves
  <2>3. CASE resume_run(e)
    BY <2>3, <1>3 DEF resume_run, RunStatus
  <2>4. CASE close_run(e)
    <3>1. \E status \in {"done", "halted"} : run' = Rewritten(status, TRUE, 0)
      BY <2>4 DEF close_run
    <3> QED
      BY <1>3, <3>1 DEF RunStatus
  <2>5. CASE attach_write(e)
    <3>1. run.status # "absent" /\ copy[e].status = run.status /\ copy[e] \in RunRow
      BY <2>5 DEF VerdictInv, RowExists, CopyIsOfItsVersion, attach_write, Outside, IInv,
                  LifecycleTypeOK
    <3>2. run'.version = run.version + 1 /\ run'.status = run.status
      BY <2>5, <3>1 DEF attach_write, RunRow
    <3> QED
      BY <1>1, <3>1, <3>2 DEF RunMoves
  <2>6. CASE \/ record_skipped(e) \/ record_guard_error(e) \/ begin(e) \/ begin_retry(e)
             \/ handler_succeeds(e) \/ handler_fails(e) \/ handler_times_out(e)
             \/ heartbeat(e)
    <3>1. \E at : touch_run(at)
      BY <2>6 DEF record_skipped, record_guard_error, record, begin, begin_retry, Begins,
                  handler_succeeds, handler_fails, handler_times_out, Finish, heartbeat
    <3> QED
      BY <1>1, <3>1, TouchedVerdict DEF RunMoves
  <2>7. CASE \/ Enter(e) \/ announce_run(e) \/ load_run(e) \/ skip_succeeded(e)
             \/ begin_collides(e) \/ attach_read(e) \/ attach_conflict(e) \/ leave(e) \/ Crash(e)
             \/ poll(e) \/ poll_claim(e)
    BY <2>7, <1>2 DEF Enter, announce_run, load_run, skip_succeeded, begin_collides,
                      attach_read, attach_conflict, leave, Crash, poll, poll_claim, Rows
  <2> QED
    BY <2>1, <2>2, <2>3, <2>4, <2>5, <2>6, <2>7 DEF Execute
<1>5. CASE \E w \in Sweepers : Watch(w)
  <2>1. PICK w \in Sweepers : Watch(w)
    BY <1>5
  <2>2. CASE recover(w)
    BY <2>2, <1>2, <1>3
       DEF recover, recover_silent, recover_step, recover_run, RunStatus
  <2>3. CASE ~recover(w)
    BY <2>1, <2>3, <1>2
       DEF Watch, detect_steps, detect_run_row, detect_run, WatchdogCrash, Rows
  <2> QED
    BY <2>2, <2>3
<1>6. CASE Send \/ RequestStop \/ UNCHANGED vars
  BY <1>6, <1>2 DEF Send, RequestStop, Rows, vars
<1>7. CASE Tick
  BY <1>7 DEF Tick, IInv, VerdictInv, LifecycleTypeOK, RunRow, RunMoves, SameVerdict
<1> QED
  BY <1>4, <1>5, <1>6, <1>7 DEF Next

\* How a process comes past opening, and to the write of its copy.
LEMMA PlaceStep ==
    ASSUME VerdictInv, [Next]_vars, NEW e \in Executors
    PROVE  /\ pc'[e] \notin Outside => pc[e] \notin Outside \/ run'.status # "absent"
           /\ pc'[e] = "attachWrite" =>
                 \/ /\ pc[e] = "attachWrite"
                    /\ copy'[e].version = copy[e].version
                    /\ copy'[e].status = copy[e].status
                    /\ copy'[e].finished = copy[e].finished
                 \/ copy'[e] = run /\ run' = run
<1> DEFINE Kept == pc'[e] = pc[e] /\ copy'[e] = copy[e]
           There == pc[e] \notin Outside /\ pc'[e] # "attachWrite"
           Away == pc'[e] \in Outside
<1>1. pc \in [Executors -> Where] /\ copy \in [Executors -> RunRow] /\ IInv
  BY DEF VerdictInv, IInv, LifecycleTypeOK
<1>2. CASE Tick
  BY <1>1, <1>2 DEF Tick, RunRow
<1>3. CASE \E d \in Executors : Execute(d)
  <2>1. PICK d \in Executors : Execute(d)
    BY <1>3
  <2>2. CASE d # e
    <3>1. Kept
      BY <1>1, <2>1, <2>2, OthersStay DEF Stays
    <3> QED
      BY <3>1
  <2>3. CASE d = e
    <3>1. CASE Enter(e) \/ begin_collides(e) \/ attach_write(e) \/ leave(e) \/ Crash(e)
      BY <1>1, <3>1 DEF Enter, begin_collides, attach_write, leave, Crash, Forget, Goto, Outside
    <3>2. CASE create_run(e) \/ resume_run(e)
      <4>1. run'.status = "running"
        BY <3>2, RewrittenVerdict DEF create_run, resume_run, NoRow, VerdictInv
      <4> QED
        BY <1>1, <3>2, <4>1 DEF create_run, resume_run, Private, Goto, Outside
    <3>3. CASE \/ announce_run(e) \/ load_run(e) \/ skip_succeeded(e) \/ record_skipped(e)
               \/ record_guard_error(e) \/ begin(e) \/ begin_retry(e)
               \/ handler_succeeds(e) \/ handler_fails(e) \/ handler_times_out(e)
               \/ close_run(e) \/ attach_conflict(e) \/ heartbeat(e) \/ poll(e) \/ poll_claim(e)
      BY <1>1, <3>3
         DEF announce_run, load_run, skip_succeeded, OnStage, ToRun, record_skipped,
             record_guard_error, begin, begin_retry, Begins, handler_succeeds, handler_fails,
             handler_times_out, Finish, close_run, attach_conflict, heartbeat, Attends, poll,
             poll_claim, Goto, Outside
    <3>4. CASE attach_read(e)
      BY <1>1, <3>4 DEF attach_read, Rows, Goto, Outside
    <3> QED
      BY <2>1, <2>3, <3>1, <3>2, <3>3, <3>4 DEF Execute
  <2> QED
    BY <2>2, <2>3
<1>4. CASE (\E w \in Sweepers : Watch(w)) \/ Send \/ RequestStop \/ UNCHANGED vars
  <2>1. Kept
    BY <1>4, SystemStays
  <2> QED
    BY <2>1
<1> QED
  BY <1>2, <1>3, <1>4 DEF Next

LEMMA NextVerdict == VerdictInv /\ [Next]_vars => VerdictInv'
<1> SUFFICES ASSUME VerdictInv, [Next]_vars PROVE VerdictInv'
  OBVIOUS
<1>1. IInv /\ IInv' /\ InboxInv'
  BY NextIInv, NextInbox DEF VerdictInv
<1>2. RunMoves
  BY RunStep
<1>3. run.version \in Nat /\ run'.version \in Nat
  BY <1>1 DEF IInv, LifecycleTypeOK, RunRow
<1>4. RowExists'
  BY <1>2, PlaceStep DEF VerdictInv, RowExists, RunMoves, SameVerdict
<1>5. CopyIsOfItsVersion'
  <2> SUFFICES ASSUME NEW e \in Executors, pc'[e] = "attachWrite"
               PROVE  /\ copy'[e].version <= run'.version
                      /\ copy'[e].version = run'.version
                            => copy'[e].status = run'.status /\ copy'[e].finished = run'.finished
    BY DEF CopyIsOfItsVersion
  <2>1. CASE copy'[e] = run /\ run' = run
    BY <1>3, <2>1
  <2>2. CASE /\ pc[e] = "attachWrite" /\ copy'[e].version = copy[e].version
             /\ copy'[e].status = copy[e].status /\ copy'[e].finished = copy[e].finished
    <3>1. /\ run.status # "absent" /\ copy[e].version <= run.version
          /\ copy[e].version = run.version
                => copy[e].status = run.status /\ copy[e].finished = run.finished
      BY <2>2 DEF VerdictInv, RowExists, CopyIsOfItsVersion, Outside
    <3>2. copy[e].version \in Nat
      BY <1>1 DEF IInv, LifecycleTypeOK, RunRow
    <3> QED
      BY <1>2, <1>3, <2>2, <3>1, <3>2 DEF RunMoves, SameVerdict
  <2> QED
    BY <2>1, <2>2, PlaceStep
<1> QED
  BY <1>1, <1>4, <1>5 DEF VerdictInv

LEMMA InitVerdict == Init => VerdictInv
BY InitIInv, InitInbox DEF Init, VerdictInv, RowExists, CopyIsOfItsVersion, Outside

(***************************************************************************)
(* The pipeline writes back a row it read outside any transaction, and     *)
(* that undoes no verdict another process or the watchdog wrote in         *)
(* between, however many executions overlap.                               *)
(***************************************************************************)
THEOREM LateWriteKeepsTheVerdict == Spec => AttachKeepsTheVerdict
<1>1. ASSUME VerdictInv, [Next]_vars,
             NEW e \in Executors, pc[e] = "attachWrite", pc'[e] = "idle"
      PROVE  run'.status = run.status /\ run'.finished = run.finished
  <2>1. /\ pc \in [Executors -> Where] /\ copy[e] \in RunRow /\ run \in RunRow
        /\ copy[e].version = run.version
              => copy[e].status = run.status /\ copy[e].finished = run.finished
    BY <1>1 DEF VerdictInv, IInv, LifecycleTypeOK, CopyIsOfItsVersion
  <2>2. CASE attach_write(e)
    BY <2>1, <2>2 DEF attach_write, RunRow
  <2>3. CASE ~attach_write(e)
    <3>1. PICK d \in Executors : Execute(d)
      BY <1>1, SystemStays DEF Next, Tick
    <3>2. d = e
      BY <1>1, <3>1, OthersStay DEF VerdictInv, Stays
    <3>3. Crash(e)
      BY <1>1, <2>1, <2>3, <3>1, <3>2
         DEF Execute, Enter, create_run, announce_run, resume_run, load_run, skip_succeeded,
             OnStage, ToRun, record_skipped, record_guard_error, begin, begin_retry, Begins,
             begin_collides, handler_succeeds, handler_fails, handler_times_out, Finish,
             close_run, attach_read, attach_conflict, leave, heartbeat, Attends, poll,
             poll_claim, Goto
    <3> QED
      BY <3>3 DEF Crash, Rows
  <2> QED
    BY <2>2, <2>3
<1>2. VerdictInv /\ [Next]_vars =>
         [\A e \in Executors : pc[e] = "attachWrite" /\ pc'[e] = "idle"
             => run'.status = run.status /\ run'.finished = run.finished]_vars
  BY <1>1
<1> QED
  BY <1>2, InitVerdict, NextVerdict, PTL DEF Spec, AttachKeepsTheVerdict

-----------------------------------------------------------------------------
(***************************************************************************)
(* One executor at a time: the inductive invariant, in parts.              *)
(***************************************************************************)
Alone == \A d, e \in Executors : pc[d] # "idle" /\ pc[e] # "idle" => d = e

Untouched == \A s \in StageIds : steps[s] = <<>>

NoRowsYet == run.status = "absent" => Untouched

\* Only the last row of a stage is running, or has succeeded.
LastIsOpen(rows) ==
    \A i \in DOMAIN rows : i < Len(rows) => rows[i].status \notin {Running, "succeeded"}

Open(s) == Final(steps[s]) = Running

\* A row in flight is the only one.
Tables == /\ \A s \in StageIds : LastIsOpen(steps[s])
          /\ \A s, t \in StageIds : Open(s) /\ Open(t) => s = t

\* A new process knows nothing, and finds nothing when it made the run itself.
KnowsNothing(e) ==
    /\ pc[e] = "announce" => Untouched
    /\ pc[e] \in Outside \cup {"announce", "loading"} => memo[e] = NoMemo /\ loop[e] = NoLoop

\* What is in flight is what the live process works on.
OpenIsOwn(e) ==
    \A s \in StageIds : Open(s) =>
        pc[e] \in Outside \/ (pc[e] \in OnARow \ {"retry"} /\ loop[e].stage = s)

\* What a ledger remembers is what the rows say, where it decides by it.
MemoIsExact(e) ==
    Live(e) => \A s \in StageIds :
        /\ memo[e].highest[s] = Len(steps[s])
        /\ memo[e].final[s] = "succeeded" <=> Final(steps[s]) = "succeeded"

\* A row being worked on is the last of a stage that has not succeeded.
IsOnTheLastRow(e) ==
    pc[e] \in OnARow =>
        /\ loop[e].attempt = Len(steps[loop[e].stage])
        /\ ~loop[e].stopped
        /\ Final(steps[loop[e].stage]) # "succeeded"

\* A result that does not stop the run.
Counts(s, result) ==
    \/ result = "succeeded"
    \/ result = "skipped" /\ s \in Guarded
    \/ result \in Unsuccessful /\ s \in Continue

Accounted(s) == Counts(s, Final(steps[s]))

\* The stages behind a process that nothing stopped are accounted for.
EarlierAreAccounted(e) ==
    Live(e) /\ ~loop[e].stopped => \A s \in StageIds : s < loop[e].stage => Accounted(s)

NotOnADoneRun(e) == run.status = "done" => pc[e] \notin Executing \cup {"announce", "loading"}

Process(e) == /\ KnowsNothing(e) /\ OpenIsOwn(e) /\ MemoIsExact(e) /\ IsOnTheLastRow(e)
              /\ EarlierAreAccounted(e) /\ NotOnADoneRun(e)

DoneIsSettled ==
    run.status = "done" =>
        /\ \A s \in StageIds : Accounted(s)
        /\ \A i \in DOMAIN inbox : inbox[i].state # "delivered"

SoleInv == /\ VerdictInv /\ Alone /\ NoRowsYet /\ Tables /\ DoneIsSettled
           /\ \A e \in Executors : Process(e)

-----------------------------------------------------------------------------
(* The last row of a stage, under the operators of RunRecord. *)

Shaped(rows) == GoodRows(rows) /\ LastIsOpen(rows)

LEMMA FinalIsTyped ==
    ASSUME NEW rows, GoodRows(rows)
    PROVE  /\ Final(rows) \in StepStatus \cup {"none"}
           /\ Final(rows) = "none" <=> Len(rows) = 0
           /\ Len(rows) \in Nat
           /\ Len(rows) # 0 => Final(rows) = rows[Len(rows)].status
<1>1. rows \in Seq(StepRow) /\ Len(rows) \in Nat
  BY DEF GoodRows
<1>2. rows = <<>> <=> Len(rows) = 0
  BY <1>1
<1>3. Len(rows) # 0 => rows[Len(rows)] \in StepRow
  BY <1>1
<1> QED
  BY <1>1, <1>2, <1>3 DEF Final, StepRow, StepStatus, Settled, Running

\* A write to the last attempt, or of the next one.
LEMMA FinishLast ==
    ASSUME NEW rows, Shaped(rows), NEW row \in StepRow,
           row.attempt \in {Len(rows), Len(rows) + 1},
           row.attempt = Len(rows) + 1 => Final(rows) \notin {Running, "succeeded"}
    PROVE  /\ Shaped(finish_step(rows, row))
           /\ Len(finish_step(rows, row)) = row.attempt
           /\ Final(finish_step(rows, row)) = row.status
<1> DEFINE new == finish_step(rows, row)
<1>1. /\ GoodRows(rows) /\ rows \in Seq(StepRow) /\ Len(rows) \in Nat
      /\ row.attempt \in Nat \ {0}
      /\ \A i \in 1..Len(rows) : rows[i].attempt = i
  BY DEF Shaped, GoodRows, Contiguous, StepRow
<1>2. GoodRows(new)
  BY <1>1, FinishStep
<1> SUFFICES LastIsOpen(new) /\ Len(new) = row.attempt /\ new[row.attempt] = row
  <2>1. ASSUME NEW n, GoodRows(n), LastIsOpen(n), Len(n) = row.attempt, n[row.attempt] = row
        PROVE  Shaped(n) /\ Final(n) = row.status
    BY <1>1, <2>1, FinalIsTyped DEF Shaped
  <2> QED
    BY <1>2, <2>1
<1>3. CASE row.attempt = Len(rows)
  <2>1. HasAttempt(rows, row.attempt)
    BY <1>1, <1>3, AttemptUsed
  <2>2. new = [i \in 1..Len(rows) |-> IF i = Len(rows) THEN row ELSE rows[i]]
    BY <1>1, <1>3, <2>1 DEF finish_step
  <2>3. Len(new) = Len(rows) /\ new[Len(rows)] = row
    BY <1>1, <1>2, <1>3, <2>2 DEF GoodRows
  <2>4. LastIsOpen(new)
    <3>1. \A i \in 1..Len(rows) : i < Len(rows) => new[i] = rows[i]
      BY <2>2
    <3>2. DOMAIN new = 1..Len(rows) /\ DOMAIN rows = 1..Len(rows)
      BY <1>1, <2>2
    <3> HIDE DEF new
    <3> QED
      BY <2>3, <3>1, <3>2 DEF LastIsOpen, Shaped
  <2> QED
    BY <1>3, <2>3, <2>4
<1>4. CASE row.attempt = Len(rows) + 1
  <2>1. ~HasAttempt(rows, row.attempt)
    BY <1>1, <1>4, AttemptUsed
  <2>2. new = Append(rows, row)
    BY <2>1 DEF finish_step
  <2>3. Len(new) = Len(rows) + 1 /\ new[Len(rows) + 1] = row
        /\ \A i \in 1..Len(rows) : new[i] = rows[i]
    BY <1>1, <2>2
  <2>4. \A i \in 1..Len(rows) : rows[i].status \notin {Running, "succeeded"}
    <3>1. Len(rows) # 0 => rows[Len(rows)].status \notin {Running, "succeeded"}
      BY <1>1, <1>4, FinalIsTyped
    <3> QED
      BY <1>1, <3>1 DEF Shaped, LastIsOpen
  <2>5. LastIsOpen(new)
    <3> HIDE DEF new
    <3>1. DOMAIN new = 1..Len(new)
      BY <1>2 DEF GoodRows
    <3> QED
      BY <1>1, <2>3, <2>4, <3>1 DEF LastIsOpen
  <2> QED
    BY <1>4, <2>3, <2>5
<1> QED
  BY <1>3, <1>4

\* begin inserts what finish_step would.
LEMMA BeginIsFinish ==
    ASSUME NEW rows, NEW row, ~HasAttempt(rows, row.attempt)
    PROVE  Append(rows, row) = finish_step(rows, row)
BY DEF finish_step

\* Settling touches the last row, if it is running, and no other.
LEMMA SettleLast ==
    ASSUME NEW rows, Shaped(rows), NEW status \in Settled \ {"succeeded"}, NEW error \in Errors
    PROVE  LET new == SettleRunning(rows, status, error) IN
           /\ Shaped(new)
           /\ Len(new) = Len(rows)
           /\ Final(new) = IF Final(rows) = Running THEN status ELSE Final(rows)
           /\ Final(rows) # Running => new = rows
<1> DEFINE new == SettleRunning(rows, status, error)
<1>1. GoodRows(rows) /\ rows \in Seq(StepRow) /\ Len(rows) \in Nat
  BY DEF Shaped, GoodRows
<1>2. status \in StepStatus /\ status \notin {Running, "succeeded"}
  BY DEF StepStatus, Settled, Running
<1>3. GoodRows(new) /\ Len(new) = Len(rows)
  BY <1>1, <1>2, SettleKeepsRows
<1>4. \A i \in 1..Len(rows) : new[i].status = IF rows[i].status = Running THEN status
                                              ELSE rows[i].status
  BY <1>1 DEF SettleRunning, Settle, NewRow
<1>5. LastIsOpen(new)
  <2> HIDE DEF new
  <2>1. DOMAIN new = 1..Len(rows) /\ DOMAIN rows = 1..Len(rows)
    BY <1>1, <1>3 DEF GoodRows
  <2> QED
    BY <1>2, <1>3, <1>4, <2>1 DEF Shaped, LastIsOpen
<1>6. Final(new) = IF Final(rows) = Running THEN status ELSE Final(rows)
  <2> HIDE DEF new
  <2>1. CASE Len(rows) = 0
    BY <1>1, <1>3, <2>1, FinalIsTyped DEF Running
  <2>2. CASE Len(rows) # 0
    <3>1. Len(rows) \in 1..Len(rows)
      BY <1>1, <2>2
    <3> QED
      BY <1>1, <1>3, <1>4, <2>2, <3>1, FinalIsTyped
  <2> QED
    BY <2>1, <2>2
<1>7. ASSUME Final(rows) # Running PROVE new = rows
  <2>1. \A i \in 1..Len(rows) : rows[i].status # Running
    <3>1. Len(rows) # 0 => rows[Len(rows)].status # Running
      BY <1>1, <1>7, FinalIsTyped
    <3> QED
      BY <1>1, <3>1 DEF Shaped, LastIsOpen
  <2>2. new = [i \in 1..Len(rows) |-> rows[i]]
    BY <1>1, <2>1 DEF SettleRunning
  <2> QED
    BY <1>1, <2>2
<1> QED
  BY <1>3, <1>5, <1>6, <1>7 DEF Shaped

\* Time passes over the rows.
Aged(r) == IF r.status = Running THEN [r EXCEPT !.age = Older(r.age)] ELSE r

LEMMA AgedRows ==
    ASSUME NEW rows, Shaped(rows)
    PROVE  LET new == [i \in DOMAIN rows |-> Aged(rows[i])] IN
           /\ Shaped(new)
           /\ Len(new) = Len(rows)
           /\ Final(new) = Final(rows)
           /\ Final(rows) # Running => new = rows
<1> DEFINE new == [i \in DOMAIN rows |-> Aged(rows[i])]
<1>1. GoodRows(rows) /\ rows \in Seq(StepRow) /\ Len(rows) \in Nat
      /\ DOMAIN rows = 1..Len(rows)
  BY DEF Shaped, GoodRows
<1>2. \A r \in StepRow : Aged(r) \in StepRow /\ Aged(r).attempt = r.attempt
                         /\ Aged(r).status = r.status
  BY OlderType DEF StepRow, Aged
<1>3. \A i \in 1..Len(rows) : /\ new[i] \in StepRow /\ new[i].attempt = rows[i].attempt
                              /\ new[i].status = rows[i].status
  BY <1>1, <1>2
<1>4. new \in Seq(StepRow) /\ Len(new) = Len(rows) /\ DOMAIN new = 1..Len(rows)
  BY <1>1, <1>3
<1>5. Shaped(new)
  <2> HIDE DEF new
  <2> QED
    BY <1>1, <1>3, <1>4 DEF Shaped, GoodRows, Contiguous, LastIsOpen
<1>6. Final(new) = Final(rows)
  <2> HIDE DEF new
  <2>1. GoodRows(new)
    BY <1>5 DEF Shaped
  <2>2. CASE Len(rows) = 0
    BY <1>1, <1>4, <2>1, <2>2, FinalIsTyped
  <2>3. CASE Len(rows) # 0
    BY <1>1, <1>3, <1>4, <2>1, <2>3, FinalIsTyped
  <2> QED
    BY <2>2, <2>3
<1>7. ASSUME Final(rows) # Running PROVE new = rows
  <2>1. \A i \in 1..Len(rows) : rows[i].status # Running
    <3>1. Len(rows) # 0 => rows[Len(rows)].status # Running
      BY <1>1, <1>7, FinalIsTyped
    <3> QED
      BY <1>1, <3>1 DEF Shaped, LastIsOpen
  <2>2. new = [i \in 1..Len(rows) |-> rows[i]]
    BY <1>1, <2>1 DEF Aged
  <2> QED
    BY <1>1, <2>2
<1> QED
  BY <1>4, <1>5, <1>6, <1>7

-----------------------------------------------------------------------------
(* Steps of the one executor, and steps of anybody else. *)

LEMMA SoleFacts ==
    ASSUME SoleInv
    PROVE  /\ IInv /\ LifecycleTypeOK
           /\ \A s \in StageIds :
                 /\ Shaped(steps[s]) /\ GoodRows(steps[s]) /\ Len(steps[s]) \in Nat
                 /\ Final(steps[s]) \in StepStatus \cup {"none"}
                 /\ Final(steps[s]) = "none" <=> Len(steps[s]) = 0
           /\ \A e \in Executors : Process(e)
<1>1. IInv
  BY DEF SoleInv, VerdictInv
<1>2. \A s \in StageIds : Shaped(steps[s]) /\ GoodRows(steps[s])
  BY <1>1, GoodStage DEF SoleInv, Tables, Shaped
<1> QED
  BY <1>1, <1>2, FinalIsTyped DEF SoleInv, IInv

\* Who acts is alone.
LEMMA OthersAreIdle ==
    ASSUME ~Overlap, SoleInv, NEW e \in Executors, Execute(e), NEW d \in Executors, d # e
    PROVE  pc[d] = "idle" /\ Stays(d) /\ memo[d] = NoMemo /\ loop[d] = NoLoop
<1>1. pc[d] = "idle"
  <2>1. CASE Enter(e)
    BY <2>1 DEF Enter
  <2>2. CASE ~Enter(e)
    <3>1. pc[e] # "idle"
      BY <2>2 DEF Execute, create_run, announce_run, resume_run, load_run, skip_succeeded, OnStage,
                  ToRun, record_skipped, record_guard_error, begin, begin_retry, begin_collides,
                  handler_succeeds, handler_fails, handler_times_out, close_run, attach_read,
                  attach_write, attach_conflict, leave, Crash, heartbeat, Attends, poll,
                  poll_claim
    <3> QED
      BY <3>1 DEF SoleInv, Alone
  <2> QED
    BY <2>1, <2>2
<1>2. Stays(d)
  BY OthersStay, SoleFacts
<1> QED
  BY <1>1, <1>2, SoleFacts DEF Process, KnowsNothing, Outside

\* So what it has to show of the processes, it has to show of itself.
LEMMA SoleStep ==
    ASSUME ~Overlap, SoleInv, VerdictInv', NEW e \in Executors, Execute(e),
           NoRowsYet', Tables', DoneIsSettled', Process(e)'
    PROVE  SoleInv'
<1>1. ASSUME NEW d \in Executors, d # e
      PROVE  pc'[d] = "idle" /\ Process(d)'
  <2>1. pc'[d] = "idle" /\ memo'[d] = NoMemo /\ loop'[d] = NoLoop
    BY <1>1, OthersAreIdle DEF Stays
  <2> QED
    BY <2>1 DEF Process, KnowsNothing, OpenIsOwn, MemoIsExact, IsOnTheLastRow,
                EarlierAreAccounted, NotOnADoneRun, Outside, OnARow, Live, Executing
<1>2. Alone'
  BY <1>1 DEF Alone
<1>3. \A d \in Executors : Process(d)'
  BY <1>1
<1> QED
  BY <1>2, <1>3 DEF SoleInv

\* A stage's last row stays as it is, or a running one is settled.
SettlesOnly ==
    \A s \in StageIds :
        /\ Shaped(steps'[s]) /\ Len(steps'[s]) = Len(steps[s])
        /\ \/ Final(steps'[s]) = Final(steps[s])
           \/ Open(s) /\ Final(steps'[s]) \in Settled \ {"succeeded"}

AtWork == OnARow \ {"retry"}

LEMMA AccountedStays ==
    ASSUME SettlesOnly, NEW s \in StageIds, Accounted(s)
    PROVE  Accounted(s)'
BY DEF SettlesOnly, Accounted, Counts, Open, Running, Unsuccessful

LEMMA QuietStep ==
    ASSUME SoleInv, VerdictInv', RunMoves, SettlesOnly, UNCHANGED <<memo, loop>>,
           \A e \in Executors : pc'[e] = pc[e] \/ (pc[e] \in AtWork /\ pc'[e] \in AtWork),
           run'.status = "done" =>
               /\ run.status = "done"
               /\ \A i \in DOMAIN inbox' : inbox'[i].state # "delivered"
    PROVE  SoleInv'
<1>1. Alone'
  BY DEF SoleInv, Alone, AtWork, OnARow
<1>2. \A s \in StageIds : steps'[s] = <<>> <=> steps[s] = <<>>
  <2> SUFFICES ASSUME NEW s \in StageIds PROVE steps'[s] = <<>> <=> steps[s] = <<>>
    OBVIOUS
  <2>1. steps[s] \in Seq(StepRow) /\ steps'[s] \in Seq(StepRow)
    BY SoleFacts DEF SettlesOnly, Shaped, GoodRows
  <2> QED
    BY <2>1 DEF SettlesOnly
<1>3. NoRowsYet'
  BY <1>2 DEF SoleInv, NoRowsYet, Untouched, RunMoves, SameVerdict
<1>4. \A s \in StageIds : Open(s)' => Open(s)
  BY DEF SettlesOnly, Open, Settled, Running
<1>5. Tables'
  BY <1>4 DEF SoleInv, Tables, SettlesOnly, Shaped
<1>6. DoneIsSettled'
  BY AccountedStays DEF SoleInv, DoneIsSettled
<1>7. ASSUME NEW e \in Executors PROVE Process(e)'
  <2>1. Process(e) /\ (pc'[e] = pc[e] \/ (pc[e] \in AtWork /\ pc'[e] \in AtWork))
        /\ memo'[e] = memo[e] /\ loop'[e] = loop[e]
    BY DEF SoleInv
  <2>2. KnowsNothing(e)'
    BY <1>2, <2>1 DEF Process, KnowsNothing, Untouched, AtWork, OnARow, Outside
  <2>3. OpenIsOwn(e)'
    BY <1>4, <2>1 DEF Process, OpenIsOwn, AtWork, OnARow, Outside
  <2>4. MemoIsExact(e)'
    <3>1. Live(e)' => Live(e)
      BY <2>1 DEF Live, AtWork, OnARow, Executing
    <3> QED
      BY <2>1, <3>1 DEF Process, MemoIsExact, SettlesOnly, Open, Running
  <2>5. IsOnTheLastRow(e)'
    <3>1. pc'[e] \in OnARow => pc[e] \in OnARow
      BY <2>1 DEF AtWork
    <3>2. pc[e] \in OnARow => loop[e].stage \in StageIds
      BY SoleFacts, OnRowFacts
    <3> QED
      BY <2>1, <3>1, <3>2 DEF Process, IsOnTheLastRow, SettlesOnly, Open, Running
  <2>6. EarlierAreAccounted(e)'
    <3>1. Live(e)' => Live(e)
      BY <2>1 DEF Live, AtWork, OnARow, Executing
    <3> QED
      BY <2>1, <3>1, AccountedStays DEF Process, EarlierAreAccounted
  <2>7. NotOnADoneRun(e)'
    BY <2>1 DEF Process, NotOnADoneRun, AtWork, OnARow, Executing
  <2> QED
    BY <2>2, <2>3, <2>4, <2>5, <2>6, <2>7 DEF Process
<1> QED
  BY <1>1, <1>3, <1>5, <1>6, <1>7 DEF SoleInv

LEMMA SameRowsSettle ==
    ASSUME SoleInv, steps' = steps
    PROVE  SettlesOnly
BY SoleFacts DEF SettlesOnly

LEMMA WatchStep ==
    ASSUME SoleInv, VerdictInv', RunMoves, NEW w \in Sweepers, Watch(w)
    PROVE  SoleInv'
<1>1. UNCHANGED <<pc, memo, loop, inbox>>
  BY SystemStays DEF Watch, detect_steps, detect_run_row, detect_run, recover,
     recover_silent, recover_step, recover_run, WatchdogCrash, controlVars
<1>2. run' = run \/ run'.status = "halted"
  BY RewrittenVerdict, SoleFacts
     DEF Watch, detect_steps, detect_run_row, detect_run, recover,
         recover_silent, recover_step, recover_run, WatchdogCrash, Rows
<1>3. SettlesOnly
  <2>1. CASE steps' = steps
    BY <2>1, SameRowsSettle
  <2>2. CASE steps' # steps
    <3>1. PICK stall \in sweep[w].stalls : recover_step(w, stall)
      BY <2>2 DEF Watch, detect_steps, detect_run_row, detect_run, recover,
                  recover_silent, recover_run, WatchdogCrash, Rows
    <3> DEFINE s == stall.stage
    <3>2. s \in StageIds
      BY <3>1, SoleFacts DEF recover_step, LifecycleTypeOK, Sweep, Stall
    <3>3. steps \in [StageIds -> Seq(StepRow)]
      BY SoleFacts DEF LifecycleTypeOK
    <3>4. \A t \in StageIds : steps'[t] =
             IF t = s THEN SettleRunning(steps[s], "timed_out", "watchdog-timeout")
             ELSE steps[t]
      BY <3>1, <3>2, <3>3 DEF recover_step
    <3>5. "timed_out" \in Settled \ {"succeeded"} /\ "watchdog-timeout" \in Errors
      BY DEF Settled, Errors
    <3>6. LET new == SettleRunning(steps[s], "timed_out", "watchdog-timeout") IN
             /\ Shaped(new) /\ Len(new) = Len(steps[s])
             /\ Final(new) = IF Final(steps[s]) = Running THEN "timed_out" ELSE Final(steps[s])
      BY <3>2, <3>5, SoleFacts, SettleLast
    <3> QED
      BY <3>2, <3>4, <3>5, <3>6, SoleFacts DEF SettlesOnly, Open
  <2> QED
    BY <2>1, <2>2
<1> QED
  BY <1>1, <1>2, <1>3, QuietStep DEF SoleInv, DoneIsSettled

LEMMA OutsideStep ==
    ASSUME SoleInv, VerdictInv', RunMoves, Send \/ RequestStop \/ UNCHANGED vars
    PROVE  SoleInv'
<1>1. UNCHANGED <<run, steps, pc, memo, loop>>
  BY DEF Send, RequestStop, Rows, Private, vars
<1>2. run.status = "done" => \A i \in DOMAIN inbox' : inbox'[i].state # "delivered"
  <2>1. CASE Send
    <3>1. PICK priority \in Priorities :
             inbox' = Append(inbox, [priority |-> priority, state |-> "unread", ordinal |-> 0])
      BY <2>1 DEF Send, send
    <3>2. run.status = "done" => \A i \in DOMAIN inbox : inbox[i].state # "delivered"
      BY DEF SoleInv, DoneIsSettled
    <3>3. inbox \in Seq(Message)
      BY DEF SoleInv, VerdictInv, InboxInv, ControlTypeOK
    <3>4. \A i \in DOMAIN inbox' : \/ i \in DOMAIN inbox /\ inbox'[i] = inbox[i]
                                  \/ inbox'[i].state = "unread"
      BY <3>1, <3>3
    <3> QED
      BY <3>2, <3>4
  <2>2. CASE RequestStop \/ UNCHANGED vars
    BY <2>2 DEF RequestStop, vars, controlVars, SoleInv, DoneIsSettled
  <2> QED
    BY <2>1, <2>2
<1> QED
  BY <1>1, <1>2, SameRowsSettle, QuietStep

LEMMA AgingStep ==
    ASSUME SoleInv, VerdictInv', RunMoves, Tick
    PROVE  SoleInv'
<1>1. UNCHANGED <<pc, memo, loop, inbox>> /\ run'.status = run.status
  BY SoleFacts DEF Tick, controlVars, LifecycleTypeOK, RunRow
<1>2. \A s \in StageIds : steps'[s] = [i \in DOMAIN steps[s] |-> Aged(steps[s][i])]
  BY DEF Tick, Aged
<1>3. SettlesOnly
  BY <1>2, SoleFacts, AgedRows, ZenonT(40) DEF SettlesOnly
<1> QED
  BY <1>1, <1>3, QuietStep DEF SoleInv, DoneIsSettled

LEMMA AttendingStep ==
    ASSUME SoleInv, VerdictInv', RunMoves, NEW e \in Executors,
           heartbeat(e) \/ poll(e) \/ poll_claim(e)
    PROVE  SoleInv'
<1>1. UNCHANGED <<steps, memo, loop>>
  BY DEF heartbeat, poll, poll_claim, Rows, Private
<1>2. pc[e] \in AtWork
  BY DEF heartbeat, poll, poll_claim, Attends, AtWork, OnARow
<1>3. pc'[e] \in AtWork /\ \A d \in Executors : d # e => pc'[d] = pc[d]
  BY <1>2, SoleFacts DEF heartbeat, poll, poll_claim, Goto, AtWork, OnARow, LifecycleTypeOK
<1>4. run'.status = run.status /\ run.status # "done"
  <2>1. run'.status = run.status
    BY SoleFacts, TouchedVerdict DEF heartbeat, poll, poll_claim, Rows, SameVerdict
  <2>2. run.status # "done"
    BY <1>2, SoleFacts DEF Process, NotOnADoneRun, AtWork, OnARow, Executing
  <2> QED
    BY <2>1, <2>2
<1> QED
  BY <1>1, <1>2, <1>3, <1>4, SameRowsSettle, QuietStep

-----------------------------------------------------------------------------
(* The steps of the one executor. *)

\* Steps that leave the tables, and who is delivered what, alone.
LEMMA TablesStand ==
    ASSUME SoleInv, RunMoves, steps' = steps, inbox' = inbox,
           run'.status = "done" => run.status = "done"
    PROVE  NoRowsYet' /\ Tables' /\ DoneIsSettled' /\ \A s \in StageIds : Open(s)' <=> Open(s)
BY DEF SoleInv, NoRowsYet, Untouched, RunMoves, SameVerdict, Tables, Open, DoneIsSettled,
       Accounted

LEMMA ArrivingStep ==
    ASSUME ~Overlap, SoleInv, VerdictInv', RunMoves, NEW e \in Executors,
           Enter(e) \/ create_run(e) \/ announce_run(e)
    PROVE  SoleInv'
<1>1. steps' = steps /\ inbox' = inbox /\ memo'[e] = memo[e] /\ loop'[e] = loop[e]
  BY DEF Enter, create_run, announce_run, Rows, Private, controlVars
<1>2. run' = run \/ run'.status = "running"
  BY DEF Enter, create_run, announce_run, Rows, NoRow
<1>3. Execute(e)
  BY DEF Execute
<1>4. memo[e] = NoMemo /\ loop[e] = NoLoop /\ Process(e)
  BY SoleFacts DEF Process, KnowsNothing, Outside, Enter, create_run, announce_run
<1>5. pc \in [Executors -> Where]
  BY SoleFacts DEF LifecycleTypeOK
<1>6. CASE Enter(e)
  <2>1. pc'[e] = "opening"
    BY <1>5, <1>6 DEF Enter, Goto
  <2>2. Process(e)'
    BY <1>1, <1>4, <2>1
       DEF Process, KnowsNothing, OpenIsOwn, MemoIsExact, IsOnTheLastRow,
           EarlierAreAccounted, NotOnADoneRun, Outside, OnARow, Live, Executing
  <2> QED
    BY <1>1, <1>2, <1>3, <2>2, TablesStand, SoleStep
<1>7. CASE create_run(e) \/ announce_run(e)
  <2>1. Untouched /\ Untouched'
    BY <1>1, <1>4, <1>7
       DEF create_run, announce_run, SoleInv, NoRowsYet, Process, KnowsNothing, Untouched
  <2>2. \A s \in StageIds : /\ steps'[s] = <<>> /\ Final(steps'[s]) = "none"
                            /\ Len(steps'[s]) = 0
    BY <2>1 DEF Untouched, Final
  <2>3. pc'[e] \in {"announce", "next"}
    BY <1>5, <1>7 DEF create_run, announce_run, Goto
  <2>4. run'.status # "done"
    <3>1. CASE create_run(e)
      BY <3>1 DEF create_run, NoRow
    <3>2. CASE announce_run(e)
      BY <1>4, <3>2 DEF announce_run, Process, NotOnADoneRun
    <3> QED
      BY <1>7, <3>1, <3>2
  <2>5. Process(e)'
    <3>1. \A s \in StageIds : ~Open(s)'
      BY <2>2 DEF Open, Running
    <3>2. \A s \in StageIds : NoMemo.highest[s] = 0 /\ NoMemo.final[s] = "none"
      BY DEF NoMemo
    <3>3. \A s \in StageIds : ~(s < NoLoop.stage)
      BY LifecycleAssumption DEF NoLoop, StageIds
    <3> QED
      BY <1>1, <1>4, <2>1, <2>2, <2>3, <2>4, <3>1, <3>2, <3>3
         DEF Process, KnowsNothing, OpenIsOwn, MemoIsExact, IsOnTheLastRow,
             EarlierAreAccounted, NotOnADoneRun, OnARow, Outside
  <2> QED
    BY <1>1, <1>2, <1>3, <2>5, TablesStand, SoleStep
<1> QED
  BY <1>6, <1>7

LEMMA EndingStep ==
    ASSUME ~Overlap, SoleInv, VerdictInv', RunMoves, NEW e \in Executors,
           begin_collides(e) \/ attach_write(e) \/ leave(e) \/ Crash(e)
    PROVE  SoleInv'
<1>1. steps' = steps /\ inbox' = inbox /\ Forget(e)
  BY DEF begin_collides, attach_write, leave, Crash, Rows, controlVars
<1>2. run'.status = "done" => run.status = "done"
  <2>1. CASE attach_write(e)
    <3>1. copy[e].status = run.status /\ copy[e] \in RunRow
      BY <2>1, SoleFacts DEF SoleInv, VerdictInv, CopyIsOfItsVersion, attach_write, LifecycleTypeOK
    <3> QED
      BY <2>1, <3>1 DEF attach_write, RunRow
  <2>2. CASE ~attach_write(e)
    BY <2>2 DEF begin_collides, leave, Crash, Rows
  <2> QED
    BY <2>1, <2>2
<1>3. pc'[e] = "idle" /\ memo'[e] = NoMemo /\ loop'[e] = NoLoop
  BY <1>1, SoleFacts DEF Forget, Goto, LifecycleTypeOK
<1>4. Process(e)'
  BY <1>3 DEF Process, KnowsNothing, OpenIsOwn, MemoIsExact, IsOnTheLastRow,
              EarlierAreAccounted, NotOnADoneRun, Outside, OnARow, Live, Executing
<1>5. Execute(e)
  BY DEF Execute
<1> QED
  BY <1>1, <1>2, <1>4, <1>5, TablesStand, SoleStep

LEMMA AttachedStep ==
    ASSUME ~Overlap, SoleInv, VerdictInv', RunMoves, NEW e \in Executors,
           attach_read(e) \/ attach_conflict(e)
    PROVE  SoleInv'
<1>1. steps' = steps /\ inbox' = inbox /\ run' = run
  BY DEF attach_read, attach_conflict, Rows, controlVars
<1>2. pc[e] \in Attached /\ pc'[e] \in Attached
  BY SoleFacts DEF attach_read, attach_conflict, Attached, Goto, LifecycleTypeOK
<1>3. \A s \in StageIds : ~Open(s)
  BY <1>2, SoleFacts DEF Process, OpenIsOwn, Attached, Outside, OnARow
<1>4. Process(e)'
  BY <1>1, <1>2, <1>3, TablesStand
     DEF Process, KnowsNothing, OpenIsOwn, MemoIsExact, IsOnTheLastRow, Attached,
         EarlierAreAccounted, NotOnADoneRun, Outside, OnARow, Live, Executing
<1>5. Execute(e)
  BY DEF Execute
<1> QED
  BY <1>1, <1>4, <1>5, TablesStand, SoleStep

LEMMA SkippingStep ==
    ASSUME ~Overlap, SoleInv, VerdictInv', RunMoves, NEW e \in Executors, skip_succeeded(e)
    PROVE  SoleInv'
<1> DEFINE s == loop[e].stage
<1>1. steps' = steps /\ inbox' = inbox /\ run' = run /\ memo' = memo /\ pc' = pc
  BY DEF skip_succeeded, Rows, controlVars
<1>2. pc[e] = "next" /\ s \in StageIds /\ Process(e)
  BY SoleFacts, NextAttempt DEF skip_succeeded, OnStage
<1>3. loop'[e].stage = s + 1 /\ loop'[e].stopped = loop[e].stopped
  BY <1>2, SoleFacts DEF skip_succeeded, NextStage, NoLoop, LifecycleTypeOK
<1>4. Accounted(s) /\ \A t \in StageIds : Accounted(t)' <=> Accounted(t)
  BY <1>1, <1>2 DEF skip_succeeded, Process, MemoIsExact, Live, Executing, Accounted, Counts
<1>5. \A t \in StageIds : ~Open(t)
  BY <1>2 DEF Process, OpenIsOwn, Outside, OnARow
<1>6. Process(e)'
  <2>1. EarlierAreAccounted(e)'
    <3> SUFFICES ASSUME ~loop[e].stopped, NEW t \in StageIds, t < s + 1 PROVE Accounted(t)
      BY <1>3, <1>4 DEF EarlierAreAccounted
    <3>1. t < s \/ t = s
      BY <1>2, LifecycleAssumption DEF StageIds
    <3> QED
      BY <1>2, <1>4, <3>1 DEF Process, EarlierAreAccounted, Live, Executing
  <2> QED
    BY <1>1, <1>2, <1>5, <2>1, TablesStand
       DEF Process, KnowsNothing, OpenIsOwn, MemoIsExact, IsOnTheLastRow, NotOnADoneRun,
           Outside, OnARow, Live
<1>7. Execute(e)
  BY DEF Execute
<1> QED
  BY <1>1, <1>6, <1>7, TablesStand, SoleStep

LEMMA ClosingStep ==
    ASSUME ~Overlap, SoleInv, VerdictInv', RunMoves, NEW e \in Executors, close_run(e)
    PROVE  SoleInv'
<1>1. steps' = steps /\ pc[e] = "next" /\ loop[e].stage > Stages /\ Process(e)
  BY SoleFacts DEF close_run
<1>2. pc'[e] = "attach"
  BY SoleFacts DEF close_run, Goto, LifecycleTypeOK
<1>3. \A i \in DOMAIN inbox' : inbox'[i].state # "delivered"
  <2>1. inbox' = [i \in DOMAIN inbox |->
                    IF inbox[i].state \in {"unread", "delivered"}
                    THEN [inbox[i] EXCEPT !.state = "failed"] ELSE inbox[i]]
    BY DEF close_run, close, FailOpen
  <2>2. inbox \in Seq(Message)
    BY DEF SoleInv, VerdictInv, InboxInv, ControlTypeOK
  <2>3. \A i \in DOMAIN inbox : inbox[i] \in Message
    BY <2>2
  <2> QED
    BY <2>1, <2>3 DEF Message
<1>4. run'.status = "done" => ~loop[e].stopped
  <2>1. run' = Rewritten(IF loop[e].stopped THEN "halted" ELSE "done", TRUE, 0)
    BY DEF close_run
  <2>2. run'.status = IF loop[e].stopped THEN "halted" ELSE "done"
    BY <2>1, SoleFacts, RewrittenVerdict
  <2> QED
    BY <2>2
<1>5. run.status # "absent" /\ run'.status # "absent"
  BY <1>1 DEF SoleInv, VerdictInv, RowExists, Outside, RunMoves, SameVerdict
<1>6. DoneIsSettled'
  <2>1. \A s \in StageIds : Accounted(s)' <=> Accounted(s)
    BY <1>1 DEF Accounted
  <2>2. \A s \in StageIds : s < loop[e].stage
    BY <1>1, SoleFacts, LifecycleAssumption DEF StageIds, LifecycleTypeOK, Loop
  <2> QED
    BY <1>1, <1>3, <1>4, <2>1, <2>2
       DEF DoneIsSettled, Process, EarlierAreAccounted, Live, Executing
<1>7. NoRowsYet' /\ Tables'
  BY <1>1, <1>5 DEF SoleInv, NoRowsYet, Tables, Open
<1>8. Process(e)'
  <2>1. \A t \in StageIds : ~Open(t)'
    BY <1>1 DEF Process, OpenIsOwn, Outside, OnARow, Open
  <2> QED
    BY <1>2, <2>1
       DEF Process, KnowsNothing, OpenIsOwn, MemoIsExact, IsOnTheLastRow,
           EarlierAreAccounted, NotOnADoneRun, Outside, OnARow, Live, Executing
<1>9. Execute(e)
  BY DEF Execute
<1> QED
  BY <1>6, <1>7, <1>8, <1>9, SoleStep

LEMMA ResumingStep ==
    ASSUME ~Overlap, SoleInv, VerdictInv', RunMoves, NEW e \in Executors, resume_run(e)
    PROVE  SoleInv'
<1>1. pc[e] = "opening" /\ pc'[e] = "loading" /\ Process(e)
  BY SoleFacts DEF resume_run, Goto, LifecycleTypeOK
<1>2. memo'[e] = NoMemo /\ loop'[e] = NoLoop
  BY <1>1 DEF resume_run, Private, Process, KnowsNothing, Outside
<1>3. run'.status = "running"
  BY SoleFacts, RewrittenVerdict DEF resume_run
<1>4. "cancelled" \in Settled \ {"succeeded"} /\ "interrupted" \in Errors
  BY DEF Settled, Errors
<1>5. ASSUME NEW s \in StageIds
      PROVE  Shaped(steps'[s]) /\ Final(steps'[s]) # Running
  <2> DEFINE new == SettleRunning(steps[s], "cancelled", "interrupted")
  <2>1. Shaped(new) /\ Final(new) # Running
    BY <1>4, SoleFacts, SettleLast DEF Settled, Running
  <2> QED
    BY <2>1 DEF resume_run
<1>6. Process(e)'
  BY <1>1, <1>2, <1>3, <1>5
     DEF Process, KnowsNothing, OpenIsOwn, MemoIsExact, IsOnTheLastRow, Open,
         EarlierAreAccounted, NotOnADoneRun, Outside, OnARow, Live, Executing
<1>7. NoRowsYet' /\ Tables' /\ DoneIsSettled'
  BY <1>3, <1>5 DEF NoRowsYet, Tables, DoneIsSettled, Open, Shaped
<1>8. Execute(e)
  BY DEF Execute
<1> QED
  BY <1>6, <1>7, <1>8, SoleStep

\* Where nothing is running, _load keeps the last row's result.
LEMMA LoadedIsFinal ==
    ASSUME NEW rows, GoodRows(rows), Final(rows) # Running
    PROVE  Loaded(rows) = Final(rows)
<1>1. rows \in Seq(StepRow) /\ Len(rows) \in Nat /\ DOMAIN rows = 1..Len(rows)
  BY DEF GoodRows
<1>2. CASE Len(rows) = 0
  <2>1. LastSettled(rows) = {} /\ Final(rows) = "none"
    BY <1>1, <1>2, FinalIsTyped DEF LastSettled
  <2> QED
    BY <2>1 DEF Loaded
<1>3. CASE Len(rows) # 0
  <2>1. Final(rows) = rows[Len(rows)].status
    BY <1>3, FinalIsTyped
  <2>2. Len(rows) \in LastSettled(rows)
    BY <1>1, <1>3, <2>1 DEF LastSettled
  <2>3. \A i \in LastSettled(rows) : i = Len(rows)
    BY <1>1, <1>3, <2>1 DEF LastSettled
  <2>4. PICK i \in LastSettled(rows) : Loaded(rows) = rows[i].status
    BY <2>2 DEF Loaded
  <2> QED
    BY <2>1, <2>3, <2>4
<1> QED
  BY <1>2, <1>3

LEMMA LoadingStep ==
    ASSUME ~Overlap, SoleInv, VerdictInv', RunMoves, NEW e \in Executors, load_run(e)
    PROVE  SoleInv'
<1>1. pc[e] = "loading" /\ pc'[e] = "next" /\ Process(e) /\ loop' = loop
      /\ steps' = steps /\ run' = run /\ inbox' = inbox
  BY SoleFacts DEF load_run, Goto, LifecycleTypeOK, Rows, controlVars
<1>2. loop[e] = NoLoop /\ run.status # "done" /\ \A s \in StageIds : ~Open(s)
  BY <1>1 DEF Process, KnowsNothing, NotOnADoneRun, OpenIsOwn, Outside, OnARow
<1>3. /\ memo'[e].final = [s \in StageIds |-> Loaded(steps[s])]
      /\ memo'[e].highest = [s \in StageIds |-> Highest(steps[s])]
  BY SoleFacts DEF load_run, LifecycleTypeOK
<1>4. \A s \in StageIds : /\ memo'[e].highest[s] = Len(steps[s])
                          /\ memo'[e].final[s] = Final(steps[s])
  BY <1>2, <1>3, SoleFacts, HighestIsLength, LoadedIsFinal DEF Open
<1>5. Process(e)'
  <2>1. \A s \in StageIds : ~(s < NoLoop.stage)
    BY LifecycleAssumption DEF NoLoop, StageIds
  <2> QED
    BY <1>1, <1>2, <1>4, <2>1
       DEF Process, KnowsNothing, OpenIsOwn, MemoIsExact, IsOnTheLastRow, Open,
           EarlierAreAccounted, NotOnADoneRun, Outside, OnARow
<1>6. Execute(e)
  BY DEF Execute
<1> QED
  BY <1>1, <1>2, <1>5, <1>6, TablesStand, SoleStep

\* What record leaves, when it writes the last row of the stage or the next one.
LEMMA RecordedLast ==
    ASSUME SoleInv, RunMoves, NEW e \in Executors, NEW s \in StageIds, NEW row \in StepRow,
           pc[e] \in {"next"} \cup AtWork, pc[e] \in AtWork => s = loop[e].stage,
           row.status # Running, Final(steps[s]) # "succeeded",
           row.attempt = Len(steps[s]) \/ (row.attempt = Len(steps[s]) + 1 /\ ~Open(s)),
           record(e, s, row)
    PROVE  /\ \A t \in StageIds : t # s => steps'[t] = steps[t]
           /\ Final(steps'[s]) = row.status
           /\ Len(steps'[s]) = row.attempt
           /\ \A t \in StageIds :
                 /\ ~Open(t)'
                 /\ memo'[e].highest[t] = Len(steps'[t])
                 /\ memo'[e].final[t] = "succeeded" <=> Final(steps'[t]) = "succeeded"
           /\ run'.status = run.status
           /\ NoRowsYet' /\ Tables' /\ DoneIsSettled'
<1> DEFINE new == finish_step(steps[s], row)
<1>1. steps \in [StageIds -> Seq(StepRow)] /\ IInv /\ Process(e) /\ memo[e] \in Memo
  BY SoleFacts DEF LifecycleTypeOK
<1>2. /\ Shaped(new) /\ Len(new) = row.attempt /\ Final(new) = row.status
  BY SoleFacts, FinishLast DEF Open
<1>3. \A t \in StageIds : steps'[t] = IF t = s THEN new ELSE steps[t]
  BY <1>1 DEF record
<1>4. \A t \in StageIds : ~Open(t)'
  BY <1>1, <1>2, <1>3 DEF Open, Process, OpenIsOwn, Outside, AtWork, OnARow
<1>5. Live(e) /\ run.status \notin {"done", "absent"}
  BY <1>1 DEF Live, Executing, AtWork, OnARow, Process, NotOnADoneRun, SoleInv, VerdictInv,
              RowExists, Outside
<1>6. run'.status = run.status
  BY SoleFacts, TouchedVerdict DEF record, SameVerdict
<1>7. row.attempt \in Nat \ {0} /\ row.status \in StepStatus
  BY DEF StepRow
<1> DEFINE noted == Noted(e, s, row.attempt)
<1>8. /\ noted \in Memo /\ noted.final = memo[e].final
      /\ \A t \in StageIds : noted.highest[t] =
             IF t = s /\ memo[e].highest[s] < row.attempt THEN row.attempt ELSE memo[e].highest[t]
  BY <1>1, <1>7, NotedType
<1>9. memo'[e] = [noted EXCEPT !.final[s] = row.status]
  BY SoleFacts DEF record, LifecycleTypeOK
<1>10. ASSUME NEW t \in StageIds
       PROVE  /\ memo'[e].highest[t] = Len(steps'[t])
              /\ memo'[e].final[t] = "succeeded" <=> Final(steps'[t]) = "succeeded"
  <2> HIDE DEF noted, new
  <2>1. /\ memo[e].highest[t] = Len(steps[t]) /\ Len(steps[t]) \in Nat
        /\ memo[e].final[t] = "succeeded" <=> Final(steps[t]) = "succeeded"
    BY <1>1, <1>5, SoleFacts DEF Process, MemoIsExact
  <2>2. /\ memo'[e].highest[t] = noted.highest[t]
        /\ memo'[e].final[t] = IF t = s THEN row.status ELSE noted.final[t]
    BY <1>8, <1>9 DEF Memo
  <2>3. CASE t = s
    BY <1>2, <1>3, <1>7, <1>8, <2>1, <2>2, <2>3
  <2>4. CASE t # s
    BY <1>3, <1>8, <2>1, <2>2, <2>4
  <2> QED
    BY <2>3, <2>4
<1>11. NoRowsYet' /\ DoneIsSettled'
  BY <1>5, <1>6 DEF NoRowsYet, DoneIsSettled
<1>12. Tables'
  BY <1>2, <1>3, <1>4, SoleFacts DEF Tables, Shaped
<1> QED
  BY <1>2, <1>3, <1>4, <1>6, <1>10, <1>11, <1>12

\* ... and the process goes on to the next stage, or tries again.
LEMMA RecordingStep ==
    ASSUME ~Overlap, SoleInv, VerdictInv', RunMoves, NEW e \in Executors, Execute(e),
           pc[e] \in {"next"} \cup AtWork, loop[e].stage \in StageIds,
           NEW row \in StepRow, row.status # Running,
           Final(steps[loop[e].stage]) # "succeeded",
           \/ row.attempt = Len(steps[loop[e].stage])
           \/ row.attempt = Len(steps[loop[e].stage]) + 1 /\ ~Open(loop[e].stage),
           record(e, loop[e].stage, row),
           \/ \E stopped \in BOOLEAN :
                 /\ pc'[e] = "next" /\ loop' = NextStage(e, stopped)
                 /\ ~stopped => ~loop[e].stopped /\ Counts(loop[e].stage, row.status)
           \/ /\ pc'[e] = "retry" /\ loop' = loop /\ ~loop[e].stopped
              /\ row.attempt = loop[e].attempt /\ row.status # "succeeded"
    PROVE  SoleInv'
<1> DEFINE s == loop[e].stage
<1>1. /\ \A t \in StageIds : t # s => steps'[t] = steps[t]
      /\ Final(steps'[s]) = row.status
      /\ Len(steps'[s]) = row.attempt
      /\ \A t \in StageIds :
            /\ ~Open(t)'
            /\ memo'[e].highest[t] = Len(steps'[t])
            /\ memo'[e].final[t] = "succeeded" <=> Final(steps'[t]) = "succeeded"
      /\ run'.status = run.status
      /\ NoRowsYet' /\ Tables' /\ DoneIsSettled'
  BY RecordedLast
<1>2. Process(e) /\ Live(e) /\ run.status # "done" /\ loop[e] \in Loop
  BY SoleFacts DEF Process, NotOnADoneRun, Live, Executing, AtWork, OnARow, LifecycleTypeOK
<1>3. pc'[e] \in {"next", "retry"}
  OBVIOUS
<1>4. KnowsNothing(e)' /\ OpenIsOwn(e)' /\ MemoIsExact(e)' /\ NotOnADoneRun(e)'
  BY <1>1, <1>2, <1>3
     DEF KnowsNothing, OpenIsOwn, MemoIsExact, NotOnADoneRun, Outside, OnARow
<1>5. ASSUME NEW stopped \in BOOLEAN, pc'[e] = "next", loop' = NextStage(e, stopped),
             ~stopped => ~loop[e].stopped /\ Counts(s, row.status)
      PROVE  IsOnTheLastRow(e)' /\ EarlierAreAccounted(e)'
  <2>1. loop'[e].stage = s + 1 /\ loop'[e].stopped = stopped
    BY <1>5, SoleFacts DEF NextStage, NoLoop, LifecycleTypeOK
  <2>2. EarlierAreAccounted(e)'
    <3> SUFFICES ASSUME ~stopped, NEW t \in StageIds, t < s + 1 PROVE Accounted(t)'
      BY <2>1 DEF EarlierAreAccounted
    <3>1. t = s \/ (t # s /\ t < s)
      BY LifecycleAssumption DEF StageIds
    <3>2. ASSUME t # s, t < s PROVE Accounted(t)'
      <4>1. ~loop[e].stopped
        BY <1>5
      <4>2. Accounted(t)
        BY <1>2, <3>2, <4>1 DEF Process, EarlierAreAccounted
      <4> QED
        BY <1>1, <3>2, <4>2 DEF Accounted
    <3> QED
      BY <1>1, <1>5, <3>1, <3>2 DEF Accounted
  <2> QED
    BY <1>5, <2>2 DEF IsOnTheLastRow, OnARow
<1>6. ASSUME pc'[e] = "retry", loop' = loop, ~loop[e].stopped,
             row.attempt = loop[e].attempt, row.status # "succeeded"
      PROVE  IsOnTheLastRow(e)' /\ EarlierAreAccounted(e)'
  <2>1. IsOnTheLastRow(e)'
    BY <1>1, <1>6 DEF IsOnTheLastRow
  <2>2. \A t \in StageIds : t < s => t # s
    BY LifecycleAssumption DEF StageIds
  <2>3. EarlierAreAccounted(e)'
    BY <1>1, <1>2, <1>6, <2>2 DEF Process, EarlierAreAccounted, Accounted
  <2> QED
    BY <2>1, <2>3
<1>7. Process(e)'
  BY <1>4, <1>5, <1>6 DEF Process
<1> QED
  BY <1>1, <1>7, SoleStep

\* Where a process stands on a stage that it has not finished.
LEMMA ToRunFacts ==
    ASSUME SoleInv, NEW e \in Executors, OnStage(e)
    PROVE  /\ pc[e] = "next" /\ loop[e].stage \in StageIds /\ loop[e].stopped \in BOOLEAN
           /\ next_attempt(e) = Len(steps[loop[e].stage]) + 1
           /\ next_attempt(e) \in Nat \ {0}
           /\ \A s \in StageIds : ~Open(s)
           /\ ToRun(e) => Final(steps[loop[e].stage]) # "succeeded"
<1>1. /\ pc[e] = "next" /\ loop[e].stage \in StageIds /\ loop[e].stopped \in BOOLEAN
      /\ next_attempt(e) \in Nat \ {0}
  BY SoleFacts, NextAttempt DEF OnStage
<1>2. Process(e)
  BY SoleFacts
<1> QED
  BY <1>1, <1>2 DEF Process, MemoIsExact, OpenIsOwn, Live, Executing, OnARow, Outside,
                    next_attempt, ToRun

LEMMA PassingStep ==
    ASSUME ~Overlap, SoleInv, VerdictInv', RunMoves, NEW e \in Executors,
           record_skipped(e) \/ record_guard_error(e)
    PROVE  SoleInv'
<1> DEFINE s == loop[e].stage
<1>1. OnStage(e) /\ ToRun(e) /\ pc' = pc
  BY DEF record_skipped, record_guard_error, ToRun
<1>2. /\ pc[e] = "next" /\ s \in StageIds /\ loop[e].stopped \in BOOLEAN
      /\ next_attempt(e) = Len(steps[s]) + 1 /\ next_attempt(e) \in Nat \ {0}
      /\ ~Open(s) /\ Final(steps[s]) # "succeeded"
  BY <1>1, ToRunFacts
<1>3. Execute(e)
  BY DEF Execute
<1>4. CASE record_skipped(e)
  <2> DEFINE row == NewRow(next_attempt(e), "skipped", FALSE, "skipped")
  <2>1. row \in StepRow /\ row.status = "skipped" /\ row.attempt = Len(steps[s]) + 1
    BY <1>2 DEF NewRow, StepRow, StepStatus, Settled, Errors
  <2>2. record(e, s, row) /\ loop' = NextStage(e, loop[e].stopped)
        /\ (loop[e].stopped \/ s \in Guarded)
    BY <1>4 DEF record_skipped
  <2> HIDE DEF row
  <2>3. ~loop[e].stopped => Counts(s, row.status)
    BY <2>1, <2>2 DEF Counts
  <2> QED
    BY <1>1, <1>2, <1>3, <2>1, <2>2, <2>3, RecordingStep DEF Running
<1>5. CASE record_guard_error(e)
  <2> DEFINE row == NewRow(next_attempt(e), "failed", TRUE, "condition-error")
  <2>1. row \in StepRow /\ row.status = "failed" /\ row.attempt = Len(steps[s]) + 1
    BY <1>2 DEF NewRow, StepRow, StepStatus, Settled, Errors
  <2>2. record(e, s, row) /\ loop' = NextStage(e, s \notin Continue) /\ ~loop[e].stopped
    BY <1>5 DEF record_guard_error
  <2> HIDE DEF row
  <2>3. s \in Continue => Counts(s, row.status)
    BY <2>1 DEF Counts, Unsuccessful
  <2> QED
    BY <1>1, <1>2, <1>3, <2>1, <2>2, <2>3, RecordingStep DEF Running
<1> QED
  BY <1>4, <1>5

LEMMA HandledStep ==
    ASSUME ~Overlap, SoleInv, VerdictInv', RunMoves, NEW e \in Executors, Execute(e),
           pc[e] \in AtWork, NEW status \in {"succeeded", "failed", "timed_out"},
           NEW error \in Errors, NEW retryable \in BOOLEAN,
           status = "succeeded" => ~retryable,
           Finish(e, status, error, retryable)
    PROVE  SoleInv'
<1> DEFINE s == loop[e].stage
           row == NewRow(loop[e].attempt, status, TRUE, error)
           again == retryable /\ loop[e].tries < MaxAttempts[s]
           stops == status \in Unsuccessful /\ s \notin Continue
<1>1. pc[e] \in OnARow /\ s \in StageIds /\ loop[e].attempt \in Nat \ {0}
  BY SoleFacts, OnRowFacts DEF AtWork
<1>2. /\ loop[e].attempt = Len(steps[s]) /\ ~loop[e].stopped
      /\ Final(steps[s]) # "succeeded"
  BY <1>1, SoleFacts DEF Process, IsOnTheLastRow
<1>3. row \in StepRow /\ row.status = status /\ row.attempt = loop[e].attempt
  BY <1>1 DEF NewRow, StepRow, StepStatus, Settled
<1>4. record(e, s, row)
  BY DEF Finish
<1>5. status # Running
  BY DEF Running
<1> HIDE DEF row
<1>6. ~stops => Counts(s, status)
  BY DEF Counts, Unsuccessful
<1>7. CASE again
  <2>1. pc'[e] = "retry" /\ loop' = loop /\ status # "succeeded"
    BY <1>7, SoleFacts DEF Finish, Goto, LifecycleTypeOK
  <2> QED
    BY <1>1, <1>2, <1>3, <1>4, <1>5, <2>1, RecordingStep
<1>8. CASE ~again
  <2>1. pc'[e] = "next" /\ loop' = NextStage(e, stops) /\ stops \in BOOLEAN
    BY <1>8, SoleFacts DEF Finish, Goto, LifecycleTypeOK
  <2> HIDE DEF stops
  <2> QED
    BY <1>1, <1>2, <1>3, <1>4, <1>5, <1>6, <2>1, RecordingStep
<1> QED
  BY <1>7, <1>8

LEMMA HandlingStep ==
    ASSUME ~Overlap, SoleInv, VerdictInv', RunMoves, NEW e \in Executors,
           handler_succeeds(e) \/ handler_fails(e) \/ handler_times_out(e)
    PROVE  SoleInv'
<1>1. pc[e] \in AtWork /\ Execute(e)
  BY DEF handler_succeeds, handler_fails, handler_times_out, AtWork, OnARow, Execute
<1>2. {"none", "failure", "timeout"} \subseteq Errors
  BY DEF Errors
<1>3. CASE handler_succeeds(e)
  BY <1>1, <1>2, <1>3, HandledStep DEF handler_succeeds
<1>4. CASE handler_fails(e)
  BY <1>1, <1>2, <1>4, HandledStep DEF handler_fails
<1>5. CASE handler_times_out(e)
  BY <1>1, <1>2, <1>5, HandledStep DEF handler_times_out
<1> QED
  BY <1>3, <1>4, <1>5

\* A new row, and nothing else in flight.
LEMMA BeganStep ==
    ASSUME ~Overlap, SoleInv, VerdictInv', RunMoves, NEW e \in Executors, Execute(e),
           pc[e] \in {"next", "retry"}, loop[e].stage \in StageIds, ~loop[e].stopped,
           Final(steps[loop[e].stage]) # "succeeded",
           NEW attempt \in Nat \ {0}, attempt = Len(steps[loop[e].stage]) + 1,
           NEW tries \in Nat, Begins(e, attempt, tries)
    PROVE  SoleInv'
<1> DEFINE s == loop[e].stage
           row == NewRow(attempt, Running, TRUE, "none")
           new == finish_step(steps[s], row)
<1>1. /\ steps \in [StageIds -> Seq(StepRow)] /\ IInv /\ Process(e)
      /\ memo[e] \in Memo /\ loop[e] \in Loop
  BY SoleFacts DEF LifecycleTypeOK
<1>2. Live(e) /\ run.status \notin {"done", "absent"}
  BY <1>1 DEF Live, Executing, Process, NotOnADoneRun, SoleInv, VerdictInv, RowExists, Outside
<1>3. \A t \in StageIds : ~Open(t)
  BY <1>1 DEF Process, OpenIsOwn, Outside, OnARow
<1>4. row \in StepRow /\ row.status = Running /\ row.attempt = attempt
  BY DEF NewRow, StepRow, StepStatus, Errors
<1>5. Append(steps[s], row) = new
  BY <1>4, BeginIsFinish DEF Begins, Collides
<1>6. Shaped(new) /\ Len(new) = attempt /\ Final(new) = Running
  <2> HIDE DEF row
  <2> QED
    BY <1>3, <1>4, SoleFacts, FinishLast DEF Open
<1>7. \A t \in StageIds : steps'[t] = IF t = s THEN new ELSE steps[t]
  BY <1>1, <1>5 DEF Begins
<1> HIDE DEF new, row
<1>8. \A t \in StageIds : Open(t)' <=> t = s
  BY <1>3, <1>6, <1>7 DEF Open
<1>9. run'.status = run.status
  BY SoleFacts, TouchedVerdict DEF Begins, SameVerdict
<1>10. NoRowsYet' /\ DoneIsSettled'
  BY <1>2, <1>9 DEF NoRowsYet, DoneIsSettled
<1>11. Tables'
  BY <1>6, <1>7, <1>8, SoleFacts DEF Tables, Shaped
<1>12. /\ pc'[e] = "handling"
       /\ loop'[e].stage = s /\ loop'[e].attempt = attempt /\ loop'[e].stopped = loop[e].stopped
       /\ memo'[e] = Noted(e, s, attempt)
  BY <1>1, SoleFacts DEF Begins, Goto, LifecycleTypeOK, Loop
<1>13. /\ memo'[e].final = memo[e].final
       /\ \A t \in StageIds : memo'[e].highest[t] =
              IF t = s /\ memo[e].highest[s] < attempt THEN attempt ELSE memo[e].highest[t]
  BY <1>1, <1>12, NotedType
<1>14. MemoIsExact(e)'
  <2> SUFFICES ASSUME NEW t \in StageIds
               PROVE  /\ memo'[e].highest[t] = Len(steps'[t])
                      /\ memo'[e].final[t] = "succeeded" <=> Final(steps'[t]) = "succeeded"
    BY DEF MemoIsExact
  <2>1. /\ memo[e].highest[t] = Len(steps[t]) /\ Len(steps[t]) \in Nat
        /\ memo[e].final[t] = "succeeded" <=> Final(steps[t]) = "succeeded"
    BY <1>1, <1>2, SoleFacts DEF Process, MemoIsExact
  <2>2. CASE t = s
    BY <1>6, <1>7, <1>13, <2>1, <2>2 DEF Running
  <2>3. CASE t # s
    BY <1>7, <1>13, <2>1, <2>3
  <2> QED
    BY <2>2, <2>3
<1>15. IsOnTheLastRow(e)'
  BY <1>6, <1>7, <1>12 DEF IsOnTheLastRow, Running
<1>16. EarlierAreAccounted(e)'
  <2>1. \A t \in StageIds : t < s => t # s
    BY LifecycleAssumption DEF StageIds
  <2> QED
    BY <1>1, <1>2, <1>7, <1>12, <2>1 DEF Process, EarlierAreAccounted, Accounted
<1>17. KnowsNothing(e)' /\ OpenIsOwn(e)' /\ NotOnADoneRun(e)'
  BY <1>2, <1>8, <1>9, <1>12 DEF KnowsNothing, OpenIsOwn, NotOnADoneRun, Outside, OnARow
<1>18. Process(e)'
  BY <1>14, <1>15, <1>16, <1>17 DEF Process
<1> QED
  BY <1>10, <1>11, <1>18, SoleStep

LEMMA BeginningStep ==
    ASSUME ~Overlap, SoleInv, VerdictInv', RunMoves, NEW e \in Executors,
           begin(e) \/ begin_retry(e)
    PROVE  SoleInv'
<1>1. Execute(e)
  BY DEF Execute
<1>2. CASE begin(e)
  <2>1. OnStage(e) /\ ToRun(e) /\ ~loop[e].stopped /\ Begins(e, next_attempt(e), 1)
    BY <1>2 DEF begin, ToRun
  <2> QED
    BY <1>1, <2>1, ToRunFacts, BeganStep
<1>3. CASE begin_retry(e)
  <2>1. pc[e] \in OnARow /\ pc[e] = "retry" /\ Process(e)
    BY <1>3, SoleFacts DEF begin_retry, OnARow
  <2>2. /\ loop[e].stage \in StageIds /\ loop[e].attempt + 1 \in Nat \ {0}
        /\ loop[e].tries + 1 \in Nat
    BY <2>1, SoleFacts, OnRowFacts DEF Loop
  <2> QED
    BY <1>1, <1>3, <2>1, <2>2, BeganStep DEF begin_retry, Process, IsOnTheLastRow
<1> QED
  BY <1>2, <1>3

LEMMA NextSole == ASSUME ~Overlap PROVE SoleInv /\ [Next]_vars => SoleInv'
<1> SUFFICES ASSUME SoleInv, [Next]_vars PROVE SoleInv'
  OBVIOUS
<1>1. VerdictInv' /\ RunMoves
  BY NextVerdict, RunStep DEF SoleInv
<1>2. CASE \E e \in Executors : Execute(e)
  <2>1. PICK e \in Executors : Execute(e)
    BY <1>2
  <2> QED
    BY <1>1, <2>1, ArrivingStep, EndingStep, AttachedStep, SkippingStep, ClosingStep,
       ResumingStep, LoadingStep, PassingStep, HandlingStep, BeginningStep, AttendingStep
       DEF Execute
<1>3. CASE \E w \in Sweepers : Watch(w)
  BY <1>1, <1>3, WatchStep
<1>4. CASE Send \/ RequestStop \/ UNCHANGED vars
  BY <1>1, <1>4, OutsideStep
<1>5. CASE Tick
  BY <1>1, <1>5, AgingStep
<1> QED
  BY <1>2, <1>3, <1>4, <1>5 DEF Next

LEMMA InitSole == Init => SoleInv
<1> SUFFICES ASSUME Init PROVE SoleInv
  OBVIOUS
<1>1. VerdictInv
  BY InitVerdict
<1>2. \A s \in StageIds : steps[s] = <<>> /\ Final(steps[s]) = "none"
  BY DEF Init, Final
<1>3. \A e \in Executors : pc[e] = "idle" /\ memo[e] = NoMemo /\ loop[e] = NoLoop
  BY DEF Init
<1>4. run.status = "absent"
  BY DEF Init, NoRow
<1>5. \A e \in Executors : Process(e)
  BY <1>3, <1>4 DEF Process, KnowsNothing, OpenIsOwn, MemoIsExact, IsOnTheLastRow,
              EarlierAreAccounted, NotOnADoneRun, Outside, OnARow, Live, Executing
<1>6. Alone /\ NoRowsYet /\ Tables /\ DoneIsSettled
  BY <1>2, <1>3, <1>4 DEF Alone, NoRowsYet, Untouched, Tables, LastIsOpen, Open, Running,
                          DoneIsSettled
<1> QED
  BY <1>1, <1>5, <1>6 DEF SoleInv

-----------------------------------------------------------------------------
(* What follows. *)

\* The rows that are running are the last ones of the stages that are open.
LEMMA InFlightIsOpen ==
    ASSUME SoleInv, NEW at \in InFlight
    PROVE  at[1] \in StageIds /\ Open(at[1]) /\ at = <<at[1], Len(steps[at[1]])>>
<1>1. PICK s \in StageIds : at \in {s} \X RunningIn(steps[s])
  BY DEF InFlight
<1>2. PICK i \in RunningIn(steps[s]) : at = <<s, i>>
  BY <1>1
<1>3. i \in 1..Len(steps[s]) /\ steps[s][i].status = Running
  BY <1>2, SoleFacts DEF RunningIn, GoodRows
<1>4. i = Len(steps[s])
  BY <1>3, SoleFacts DEF Shaped, LastIsOpen, GoodRows
<1>5. Open(s)
  BY <1>3, <1>4, SoleFacts, FinalIsTyped DEF Open
<1> QED
  BY <1>2, <1>4, <1>5

LEMMA AtMostOneInFlight ==
    ASSUME SoleInv
    PROVE  OneStepInFlight
<1>1. ASSUME NEW at \in InFlight, NEW bt \in InFlight PROVE at = bt
  <2>1. at[1] = bt[1]
    BY InFlightIsOpen DEF SoleInv, Tables
  <2> QED
    BY <2>1, InFlightIsOpen
<1>2. CASE InFlight = {}
  BY <1>2, FS_EmptySet DEF OneStepInFlight
<1>3. CASE InFlight # {}
  <2>1. PICK at : InFlight = {at}
    BY <1>1, <1>3
  <2>2. Cardinality({at}) = 1
    BY FS_Singleton, Zenon
  <2>3. Cardinality(InFlight) = 1
    BY <2>1, <2>2
  <2> QED
    BY <2>3 DEF OneStepInFlight
<1> QED
  BY <1>2, <1>3

(***************************************************************************)
(* Stages run one after the other, and a resume settles what a dead        *)
(* process left, before anything else reads it: at most one row of a run   *)
(* claims to be running, whatever crashes, and wherever the watchdog       *)
(* acts beside the executor.                                               *)
(***************************************************************************)
THEOREM OneStepAtATime ==
    ASSUME ~Overlap
    PROVE  Spec => []OneStepInFlight
<1>1. SoleInv => OneStepInFlight
  BY AtMostOneInFlight
<1> QED
  BY <1>1, InitSole, NextSole, PTL DEF Spec

(***************************************************************************)
(* A run that is done has a result that counts for every stage of its      *)
(* workflow, whichever executions, retries, skips and sweeps wrote them.   *)
(***************************************************************************)
THEOREM DoneIsAccountedFor ==
    ASSUME ~Overlap
    PROVE  Spec => []DoneAccountsForEveryStage
<1>1. SoleInv => DoneAccountsForEveryStage
  BY DEF SoleInv, DoneIsSettled, Accounted, Counts, DoneAccountsForEveryStage
<1> QED
  BY <1>1, InitSole, NextSole, PTL DEF Spec

(***************************************************************************)
(* A run that is done has no step in flight and no steering message that   *)
(* still waits for a process to act on it.                                 *)
(***************************************************************************)
THEOREM NothingIsOpenWhenDone ==
    ASSUME ~Overlap
    PROVE  Spec => []DoneLeavesNothingOpen
<1>1. ASSUME SoleInv, run.status = "done" PROVE InFlight = {}
  <2> SUFFICES ASSUME NEW at \in InFlight PROVE FALSE
    OBVIOUS
  <2>1. at[1] \in StageIds /\ Open(at[1])
    BY <1>1, InFlightIsOpen
  <2> QED
    BY <1>1, <2>1 DEF SoleInv, DoneIsSettled, Accounted, Counts, Open, Running, Unsuccessful
<1>2. SoleInv => DoneLeavesNothingOpen
  BY <1>1 DEF SoleInv, DoneIsSettled, DoneLeavesNothingOpen
<1> QED
  BY <1>2, InitSole, NextSole, PTL DEF Spec

-----------------------------------------------------------------------------
(* Finished work. *)

StageSucceeded(s) == Final(steps[s]) = "succeeded"

Kept == \A s \in StageIds : StageSucceeded(s) => steps'[s] = steps[s]

LEMMA StageKept ==
    ASSUME SoleInv, NEW s \in StageIds, ~StageSucceeded(s),
           \A t \in StageIds : t # s => steps'[t] = steps[t]
    PROVE  Kept
BY DEF Kept

LEMMA ExecutorKeeps ==
    ASSUME SoleInv, NEW e \in Executors, Execute(e)
    PROVE  Kept
<1> DEFINE s == loop[e].stage
<1>1. steps \in [StageIds -> Seq(StepRow)] /\ Process(e)
  BY SoleFacts DEF LifecycleTypeOK
<1>2. ASSUME OnStage(e), ToRun(e) PROVE s \in StageIds /\ ~StageSucceeded(s)
  BY <1>2, ToRunFacts DEF StageSucceeded
<1>3. ASSUME pc[e] \in OnARow PROVE s \in StageIds /\ ~StageSucceeded(s)
  BY <1>1, <1>3, SoleFacts, OnRowFacts DEF Process, IsOnTheLastRow, StageSucceeded
<1>4. CASE resume_run(e)
  <2>1. "cancelled" \in Settled \ {"succeeded"} /\ "interrupted" \in Errors
    BY DEF Settled, Errors
  <2>2. \A t \in StageIds : Final(steps[t]) # Running =>
           SettleRunning(steps[t], "cancelled", "interrupted") = steps[t]
    BY <2>1, SoleFacts, SettleLast
  <2> QED
    BY <1>4, <2>2 DEF resume_run, Kept, StageSucceeded, Running
<1>5. CASE record_skipped(e) \/ record_guard_error(e) \/ begin(e)
  <2>1. s \in StageIds /\ ~StageSucceeded(s)
    BY <1>2, <1>5 DEF record_skipped, record_guard_error, begin, ToRun
  <2>2. \A t \in StageIds : t # s => steps'[t] = steps[t]
    BY <1>1, <1>5, <2>1 DEF record_skipped, record_guard_error, record, begin, Begins
  <2> QED
    BY <2>1, <2>2, StageKept
<1>6. CASE begin_retry(e) \/ handler_succeeds(e) \/ handler_fails(e) \/ handler_times_out(e)
  <2>1. s \in StageIds /\ ~StageSucceeded(s)
    BY <1>3, <1>6
       DEF begin_retry, handler_succeeds, handler_fails, handler_times_out, OnARow
  <2>2. \A t \in StageIds : t # s => steps'[t] = steps[t]
    BY <1>1, <1>6, <2>1
       DEF begin_retry, Begins, handler_succeeds, handler_fails, handler_times_out,
           Finish, record
  <2> QED
    BY <2>1, <2>2, StageKept
<1>7. CASE \/ Enter(e) \/ create_run(e) \/ announce_run(e) \/ load_run(e)
           \/ skip_succeeded(e) \/ begin_collides(e) \/ close_run(e) \/ attach_read(e) \/ attach_write(e)
           \/ attach_conflict(e) \/ leave(e) \/ Crash(e) \/ heartbeat(e) \/ poll(e)
           \/ poll_claim(e)
  BY <1>7 DEF Kept, Enter, create_run, announce_run, load_run, skip_succeeded,
     begin_collides, close_run, attach_read, attach_write, attach_conflict, leave, Crash, heartbeat, poll,
     poll_claim, Rows
<1> QED
  BY <1>4, <1>5, <1>6, <1>7 DEF Execute

LEMMA SystemKeeps ==
    ASSUME SoleInv, [Next]_vars, ~\E e \in Executors : Execute(e)
    PROVE  Kept
<1>1. CASE Tick
  <2>1. \A s \in StageIds : steps'[s] = [i \in DOMAIN steps[s] |-> Aged(steps[s][i])]
    BY <1>1 DEF Tick, Aged
  <2> QED
    BY <2>1, SoleFacts, AgedRows DEF Kept, StageSucceeded, Running
<1>2. CASE \E w \in Sweepers : Watch(w)
  <2>1. PICK w \in Sweepers : Watch(w)
    BY <1>2
  <2>2. CASE recover(w)
    <3>1. PICK stall \in sweep[w].stalls :
             recover_silent(w, stall) \/ recover_step(w, stall) \/ recover_run(w, stall)
      BY <2>2 DEF recover
    <3>2. CASE recover_step(w, stall)
      <4> DEFINE s == stall.stage
      <4>1. s \in StageIds
        BY <3>1, <3>2, SoleFacts DEF recover_step, LifecycleTypeOK, Sweep, Stall
      <4>2. "timed_out" \in Settled \ {"succeeded"} /\ "watchdog-timeout" \in Errors
        BY DEF Settled, Errors
      <4>3. Final(steps[s]) # Running =>
               SettleRunning(steps[s], "timed_out", "watchdog-timeout") = steps[s]
        BY <4>1, <4>2, SoleFacts, SettleLast
      <4>4. steps \in [StageIds -> Seq(StepRow)]
        BY SoleFacts DEF LifecycleTypeOK
      <4> QED
        BY <3>2, <4>1, <4>3, <4>4 DEF recover_step, Kept, StageSucceeded, Running
    <3>3. CASE recover_silent(w, stall) \/ recover_run(w, stall)
      BY <3>3 DEF recover_silent, recover_run, Kept
    <3> QED
      BY <3>1, <3>2, <3>3
  <2>3. CASE ~recover(w)
    BY <2>1, <2>3 DEF Watch, detect_steps, detect_run_row, detect_run, WatchdogCrash, Rows, Kept
  <2> QED
    BY <2>2, <2>3
<1>3. CASE Send \/ RequestStop \/ UNCHANGED vars
  BY <1>3 DEF Send, RequestStop, Rows, vars, Kept
<1> QED
  BY <1>1, <1>2, <1>3 DEF Next

(***************************************************************************)
(* Once an attempt of a stage succeeded, no crash, resume, retry or sweep  *)
(* changes its row and the stage gets no further attempt: what a resume    *)
(* does not run again is what did succeed.                                 *)
(***************************************************************************)
THEOREM FinishedWorkStays ==
    ASSUME ~Overlap
    PROVE  Spec => FinishedWorkIsKept
<1>1. ASSUME SoleInv, [Next]_vars, NEW s \in StageIds,
             "succeeded" \in {steps[s][i].status : i \in DOMAIN steps[s]}
      PROVE  steps'[s] = steps[s]
  <2>1. PICK i \in DOMAIN steps[s] : steps[s][i].status = "succeeded"
    BY <1>1
  <2>2. i \in 1..Len(steps[s])
    BY <1>1, <2>1, SoleFacts DEF GoodRows
  <2>3. i = Len(steps[s])
    BY <1>1, <2>1, <2>2, SoleFacts DEF Shaped, LastIsOpen
  <2>4. StageSucceeded(s)
    BY <1>1, <2>1, <2>2, <2>3, SoleFacts, FinalIsTyped DEF StageSucceeded
  <2> QED
    BY <1>1, <2>4, ExecutorKeeps, SystemKeeps DEF Kept
<1>2. SoleInv /\ [Next]_vars =>
         [\A s \in StageIds :
             "succeeded" \in {steps[s][i].status : i \in DOMAIN steps[s]}
                 => steps'[s] = steps[s]]_vars
  BY <1>1
<1> QED
  BY <1>2, InitSole, NextSole, PTL DEF Spec, FinishedWorkIsKept

-----------------------------------------------------------------------------
(* What can still move a run that is done. *)

\* No sweep turns against a run that is done: nothing of it is in flight.
LEMMA NoNewAccusation ==
    ASSUME SoleInv, [Next]_vars, run.status = "done", NEW w \in Sweepers, Accuses(w)'
    PROVE  Accuses(w)
<1>1. sweep \in [Sweepers -> Sweep]
  BY SoleFacts DEF LifecycleTypeOK
<1>2. InFlight = {}
  <2> SUFFICES ASSUME NEW at \in InFlight PROVE FALSE
    OBVIOUS
  <2>1. at[1] \in StageIds /\ Open(at[1])
    BY InFlightIsOpen
  <2> QED
    BY <2>1 DEF SoleInv, DoneIsSettled, Accounted, Counts, Open, Running, Unsuccessful
<1>3. ASSUME /\ sweep'[w].late => sweep[w].late
             /\ \A x \in sweep'[w].stalls : x \in sweep[w].stalls \/ x.kind = "silent"
      PROVE  Accuses(w)
  BY <1>3 DEF Accuses
<1>4. CASE \E v \in Sweepers : Watch(v)
  <2>1. PICK v \in Sweepers : Watch(v)
    BY <1>4
  <2>2. CASE v # w
    <3>1. sweep'[w] = sweep[w]
      BY <1>1, <2>1, <2>2
         DEF Watch, detect_steps, detect_run_row, detect_run, recover, Recovered, Recovering,
             Sweeping, WatchdogCrash
    <3> QED
      BY <1>3, <3>1
  <2>3. CASE v = w /\ detect_steps(w)
    <3>1. sweep'[w].stalls = {} /\ sweep'[w].late = sweep[w].late
      BY <1>1, <1>2, <2>3 DEF detect_steps, Sweeping, Sweep
    <3> QED
      BY <1>3, <3>1
  <2>4. CASE v = w /\ ~detect_steps(w)
    <3>1. \A stalls \in SUBSET sweep[w].stalls : Recovering(w, stalls) =>
             /\ sweep'[w].stalls \subseteq sweep[w].stalls
             /\ sweep'[w].late => sweep[w].late
      BY <1>1 DEF Recovering, Idle, Sweep
    <3>2. CASE detect_run_row(w)
      BY <1>3, <3>1, <3>2 DEF detect_run_row
    <3>3. CASE detect_run(w)
      <4>1. CASE sweep[w].late
        BY <4>1 DEF Accuses
      <4>2. CASE ~sweep[w].late
        <5>1. Recovering(w, sweep[w].stalls)
          BY <3>3, <4>2 DEF detect_run
        <5> QED
          BY <1>3, <3>1, <5>1
      <4> QED
        BY <4>1, <4>2
    <3>4. CASE recover(w)
      <4>1. PICK stall : Recovering(w, sweep[w].stalls \ {stall})
        BY <3>4 DEF recover, Recovered
      <4> QED
        BY <1>3, <3>1, <4>1
    <3>5. CASE WatchdogCrash(w)
      <4>1. sweep'[w] = Idle
        BY <1>1, <3>5 DEF WatchdogCrash
      <4> QED
        BY <1>3, <4>1 DEF Idle
    <3> QED
      BY <2>1, <2>4, <3>2, <3>3, <3>4, <3>5 DEF Watch
  <2> QED
    BY <2>1, <2>2, <2>3, <2>4
<1>5. CASE \E e \in Executors : Execute(e)
  <2>1. sweep' = sweep
    BY <1>5 DEF Execute, Enter, create_run, announce_run, resume_run, load_run, skip_succeeded,
          record_skipped, record_guard_error, begin, begin_retry, Begins, begin_collides,
          handler_succeeds, handler_fails, handler_times_out, Finish, close_run,
          attach_read, attach_write, attach_conflict, leave, Crash, heartbeat, poll, poll_claim
  <2> QED
    BY <1>3, <2>1
<1>6. CASE Send \/ RequestStop \/ UNCHANGED vars
  <2>1. sweep' = sweep
    BY <1>6 DEF Send, RequestStop, vars
  <2> QED
    BY <1>3, <2>1
<1>7. CASE Tick
  <2>1. sweep'[w].stalls = sweep[w].stalls /\ sweep'[w].late = sweep[w].late
    BY <1>1, <1>7 DEF Tick, Sweep
  <2> QED
    BY <1>3, <2>1
<1> QED
  BY <1>4, <1>5, <1>6, <1>7 DEF Next

\* Who takes a run from done: a resume, or a sweep that held something against it.
LEMMA DoneIsLeft ==
    ASSUME ~Overlap, SoleInv, [Next]_vars, run.status = "done", run'.status # "done"
    PROVE  \/ \E e \in Executors : pc[e] = "opening" /\ pc'[e] = "loading"
           \/ \E w \in Sweepers : Accuses(w) /\ sweep'[w] # sweep[w]
<1>1. SoleInv' /\ LifecycleTypeOK
  BY NextSole, SoleFacts
<1>2. CASE \E e \in Executors : Execute(e)
  <2>1. PICK e \in Executors : Execute(e)
    BY <1>2
  <2>2. CASE resume_run(e)
    BY <1>1, <2>2 DEF resume_run, Goto, LifecycleTypeOK
  <2>3. ~close_run(e) /\ ~create_run(e)
    BY SoleFacts DEF close_run, create_run, Process, NotOnADoneRun, Executing
  <2>4. CASE attach_write(e)
    <3>1. copy[e].status = run.status /\ copy[e] \in RunRow
      BY <1>1, <2>4 DEF SoleInv, VerdictInv, CopyIsOfItsVersion, attach_write, LifecycleTypeOK
    <3> QED
      BY <2>4, <3>1 DEF attach_write, RunRow
  <2>5. CASE \/ record_skipped(e) \/ record_guard_error(e) \/ begin(e) \/ begin_retry(e)
             \/ handler_succeeds(e) \/ handler_fails(e) \/ handler_times_out(e)
             \/ heartbeat(e)
    <3>1. \E at : touch_run(at)
      BY <2>5 DEF record_skipped, record_guard_error, record, begin, begin_retry, Begins,
                  handler_succeeds, handler_fails, handler_times_out, Finish, heartbeat
    <3> QED
      BY <3>1, SoleFacts, TouchedVerdict DEF SameVerdict
  <2>6. CASE \/ Enter(e) \/ announce_run(e) \/ load_run(e) \/ skip_succeeded(e)
             \/ begin_collides(e) \/ attach_read(e) \/ attach_conflict(e) \/ leave(e)
             \/ Crash(e) \/ poll(e) \/ poll_claim(e)
    BY <2>6 DEF Enter, announce_run, load_run, skip_succeeded, begin_collides, attach_read,
                attach_conflict, leave, Crash, poll, poll_claim, Rows
  <2> QED
    BY <2>1, <2>2, <2>3, <2>4, <2>5, <2>6 DEF Execute
<1>3. CASE \E w \in Sweepers : Watch(w)
  <2>1. PICK w \in Sweepers : Watch(w)
    BY <1>3
  <2>2. recover(w)
    BY <2>1 DEF Watch, detect_steps, detect_run_row, detect_run, WatchdogCrash, Rows
  <2>3. PICK stall \in sweep[w].stalls :
           /\ recover_silent(w, stall) \/ recover_step(w, stall) \/ recover_run(w, stall)
           /\ Recovered(w, stall)
    BY <2>2 DEF recover
  <2>4. ~recover_silent(w, stall)
    BY DEF recover_silent
  <2>5. Accuses(w)
    BY <2>3, <2>4 DEF Accuses, recover_step, recover_run
  <2>6. stall \notin sweep'[w].stalls
    BY <1>1, <2>3 DEF Recovered, Recovering, Idle, LifecycleTypeOK, Sweep
  <2> QED
    BY <2>3, <2>5, <2>6
<1>4. CASE Send \/ RequestStop \/ UNCHANGED vars
  BY <1>4 DEF Send, RequestStop, Rows, vars
<1>5. CASE Tick
  BY <1>1, <1>5 DEF Tick, LifecycleTypeOK, RunRow
<1> QED
  BY <1>2, <1>3, <1>4, <1>5 DEF Next

(***************************************************************************)
(* Beside the watchdog with its stale list of stalls, and the pipeline     *)
(* with its stale row: succeeded stages stay as they are, the late write   *)
(* undoes no verdict, no sweep turns against a run that is done, and only  *)
(* a resume, or a sweep that held something against the run before it was  *)
(* done, takes it from done.  That such a sweep halts it is not excluded:  *)
(* FinishedRunIsNotHalted is false.                                        *)
(***************************************************************************)
THEOREM WhatMovesAFinishedRunIsKnown ==
    ASSUME ~Overlap
    PROVE  Spec => WhatMovesAFinishedRun
<1> DEFINE moved ==
       run.status = "done" =>
           /\ \A w \in Sweepers : Accuses(w)' => Accuses(w)
           /\ run'.status # "done" =>
                 \/ \E e \in Executors : pc[e] = "opening" /\ pc'[e] = "loading"
                 \/ \E w \in Sweepers : Accuses(w) /\ sweep'[w] # sweep[w]
<1>1. SoleInv /\ [Next]_vars => [moved]_vars
  BY NoNewAccusation, DoneIsLeft
<1>2. Spec => [][moved]_vars
  BY <1>1, InitSole, NextSole, PTL DEF Spec
<1> QED
  BY <1>2, FinishedWorkStays, LateWriteKeepsTheVerdict DEF WhatMovesAFinishedRun

-----------------------------------------------------------------------------
(***************************************************************************)
(* The audit log.  Four things make it say something else than the tables, *)
(* and the theorem at the end is of a run without them: the watchdog's and *)
(* the operator's events, which carry less than the rows they settle, and  *)
(* a row that no STEP_STARTED announced, which is one of a guard that      *)
(* failed to evaluate (started_at is missing from the log) or a skipped    *)
(* one whose stage declares a timeout (timeout_seconds is).                *)
(***************************************************************************)
MayBeSkipped(s) == s \in Guarded \/ \E t \in StageIds \ Continue : t < s

LoggedInFull ==
    /\ Sweepers = {} /\ ~OperatorStops /\ Faulty = {}
    /\ \A s \in StageIds : MayBeSkipped(s) => Limit[s] = NoLimit

\* What the log keeps of a row, once folded.
Entry(attempt, status, started, ended, limited, error) ==
    [attempt |-> attempt, status |-> status, started |-> started,
     ended |-> ended, limited |-> limited, error |-> error]

Declares(s) == Limit[s] # NoLimit

View(s, row) == Entry(row.attempt, row.status, row.started, Ended(row.status),
                      Declares(s), row.error)

Viewed(s, rows) == [i \in DOMAIN rows |-> View(s, rows[i])]

\* A record of five fields.
LogShape ==
    log \in [run : {log.run}, ended : {log.ended}, born : {log.born},
             steps : {log.steps}, unfolded : {log.unfolded}]

Unannounced ==
    run.status = "absent" \/ (\E e \in Executors : pc[e] = "announce")
        => log = NoProjection(StageIds)

\* Between the row of a new run and its announcement nobody writes.
IsFresh(e) == pc[e] = "announce" => run.status = "running" /\ ~run.finished

\* A stopped process is past the stage that stopped it.
StoppedBehind(e) ==
    Live(e) /\ loop[e].stopped => \E s \in StageIds \ Continue : s < loop[e].stage

\* A row being worked on was announced.
WasStarted(e) ==
    pc[e] \in OnARow => steps[loop[e].stage][loop[e].attempt].started

LogIsTables ==
    log.born = "opened" =>
        /\ log.run = run.status /\ log.ended = run.finished
        /\ log.steps = [s \in StageIds |-> Viewed(s, steps[s])]

LogInv == /\ SoleInv /\ LogShape /\ Unannounced /\ LogIsTables
          /\ \A e \in Executors : IsFresh(e) /\ StoppedBehind(e) /\ WasStarted(e)

-----------------------------------------------------------------------------
(* The fold, over what it kept of the rows.                                *)

LEMMA EntryIs ==
    ASSUME NEW r, NEW a, NEW status, NEW started, NEW ended, NEW limited, NEW error,
           r \in [attempt : {a}, status : {status}, started : {started}, ended : {ended},
                  limited : {limited}, error : {error}]
    PROVE  r = Entry(a, status, started, ended, limited, error)
BY DEF Entry

LEMMA BlankIsEntry ==
    ASSUME NEW a
    PROVE  Blank(a) = Entry(a, "unknown", FALSE, FALSE, FALSE, "none")
BY DEF Blank, Entry

LEMMA ViewOfRow ==
    ASSUME NEW s, NEW rows, GoodRows(rows)
    PROVE  /\ DOMAIN Viewed(s, rows) = 1..Len(rows)
           /\ \A i \in 1..Len(rows) : /\ Viewed(s, rows)[i] = View(s, rows[i])
                                      /\ Viewed(s, rows)[i].attempt = i
           /\ \A a \in Nat \ {0} : HasAttempt(Viewed(s, rows), a) <=> a <= Len(rows)
<1>1. DOMAIN rows = 1..Len(rows) /\ \A i \in 1..Len(rows) : rows[i].attempt = i
  BY DEF GoodRows, Contiguous
<1>2. /\ DOMAIN Viewed(s, rows) = 1..Len(rows)
      /\ \A i \in 1..Len(rows) : /\ Viewed(s, rows)[i] = View(s, rows[i])
                                 /\ Viewed(s, rows)[i].attempt = i
  BY <1>1 DEF Viewed, View, Entry
<1>3. Len(rows) \in Nat
  BY DEF GoodRows
<1> QED
  BY <1>2, <1>3 DEF HasAttempt

\* The row an event is folded into: the one of its attempt, or a blank one.
LEMMA CurrentIs ==
    ASSUME NEW s, NEW rows, GoodRows(rows), NEW a \in Nat \ {0}
    PROVE  Current(Viewed(s, rows), a) =
              IF a <= Len(rows) THEN View(s, rows[a]) ELSE Blank(a)
<1> DEFINE seen == Viewed(s, rows)
<1>1. Len(rows) \in Nat
  BY DEF GoodRows
<1>2. CASE a <= Len(rows)
  <2>1. a \in DOMAIN seen /\ seen[a].attempt = a /\ HasAttempt(seen, a)
        /\ seen[a] = View(s, rows[a])
    BY <1>1, <1>2, ViewOfRow
  <2>2. \A i \in DOMAIN seen : seen[i].attempt = a => i = a
    BY ViewOfRow
  <2> HIDE DEF seen
  <2>3. (CHOOSE i \in DOMAIN seen : seen[i].attempt = a) = a
    BY <2>1, <2>2
  <2> QED
    BY <1>2, <2>1, <2>3 DEF Current, seen
<1>3. CASE ~(a <= Len(rows))
  BY <1>3, ViewOfRow DEF Current
<1> QED
  BY <1>2, <1>3

\* A row the log takes over as it is in the tables.
LEMMA FinishViewed ==
    ASSUME NEW s, NEW rows, GoodRows(rows), NEW row \in StepRow,
           row.attempt <= Len(rows) + 1
    PROVE  finish_step(Viewed(s, rows), View(s, row)) = Viewed(s, finish_step(rows, row))
<1> DEFINE a == row.attempt
           seen == Viewed(s, rows)
           new == finish_step(rows, row)
<1>1. a \in Nat \ {0} /\ Len(rows) \in Nat /\ rows \in Seq(StepRow)
      /\ DOMAIN rows = 1..Len(rows)
      /\ View(s, row).attempt = a
  BY DEF StepRow, GoodRows, View, Entry
<1>2. HasAttempt(seen, a) <=> HasAttempt(rows, a)
  BY <1>1, ViewOfRow, AttemptUsed
<1>3. CASE HasAttempt(rows, a)
  <2>1. new = [i \in DOMAIN rows |-> IF rows[i].attempt = a THEN row ELSE rows[i]]
    BY <1>3 DEF finish_step
  <2>2. finish_step(seen, View(s, row)) =
           [i \in DOMAIN seen |-> IF seen[i].attempt = a THEN View(s, row) ELSE seen[i]]
    BY <1>1, <1>2, <1>3 DEF finish_step
  <2>3. /\ DOMAIN seen = 1..Len(rows)
        /\ \A i \in 1..Len(rows) : /\ rows[i].attempt = seen[i].attempt
                                   /\ seen[i] = View(s, rows[i])
    BY <1>1, ViewOfRow DEF GoodRows, Contiguous
  <2>4. Viewed(s, new) = [i \in 1..Len(rows) |-> View(s, new[i])]
    BY <1>1, <2>1 DEF Viewed
  <2>5. \A i \in 1..Len(rows) : View(s, new[i]) =
           IF seen[i].attempt = a THEN View(s, row) ELSE seen[i]
    BY <1>1, <2>1, <2>3
  <2> HIDE DEF new, seen, a
  <2>6. finish_step(seen, View(s, row)) = Viewed(s, new)
    BY <2>2, <2>3, <2>4, <2>5
  <2> QED
    BY <2>6 DEF seen, new
<1>4. CASE ~HasAttempt(rows, a)
  <2>1. new = Append(rows, row) /\ finish_step(seen, View(s, row)) = Append(seen, View(s, row))
    BY <1>1, <1>2, <1>4 DEF finish_step
  <2>2. seen = [i \in 1..Len(rows) |-> View(s, rows[i])]
    BY <1>1 DEF Viewed
  <2>3. Len(seen) = Len(rows) /\ Append(seen, View(s, row)) =
           [i \in 1..Len(rows) + 1 |-> IF i <= Len(rows) THEN seen[i] ELSE View(s, row)]
    BY <1>1, <2>2
  <2>4. DOMAIN new = 1..Len(rows) + 1
        /\ \A i \in 1..Len(rows) + 1 : new[i] = IF i <= Len(rows) THEN rows[i] ELSE row
    BY <1>1, <2>1
  <2>5. Viewed(s, new) = [i \in 1..Len(rows) + 1 |-> View(s, new[i])]
    BY <2>4 DEF Viewed
  <2>6. \A i \in 1..Len(rows) + 1 : View(s, new[i]) =
           IF i <= Len(rows) THEN seen[i] ELSE View(s, row)
    <3>1. \A i \in 1..Len(rows) + 1 : i <= Len(rows) => i \in 1..Len(rows)
      BY <1>1
    <3> HIDE DEF new, seen
    <3> QED
      BY <2>2, <2>4, <3>1
  <2> HIDE DEF new, seen
  <2>7. finish_step(seen, View(s, row)) = Viewed(s, new)
    BY <2>1, <2>3, <2>5, <2>6
  <2> QED
    BY <2>7 DEF seen, new
<1> QED
  BY <1>3, <1>4

\* STEP_STARTED of a new attempt.
LEMMA StartedViewed ==
    ASSUME NEW s, NEW rows, GoodRows(rows), NEW a, a = Len(rows) + 1
    PROVE  [Current(Viewed(s, rows), a) EXCEPT !.status = Running, !.started = TRUE,
                                               !.limited = Declares(s)]
              = View(s, NewRow(a, Running, TRUE, "none"))
<1>1. Current(Viewed(s, rows), a) = Blank(a)
  <2>1. a \in Nat \ {0} /\ ~(a <= Len(rows))
    BY DEF GoodRows
  <2> QED
    BY <2>1, CurrentIs
<1>2. Current(Viewed(s, rows), a) = Entry(a, "unknown", FALSE, FALSE, FALSE, "none")
  BY <1>1, BlankIsEntry
<1>3. View(s, NewRow(a, Running, TRUE, "none")) = Entry(a, Running, TRUE, FALSE, Declares(s), "none")
  BY DEF View, NewRow, Ended, Running
<1> DEFINE seen == Current(Viewed(s, rows), a)
           r == [seen EXCEPT !.status = Running, !.started = TRUE, !.limited = Declares(s)]
<1> PICK no : no = FALSE /\ seen = Entry(a, "unknown", no, no, no, "none")
  BY <1>2
<1> HIDE DEF seen
<1>4. r \in [attempt : {a}, status : {Running}, started : {TRUE}, ended : {FALSE},
             limited : {Declares(s)}, error : {"none"}]
  BY DEF Entry
<1> HIDE DEF r
<1>5. r = Entry(a, Running, TRUE, FALSE, Declares(s), "none")
  BY <1>4 DEF Entry
<1> QED
  BY <1>3, <1>5 DEF r, seen

\* What STEP_FINISHED makes of the row of its attempt.
EndedIn(seen, row) ==
    [Current(seen, row.attempt) EXCEPT !.status = row.status,
                                       !.ended = row.status # "skipped",
                                       !.error = row.error]

\* STEP_FINISHED of a started attempt, or of one that is skipped.
LEMMA EndedViewed ==
    ASSUME NEW s, NEW rows, GoodRows(rows), NEW row \in StepRow, row.status # Running,
           row.attempt <= Len(rows) => rows[row.attempt].started = row.started,
           ~(row.attempt <= Len(rows)) => ~row.started /\ Limit[s] = NoLimit
    PROVE  EndedIn(Viewed(s, rows), row) = View(s, row)
<1> DEFINE seen == Current(Viewed(s, rows), row.attempt)
           ended == Ended(row.status)
           limited == Declares(s)
           r == [seen EXCEPT !.status = row.status, !.ended = row.status # "skipped",
                             !.error = row.error]
<1>1. row.attempt \in Nat \ {0} /\ row.started \in BOOLEAN
  BY DEF StepRow
<1>2. ended = (row.status # "skipped")
  BY DEF Ended
<1>3. View(s, row) = Entry(row.attempt, row.status, row.started, ended, limited, row.error)
  BY DEF View
<1> HIDE DEF ended
<1>4. \E status, e, error :
         seen = Entry(row.attempt, status, row.started, e, limited, error)
  <2>1. CASE row.attempt <= Len(rows)
    <3>1. rows[row.attempt].attempt = row.attempt
      BY <1>1, <2>1 DEF GoodRows, Contiguous
    <3>2. seen = View(s, rows[row.attempt])
      BY <1>1, <2>1, CurrentIs
    <3>3. seen = Entry(row.attempt, rows[row.attempt].status, row.started,
                       Ended(rows[row.attempt].status), limited, rows[row.attempt].error)
      BY <2>1, <3>1, <3>2 DEF View
    <3> QED
      BY <3>3
  <2>2. CASE ~(row.attempt <= Len(rows))
    <3>1. seen = Blank(row.attempt)
      BY <1>1, <2>2, CurrentIs
    <3>2. row.started = FALSE /\ limited = FALSE
      BY <1>1, <2>2 DEF Declares
    <3> HIDE DEF seen, limited
    <3>3. seen = Entry(row.attempt, "unknown", row.started, row.started, limited, "none")
      BY <3>1, <3>2, BlankIsEntry
    <3> QED
      BY <3>3
  <2> QED
    BY <2>1, <2>2
<1> HIDE DEF seen, limited
<1>5. PICK status, e, error : seen = Entry(row.attempt, status, row.started, e, limited, error)
  BY <1>4
<1>6. r \in [attempt : {row.attempt}, status : {row.status}, started : {row.started},
             ended : {ended}, limited : {limited}, error : {row.error}]
  BY <1>2, <1>5 DEF Entry
<1> HIDE DEF r
<1>7. r = Entry(row.attempt, row.status, row.started, ended, limited, row.error)
  BY <1>6, EntryIs
<1> QED
  BY <1>3, <1>7 DEF r, seen, EndedIn

\* _reconcile: each row it settles, in the log.
LEMMA InterruptedViewed ==
    ASSUME NEW s, NEW rows, GoodRows(rows)
    PROVE  LET hit == {rows[i].attempt : i \in RunningIn(rows)}
               seen == Viewed(s, rows)
           IN  [i \in DOMAIN seen |->
                   IF seen[i].attempt \in hit
                   THEN [seen[i] EXCEPT !.status = "cancelled", !.ended = TRUE,
                                        !.error = "interrupted"]
                   ELSE seen[i]]
                 = Viewed(s, SettleRunning(rows, "cancelled", "interrupted"))
<1> DEFINE hit == {rows[i].attempt : i \in RunningIn(rows)}
           seen == Viewed(s, rows)
           new == SettleRunning(rows, "cancelled", "interrupted")
<1>1. DOMAIN rows = 1..Len(rows) /\ \A i \in 1..Len(rows) : rows[i].attempt = i
  BY DEF GoodRows, Contiguous
<1>2. \A i \in 1..Len(rows) : i \in hit <=> rows[i].status = Running
  BY <1>1 DEF RunningIn
<1>3. \A i \in 1..Len(rows) : new[i] = IF rows[i].status = Running
                                       THEN Settle(rows[i], "cancelled", "interrupted")
                                       ELSE rows[i]
  BY <1>1 DEF SettleRunning
<1>4. DOMAIN new = 1..Len(rows)
  BY <1>1 DEF SettleRunning
<1>5. ASSUME NEW i \in 1..Len(rows)
      PROVE  View(s, new[i]) = IF seen[i].attempt \in hit
                               THEN [seen[i] EXCEPT !.status = "cancelled", !.ended = TRUE,
                                                    !.error = "interrupted"]
                               ELSE seen[i]
  <2>1. seen[i] = View(s, rows[i]) /\ seen[i].attempt = i
    BY ViewOfRow
  <2> HIDE DEF seen, new, hit
  <2>2. CASE rows[i].status = Running
    <3>1. View(s, Settle(rows[i], "cancelled", "interrupted")) =
             [View(s, rows[i]) EXCEPT !.status = "cancelled", !.ended = TRUE,
                                      !.error = "interrupted"]
      <4> DEFINE settled == Settle(rows[i], "cancelled", "interrupted")
                 was == View(s, rows[i])
                 r == [was EXCEPT !.status = "cancelled", !.ended = TRUE,
                                  !.error = "interrupted"]
                 limited == Declares(s)
      <4>1. View(s, settled) = Entry(rows[i].attempt, "cancelled", rows[i].started, TRUE,
                                     limited, "interrupted")
        BY DEF View, Settle, NewRow, Ended, Running
      <4>2. \E e : View(s, rows[i]) = Entry(rows[i].attempt, rows[i].status,
                                            rows[i].started, e, limited, rows[i].error)
        BY DEF View
      <4> HIDE DEF limited
      <4> PICK e : was = Entry(rows[i].attempt, rows[i].status, rows[i].started, e,
                               limited, rows[i].error)
        BY <4>2
      <4> HIDE DEF was
      <4>3. r \in [attempt : {rows[i].attempt}, status : {"cancelled"},
                   started : {rows[i].started}, ended : {TRUE}, limited : {limited},
                   error : {"interrupted"}]
        BY DEF Entry
      <4> HIDE DEF r
      <4>4. r = Entry(rows[i].attempt, "cancelled", rows[i].started, TRUE, limited,
                      "interrupted")
        BY <4>3 DEF Entry
      <4> QED
        BY <4>1, <4>4 DEF r, was
    <3> QED
      BY <1>2, <1>3, <2>1, <2>2, <3>1
  <2>3. CASE rows[i].status # Running
    BY <1>2, <1>3, <2>1, <2>3
  <2> QED
    BY <2>2, <2>3
<1>6. DOMAIN seen = 1..Len(rows)
  BY ViewOfRow
<1> HIDE DEF seen, new, hit
<1>7. Viewed(s, new) = [i \in 1..Len(rows) |-> View(s, new[i])]
  BY <1>4 DEF Viewed
<1>8. Viewed(s, new) = [i \in DOMAIN seen |->
                   IF seen[i].attempt \in hit
                   THEN [seen[i] EXCEPT !.status = "cancelled", !.ended = TRUE,
                                        !.error = "interrupted"]
                   ELSE seen[i]]
  BY <1>5, <1>6, <1>7
<1> QED
  BY <1>8 DEF seen, new, hit

\* Time leaves no trace in the log.
LEMMA AgedViewed ==
    ASSUME NEW s, NEW rows, GoodRows(rows)
    PROVE  Viewed(s, [i \in DOMAIN rows |-> Aged(rows[i])]) = Viewed(s, rows)
<1>1. \A r \in StepRow : View(s, Aged(r)) = View(s, r)
  BY DEF View, Aged, StepRow
<1>2. DOMAIN rows = 1..Len(rows) /\ \A i \in 1..Len(rows) : rows[i] \in StepRow
  BY DEF GoodRows
<1> QED
  BY <1>1, <1>2 DEF Viewed

-----------------------------------------------------------------------------
(* What an event does to the log. *)

LEMMA StepEvent ==
    ASSUME LogShape, NEW s, NEW a, NEW x, NEW y,
           \/ log' = fold_step_started(log, s, a, x)
           \/ log' = fold_step_ended(log, s, a, x, y)
    PROVE  /\ LogShape'
           /\ log'.born = log.born /\ log'.run = Mentioned(log) /\ log'.ended = log.ended
BY DEF LogShape, fold_step_started, fold_step_ended

LEMMA RunEvent ==
    ASSUME LogShape, NEW x,
           log' = fold_run_started(log, x) \/ log' = fold_run_ended(log, x)
    PROVE  /\ LogShape' /\ log'.steps = log.steps
           /\ log' = fold_run_started(log, x) => log'.run = "running" /\ log'.ended = FALSE
           /\ log' = fold_run_ended(log, x) =>
                 log'.run = x /\ log'.ended = TRUE /\ log'.born = log.born
BY DEF LogShape, fold_run_started, fold_run_ended

LEMMA LogFacts ==
    ASSUME LogInv
    PROVE  /\ SoleInv /\ VerdictInv /\ IInv /\ LogShape
           /\ run.status \in RunStatus /\ run.status # "none"
           /\ log.born = "opened" =>
                 /\ log.run = run.status /\ log.ended = run.finished
                 /\ Mentioned(log) = log.run
                 /\ log.steps = [s \in StageIds |-> Viewed(s, steps[s])]
           /\ \A e \in Executors : IsFresh(e) /\ StoppedBehind(e) /\ WasStarted(e)
<1>1. SoleInv /\ VerdictInv /\ IInv /\ LogShape /\ LogIsTables
  BY DEF LogInv, SoleInv, VerdictInv
<1>2. run.status \in RunStatus /\ run.status # "none"
  BY <1>1 DEF IInv, LifecycleTypeOK, RunRow, RunStatus
<1> QED
  BY <1>1, <1>2 DEF LogInv, LogIsTables, Mentioned

\* One stage has new rows, in the tables and in the log.
LEMMA OneStageLogged ==
    ASSUME LogInv, log.born = "opened", NEW s \in StageIds, NEW rows,
           steps' = [steps EXCEPT ![s] = rows],
           log'.steps = [log.steps EXCEPT ![s] = Viewed(s, rows)]
    PROVE  log'.steps = [t \in StageIds |-> Viewed(t, steps'[t])]
<1>1. steps \in [StageIds -> Seq(StepRow)]
  BY LogFacts DEF IInv, LifecycleTypeOK
<1>2. \A t \in StageIds : steps'[t] = IF t = s THEN rows ELSE steps[t]
  BY <1>1
<1>3. log.steps = [t \in StageIds |-> Viewed(t, steps[t])]
  BY LogFacts
<1>4. \A t \in StageIds : Viewed(t, steps'[t]) = IF t = s THEN Viewed(s, rows)
                                                ELSE Viewed(t, steps[t])
  BY <1>2
<1> QED
  BY <1>3, <1>4

LEMMA RecordLogged ==
    ASSUME LogInv, NEW e \in Executors, NEW s \in StageIds, NEW row \in StepRow,
           row.status # Running, row.attempt <= Len(steps[s]) + 1,
           row.attempt <= Len(steps[s]) => steps[s][row.attempt].started = row.started,
           ~(row.attempt <= Len(steps[s])) => ~row.started /\ Limit[s] = NoLimit,
           record(e, s, row)
    PROVE  LogShape' /\ LogIsTables'
<1>1. log' = fold_step_ended(log, s, row.attempt, row.status, row.error)
      /\ steps' = [steps EXCEPT ![s] = finish_step(steps[s], row)]
  <2>1. steps \in [StageIds -> Seq(StepRow)]
    BY LogFacts DEF IInv, LifecycleTypeOK
  <2> QED
    BY <2>1 DEF record
<1>2. /\ LogShape' /\ log'.born = log.born
      /\ log'.run = Mentioned(log) /\ log'.ended = log.ended
  BY <1>1, LogFacts, StepEvent
<1>3. run'.status = run.status /\ run'.finished = run.finished
  BY LogFacts, TouchedVerdict DEF record, SameVerdict
<1>4. GoodRows(steps[s])
  BY LogFacts, GoodStage
<1>5. ASSUME log.born = "opened"
      PROVE  log'.steps = [t \in StageIds |-> Viewed(t, steps'[t])]
  <2> DEFINE seen == Viewed(s, steps[s])
             entry == EndedIn(seen, row)
  <2>1. log.steps = [t \in StageIds |-> Viewed(t, steps[t])] /\ log.steps[s] = seen
    BY <1>5, LogFacts
  <2>2. log'.steps = [log.steps EXCEPT ![s] =
             finish_step(log.steps[s], EndedIn(log.steps[s], row))]
    BY <1>1, <2>1, LogFacts DEF fold_step_ended, EndedIn, LogShape
  <2>3. log'.steps = [log.steps EXCEPT ![s] = finish_step(seen, entry)]
    BY <2>1, <2>2
  <2>4. entry = View(s, row)
    BY <1>4, EndedViewed
  <2>5. finish_step(seen, View(s, row)) = Viewed(s, finish_step(steps[s], row))
    BY <1>4, FinishViewed
  <2> HIDE DEF seen, entry
  <2>6. log'.steps = [log.steps EXCEPT ![s] = Viewed(s, finish_step(steps[s], row))]
    BY <2>3, <2>4, <2>5
  <2> QED
    BY <1>1, <1>5, <2>6, OneStageLogged
<1> QED
  BY <1>2, <1>3, <1>5, LogFacts DEF LogIsTables

LEMMA BeginLogged ==
    ASSUME LogInv, NEW e \in Executors, loop[e].stage \in StageIds,
           NEW a, a = Len(steps[loop[e].stage]) + 1, NEW tries, Begins(e, a, tries)
    PROVE  LogShape' /\ LogIsTables'
<1> DEFINE s == loop[e].stage
           row == NewRow(a, Running, TRUE, "none")
<1>1. steps \in [StageIds -> Seq(StepRow)] /\ GoodRows(steps[s]) /\ a \in Nat \ {0}
  BY LogFacts, GoodStage DEF IInv, LifecycleTypeOK
<1>2. log' = fold_step_started(log, s, a, Declares(s))
      /\ steps' = [steps EXCEPT ![s] = Append(steps[s], row)]
  BY <1>1 DEF Begins, Declares
<1>3. /\ LogShape' /\ log'.born = log.born
      /\ log'.run = Mentioned(log) /\ log'.ended = log.ended
  BY <1>2, LogFacts, StepEvent
<1>4. run'.status = run.status /\ run'.finished = run.finished
  BY LogFacts, TouchedVerdict DEF Begins, SameVerdict
<1>5. row \in StepRow /\ row.attempt = a
  BY <1>1 DEF NewRow, StepRow, StepStatus, Errors
<1>6. Append(steps[s], row) = finish_step(steps[s], row)
  BY <1>5, BeginIsFinish DEF Begins, Collides
<1>7. ASSUME log.born = "opened"
      PROVE  log'.steps = [t \in StageIds |-> Viewed(t, steps'[t])]
  <2> DEFINE seen == Viewed(s, steps[s])
             entry == [Current(seen, a) EXCEPT !.status = Running, !.started = TRUE,
                                               !.limited = Declares(s)]
  <2>1. log.steps = [t \in StageIds |-> Viewed(t, steps[t])] /\ log.steps[s] = seen
    BY <1>7, LogFacts
  <2>2. log'.steps = [log.steps EXCEPT ![s] = finish_step(log.steps[s],
             [Current(log.steps[s], a) EXCEPT !.status = Running, !.started = TRUE,
                                              !.limited = Declares(s)])]
    BY <1>2, <2>1, LogFacts DEF fold_step_started, LogShape
  <2>3. log'.steps = [log.steps EXCEPT ![s] = finish_step(seen, entry)]
    BY <2>1, <2>2
  <2>4. entry = View(s, row)
    BY <1>1, StartedViewed
  <2>5. finish_step(seen, View(s, row)) = Viewed(s, finish_step(steps[s], row))
    <3> HIDE DEF row
    <3>1. row.attempt <= Len(steps[s]) + 1
      BY <1>1, <1>5
    <3> QED
      BY <1>1, <1>5, <3>1, FinishViewed
  <2> HIDE DEF seen, entry, row
  <2>6. log'.steps = [log.steps EXCEPT ![s] = Viewed(s, finish_step(steps[s], row))]
    BY <2>3, <2>4, <2>5
  <2> QED
    BY <1>2, <1>6, <1>7, <2>6, OneStageLogged
<1> QED
  BY <1>3, <1>4, <1>7, LogFacts DEF LogIsTables

LEMMA ResumeLogged ==
    ASSUME LogInv, NEW e \in Executors, resume_run(e)
    PROVE  LogShape' /\ LogIsTables'
<1> DEFINE p == fold_interrupted(log, StageIds, steps)
           settled(s) == SettleRunning(steps[s], "cancelled", "interrupted")
<1>1. log' = fold_run_started(p, TRUE) /\ steps' = [s \in StageIds |-> settled(s)]
  BY DEF resume_run
<1>2. /\ p \in [run : {p.run}, ended : {p.ended}, born : {p.born}, steps : {p.steps},
                unfolded : {p.unfolded}]
      /\ p.born = log.born
  BY LogFacts DEF fold_interrupted, LogShape
<1>3. ASSUME log.born = "opened"
      PROVE  p.steps = [s \in StageIds |-> Viewed(s, settled(s))]
  <2> DEFINE hit(s) == {steps[s][i].attempt : i \in RunningIn(steps[s])}
             told(s, seen) == [i \in DOMAIN seen |->
                 IF seen[i].attempt \in hit(s)
                 THEN [seen[i] EXCEPT !.status = "cancelled", !.ended = TRUE,
                                      !.error = "interrupted"]
                 ELSE seen[i]]
  <2>1. p.steps = [s \in StageIds |-> told(s, log.steps[s])]
    BY LogFacts DEF fold_interrupted, LogShape
  <2>2. ASSUME NEW s \in StageIds PROVE told(s, log.steps[s]) = Viewed(s, settled(s))
    <3>1. log.steps[s] = Viewed(s, steps[s])
      BY <1>3, LogFacts
    <3>2. told(s, Viewed(s, steps[s])) = Viewed(s, settled(s))
      BY LogFacts, GoodStage, InterruptedViewed
    <3> HIDE DEF told
    <3> QED
      BY <3>1, <3>2
  <2> HIDE DEF p, told, settled
  <2> QED
    BY <2>1, <2>2
<1> HIDE DEF p
<1>4. /\ LogShape' /\ log'.run = "running" /\ log'.ended = FALSE /\ log'.steps = p.steps
      /\ log'.born = "opened" => log.born = "opened"
  BY <1>1, <1>2 DEF fold_run_started, LogShape
<1>5. run'.status = "running" /\ run'.finished = FALSE
  BY LogFacts, RewrittenVerdict DEF resume_run
<1>6. \A s \in StageIds : steps'[s] = settled(s)
  BY <1>1
<1> HIDE DEF settled
<1>7. log.born = "opened" => log'.steps = [s \in StageIds |-> Viewed(s, steps'[s])]
  BY <1>3, <1>4, <1>6
<1> QED
  BY <1>4, <1>5, <1>7 DEF LogIsTables

-----------------------------------------------------------------------------
(* One step of the run, with its log. *)

\* What the one executor has to show of the processes, it has to show of itself.
LEMMA LoggedStep ==
    ASSUME ~Overlap, LogInv, SoleInv', NEW e \in Executors, Execute(e),
           LogShape', Unannounced', LogIsTables',
           IsFresh(e)', StoppedBehind(e)', WasStarted(e)'
    PROVE  LogInv'
<1>1. ASSUME NEW d \in Executors, d # e
      PROVE  IsFresh(d)' /\ StoppedBehind(d)' /\ WasStarted(d)'
  <2>1. pc'[d] = "idle"
    BY <1>1, LogFacts, OthersAreIdle DEF Stays
  <2> QED
    BY <2>1 DEF IsFresh, StoppedBehind, WasStarted, Live, Executing, OnARow
<1> QED
  BY <1>1 DEF LogInv

\* A run that is announced stays so.
LEMMA StaysAnnounced ==
    ASSUME ~Overlap, LogInv, SoleInv', NEW e \in Executors, Execute(e),
           pc'[e] \notin Outside \cup {"announce"}
    PROVE  Unannounced'
<1>1. \A d \in Executors : pc'[d] # "announce"
  <2>1. \A d \in Executors : d # e => pc'[d] = "idle"
    BY LogFacts, OthersAreIdle DEF Stays
  <2> QED
    BY <2>1
<1>2. run'.status # "absent"
  BY DEF SoleInv, VerdictInv, RowExists
<1> QED
  BY <1>1, <1>2 DEF Unannounced

\* Steps the log has nothing to say of.
LEMMA UnloggedStep ==
    ASSUME ~Overlap, LogInv, SoleInv', NEW e \in Executors,
           \/ Enter(e) \/ load_run(e) \/ skip_succeeded(e) \/ begin_collides(e)
           \/ attach_read(e) \/ attach_write(e) \/ attach_conflict(e) \/ leave(e) \/ Crash(e)
           \/ heartbeat(e) \/ poll(e) \/ poll_claim(e)
    PROVE  LogInv'
<1>1. Execute(e)
  BY DEF Execute
<1>2. log' = log /\ steps' = steps
  BY DEF Enter, load_run, skip_succeeded, begin_collides, attach_read, attach_write,
         attach_conflict, leave, Crash, heartbeat, poll, poll_claim, Rows
<1>3. run'.status = run.status /\ run'.finished = run.finished
  <2>1. CASE heartbeat(e)
    BY <2>1, LogFacts, TouchedVerdict DEF heartbeat, SameVerdict
  <2>2. CASE attach_write(e)
    <3>1. copy[e] \in RunRow /\ copy[e].status = run.status /\ copy[e].finished = run.finished
      BY <2>2, LogFacts DEF VerdictInv, CopyIsOfItsVersion, attach_write, IInv, LifecycleTypeOK
    <3> QED
      BY <2>2, <3>1 DEF attach_write, RunRow
  <2>3. CASE ~heartbeat(e) /\ ~attach_write(e)
    BY <2>3 DEF Enter, load_run, skip_succeeded, begin_collides, attach_read,
                attach_conflict, leave, Crash, poll, poll_claim, Rows
  <2> QED
    BY <2>1, <2>2, <2>3
<1>4. LogShape' /\ LogIsTables'
  BY <1>2, <1>3, LogFacts DEF LogShape, LogIsTables
<1>5. pc \in [Executors -> Where] /\ loop \in [Executors -> Loop]
  BY LogFacts DEF IInv, LifecycleTypeOK
<1>6. pc'[e] # "announce" /\ \A d \in Executors : d # e => pc'[d] = pc[d]
  BY <1>5 DEF Enter, load_run, skip_succeeded, OnStage, begin_collides, Forget, attach_read,
         attach_write, attach_conflict, leave, Crash, heartbeat, Attends, poll, poll_claim, Goto
<1>7. Unannounced'
  BY <1>2, <1>3, <1>6 DEF LogInv, Unannounced
<1>8. StoppedBehind(e)' /\ WasStarted(e)'
  <2>1. CASE skip_succeeded(e)
    <3>1. pc'[e] = "next" /\ loop' = NextStage(e, loop[e].stopped) /\ Live(e)
          /\ loop[e].stage \in Int /\ StoppedBehind(e)
      BY <2>1, <1>5, LogFacts DEF skip_succeeded, OnStage, Live, Executing, Loop
    <3>2. loop'[e].stage = loop[e].stage + 1 /\ loop'[e].stopped = loop[e].stopped
      BY <1>5, <3>1 DEF NextStage, NoLoop
    <3>3. \A s \in StageIds : s < loop[e].stage => s < loop[e].stage + 1
      BY <3>1 DEF StageIds
    <3> QED
      BY <3>1, <3>2, <3>3 DEF StoppedBehind, WasStarted, OnARow
  <2>2. CASE poll(e) \/ poll_claim(e) \/ heartbeat(e)
    <3>1. loop' = loop /\ pc[e] \in AtWork
      BY <2>2 DEF poll, poll_claim, heartbeat, Attends, Private, AtWork, OnARow
    <3> QED
      BY <1>2, <3>1, LogFacts
         DEF StoppedBehind, WasStarted, AtWork, OnARow, Live, Executing
  <2>3. CASE load_run(e)
    <3>1. pc'[e] = "next" /\ loop'[e] = NoLoop
      BY <2>3, <1>5, LogFacts, SoleFacts DEF load_run, Goto, Process, KnowsNothing
    <3> QED
      BY <3>1 DEF StoppedBehind, WasStarted, NoLoop, OnARow
  <2>4. CASE /\ ~load_run(e) /\ ~skip_succeeded(e)
             /\ ~poll(e) /\ ~poll_claim(e) /\ ~heartbeat(e)
    <3>1. pc'[e] \in Outside \cup Attached
      BY <2>4, <1>5 DEF Enter, begin_collides, Forget, attach_read, attach_write,
            attach_conflict, leave, Crash, Goto, Outside, Attached
    <3> QED
      BY <3>1 DEF StoppedBehind, WasStarted, Outside, Attached, OnARow, Live, Executing
  <2> QED
    BY <2>1, <2>2, <2>3, <2>4
<1> QED
  BY <1>1, <1>4, <1>6, <1>7, <1>8, LoggedStep DEF IsFresh

LEMMA AnnouncingStep ==
    ASSUME ~Overlap, LogInv, SoleInv', NEW e \in Executors,
           create_run(e) \/ announce_run(e)
    PROVE  LogInv'
<1>1. Execute(e) /\ pc \in [Executors -> Where]
  BY LogFacts DEF Execute, IInv, LifecycleTypeOK
<1>2. log = NoProjection(StageIds)
  BY DEF LogInv, Unannounced, create_run, announce_run
<1>3. CASE create_run(e)
  <2>1. log' = log /\ log.born = "none"
    BY <1>2, <1>3 DEF create_run, NoProjection
  <2>2. LogShape' /\ Unannounced' /\ LogIsTables'
    BY <1>2, <2>1, LogFacts DEF LogShape, Unannounced, LogIsTables, NoProjection
  <2>3. pc'[e] = "announce" /\ run'.status = "running" /\ ~run'.finished
    BY <1>1, <1>3 DEF create_run, Goto, NoRow
  <2> QED
    BY <1>1, <2>2, <2>3, LoggedStep DEF IsFresh, StoppedBehind, WasStarted, Live, Executing, OnARow
<1>4. CASE announce_run(e)
  <2>1. pc'[e] = "next" /\ UNCHANGED <<run, steps, loop>>
    BY <1>1, <1>4 DEF announce_run, Goto, Private
  <2>2. loop[e].stopped = FALSE /\ \A s \in StageIds : steps[s] = <<>>
    BY <1>4, LogFacts, SoleFacts DEF announce_run, Process, KnowsNothing, NoLoop, Untouched
  <2>3. LogShape' /\ log'.steps = log.steps /\ log'.run = "running" /\ log'.ended = FALSE
    BY <1>4, LogFacts, RunEvent DEF announce_run
  <2>4. log'.born = "opened" => log'.steps = [s \in StageIds |-> Viewed(s, steps'[s])]
    <3>1. \A s \in StageIds : Viewed(s, steps'[s]) = <<>>
      BY <2>1, <2>2 DEF Viewed
    <3>2. log.steps = [s \in StageIds |-> <<>>]
      BY <1>2 DEF NoProjection
    <3> QED
      BY <2>3, <3>1, <3>2
  <2>5. run.status = "running" /\ run.finished = FALSE
    BY <1>4, LogFacts DEF announce_run, IsFresh, IInv, LifecycleTypeOK, RunRow
  <2>6. LogIsTables'
    BY <2>1, <2>3, <2>4, <2>5 DEF LogIsTables
  <2>7. Unannounced'
    BY <1>1, <2>1, StaysAnnounced DEF Outside
  <2> QED
    BY <1>1, <2>1, <2>2, <2>3, <2>6, <2>7, LoggedStep
       DEF IsFresh, StoppedBehind, WasStarted, OnARow
<1> QED
  BY <1>3, <1>4

LEMMA ResumedLogStep ==
    ASSUME ~Overlap, LogInv, SoleInv', NEW e \in Executors, resume_run(e)
    PROVE  LogInv'
<1>1. Execute(e) /\ pc \in [Executors -> Where]
  BY LogFacts DEF Execute, IInv, LifecycleTypeOK
<1>2. pc'[e] = "loading" /\ loop'[e].stopped = FALSE
  BY <1>1, LogFacts, SoleFacts
     DEF resume_run, Private, Goto, Process, KnowsNothing, Outside, NoLoop
<1>3. Unannounced'
  BY <1>1, <1>2, StaysAnnounced DEF Outside
<1> QED
  BY <1>1, <1>2, <1>3, ResumeLogged, LoggedStep DEF IsFresh, StoppedBehind, WasStarted, OnARow

LEMMA ClosedLogStep ==
    ASSUME ~Overlap, LogInv, SoleInv', NEW e \in Executors, close_run(e)
    PROVE  LogInv'
<1>1. Execute(e) /\ pc \in [Executors -> Where]
  BY LogFacts DEF Execute, IInv, LifecycleTypeOK
<1>2. pc'[e] = "attach" /\ steps' = steps
  BY <1>1 DEF close_run, Goto
<1>3. Unannounced'
  BY <1>1, <1>2, StaysAnnounced DEF Outside
<1>4. PICK status : /\ run' = Rewritten(status, TRUE, 0)
                    /\ log' = fold_run_ended(log, status)
  BY DEF close_run
<1>5. LogShape' /\ LogIsTables'
  <2>1. run'.status = status /\ run'.finished = TRUE
    BY <1>4, LogFacts, RewrittenVerdict
  <2>2. /\ LogShape' /\ log'.steps = log.steps /\ log'.run = status /\ log'.ended = TRUE
        /\ log'.born = log.born
    BY <1>4, LogFacts, RunEvent
  <2> QED
    BY <1>2, <2>1, <2>2, LogFacts DEF LogIsTables
<1> QED
  BY <1>1, <1>2, <1>3, <1>5, LoggedStep
     DEF IsFresh, StoppedBehind, WasStarted, Live, Executing, OnARow

\* Where a process is once it went on to the next stage.
LEMMA PassedOn ==
    ASSUME LogInv, NEW e \in Executors, loop[e].stage \in StageIds, NEW stopped,
           loop' = NextStage(e, stopped), pc'[e] = "next",
           stopped => \E s \in StageIds \ Continue : s < loop[e].stage + 1
    PROVE  IsFresh(e)' /\ StoppedBehind(e)' /\ WasStarted(e)'
<1>1. loop'[e].stage = loop[e].stage + 1 /\ loop'[e].stopped = stopped
  BY LogFacts DEF IInv, LifecycleTypeOK, NextStage, NoLoop
<1> QED
  BY <1>1 DEF IsFresh, StoppedBehind, WasStarted, OnARow

LEMMA SkippedLogStep ==
    ASSUME ~Overlap, LoggedInFull, LogInv, SoleInv', NEW e \in Executors, record_skipped(e)
    PROVE  LogInv'
<1> DEFINE s == loop[e].stage
           row == NewRow(next_attempt(e), "skipped", FALSE, "skipped")
<1>1. /\ Execute(e) /\ pc \in [Executors -> Where] /\ OnStage(e)
      /\ pc' = pc /\ loop' = NextStage(e, loop[e].stopped) /\ record(e, s, row)
  BY LogFacts DEF Execute, IInv, LifecycleTypeOK, record_skipped, ToRun
<1>2. /\ pc[e] = "next" /\ s \in StageIds
      /\ next_attempt(e) = Len(steps[s]) + 1 /\ next_attempt(e) \in Nat \ {0}
      /\ Len(steps[s]) \in Nat
  BY <1>1, LogFacts, SoleFacts, ToRunFacts
<1>3. row \in StepRow /\ row.attempt = Len(steps[s]) + 1 /\ ~row.started /\ row.status # Running
  BY <1>2 DEF NewRow, StepRow, StepStatus, Settled, Errors, Running
<1>4. loop[e].stopped => \E t \in StageIds \ Continue : t < s
  BY <1>2, LogFacts DEF StoppedBehind, Live, Executing
<1>5. Limit[s] = NoLimit
  BY <1>2, <1>4 DEF record_skipped, LoggedInFull, MayBeSkipped
<1> HIDE DEF row
<1>6. row.attempt <= Len(steps[s]) + 1 /\ ~(row.attempt <= Len(steps[s]))
  BY <1>2, <1>3
<1>7. LogShape' /\ LogIsTables'
  BY <1>1, <1>2, <1>3, <1>5, <1>6, RecordLogged
<1>8. IsFresh(e)' /\ StoppedBehind(e)' /\ WasStarted(e)'
  <2>1. loop[e].stopped => \E t \in StageIds \ Continue : t < s + 1
    BY <1>2, <1>4 DEF StageIds
  <2> QED
    BY <1>1, <1>2, <2>1, PassedOn
<1>9. Unannounced'
  BY <1>1, <1>2, StaysAnnounced DEF Outside
<1> QED
  BY <1>1, <1>7, <1>8, <1>9, LoggedStep

LEMMA BegunLogStep ==
    ASSUME ~Overlap, LogInv, SoleInv', NEW e \in Executors, begin(e) \/ begin_retry(e)
    PROVE  LogInv'
<1> DEFINE s == loop[e].stage
<1>1. PICK a, tries :
         /\ Begins(e, a, tries) /\ s \in StageIds /\ ~loop[e].stopped
         /\ a = Len(steps[s]) + 1 /\ GoodRows(steps[s])
  <2>1. CASE begin(e)
    <3>1. OnStage(e) /\ ~loop[e].stopped /\ Begins(e, next_attempt(e), 1)
      BY <2>1 DEF begin, ToRun
    <3> QED
      BY <3>1, LogFacts, SoleFacts, ToRunFacts
  <2>2. CASE begin_retry(e)
    <3>1. pc[e] \in OnARow /\ Begins(e, loop[e].attempt + 1, loop[e].tries + 1)
      BY <2>2 DEF begin_retry, OnARow
    <3>2. s \in StageIds /\ loop[e].attempt = Len(steps[s]) /\ ~loop[e].stopped
      BY <3>1, LogFacts, SoleFacts, OnRowFacts DEF Process, IsOnTheLastRow
    <3> QED
      BY <3>1, <3>2, LogFacts, SoleFacts
  <2> QED
    BY <2>1, <2>2
<1>2. /\ Execute(e) /\ pc \in [Executors -> Where] /\ loop \in [Executors -> Loop]
      /\ steps \in [StageIds -> Seq(StepRow)]
  BY LogFacts DEF Execute, IInv, LifecycleTypeOK
<1>3. LogShape' /\ LogIsTables'
  BY <1>1, BeginLogged
<1>4. /\ pc'[e] = "handling" /\ loop'[e].stage = s /\ loop'[e].attempt = a
      /\ loop'[e].stopped = loop[e].stopped
      /\ steps'[s] = Append(steps[s], NewRow(a, Running, TRUE, "none"))
  BY <1>1, <1>2 DEF Begins, Goto, Loop
<1>5. steps'[s][a].started = TRUE
  BY <1>1, <1>4 DEF GoodRows, NewRow
<1>6. Unannounced'
  BY <1>2, <1>4, StaysAnnounced DEF Outside
<1>7. IsFresh(e)' /\ StoppedBehind(e)' /\ WasStarted(e)'
  BY <1>1, <1>4, <1>5 DEF IsFresh, StoppedBehind, WasStarted
<1> QED
  BY <1>2, <1>3, <1>6, <1>7, LoggedStep

\* finish_step leaves the row it was given at its attempt.
LEMMA FinishedRow ==
    ASSUME NEW rows, GoodRows(rows), NEW row \in StepRow, row.attempt <= Len(rows)
    PROVE  finish_step(rows, row)[row.attempt] = row
<1>1. row.attempt \in Nat \ {0} /\ Len(rows) \in Nat
  BY DEF StepRow, GoodRows
<1>2. HasAttempt(rows, row.attempt) /\ row.attempt \in DOMAIN rows
      /\ rows[row.attempt].attempt = row.attempt
  BY <1>1, AttemptUsed DEF GoodRows, Contiguous
<1> QED
  BY <1>2 DEF finish_step

LEMMA FinishLogStep ==
    ASSUME ~Overlap, LogInv, SoleInv', NEW e \in Executors, Execute(e), pc[e] \in AtWork,
           NEW status \in {"succeeded", "failed", "timed_out"}, NEW error \in Errors,
           NEW retryable \in BOOLEAN, Finish(e, status, error, retryable)
    PROVE  LogInv'
<1> DEFINE s == loop[e].stage
           row == NewRow(loop[e].attempt, status, TRUE, error)
           stops == status \in Unsuccessful /\ s \notin Continue
           again == retryable /\ loop[e].tries < MaxAttempts[s]
<1>1. /\ pc[e] \in OnARow /\ s \in StageIds /\ loop[e].attempt \in Nat \ {0}
      /\ loop[e].attempt = Len(steps[s]) /\ ~loop[e].stopped /\ GoodRows(steps[s])
      /\ steps[s][loop[e].attempt].started /\ pc \in [Executors -> Where]
      /\ loop[e] \in Loop /\ steps \in [StageIds -> Seq(StepRow)]
  BY LogFacts, SoleFacts, OnRowFacts
     DEF AtWork, Process, IsOnTheLastRow, WasStarted, LifecycleTypeOK
<1>2. row \in StepRow /\ row.attempt = loop[e].attempt /\ row.started = TRUE
      /\ row.status # Running
  BY <1>1 DEF NewRow, StepRow, StepStatus, Settled, Running
<1>3. record(e, s, row)
  BY DEF Finish
<1> HIDE DEF row
<1>4. row.attempt <= Len(steps[s]) /\ row.attempt <= Len(steps[s]) + 1
  BY <1>1, <1>2
<1>5. steps[s][row.attempt].started = row.started
  <2>1. steps[s][row.attempt] \in StepRow
    BY <1>1, <1>2 DEF GoodRows
  <2> QED
    BY <1>1, <1>2, <2>1 DEF StepRow
<1>6. LogShape' /\ LogIsTables'
  BY <1>1, <1>2, <1>3, <1>4, <1>5, RecordLogged
<1>7. steps'[s][loop[e].attempt].started
  <2>1. steps'[s] = finish_step(steps[s], row)
    BY <1>1, <1>3 DEF record
  <2> QED
    BY <1>1, <1>2, <1>4, <2>1, FinishedRow
<1>8. pc'[e] = (IF again THEN "retry" ELSE "next")
      /\ loop' = IF again THEN loop ELSE NextStage(e, stops)
  BY <1>1 DEF Finish, Goto
<1>9. IsFresh(e)' /\ StoppedBehind(e)' /\ WasStarted(e)'
  <2>1. CASE again
    BY <1>1, <1>7, <1>8, <2>1 DEF IsFresh, StoppedBehind, WasStarted
  <2>2. CASE ~again
    <3>1. stops => \E t \in StageIds \ Continue : t < s + 1
      BY <1>1 DEF StageIds
    <3> HIDE DEF stops
    <3> QED
      BY <1>1, <1>8, <2>2, <3>1, PassedOn
  <2> QED
    BY <2>1, <2>2
<1>10. Unannounced'
  BY <1>8, StaysAnnounced DEF Outside
<1> QED
  BY <1>6, <1>9, <1>10, LoggedStep

LEMMA HandledLogStep ==
    ASSUME ~Overlap, LogInv, SoleInv', NEW e \in Executors,
           handler_succeeds(e) \/ handler_fails(e) \/ handler_times_out(e)
    PROVE  LogInv'
<1>1. pc[e] \in AtWork /\ Execute(e)
  BY DEF handler_succeeds, handler_fails, handler_times_out, AtWork, OnARow, Execute
<1>2. {"none", "failure", "timeout"} \subseteq Errors
  BY DEF Errors
<1>3. CASE handler_succeeds(e)
  BY <1>1, <1>2, <1>3, FinishLogStep DEF handler_succeeds
<1>4. CASE handler_fails(e)
  BY <1>1, <1>2, <1>4, FinishLogStep DEF handler_fails
<1>5. CASE handler_times_out(e)
  BY <1>1, <1>2, <1>5, FinishLogStep DEF handler_times_out
<1> QED
  BY <1>3, <1>4, <1>5

\* Messages, time, and no step.
LEMMA QuietLogStep ==
    ASSUME LogInv, SoleInv', Send \/ Tick \/ UNCHANGED vars
    PROVE  LogInv'
<1>1. UNCHANGED <<log, pc, loop>>
  BY DEF Send, Tick, Rows, Private, vars
<1>2. run'.status = run.status /\ run'.finished = run.finished
  BY LogFacts DEF Send, Tick, Rows, vars, IInv, LifecycleTypeOK, RunRow
<1>3. /\ \A s \in StageIds : Viewed(s, steps'[s]) = Viewed(s, steps[s])
      /\ \A s \in StageIds : \A i \in 1..Len(steps[s]) :
            steps'[s][i].started = steps[s][i].started
  <2>1. CASE Send \/ UNCHANGED vars
    BY <2>1 DEF Send, Rows, vars
  <2>2. CASE Tick
    <3>1. \A s \in StageIds : steps'[s] = [i \in DOMAIN steps[s] |-> Aged(steps[s][i])]
      BY <2>2 DEF Tick, Aged
    <3>2. \A s \in StageIds : GoodRows(steps[s])
      BY LogFacts, GoodStage
    <3>3. ASSUME NEW s \in StageIds, NEW i \in 1..Len(steps[s])
          PROVE  steps'[s][i].started = steps[s][i].started
      <4>1. steps[s][i] \in StepRow /\ DOMAIN steps[s] = 1..Len(steps[s])
        BY <3>2 DEF GoodRows
      <4>2. steps'[s][i] = Aged(steps[s][i])
        BY <3>1, <4>1
      <4> QED
        BY <4>1, <4>2 DEF Aged, StepRow
    <3> QED
      BY <3>1, <3>2, <3>3, AgedViewed
  <2> QED
    BY <2>1, <2>2
<1>4. LogShape' /\ LogIsTables' /\ Unannounced'
  BY <1>1, <1>2, <1>3 DEF LogInv, LogShape, LogIsTables, Unannounced
<1>5. ASSUME NEW e \in Executors PROVE IsFresh(e)' /\ StoppedBehind(e)' /\ WasStarted(e)'
  <2>1. pc[e] \in OnARow =>
           loop[e].stage \in StageIds /\ loop[e].attempt \in 1..Len(steps[loop[e].stage])
    BY LogFacts DEF IInv, LoopIsOnARow
  <2> QED
    BY <1>1, <1>2, <1>3, <2>1, LogFacts DEF IsFresh, StoppedBehind, WasStarted, Live
<1> QED
  BY <1>4, <1>5 DEF LogInv

LEMMA NextLog ==
    ASSUME ~Overlap, LoggedInFull
    PROVE  LogInv /\ [Next]_vars => LogInv'
<1> SUFFICES ASSUME LogInv, [Next]_vars PROVE LogInv'
  OBVIOUS
<1>1. SoleInv'
  BY LogFacts, NextSole
<1>2. CASE \E e \in Executors : Execute(e)
  <2>1. PICK e \in Executors : Execute(e)
    BY <1>2
  <2>2. ~record_guard_error(e)
    BY DEF record_guard_error, LoggedInFull
  <2> QED
    BY <1>1, <2>1, <2>2, UnloggedStep, AnnouncingStep, ResumedLogStep, ClosedLogStep,
       SkippedLogStep, BegunLogStep, HandledLogStep
       DEF Execute
<1>3. CASE Send \/ Tick \/ UNCHANGED vars
  BY <1>1, <1>3, QuietLogStep
<1>4. ~RequestStop /\ ~\E w \in Sweepers : Watch(w)
  BY DEF RequestStop, LoggedInFull
<1> QED
  BY <1>2, <1>3, <1>4 DEF Next

LEMMA InitLog == Init => LogInv
<1> SUFFICES ASSUME Init PROVE LogInv
  OBVIOUS
<1>1. SoleInv /\ log = NoProjection(StageIds)
  BY InitSole DEF Init
<1>2. LogShape /\ LogIsTables /\ Unannounced
  BY <1>1 DEF LogShape, LogIsTables, Unannounced, NoProjection
<1>3. \A e \in Executors : IsFresh(e) /\ StoppedBehind(e) /\ WasStarted(e)
  BY DEF Init, IsFresh, StoppedBehind, WasStarted, Live, Executing, OnARow
<1> QED
  BY <1>1, <1>2, <1>3 DEF LogInv

(***************************************************************************)
(* What the audit log says of a run and of every attempt is what the       *)
(* tables say, through crashes and resumes, for every workflow whose       *)
(* events carry what the rows do (LoggedInFull): no event is written twice *)
(* or missed, and none is folded into another attempt's row.               *)
(***************************************************************************)
THEOREM TheLogAgrees ==
    ASSUME ~Overlap, LoggedInFull
    PROVE  Spec => []LogAgreesWithState
<1>1. ASSUME LogInv, log.born = "opened" PROVE Agrees
  <2>1. /\ log.run = run.status /\ log.ended = run.finished
        /\ log.steps = [s \in StageIds |-> Viewed(s, steps[s])]
    BY <1>1, LogFacts
  <2>2. ASSUME NEW s \in StageIds
        PROVE  LogView(log.steps[s]) = StateView(steps[s], Limit[s] # NoLimit)
    <3>1. log.steps[s] = [i \in DOMAIN steps[s] |-> View(s, steps[s][i])]
      BY <2>1 DEF Viewed
    <3>2. LogView(log.steps[s]) = {View(s, steps[s][i]) : i \in DOMAIN steps[s]}
      BY <3>1 DEF LogView
    <3> QED
      BY <3>2 DEF View, Entry, Declares, StateView
  <2> QED
    BY <1>1, <2>1, <2>2 DEF Agrees
<1>2. LogInv => LogAgreesWithState
  BY <1>1 DEF LogAgreesWithState
<1> QED
  BY <1>2, InitLog, NextLog, PTL DEF Spec

-----------------------------------------------------------------------------
(***************************************************************************)
(* A live run and the watchdog.  Until somebody resumes the run, its one   *)
(* process keeps what the watchdog measures inside the limits, and then no *)
(* sweep holds anything against it that could halt it.                     *)
(***************************************************************************)
StepsAreShort == \A s \in StageIds : LimitOf(s) <= HeartbeatLimit

\* A process that the watchdog could do harm to.
Busy(e) == pc[e] \notin {"idle"} \cup Attached

\* What is in flight is what the process works on, and as old as its attempt.
InFlightIsItsOwn(e) ==
    Live(e) \/ pc[e] = "announce" =>
        \A s \in StageIds : \A i \in RunningIn(steps[s]) :
           /\ pc[e] \in AtWork
           /\ s = loop[e].stage /\ i = loop[e].attempt
           /\ steps[s][i].age = lag[e]

KeepsTheLimits(e) ==
    /\ pc[e] = "opening" => run.status = "absent" /\ lag[e] <= HeartbeatLimit
    /\ pc[e] # "loading"
    /\ pc[e] = "announce" => Untouched
    /\ pc[e] \in {"announce", "next", "retry"} => run.beat <= HeartbeatLimit
    /\ pc[e] \in AtWork => lag[e] <= LimitOf(loop[e].stage) /\ run.beat <= lag[e]

Harmless(w) == ~sweep[w].late /\ \A x \in sweep[w].stalls : x.kind = "silent"

Watched == opens = 0 \/ \E e \in Executors : Busy(e)

OnTime == /\ Alone /\ NoRowsYet
          /\ opens = 0 => run.status = "absent" /\ \A e \in Executors : pc[e] = "idle"
          /\ \A e \in Executors : InFlightIsItsOwn(e) /\ KeepsTheLimits(e)
          /\ Watched => \A w \in Sweepers : Harmless(w)

TimeInv == VerdictInv /\ (opens <= 1 => OnTime)

LEMMA TimeTypes ==
    ASSUME TimeInv
    PROVE  /\ IInv /\ LifecycleTypeOK /\ VerdictInv /\ opens \in Nat
           /\ run.beat \in Nat /\ HeartbeatLimit \in Nat
           /\ \A e \in Executors : lag[e] \in Nat
           /\ \A s \in StageIds : LimitOf(s) \in Nat
BY LifecycleAssumption DEF TimeInv, VerdictInv, IInv, LifecycleTypeOK, RunRow, LimitOf

\* What a process moves, it has to answer for itself only.
LEMMA OnTimeStep ==
    ASSUME TimeInv, RunMoves, OnTime, NEW e \in Executors, Execute(e), pc[e] # "idle",
           UNCHANGED <<sweep, opens>>, Busy(e)' => Busy(e), NoRowsYet',
           InFlightIsItsOwn(e)', KeepsTheLimits(e)'
    PROVE  OnTime'
<1>1. ASSUME NEW d \in Executors, d # e
      PROVE  pc'[d] = "idle" /\ InFlightIsItsOwn(d)' /\ KeepsTheLimits(d)' /\ ~Busy(d)'
  <2>1. pc'[d] = "idle"
    BY <1>1, OthersStay, TimeTypes DEF Stays, OnTime, Alone
  <2> QED
    BY <2>1 DEF InFlightIsItsOwn, KeepsTheLimits, Busy, Live, Executing, AtWork, OnARow
<1>2. Alone'
  BY <1>1 DEF Alone
<1>3. opens # 0
  BY DEF OnTime
<1>4. Watched' => Watched
  BY <1>1, <1>3 DEF Watched
<1>5. \A w \in Sweepers : Harmless(w)' <=> Harmless(w)
  BY DEF Harmless
<1>6. \A d \in Executors : InFlightIsItsOwn(d)' /\ KeepsTheLimits(d)'
  BY <1>1
<1> QED
  BY <1>2, <1>3, <1>4, <1>5, <1>6 DEF OnTime

\* Past opening there is a row of the run.
LEMMA RowStands ==
    ASSUME TimeInv, RunMoves, NEW e \in Executors, pc[e] \notin Outside
    PROVE  NoRowsYet'
BY DEF TimeInv, VerdictInv, RowExists, RunMoves, SameVerdict, NoRowsYet

LEMMA LeavingOnTime ==
    ASSUME TimeInv, RunMoves, OnTime, NEW e \in Executors,
           begin_collides(e) \/ attach_write(e) \/ leave(e) \/ Crash(e)
           \/ attach_read(e) \/ attach_conflict(e) \/ close_run(e)
    PROVE  OnTime'
<1>1. pc'[e] \in {"idle"} \cup Attached /\ pc[e] # "idle" /\ UNCHANGED <<sweep, opens>>
  BY TimeTypes DEF begin_collides, attach_write, leave, Crash, Forget, attach_read, ToRun, OnStage,
     attach_conflict, close_run, Goto, Attached, Private, LifecycleTypeOK
<1>2. InFlightIsItsOwn(e)' /\ KeepsTheLimits(e)' /\ ~Busy(e)'
  BY <1>1 DEF InFlightIsItsOwn, KeepsTheLimits, Busy, Live, Executing, AtWork, OnARow, Attached
<1>3. NoRowsYet'
  <2>1. CASE pc[e] \notin Outside
    BY <2>1, RowStands
  <2>2. CASE pc[e] = "opening"
    BY <2>2 DEF begin_collides, ToRun, OnStage, attach_write, leave, Crash, attach_read,
                attach_conflict, close_run, Rows, OnTime, NoRowsYet, Untouched
  <2> QED
    BY <1>1, <2>1, <2>2 DEF Outside
<1>4. Execute(e)
  BY DEF Execute
<1> QED
  BY <1>1, <1>2, <1>3, <1>4, OnTimeStep

LEMMA EnteringOnTime ==
    ASSUME TimeInv, OnTime, NEW e \in Executors, Enter(e), opens' <= 1
    PROVE  OnTime'
<1>1. opens = 0 /\ opens' = 1 /\ UNCHANGED <<run, steps, sweep>>
  BY TimeTypes DEF Enter, Rows
<1>2. run.status = "absent" /\ \A d \in Executors : pc[d] = "idle"
  BY <1>1 DEF OnTime
<1>3. \A d \in Executors : pc'[d] = IF d = e THEN "opening" ELSE "idle"
  BY <1>2, TimeTypes DEF Enter, Goto, LifecycleTypeOK
<1>4. lag'[e] = 0
  BY TimeTypes DEF Enter, LifecycleTypeOK
<1>5. ASSUME NEW d \in Executors PROVE InFlightIsItsOwn(d)' /\ KeepsTheLimits(d)'
  BY <1>1, <1>2, <1>3, <1>4, TimeTypes
     DEF InFlightIsItsOwn, KeepsTheLimits, Live, Executing, AtWork, OnARow
<1>6. \A w \in Sweepers : Harmless(w)'
  BY <1>1 DEF OnTime, Watched, Harmless
<1>7. Alone' /\ NoRowsYet'
  BY <1>1, <1>3 DEF Alone, OnTime, NoRowsYet, Untouched
<1> QED
  BY <1>1, <1>5, <1>6, <1>7 DEF OnTime

LEMMA OpeningOnTime ==
    ASSUME TimeInv, RunMoves, OnTime, NEW e \in Executors,
           create_run(e) \/ announce_run(e) \/ resume_run(e) \/ load_run(e)
    PROVE  OnTime'
<1>1. ~resume_run(e) /\ ~load_run(e)
  BY DEF resume_run, load_run, OnTime, KeepsTheLimits
<1>2. /\ pc[e] \in {"opening", "announce"} /\ pc'[e] \in {"announce", "next"}
      /\ UNCHANGED <<steps, sweep, opens>>
  BY <1>1, TimeTypes DEF create_run, announce_run, Goto, Private, LifecycleTypeOK
<1>3. Untouched /\ run'.beat <= HeartbeatLimit /\ run'.status # "absent"
  <2>1. CASE create_run(e)
    BY <2>1 DEF create_run, OnTime, KeepsTheLimits, NoRowsYet, NoRow
  <2>2. CASE announce_run(e)
    BY <2>2 DEF announce_run, OnTime, KeepsTheLimits, TimeInv, VerdictInv, RowExists, Outside
  <2> QED
    BY <1>1, <2>1, <2>2
<1>4. \A s \in StageIds : RunningIn(steps'[s]) = {}
  BY <1>2, <1>3 DEF Untouched, RunningIn
<1>5. InFlightIsItsOwn(e)' /\ KeepsTheLimits(e)'
  BY <1>2, <1>3, <1>4 DEF InFlightIsItsOwn, KeepsTheLimits, Untouched, AtWork, OnARow
<1>6. Busy(e) /\ Execute(e) /\ NoRowsYet'
  BY <1>2, <1>3 DEF Busy, Attached, Execute, NoRowsYet
<1> QED
  BY <1>2, <1>5, <1>6, OnTimeStep

\* Between two steps nothing is in flight.
LEMMA NothingInFlight ==
    ASSUME OnTime, NEW e \in Executors, pc[e] \in {"next", "retry"}
    PROVE  \A s \in StageIds : RunningIn(steps[s]) = {}
BY DEF OnTime, InFlightIsItsOwn, Live, Executing, AtWork, OnARow

\* A settled row takes one out of flight and puts none in.
LEMMA SettledIsOut ==
    ASSUME NEW rows, GoodRows(rows), NEW row \in StepRow, row.status # Running,
           row.attempt <= Len(rows) + 1
    PROVE  RunningIn(finish_step(rows, row)) \subseteq RunningIn(rows) \ {row.attempt}
<1>1. rows \in Seq(StepRow) /\ Len(rows) \in Nat /\ row.attempt \in Nat \ {0}
      /\ \A i \in 1..Len(rows) : rows[i].attempt = i
  BY DEF GoodRows, Contiguous, StepRow
<1>2. CASE HasAttempt(rows, row.attempt)
  BY <1>1, <1>2 DEF finish_step, RunningIn
<1>3. CASE ~HasAttempt(rows, row.attempt)
  <2>1. finish_step(rows, row) = Append(rows, row) /\ row.attempt = Len(rows) + 1
    BY <1>1, <1>3, AttemptUsed DEF finish_step
  <2> QED
    BY <1>1, <2>1 DEF RunningIn
<1> QED
  BY <1>2, <1>3

LEMMA RecordingOnTime ==
    ASSUME TimeInv, RunMoves, OnTime, NEW e \in Executors, Execute(e),
           pc[e] \in {"next"} \cup AtWork, pc'[e] \in {"next", "retry"},
           loop[e].stage \in StageIds, NEW row \in StepRow, row.status # Running,
           row.attempt <= Len(steps[loop[e].stage]) + 1,
           pc[e] \in AtWork => row.attempt = loop[e].attempt,
           record(e, loop[e].stage, row), UNCHANGED <<sweep, opens>>
    PROVE  OnTime'
<1> DEFINE s == loop[e].stage
           new == finish_step(steps[s], row)
<1>1. GoodRows(steps[s]) /\ steps \in [StageIds -> Seq(StepRow)]
  BY TimeTypes, GoodStage DEF LifecycleTypeOK
<1>2. RunningIn(new) \subseteq RunningIn(steps[s]) \ {row.attempt}
  BY <1>1, SettledIsOut
<1>3. \A t \in StageIds : steps'[t] = IF t = s THEN new ELSE steps[t]
  BY <1>1 DEF record
<1>4. ASSUME NEW t \in StageIds PROVE RunningIn(steps'[t]) = {}
  <2> HIDE DEF new
  <2>1. CASE pc[e] = "next"
    <3>1. RunningIn(steps[t]) = {} /\ RunningIn(steps[s]) = {}
      BY <2>1, NothingInFlight
    <3> QED
      BY <1>2, <1>3, <3>1
  <2>2. CASE pc[e] \in AtWork
    <3>1. /\ \A i \in RunningIn(steps[t]) : t = s /\ i = row.attempt
          /\ \A i \in RunningIn(steps[s]) : i = row.attempt
      BY <2>2 DEF OnTime, InFlightIsItsOwn, Live, Executing, AtWork, OnARow
    <3> QED
      BY <1>2, <1>3, <3>1
  <2> QED
    BY <2>1, <2>2
<1>5. run'.beat = 0
  BY TimeTypes DEF record, touch_run, Younger, LifecycleTypeOK, RunRow
<1>6. InFlightIsItsOwn(e)' /\ KeepsTheLimits(e)'
  <2> HIDE DEF s
  <2>1. InFlightIsItsOwn(e)'
    BY <1>4 DEF InFlightIsItsOwn
  <2>2. run'.beat <= HeartbeatLimit
    BY <1>5, TimeTypes
  <2>3. KeepsTheLimits(e)'
    BY <2>2 DEF KeepsTheLimits, AtWork, OnARow
  <2> QED
    BY <2>1, <2>3
<1>7. pc[e] \notin Outside /\ Busy(e)
  BY DEF Outside, AtWork, OnARow, Busy, Attached
<1>8. NoRowsYet'
  BY <1>7, RowStands
<1> QED
  BY <1>6, <1>7, <1>8, OnTimeStep DEF Outside

LEMMA SkippingOnTime ==
    ASSUME TimeInv, RunMoves, OnTime, NEW e \in Executors, skip_succeeded(e)
    PROVE  OnTime'
<1>1. pc[e] = "next" /\ pc'[e] = "next" /\ UNCHANGED <<run, steps, sweep, opens>>
  BY DEF skip_succeeded, OnStage, Rows
<1>2. \A s \in StageIds : RunningIn(steps'[s]) = {}
  BY <1>1, NothingInFlight
<1>3. KeepsTheLimits(e)
  BY DEF OnTime
<1>4. InFlightIsItsOwn(e)' /\ KeepsTheLimits(e)'
  BY <1>1, <1>2, <1>3 DEF InFlightIsItsOwn, KeepsTheLimits, AtWork, OnARow
<1>5. NoRowsYet' /\ Busy(e) /\ Execute(e)
  BY <1>1, RowStands DEF Outside, Busy, Attached, Execute
<1> QED
  BY <1>1, <1>4, <1>5, OnTimeStep

LEMMA PassingOnTime ==
    ASSUME TimeInv, RunMoves, OnTime, NEW e \in Executors,
           record_skipped(e) \/ record_guard_error(e)
    PROVE  OnTime'
<1>1. /\ OnStage(e) /\ pc[e] = "next" /\ pc'[e] = "next" /\ Execute(e)
      /\ UNCHANGED <<sweep, opens>>
  BY DEF record_skipped, record_guard_error, ToRun, OnStage, Execute
<1>2. /\ loop[e].stage \in StageIds /\ next_attempt(e) \in Nat \ {0}
      /\ next_attempt(e) <= Len(steps[loop[e].stage]) + 1
  BY <1>1, NextAttempt, TimeTypes
<1>3. \E row \in StepRow : /\ row.status # Running /\ row.attempt = next_attempt(e)
                           /\ record(e, loop[e].stage, row)
  <2>1. \A status \in StepStatus, started \in BOOLEAN, error \in Errors :
           LET row == NewRow(next_attempt(e), status, started, error) IN
           row \in StepRow /\ row.status = status /\ row.attempt = next_attempt(e)
    BY <1>2 DEF NewRow, StepRow
  <2>2. /\ {"skipped", "failed"} \subseteq StepStatus \ {Running}
        /\ {"skipped", "condition-error"} \subseteq Errors
    BY DEF StepStatus, Settled, Running, Errors
  <2>3. \E status \in {"skipped", "failed"}, started \in BOOLEAN,
           error \in {"skipped", "condition-error"} :
           record(e, loop[e].stage, NewRow(next_attempt(e), status, started, error))
    BY DEF record_skipped, record_guard_error
  <2> QED
    BY <2>1, <2>2, <2>3
<1>4. PICK row \in StepRow : /\ row.status # Running /\ row.attempt = next_attempt(e)
                             /\ record(e, loop[e].stage, row)
  BY <1>3
<1> QED
  BY <1>1, <1>2, <1>4, RecordingOnTime DEF AtWork, OnARow

LEMMA HandledOnTime ==
    ASSUME TimeInv, RunMoves, OnTime, NEW e \in Executors,
           handler_succeeds(e) \/ handler_fails(e) \/ handler_times_out(e)
    PROVE  OnTime'
<1>1. PICK status \in Settled, error \in Errors, retryable \in BOOLEAN :
         Finish(e, status, error, retryable)
  BY DEF handler_succeeds, handler_fails, handler_times_out, Settled, Errors
<1>2. pc[e] \in AtWork /\ pc[e] \in OnARow /\ Execute(e)
  BY DEF handler_succeeds, handler_fails, handler_times_out, AtWork, OnARow, Execute
<1>3. /\ loop[e].stage \in StageIds /\ loop[e].attempt \in Nat \ {0}
      /\ loop[e].attempt <= Len(steps[loop[e].stage]) + 1
  BY <1>2, OnRowFacts, TimeTypes
<1> DEFINE row == NewRow(loop[e].attempt, status, TRUE, error)
<1>4. row \in StepRow /\ row.status # Running /\ row.attempt = loop[e].attempt
  BY <1>3 DEF NewRow, StepRow, StepStatus, Settled, Running
<1>5. /\ record(e, loop[e].stage, row) /\ UNCHANGED <<sweep, opens>>
      /\ pc'[e] \in {"next", "retry"}
  BY <1>1, TimeTypes DEF Finish, Goto, LifecycleTypeOK
<1> QED
  <2> HIDE DEF row
  <2> QED
    BY <1>2, <1>3, <1>4, <1>5, RecordingOnTime

LEMMA BeginningOnTime ==
    ASSUME TimeInv, RunMoves, OnTime, NEW e \in Executors, begin(e) \/ begin_retry(e)
    PROVE  OnTime'
<1> DEFINE s == loop[e].stage
<1>1. PICK attempt \in Nat \ {0}, tries \in Nat :
         /\ s \in StageIds /\ pc[e] \in {"next", "retry"}
         /\ attempt <= Len(steps[s]) + 1
         /\ Begins(e, attempt, tries)
  <2>1. CASE begin(e)
    BY <2>1, NextAttempt, TimeTypes DEF begin, ToRun, OnStage
  <2>2. CASE begin_retry(e)
    <3>1. loop[e].tries + 1 \in Nat /\ pc[e] = "retry" /\ pc[e] \in OnARow
      BY <2>2, OnRowFacts, TimeTypes DEF begin_retry, OnARow, Loop
    <3>2. /\ s \in StageIds /\ loop[e].attempt + 1 \in Nat \ {0}
          /\ loop[e].attempt + 1 <= Len(steps[s]) + 1
      BY <3>1, OnRowFacts, TimeTypes, SMTT(30)
    <3> QED
      BY <2>2, <3>1, <3>2 DEF begin_retry
  <2> QED
    BY <2>1, <2>2
<1>2. GoodRows(steps[s]) /\ Len(steps[s]) \in Nat /\ steps \in [StageIds -> Seq(StepRow)]
  BY <1>1, TimeTypes, GoodStage DEF LifecycleTypeOK
<1>3. attempt = Len(steps[s]) + 1
  BY <1>1, <1>2, AttemptUsed DEF Begins, Collides
<1> DEFINE row == NewRow(attempt, Running, TRUE, "none")
<1>4. \A t \in StageIds : steps'[t] = IF t = s THEN Append(steps[s], row) ELSE steps[t]
  BY <1>1, <1>2 DEF Begins
<1>5. /\ loop'[e].stage = s /\ loop'[e].attempt = attempt /\ lag'[e] = 0
      /\ pc'[e] = "handling" /\ run'.beat = 0 /\ UNCHANGED <<sweep, opens>>
  BY <1>1, TimeTypes DEF Begins, Goto, touch_run, Younger, LifecycleTypeOK, RunRow, Loop
<1>6. \A t \in StageIds : RunningIn(steps[t]) = {}
  BY <1>1, NothingInFlight
<1>7. ASSUME NEW t \in StageIds, NEW i \in RunningIn(steps'[t])
      PROVE  t = s /\ i = attempt /\ steps'[t][i].age = 0
  <2>1. row.age = 0
    BY DEF NewRow
  <2>2. t = s
    BY <1>4, <1>6
  <2>3. i \in DOMAIN Append(steps[s], row) /\ Append(steps[s], row)[i].status = Running
    BY <1>4, <2>2 DEF RunningIn
  <2>4. i \in 1..Len(steps[s]) => i \in RunningIn(steps[s])
    <3> HIDE DEF row
    <3> QED
      BY <1>2, <2>3 DEF RunningIn, GoodRows
  <2>5. i = attempt /\ Append(steps[s], row)[i] = row
    <3> HIDE DEF row
    <3> QED
      BY <1>1, <1>2, <1>3, <1>6, <2>3, <2>4 DEF GoodRows
  <2> QED
    BY <1>4, <2>1, <2>2, <2>5
<1>8. InFlightIsItsOwn(e)' /\ KeepsTheLimits(e)'
  <2>1. 0 <= LimitOf(loop'[e].stage)
    BY <1>1, <1>5, TimeTypes
  <2>2. KeepsTheLimits(e)'
    BY <1>5, <2>1 DEF KeepsTheLimits, AtWork, OnARow
  <2>3. InFlightIsItsOwn(e)'
    BY <1>5, <1>7 DEF InFlightIsItsOwn, AtWork, OnARow
  <2> QED
    BY <2>2, <2>3
<1>9. NoRowsYet' /\ Busy(e) /\ Execute(e) /\ pc[e] # "idle"
  BY <1>1, RowStands DEF Outside, Busy, Attached, Execute
<1> QED
  BY <1>5, <1>8, <1>9, OnTimeStep

LEMMA AttendingOnTime ==
    ASSUME TimeInv, RunMoves, OnTime, NEW e \in Executors,
           heartbeat(e) \/ poll(e) \/ poll_claim(e)
    PROVE  OnTime'
<1>1. /\ UNCHANGED <<steps, loop, lag, sweep, opens>>
      /\ pc[e] \in AtWork /\ pc'[e] \in AtWork /\ Execute(e)
  BY TimeTypes DEF heartbeat, poll, poll_claim, Attends, Rows, Private, Goto, AtWork, OnARow,
                   LifecycleTypeOK, Execute
<1>2. run'.beat <= run.beat /\ run'.beat \in Nat
  <2>1. CASE heartbeat(e)
    <3>1. PICK at \in 0..lag[e] : touch_run(at)
      BY <2>1 DEF heartbeat
    <3> QED
      BY <3>1, TimeTypes DEF touch_run, Younger, LifecycleTypeOK, RunRow
  <2>2. CASE ~heartbeat(e)
    BY <2>2, TimeTypes DEF poll, poll_claim, Rows
  <2> QED
    BY <2>1, <2>2
<1>3. InFlightIsItsOwn(e) /\ KeepsTheLimits(e)
  BY DEF OnTime
<1>4. InFlightIsItsOwn(e)'
  BY <1>1, <1>3 DEF InFlightIsItsOwn, AtWork, OnARow, Live, Executing
<1>5. KeepsTheLimits(e)'
  BY <1>1, <1>2, <1>3, TimeTypes DEF KeepsTheLimits, AtWork, OnARow, LimitOf
<1>6. NoRowsYet' /\ Busy(e) /\ pc[e] # "idle"
  BY <1>1, RowStands DEF Outside, Busy, Attached, AtWork, OnARow
<1> QED
  BY <1>1, <1>4, <1>5, <1>6, OnTimeStep

\* What a sweep finds of a run that is watched in time.
LEMMA NothingIsOverdue ==
    ASSUME StepsAreShort, TimeInv, OnTime, Watched
    PROVE  /\ \A at \in InFlight : ~Overdue(at[1], at[2])
           /\ run.status = "running" => run.beat <= HeartbeatLimit
<1>1. CASE run.status = "absent"
  <2>1. InFlight = {}
    BY <1>1 DEF OnTime, NoRowsYet, Untouched, InFlight, RunningIn
  <2> QED
    BY <1>1, <2>1
<1>2. CASE run.status # "absent"
  <2>1. PICK e \in Executors : Busy(e)
    BY <1>2 DEF OnTime, Watched
  <2>2. /\ pc[e] \in {"announce", "next", "retry"} \cup AtWork
        /\ Live(e) \/ pc[e] = "announce"
        /\ InFlightIsItsOwn(e) /\ KeepsTheLimits(e)
    BY <1>2, <2>1, TimeTypes
       DEF OnTime, KeepsTheLimits, Busy, Attached, LifecycleTypeOK, Where, Executing, AtWork,
           OnARow, Live
  <2>3. ASSUME NEW at \in InFlight PROVE ~Overdue(at[1], at[2])
    <3>1. PICK s \in StageIds : at \in {s} \X RunningIn(steps[s])
      BY DEF InFlight
    <3>2. at[1] = s /\ at[2] \in RunningIn(steps[s])
      BY <3>1
    <3>3. pc[e] \in AtWork /\ s = loop[e].stage /\ steps[s][at[2]].age = lag[e]
      BY <2>2, <3>2 DEF InFlightIsItsOwn
    <3>4. lag[e] <= LimitOf(s) /\ LimitOf(s) \in Nat /\ lag[e] \in Nat
      BY <2>2, <3>3, TimeTypes DEF KeepsTheLimits
    <3> QED
      BY <3>2, <3>3, <3>4 DEF Overdue
  <2>4. run.beat <= HeartbeatLimit
    <3>1. CASE pc[e] \in AtWork
      <4>1. loop[e].stage \in StageIds
        BY <3>1, OnRowFacts, TimeTypes DEF AtWork
      <4> QED
        BY <2>2, <3>1, <4>1, TimeTypes DEF KeepsTheLimits, StepsAreShort
    <3>2. CASE pc[e] \notin AtWork
      BY <2>2, <3>2 DEF KeepsTheLimits
    <3> QED
      BY <3>1, <3>2
  <2> QED
    BY <2>3, <2>4
<1> QED
  BY <1>1, <1>2

\* A watchdog that only ever found a run silent changes neither run nor rows.
LEMMA HarmlessStep ==
    ASSUME StepsAreShort, TimeInv, OnTime, Watched, NEW w \in Sweepers, Watch(w)
    PROVE  UNCHANGED <<run, steps>> /\ \A v \in Sweepers : Harmless(v)'
<1>1. sweep \in [Sweepers -> Sweep] /\ \A v \in Sweepers : Harmless(v)
  BY TimeTypes DEF OnTime, LifecycleTypeOK
<1>2. \A v \in Sweepers \ {w} : sweep'[v] = sweep[v]
  BY <1>1 DEF Watch, detect_steps, Sweeping, detect_run_row, Recovering, detect_run, recover,
     Recovered, WatchdogCrash
<1>3. ASSUME NEW stalls \in SUBSET sweep[w].stalls, Recovering(w, stalls)
      PROVE  Harmless(w)'
  BY <1>1, <1>3 DEF Recovering, Harmless, Idle, Sweep
<1>4. UNCHANGED <<run, steps>> /\ Harmless(w)'
  <2>1. CASE detect_steps(w)
    <3>1. {at \in InFlight : Overdue(at[1], at[2])} = {}
      BY NothingIsOverdue
    <3>2. PICK stalls : Sweeping(w, "scanned", stalls) /\ \A x \in stalls : x.kind = "silent"
      <4> DEFINE silent == {at \in InFlight : Silent(at[1], at[2])}
      <4>1. Sweeping(w, "scanned", {StallOf("silent", at) : at \in silent})
        BY <2>1, <3>1 DEF detect_steps
      <4>2. \A at : StallOf("silent", at).kind = "silent"
        BY DEF StallOf
      <4> QED
        BY <4>1, <4>2
    <3>3. sweep'[w].stalls = stalls /\ sweep'[w].late = sweep[w].late
      BY <1>1, <3>2 DEF Sweeping, Sweep
    <3> QED
      BY <1>1, <2>1, <3>2, <3>3 DEF Harmless, detect_steps, Rows
  <2>2. CASE detect_run_row(w)
    <3>1. CASE Recovering(w, sweep[w].stalls)
      BY <1>3, <2>2, <3>1 DEF detect_run_row, Rows
    <3>2. CASE ~Recovering(w, sweep[w].stalls)
      <4>1. /\ run.status = "running" /\ UNCHANGED <<run, steps>>
            /\ sweep' = [sweep EXCEPT ![w].phase = "listed",
                             ![w].late = run.beat > HeartbeatLimit + sweep[w].lag]
        BY <2>2, <3>2 DEF detect_run_row, Rows
      <4>2. ~(run.beat > HeartbeatLimit + sweep[w].lag)
        <5>1. sweep[w].lag \in Nat
          BY <1>1 DEF Sweep
        <5> QED
          BY <4>1, <5>1, NothingIsOverdue, TimeTypes
      <4>3. ~sweep'[w].late /\ sweep'[w].stalls = sweep[w].stalls
        BY <1>1, <4>1, <4>2 DEF Sweep
      <4> QED
        BY <1>1, <4>1, <4>3 DEF Harmless
    <3> QED
      BY <3>1, <3>2
  <2>3. CASE detect_run(w)
    <3>1. Recovering(w, sweep[w].stalls)
      <4>1. ~sweep[w].late
        BY <1>1 DEF Harmless
      <4> QED
        BY <2>3, <4>1 DEF detect_run
    <3> QED
      BY <1>3, <2>3, <3>1 DEF detect_run, Rows
  <2>4. CASE recover(w)
    <3>1. PICK stall \in sweep[w].stalls :
             /\ recover_silent(w, stall) \/ recover_step(w, stall) \/ recover_run(w, stall)
             /\ Recovered(w, stall)
      BY <2>4 DEF recover
    <3>2. recover_silent(w, stall)
      BY <1>1, <3>1 DEF Harmless, recover_step, recover_run
    <3> QED
      BY <1>3, <3>1, <3>2 DEF recover_silent, Recovered
  <2>5. CASE WatchdogCrash(w)
    BY <1>1, <2>5 DEF WatchdogCrash, Harmless, Idle, Rows
  <2> QED
    BY <2>1, <2>2, <2>3, <2>4, <2>5 DEF Watch
<1> QED
  BY <1>1, <1>2, <1>4 DEF Harmless

LEMMA WatchingOnTime ==
    ASSUME StepsAreShort, TimeInv, RunMoves, OnTime, NEW w \in Sweepers, Watch(w)
    PROVE  OnTime'
<1>1. UNCHANGED <<pc, loop, lag, opens>>
  BY DEF Watch, detect_steps, detect_run_row, detect_run, recover, WatchdogCrash, Private
<1>2. Watched' <=> Watched
  BY <1>1 DEF Watched, Busy
<1>3. Alone'
  BY <1>1 DEF OnTime, Alone
<1>4. CASE Watched
  <2>1. UNCHANGED <<run, steps>> /\ \A v \in Sweepers : Harmless(v)'
    BY <1>4, HarmlessStep
  <2>2. \A e \in Executors : InFlightIsItsOwn(e)' /\ KeepsTheLimits(e)'
    BY <1>1, <2>1 DEF OnTime, InFlightIsItsOwn, KeepsTheLimits, Live, LimitOf, Untouched
  <2> QED
    BY <1>1, <1>3, <2>1, <2>2 DEF OnTime, NoRowsYet, Untouched
<1>5. CASE ~Watched
  <2>1. \A e \in Executors : pc'[e] \in {"idle"} \cup Attached
    BY <1>1, <1>5 DEF Watched, Busy
  <2>2. \A e \in Executors : InFlightIsItsOwn(e)' /\ KeepsTheLimits(e)'
    BY <2>1 DEF InFlightIsItsOwn, KeepsTheLimits, Live, Executing, AtWork, OnARow, Attached
  <2>3. opens' # 0
    BY <1>1, <1>5 DEF Watched
  <2>4. NoRowsYet'
    <3>1. CASE steps' = steps
      BY <3>1 DEF OnTime, NoRowsYet, Untouched, RunMoves, SameVerdict
    <3>2. CASE steps' # steps
      <4>1. run'.status = "halted"
        BY <3>2, RewrittenVerdict, TimeTypes
           DEF Watch, detect_steps, detect_run_row, detect_run, recover, recover_silent,
               recover_step, recover_run, WatchdogCrash, Rows
      <4> QED
        BY <4>1 DEF NoRowsYet
    <3> QED
      BY <3>1, <3>2
  <2> QED
    BY <1>2, <1>3, <1>5, <2>2, <2>3, <2>4 DEF OnTime
<1> QED
  BY <1>4, <1>5

LEMMA OutsideOnTime ==
    ASSUME TimeInv, OnTime, Send \/ RequestStop \/ UNCHANGED vars
    PROVE  OnTime'
<1>1. UNCHANGED <<run, steps, pc, loop, lag, sweep, opens>>
  BY DEF Send, RequestStop, Rows, Private, vars
<1>2. \A e \in Executors : InFlightIsItsOwn(e)' /\ KeepsTheLimits(e)'
  BY <1>1 DEF OnTime, InFlightIsItsOwn, KeepsTheLimits, Live, LimitOf, Untouched
<1>3. (Watched' <=> Watched) /\ \A w \in Sweepers : Harmless(w)' <=> Harmless(w)
  BY <1>1 DEF Watched, Busy, Harmless
<1> QED
  BY <1>1, <1>2, <1>3 DEF OnTime, Alone, NoRowsYet, Untouched

LEMMA OlderIsNext ==
    ASSUME NEW a \in Nat
    PROVE  /\ Older(a) \in Nat /\ Older(a) <= a + 1
           /\ \A b \in Nat : a < b => Older(a) <= b
           /\ \A b \in Nat : a <= b => Older(a) <= Older(b)
BY LifecycleAssumption DEF Older

\* Time passes only as far as every live process is in time.
LEMMA AgingOnTime ==
    ASSUME Prompt, StepsAreShort, TimeInv, OnTime, Tick
    PROVE  OnTime'
<1>1. UNCHANGED <<pc, loop, opens>> /\ \A e \in Executors : InTime(e)
  BY DEF Tick
<1>2. ASSUME NEW e \in Executors
      PROVE  lag'[e] = IF pc[e] \in {"opening"} \cup AtWork THEN Older(lag[e]) ELSE lag[e]
  BY DEF Tick, AtWork, OnARow
<1>3. /\ run'.status = run.status
      /\ run'.beat = IF run.status = "absent" THEN run.beat ELSE Older(run.beat)
  BY TimeTypes DEF Tick, LifecycleTypeOK, RunRow
<1>4. ASSUME NEW s \in StageIds
      PROVE  /\ steps'[s] = [i \in DOMAIN steps[s] |-> Aged(steps[s][i])]
             /\ RunningIn(steps'[s]) = RunningIn(steps[s])
             /\ \A i \in RunningIn(steps[s]) : steps'[s][i].age = Older(steps[s][i].age)
             /\ steps[s] = <<>> => steps'[s] = <<>>
  <2>1. steps'[s] = [i \in DOMAIN steps[s] |-> Aged(steps[s][i])]
    BY DEF Tick, Aged
  <2>2. \A i \in DOMAIN steps[s] : steps[s][i] \in StepRow
    BY TimeTypes, GoodStage DEF GoodRows
  <2>3. \A r \in StepRow : /\ Aged(r).status = r.status
                           /\ r.status = Running => Aged(r).age = Older(r.age)
    BY DEF Aged, StepRow
  <2> QED
    BY <2>1, <2>2, <2>3 DEF RunningIn
<1>5. ASSUME NEW e \in Executors PROVE InFlightIsItsOwn(e)' /\ KeepsTheLimits(e)'
  <2>1. InFlightIsItsOwn(e) /\ KeepsTheLimits(e) /\ InTime(e)
    BY <1>1 DEF OnTime
  <2>2. InFlightIsItsOwn(e)'
    <3> SUFFICES ASSUME Live(e) \/ pc[e] = "announce",
                        NEW s \in StageIds, NEW i \in RunningIn(steps'[s])
                 PROVE  /\ pc[e] \in AtWork
                        /\ s = loop[e].stage /\ i = loop[e].attempt
                        /\ steps'[s][i].age = lag'[e]
      BY <1>1 DEF InFlightIsItsOwn, Live
    <3>1. i \in RunningIn(steps[s]) /\ steps'[s][i].age = Older(steps[s][i].age)
      BY <1>4
    <3>2. /\ pc[e] \in AtWork /\ s = loop[e].stage /\ i = loop[e].attempt
          /\ steps[s][i].age = lag[e]
      BY <2>1, <3>1 DEF InFlightIsItsOwn
    <3>3. lag'[e] = Older(lag[e])
      BY <1>2, <3>2
    <3> QED
      BY <3>1, <3>2, <3>3
  <2>3. CASE pc[e] = "opening"
    <3>1. run.status = "absent" /\ lag[e] < HeartbeatLimit
      BY <2>1, <2>3 DEF KeepsTheLimits, InTime
    <3>2. lag'[e] <= HeartbeatLimit
      <4>1. lag'[e] = Older(lag[e]) /\ lag[e] \in Nat /\ HeartbeatLimit \in Nat
        BY <1>2, <2>3, TimeTypes
      <4> QED
        BY <3>1, <4>1, OlderIsNext
    <3>3. KeepsTheLimits(e)'
      BY <1>1, <1>3, <2>3, <3>1, <3>2 DEF KeepsTheLimits, AtWork, OnARow
    <3> QED
      BY <2>2, <3>3
  <2>4. CASE pc[e] \in {"announce", "next", "retry"}
    <3>1. run.beat < HeartbeatLimit
      BY <2>1, <2>4 DEF InTime
    <3>2. run'.beat <= HeartbeatLimit
      <4>1. run.beat \in Nat /\ HeartbeatLimit \in Nat
        BY TimeTypes
      <4>2. Older(run.beat) <= HeartbeatLimit
        BY <3>1, <4>1, OlderIsNext
      <4> QED
        BY <1>3, <3>1, <4>1, <4>2
    <3>3. pc[e] = "announce" => Untouched'
      BY <1>4, <2>1 DEF KeepsTheLimits, Untouched
    <3>4. KeepsTheLimits(e)'
      BY <1>1, <2>4, <3>2, <3>3 DEF KeepsTheLimits, AtWork, OnARow
    <3> QED
      BY <2>2, <3>4
  <2>5. CASE pc[e] \in AtWork
    <3>1. lag[e] < LimitOf(loop[e].stage) /\ run.beat <= lag[e] /\ loop[e].stage \in StageIds
      BY <2>1, <2>5, OnRowFacts, TimeTypes DEF KeepsTheLimits, InTime, AtWork, OnARow
    <3>2. lag'[e] <= LimitOf(loop[e].stage) /\ run'.beat <= lag'[e]
      <4>1. lag'[e] = Older(lag[e]) /\ lag[e] \in Nat /\ run.beat \in Nat
            /\ LimitOf(loop[e].stage) \in Nat
        BY <1>2, <2>5, <3>1, TimeTypes
      <4>2. /\ Older(run.beat) <= Older(lag[e])
            /\ Older(lag[e]) <= LimitOf(loop[e].stage)
        BY <3>1, <4>1, OlderIsNext
      <4>3. run.status # "absent"
        BY <2>5 DEF TimeInv, VerdictInv, RowExists, Outside, AtWork, OnARow
      <4> QED
        BY <1>3, <3>1, <4>1, <4>2, <4>3
    <3>3. KeepsTheLimits(e)'
      BY <1>1, <2>5, <3>2 DEF KeepsTheLimits, AtWork, OnARow, LimitOf
    <3> QED
      BY <2>2, <3>3
  <2>6. CASE pc[e] \in {"idle"} \cup Attached
    BY <1>1, <2>2, <2>6 DEF KeepsTheLimits, AtWork, OnARow, Attached
  <2> QED
    BY <2>1, <2>3, <2>4, <2>5, <2>6, TimeTypes
       DEF KeepsTheLimits, LifecycleTypeOK, Where, Executing, AtWork, OnARow
<1>6. \A w \in Sweepers : Harmless(w)' <=> Harmless(w)
  BY TimeTypes DEF Tick, Harmless, LifecycleTypeOK, Sweep
<1>7. Watched' <=> Watched
  BY <1>1 DEF Watched, Busy
<1>8. NoRowsYet'
  BY <1>3, <1>4 DEF OnTime, NoRowsYet, Untouched
<1> QED
  BY <1>1, <1>3, <1>5, <1>6, <1>7, <1>8 DEF OnTime, Alone

LEMMA ExecutingOnTime ==
    ASSUME TimeInv, RunMoves, OnTime, NEW e \in Executors, Execute(e), opens' <= 1
    PROVE  OnTime'
BY EnteringOnTime, OpeningOnTime, SkippingOnTime, PassingOnTime, BeginningOnTime,
   HandledOnTime, LeavingOnTime, AttendingOnTime DEF Execute

LEMMA OpensGrows ==
    ASSUME [Next]_vars
    PROVE  opens' = opens \/ (opens' = opens + 1 /\ opens < MaxOpens)
BY ZenonT(40) DEF Next, Execute, Enter, create_run, announce_run, resume_run, load_run,
       skip_succeeded, record_skipped, record_guard_error, begin, begin_retry, Begins,
       begin_collides, handler_succeeds, handler_fails, handler_times_out, Finish, close_run,
       attach_read, attach_write, attach_conflict, leave, Crash, heartbeat, poll,
       poll_claim, Watch, detect_steps, detect_run_row, detect_run, recover,
       WatchdogCrash, Send, RequestStop, Tick, vars

LEMMA NextTime ==
    ASSUME Prompt, StepsAreShort
    PROVE  TimeInv /\ [Next]_vars => TimeInv'
<1> SUFFICES ASSUME TimeInv, [Next]_vars PROVE TimeInv'
  OBVIOUS
<1>1. VerdictInv' /\ RunMoves
  BY NextVerdict, RunStep DEF TimeInv
<1>2. ASSUME opens' <= 1 PROVE OnTime'
  <2>1. opens <= opens'
    BY OpensGrows, TimeTypes
  <2>2. opens \in Nat /\ opens' \in Nat
    BY <1>1, TimeTypes DEF VerdictInv, IInv, LifecycleTypeOK
  <2>3. OnTime
    BY <1>2, <2>1, <2>2 DEF TimeInv
  <2> QED
    BY <1>1, <1>2, <2>3, ExecutingOnTime, WatchingOnTime, OutsideOnTime, AgingOnTime DEF Next
<1> QED
  BY <1>1, <1>2 DEF TimeInv

LEMMA InitTime == Init => TimeInv
<1> SUFFICES ASSUME Init PROVE TimeInv
  OBVIOUS
<1>1. VerdictInv
  BY InitVerdict
<1>2. run.status = "absent" /\ opens = 0 /\ \A e \in Executors : pc[e] = "idle"
  BY DEF Init, NoRow
<1>3. NoRowsYet
  BY DEF Init, NoRowsYet, Untouched
<1>4. \A e \in Executors : InFlightIsItsOwn(e) /\ KeepsTheLimits(e)
  BY <1>2 DEF InFlightIsItsOwn, KeepsTheLimits, Live, Executing, AtWork, OnARow
<1>5. \A w \in Sweepers : Harmless(w)
  BY DEF Init, Idle, Harmless
<1> QED
  BY <1>1, <1>2, <1>3, <1>4, <1>5 DEF TimeInv, OnTime, Alone

\* Nobody but the process that ends it moves the status of a run in time.
LEMMA LiveStays ==
    ASSUME StepsAreShort, TimeInv, [Next]_vars, opens <= 1,
           NEW e \in Executors, Live(e), pc' = pc, run.status = "running"
    PROVE  run'.status = "running"
<1>1. OnTime /\ Watched
  BY DEF TimeInv, Watched, Busy, Live, Executing, Attached
<1>2. CASE \E d \in Executors : Execute(d)
  <2>1. PICK d \in Executors : Execute(d)
    BY <1>2
  <2>2. CASE create_run(d) \/ resume_run(d)
    BY <2>2, TimeTypes, RewrittenVerdict DEF create_run, resume_run, NoRow
  <2>3. CASE close_run(d) \/ attach_write(d)
    <3>1. pc'[d] # pc[d]
      BY <2>3, TimeTypes DEF close_run, attach_write, Forget, Goto, LifecycleTypeOK
    <3> QED
      BY <3>1
  <2>4. CASE \/ record_skipped(d) \/ record_guard_error(d) \/ begin(d) \/ begin_retry(d)
             \/ handler_succeeds(d) \/ handler_fails(d) \/ handler_times_out(d)
             \/ heartbeat(d)
    <3>1. \E at : touch_run(at)
      BY <2>4 DEF record_skipped, record_guard_error, record, begin, begin_retry, Begins,
                  handler_succeeds, handler_fails, handler_times_out, Finish, heartbeat
    <3> QED
      BY <3>1, TimeTypes, TouchedVerdict DEF SameVerdict
  <2>5. CASE \/ Enter(d) \/ announce_run(d) \/ load_run(d) \/ skip_succeeded(d)
             \/ begin_collides(d) \/ attach_read(d) \/ attach_conflict(d) \/ leave(d) \/ Crash(d)
             \/ poll(d) \/ poll_claim(d)
    BY <2>5 DEF Enter, announce_run, load_run, skip_succeeded, begin_collides, attach_read,
                attach_conflict, leave, Crash, poll, poll_claim, Rows
  <2> QED
    BY <2>1, <2>2, <2>3, <2>4, <2>5 DEF Execute
<1>3. CASE \E w \in Sweepers : Watch(w)
  BY <1>1, <1>3, HarmlessStep
<1>4. CASE Send \/ RequestStop \/ Tick \/ UNCHANGED vars
  BY <1>4, TimeTypes DEF Send, RequestStop, Tick, Rows, vars, LifecycleTypeOK, RunRow
<1> QED
  BY <1>2, <1>3, <1>4 DEF Next

(***************************************************************************)
(* Where no step may take longer than the heartbeat allows between two     *)
(* signs of life, any number of watchdogs, each reading in three steps and *)
(* acting later, leave a live process that keeps its limits alone.  After  *)
(* a resume it is not so: a sweep begun on the dead process halts the run  *)
(* of the live one; hence one execution.                                   *)
(***************************************************************************)
THEOREM PunctualRunIsLeftAlone ==
    ASSUME Prompt, StepsAreShort, MaxOpens <= 1
    PROVE  Spec => LiveRunIsNotHalted
<1>1. ASSUME TimeInv, [Next]_vars, opens <= MaxOpens, \E e \in Executors : Live(e),
             pc' = pc, run.status = "running"
      PROVE  run'.status = "running"
  <2>1. opens <= 1
    BY <1>1, TimeTypes, LifecycleAssumption
  <2> QED
    BY <1>1, <2>1, LiveStays
<1>2. TimeInv /\ opens <= MaxOpens /\ [Next]_vars =>
         [TheLivingAreSpared]_vars
  BY <1>1 DEF TheLivingAreSpared
<1>3. Init => opens <= MaxOpens
  BY LifecycleAssumption DEF Init
<1>4. TimeInv /\ opens <= MaxOpens /\ [Next]_vars => (opens <= MaxOpens)'
  BY TimeTypes, OpensGrows, LifecycleAssumption
<1> QED
  BY <1>2, <1>3, <1>4, InitTime, NextTime, PTL DEF Spec, LiveRunIsNotHalted
=============================================================================
