------------------------ MODULE RunLifecycle_proofs ------------------------
(***************************************************************************)
(* Proofs about RunLifecycle, for every workflow, every number of          *)
(* executors and watchdogs, and every bound.                               *)
(***************************************************************************)
EXTENDS RunLifecycle, FiniteSetTheorems, TLAPS

-----------------------------------------------------------------------------
(* The steering inbox: what each of its transactions keeps. *)

(***************************************************************************)
(* A message that nobody claimed is unread or failed, has been handed to   *)
(* nobody and has no ordinal.                                              *)
(***************************************************************************)
UnreadIsUnhanded == \A i \in Unread : handed[i] = 0

InboxInv ==
    /\ ControlTypeOK
    /\ UnreadIsUnhanded
    /\ HandedAtMostOnce
    /\ OrdinalsAreADenseOrder

LEMMA InboxTypes ==
    ASSUME ControlTypeOK
    PROVE  /\ Len(inbox) \in Nat /\ DOMAIN inbox = 1..Len(inbox)
           /\ DOMAIN handed = DOMAIN inbox
           /\ \A i \in DOMAIN inbox : inbox[i] \in Message /\ handed[i] \in Nat
           /\ IsFiniteSet(DOMAIN inbox)
<1>1. IsFiniteSet(1..Len(inbox)) /\ Len(inbox) \in Nat /\ DOMAIN inbox = 1..Len(inbox)
  BY FS_Interval DEF ControlTypeOK
<1> QED
  BY <1>1 DEF ControlTypeOK

-----------------------------------------------------------------------------
(* Ranks number the unread messages 0, 1, 2, ... in the order of delivery. *)

Ahead(i) == {j \in Unread : Before(j, i)}

LEMMA UnreadIsFinite ==
    ASSUME ControlTypeOK
    PROVE  /\ IsFiniteSet(Unread) /\ Cardinality(Unread) \in Nat
           /\ \A i : /\ IsFiniteSet(Ahead(i)) /\ Ahead(i) \subseteq Unread
                     /\ Rank(i) = Cardinality(Ahead(i))
                     /\ Rank(i) \in Nat
<1>1. IsFiniteSet(Unread)
  BY InboxTypes, FS_Subset DEF Unread
<1>2. ASSUME NEW i PROVE IsFiniteSet(Ahead(i)) /\ Ahead(i) \subseteq Unread
  BY <1>1, FS_Subset DEF Ahead
<1> QED
  BY <1>1, <1>2, FS_CardinalityType DEF Rank, Ahead

\* The delivery order is a strict total order on the unread.
LEMMA BeforeIsTotal ==
    ASSUME ControlTypeOK, NEW i \in Unread, NEW j \in Unread
    PROVE  /\ ~Before(i, i)
           /\ i # j => Before(i, j) \/ Before(j, i)
           /\ \A k \in Unread : Before(i, j) /\ Before(j, k) => Before(i, k)
<1>1. \A k \in Unread : k \in Int /\ inbox[k].priority \in Int
  <2> SUFFICES ASSUME NEW k \in Unread
               PROVE  k \in Int /\ inbox[k].priority \in Int
    OBVIOUS
  <2>1. k \in DOMAIN inbox
    BY DEF Unread
  <2>2. k \in Int /\ inbox[k] \in Message
    BY <2>1, InboxTypes
  <2>3. inbox[k].priority \in Priorities
    BY <2>2 DEF Message
  <2> QED
    BY <2>2, <2>3, ControlAssumption
<1> QED
  BY <1>1 DEF Before

LEMMA RanksAreOrdered ==
    ASSUME ControlTypeOK, NEW i \in Unread, NEW j \in Unread, Before(i, j)
    PROVE  Rank(i) < Rank(j)
<1>1. Ahead(i) \subseteq Ahead(j)
  BY BeforeIsTotal DEF Ahead
<1>2. i \in Ahead(j) /\ i \notin Ahead(i)
  BY BeforeIsTotal DEF Ahead
<1>3. Cardinality(Ahead(i)) <= Cardinality(Ahead(j))
      /\ Cardinality(Ahead(i)) # Cardinality(Ahead(j))
  BY <1>1, <1>2, UnreadIsFinite, FS_Subset
<1> QED
  BY <1>3, UnreadIsFinite

\* An injection into 0..n-1 from a set of n elements: every rank is taken.
LEMMA RanksAreDense ==
    ASSUME ControlTypeOK
    PROVE  /\ \A i \in Unread : Rank(i) < Cardinality(Unread)
           /\ \A i, j \in Unread : Rank(i) = Rank(j) => i = j
           /\ \A r \in 0..Cardinality(Unread) - 1 : \E i \in Unread : Rank(i) = r
<1> DEFINE n == Cardinality(Unread)
           rank == [i \in Unread |-> Rank(i)]
<1>1. n \in Nat /\ IsFiniteSet(0..n-1) /\ Cardinality(0..n-1) = n
  BY UnreadIsFinite, FS_Interval
<1>2. ASSUME NEW i \in Unread PROVE Rank(i) < n
  <2>1. Ahead(i) \subseteq Unread /\ Ahead(i) # Unread
    BY BeforeIsTotal DEF Ahead
  <2> QED
    BY <2>1, UnreadIsFinite, FS_Subset
<1>3. ASSUME NEW i \in Unread, NEW j \in Unread, Rank(i) = Rank(j) PROVE i = j
  BY <1>3, BeforeIsTotal, RanksAreOrdered, UnreadIsFinite
<1>4. rank \in [Unread -> 0..n-1]
  BY <1>1, <1>2, UnreadIsFinite
<1>5. rank \in Injection(Unread, 0..n-1)
  BY <1>3, <1>4 DEF Injection, IsInjective
<1>6. rank \in Surjection(Unread, 0..n-1)
  BY <1>1, <1>5, FS_Injection
<1> QED
  BY <1>2, <1>3, <1>6 DEF Surjection

-----------------------------------------------------------------------------
(* What a claim hands over, and the numbers it gives. *)

\* The highest ordinal so far is the number of messages given.
LEMMA NextOrdinal ==
    ASSUME InboxInv
    PROVE  /\ IsFiniteSet(Given) /\ Cardinality(Given) \in Nat
           /\ next_ordinal = Cardinality(Given) + 1
<1> DEFINE n == Cardinality(Given)
           S == {0} \cup {inbox[i].ordinal : i \in DOMAIN inbox}
<1>1. IsFiniteSet(Given) /\ n \in Nat
  BY InboxTypes, FS_Subset, FS_CardinalityType DEF InboxInv, Given
<1>2. S = 0..n
  <2>1. {inbox[i].ordinal : i \in Given} = 1..n
    BY DEF InboxInv, OrdinalsAreADenseOrder
  <2>2. \A i \in DOMAIN inbox \ Given : inbox[i].ordinal = 0
    BY DEF InboxInv, OrdinalsAreADenseOrder
  <2>3. S = {0} \cup {inbox[i].ordinal : i \in Given}
    BY <2>2 DEF Given
  <2>4. S = {0} \cup 1..n
    BY <2>1, <2>3, Zenon
  <2> QED
    BY <1>1, <2>4
<1>3. \A m \in Nat : Max(0..m) = m
  BY DEF Max
<1> QED
  BY <1>1, <1>2, <1>3 DEF next_ordinal

\* A claim takes an initial segment of the ranks.
LEMMA ClaimedRanks ==
    ASSUME ControlTypeOK
    PROVE  \E k \in Nat :
              /\ IsFiniteSet(Claimed) /\ Cardinality(Claimed) = k
              /\ {Rank(i) : i \in Claimed} = 0..k-1
<1> DEFINE n == Cardinality(Unread)
           k == IF n < ClaimLimit THEN n ELSE ClaimLimit
           rank == [i \in Claimed |-> Rank(i)]
<1>1. n \in Nat /\ k \in Nat /\ k <= n /\ k <= ClaimLimit
  BY UnreadIsFinite, ControlAssumption
<1>2. \A i \in Claimed : i \in Unread /\ Rank(i) \in 0..k-1
  BY <1>1, RanksAreDense, UnreadIsFinite, ControlAssumption DEF Claimed
<1>3. \A r \in 0..k-1 : \E i \in Claimed : Rank(i) = r
  BY <1>1, RanksAreDense, ControlAssumption DEF Claimed
<1>4. {Rank(i) : i \in Claimed} = 0..k-1
  BY <1>2, <1>3
<1>5. IsFiniteSet(Claimed)
  BY UnreadIsFinite, FS_Subset DEF Claimed
<1>6. rank \in Injection(Claimed, 0..k-1)
  BY <1>2, RanksAreDense DEF Injection, IsInjective
<1>7. rank \in Surjection(Claimed, 0..k-1)
  BY <1>2, <1>3 DEF Surjection
<1>8. IsFiniteSet(0..k-1) /\ Cardinality(0..k-1) = k
  <2>1. \A m \in Nat : IsFiniteSet(0..m-1) /\ Cardinality(0..m-1) = m
    BY FS_Interval
  <2> HIDE DEF k
  <2> QED
    BY <1>1, <2>1
<1>9. Cardinality(Claimed) = k
  BY <1>6, <1>7, <1>8, FS_Injection
<1> QED
  BY <1>1, <1>4, <1>5, <1>9

LEMMA ClaimKeepsInbox == ASSUME InboxInv, claim PROVE InboxInv'
<1> DEFINE n == Cardinality(Given)
<1>1. ControlTypeOK /\ n \in Nat /\ IsFiniteSet(Given) /\ next_ordinal = n + 1
  BY NextOrdinal DEF InboxInv
<1>2. PICK k \in Nat : /\ IsFiniteSet(Claimed) /\ Cardinality(Claimed) = k
                       /\ {Rank(i) : i \in Claimed} = 0..k-1
  BY <1>1, ClaimedRanks
<1>3. Claimed \subseteq Unread /\ Unread \subseteq DOMAIN inbox
  BY DEF Claimed, Unread
<1>4. \A i \in Claimed : handed[i] = 0
  BY <1>3 DEF InboxInv, UnreadIsUnhanded
<1>5. \A i \in Claimed : Delivered(i) \in Message
  BY <1>1, <1>3, InboxTypes, UnreadIsFinite DEF Delivered, Message
<1>6. /\ DOMAIN inbox' = DOMAIN inbox /\ DOMAIN handed' = DOMAIN inbox
      /\ \A i \in DOMAIN inbox :
            /\ inbox'[i] = IF i \in Claimed THEN Delivered(i) ELSE inbox[i]
            /\ handed'[i] = IF i \in Claimed THEN 1 ELSE handed[i]
  BY <1>1, <1>3, <1>4, InboxTypes DEF claim
<1>7. ControlTypeOK'
  <2>1. inbox' = [i \in 1..Len(inbox) |-> inbox'[i]]
        /\ \A i \in 1..Len(inbox) : inbox'[i] \in Message
    BY <1>1, <1>5, <1>6, InboxTypes DEF claim
  <2>2. inbox' \in Seq(Message) /\ Len(inbox') = Len(inbox)
    BY <1>1, <2>1, InboxTypes
  <2>3. handed' = [i \in 1..Len(inbox) |-> handed'[i]]
        /\ \A i \in 1..Len(inbox) : handed'[i] \in Nat
    BY <1>1, <1>6, InboxTypes DEF claim
  <2>4. handed' \in Seq(Nat) /\ Len(handed') = Len(inbox)
    BY <1>1, <2>3, InboxTypes
  <2> QED
    BY <1>1, <2>2, <2>4 DEF ControlTypeOK, claim
<1>8. UnreadIsUnhanded'
  BY <1>6 DEF InboxInv, UnreadIsUnhanded, Unread, Delivered
<1>9. HandedAtMostOnce'
  BY <1>1, <1>6, InboxTypes DEF InboxInv, HandedAtMostOnce
<1>10. Given' = Given \cup Claimed /\ Given \cap Claimed = {}
  BY <1>3, <1>4, <1>6 DEF Given
<1>11. Cardinality(Given') = n + k
  <2>1. Cardinality(Given \cup Claimed) = n + k - Cardinality({})
    BY <1>1, <1>2, <1>10, FS_Union
  <2> QED
    BY <1>1, <1>2, <1>10, <2>1, FS_EmptySet
<1>12. {inbox'[i].ordinal : i \in Given'} = 1..n + k
  <2>1. {inbox'[i].ordinal : i \in Given} = 1..n
    BY <1>6, <1>10 DEF InboxInv, OrdinalsAreADenseOrder, Given
  <2>2. {inbox'[i].ordinal : i \in Claimed} = {n + 1 + Rank(i) : i \in Claimed}
    BY <1>1, <1>3, <1>6 DEF Delivered
  <2>3. {n + 1 + Rank(i) : i \in Claimed} = n + 1..n + k
    <3>1. \A i \in Claimed : Rank(i) \in 0..k-1
      BY <1>2
    <3>2. \A r \in 0..k-1 : \E i \in Claimed : Rank(i) = r
      BY <1>2
    <3>3. \A x \in n + 1..n + k : x - n - 1 \in 0..k-1 /\ x = n + 1 + (x - n - 1)
      BY <1>1, <1>2
    <3> QED
      BY <1>1, <1>2, <3>1, <3>2, <3>3
  <2> QED
    BY <1>1, <1>2, <1>10, <2>1, <2>2, <2>3
<1>13. \A i \in DOMAIN inbox' \ Given' : inbox'[i].ordinal = 0
  BY <1>6, <1>10 DEF InboxInv, OrdinalsAreADenseOrder
<1> QED
  BY <1>7, <1>8, <1>9, <1>11, <1>12, <1>13 DEF InboxInv, OrdinalsAreADenseOrder

-----------------------------------------------------------------------------
(* The other transactions. *)

\* Closing messages out, in whatever states: resume's abandon, and close.
LEMMA FailOpenKeepsInbox ==
    ASSUME InboxInv, NEW states, inbox' = FailOpen(states), handed' = handed,
           cancel' \in Cancellation
    PROVE  InboxInv'
<1>1. ControlTypeOK
  BY DEF InboxInv
<1>2. /\ DOMAIN inbox' = DOMAIN inbox
      /\ \A i \in DOMAIN inbox :
            inbox'[i] = IF inbox[i].state \in states
                        THEN [inbox[i] EXCEPT !.state = "failed"] ELSE inbox[i]
  BY <1>1, InboxTypes DEF FailOpen
<1>3. \A i \in DOMAIN inbox :
         /\ inbox'[i] \in Message
         /\ inbox'[i].ordinal = inbox[i].ordinal
         /\ inbox'[i].state = "unread" => inbox[i].state = "unread"
  <2> SUFFICES ASSUME NEW i \in DOMAIN inbox
               PROVE  /\ inbox'[i] \in Message
                      /\ inbox'[i].ordinal = inbox[i].ordinal
                      /\ inbox'[i].state = "unread" => inbox[i].state = "unread"
    OBVIOUS
  <2>1. inbox[i] \in Message
    BY <1>1, InboxTypes
  <2> QED
    BY <1>2, <2>1 DEF Message
<1>4. ControlTypeOK'
  <2>1. inbox' = [i \in 1..Len(inbox) |-> inbox'[i]]
    BY <1>1, InboxTypes DEF FailOpen
  <2>2. \A i \in 1..Len(inbox) : inbox'[i] \in Message
    BY <1>1, <1>3, InboxTypes
  <2>3. inbox' \in Seq(Message) /\ Len(inbox') = Len(inbox)
    BY <1>1, <2>1, <2>2, InboxTypes
  <2> QED
    BY <1>1, <2>3 DEF ControlTypeOK
<1>5. UnreadIsUnhanded'
  BY <1>2, <1>3 DEF InboxInv, UnreadIsUnhanded, Unread
<1>6. Given' = Given
  BY <1>2 DEF Given
<1>7. OrdinalsAreADenseOrder'
  <2>1. {inbox'[i].ordinal : i \in Given} = {inbox[i].ordinal : i \in Given}
    BY <1>3 DEF Given
  <2> QED
    BY <1>2, <1>3, <1>6, <2>1 DEF InboxInv, OrdinalsAreADenseOrder
<1> QED
  BY <1>4, <1>5, <1>7 DEF InboxInv, HandedAtMostOnce

LEMMA SendKeepsInbox ==
    ASSUME InboxInv, NEW priority \in Priorities, send(priority)
    PROVE  InboxInv'
<1> DEFINE new == [priority |-> priority, state |-> "unread", ordinal |-> 0]
<1>1. ControlTypeOK /\ new \in Message
  BY DEF InboxInv, Message
<1>2. inbox' = Append(inbox, new) /\ handed' = Append(handed, 0) /\ cancel' = cancel
  BY DEF send
<1> HIDE DEF new
<1>3. ControlTypeOK'
  BY <1>1, <1>2 DEF ControlTypeOK
<1> DEFINE last == Len(inbox) + 1
<1>4. /\ DOMAIN inbox' = DOMAIN inbox \cup {last} /\ last \notin DOMAIN inbox
      /\ DOMAIN handed' = DOMAIN inbox \cup {last}
      /\ \A i \in DOMAIN inbox : inbox'[i] = inbox[i] /\ handed'[i] = handed[i]
      /\ inbox'[last] = new /\ handed'[last] = 0
  BY <1>1, <1>2 DEF ControlTypeOK
<1>5. UnreadIsUnhanded'
  BY <1>4 DEF InboxInv, UnreadIsUnhanded, Unread
<1>6. HandedAtMostOnce'
  BY <1>1, <1>4, InboxTypes DEF InboxInv, HandedAtMostOnce
<1>7. Given' = Given
  BY <1>4 DEF Given
<1>8. OrdinalsAreADenseOrder'
  <2>1. {inbox'[i].ordinal : i \in Given} = {inbox[i].ordinal : i \in Given}
    BY <1>4 DEF Given
  <2>2. inbox'[last].ordinal = 0
    BY <1>4 DEF new
  <2> QED
    BY <1>4, <1>7, <2>1, <2>2 DEF InboxInv, OrdinalsAreADenseOrder
<1> QED
  BY <1>3, <1>5, <1>6, <1>8 DEF InboxInv

\* The cancel latch keeps its type, and does not concern the inbox.
LEMMA CancelKeepsInbox ==
    ASSUME InboxInv, UNCHANGED <<inbox, handed>>,
           \/ \E by \in {"operator", "watchdog"} : request(by)
           \/ acknowledge
           \/ UNCHANGED cancel
    PROVE  InboxInv'
<1>1. cancel \in Cancellation
  BY DEF InboxInv, ControlTypeOK
<1>2. cancel' \in Cancellation
  BY <1>1 DEF request, acknowledge, Cancellation, NoCancel
<1>3. ControlTypeOK'
  BY <1>2 DEF InboxInv, ControlTypeOK
<1> QED
  BY <1>3 DEF InboxInv, UnreadIsUnhanded, Unread, HandedAtMostOnce,
              OrdinalsAreADenseOrder, Given

-----------------------------------------------------------------------------
(* The run *)

(***************************************************************************)
(* The rows of a stage, as operators of a sequence.                        *)
(***************************************************************************)
Contiguous(rows) == \A i \in DOMAIN rows : rows[i].attempt = i

GoodRows(rows) == rows \in Seq(StepRow) /\ Contiguous(rows)

\* In a contiguous table, an attempt is used exactly up to the number of rows.
LEMMA AttemptUsed ==
    ASSUME NEW rows, GoodRows(rows), NEW a \in Nat \ {0}
    PROVE  HasAttempt(rows, a) <=> a <= Len(rows)
BY DEF GoodRows, Contiguous, HasAttempt

\* finish_step replaces a row in place or adds the next one.
LEMMA FinishStep ==
    ASSUME NEW rows, GoodRows(rows),
           NEW row \in StepRow, row.attempt <= Len(rows) + 1
    PROVE  /\ GoodRows(finish_step(rows, row))
           /\ Len(rows) <= Len(finish_step(rows, row))
           /\ row.attempt <= Len(finish_step(rows, row))
<1>1. row.attempt \in Nat \ {0}
  BY DEF StepRow
<1>2. CASE HasAttempt(rows, row.attempt)
  <2> DEFINE new == [i \in DOMAIN rows |-> IF rows[i].attempt = row.attempt
                                           THEN row ELSE rows[i]]
  <2>1. finish_step(rows, row) = new
    BY <1>2 DEF finish_step
  <2>2. new \in Seq(StepRow) /\ Len(new) = Len(rows)
    BY DEF GoodRows
  <2>3. Contiguous(new)
    BY DEF GoodRows, Contiguous
  <2> QED
    BY <1>1, <1>2, <2>1, <2>2, <2>3, AttemptUsed DEF GoodRows
<1>3. CASE ~HasAttempt(rows, row.attempt)
  <2>1. finish_step(rows, row) = Append(rows, row)
    BY <1>3 DEF finish_step
  <2>2. row.attempt = Len(rows) + 1
    BY <1>1, <1>3, AttemptUsed DEF GoodRows
  <2> QED
    BY <2>1, <2>2 DEF GoodRows, Contiguous
<1> QED
  BY <1>2, <1>3

\* Settling rows renumbers nothing.
LEMMA SettleKeepsRows ==
    ASSUME NEW rows, GoodRows(rows), NEW status \in StepStatus, NEW error \in Errors
    PROVE  /\ GoodRows(SettleRunning(rows, status, error))
           /\ Len(SettleRunning(rows, status, error)) = Len(rows)
<1> DEFINE new == SettleRunning(rows, status, error)
<1>1. new = [i \in 1..Len(rows) |-> new[i]]
  BY DEF GoodRows, SettleRunning
<1>2. ASSUME NEW i \in 1..Len(rows)
      PROVE  new[i] \in StepRow
  <2>1. rows[i] \in StepRow
    BY DEF GoodRows
  <2>2. Settle(rows[i], status, error) \in StepRow
    BY <2>1 DEF Settle, NewRow, StepRow
  <2> QED
    BY <2>1, <2>2 DEF GoodRows, SettleRunning
<1>3. new \in Seq(StepRow) /\ Len(new) = Len(rows)
  <2> HIDE DEF new
  <2> QED
    BY <1>1, <1>2 DEF GoodRows
<1>4. Contiguous(new)
  BY DEF GoodRows, Contiguous, SettleRunning, Settle, NewRow, StepRow
<1> QED
  BY <1>3, <1>4 DEF GoodRows

\* The highest attempt _load finds is the number of rows.
LEMMA HighestIsLength ==
    ASSUME NEW rows, GoodRows(rows)
    PROVE  Highest(rows) = Len(rows)
<1> DEFINE S == {0} \cup {rows[i].attempt : i \in DOMAIN rows}
<1>1. S = 0..Len(rows)
  BY DEF GoodRows, Contiguous
<1>2. Len(rows) \in Nat
  BY DEF GoodRows
<1>3. Max(S) = Max(0..Len(rows))
  BY <1>1
<1>4. \A n \in Nat : Max(0..n) = n
  BY DEF Max
<1> QED
  BY <1>2, <1>3, <1>4 DEF Highest

-----------------------------------------------------------------------------
(***************************************************************************)
(* The inductive invariant.  Contiguity alone is not inductive: the next   *)
(* attempt is computed from what a ledger remembers, which may be stale,   *)
(* so it takes that no memory is ahead of the rows, and that the attempt a *)
(* process is working on is one of them.                                   *)
(***************************************************************************)
MemoIsBehind ==
    \A e \in Executors, s \in StageIds : memo[e].highest[s] <= Len(steps[s])

OnARow == {"handling", "claiming", "stopping", "retry"}

LoopIsOnARow ==
    \A e \in Executors : pc[e] \in OnARow =>
        /\ loop[e].stage \in StageIds
        /\ loop[e].attempt \in 1..Len(steps[loop[e].stage])

IInv == LifecycleTypeOK /\ AttemptsAreContiguous /\ MemoIsBehind /\ LoopIsOnARow

\* No stage loses a row.
Grown == \A s \in StageIds : Len(steps[s]) <= Len(steps'[s])

\* What an action that touches the rows has to show.
RowsStep == /\ steps' \in [StageIds -> Seq(StepRow)]
            /\ AttemptsAreContiguous'
            /\ Grown

LEMMA GoodStage ==
    ASSUME IInv, NEW s \in StageIds
    PROVE  GoodRows(steps[s]) /\ Len(steps[s]) \in Nat
BY DEF IInv, LifecycleTypeOK, AttemptsAreContiguous, GoodRows, Contiguous

\* One stage gets new rows, the others keep theirs.
LEMMA OneStageStep ==
    ASSUME IInv, NEW s \in StageIds, NEW rows, GoodRows(rows),
           Len(steps[s]) <= Len(rows), steps' = [steps EXCEPT ![s] = rows]
    PROVE  RowsStep
<1>1. steps \in [StageIds -> Seq(StepRow)]
  BY DEF IInv, LifecycleTypeOK
<1>2. \A t \in StageIds : steps'[t] = IF t = s THEN rows ELSE steps[t]
  BY <1>1
<1>3. \A t \in StageIds : GoodRows(steps'[t]) /\ Len(steps[t]) <= Len(steps'[t])
  BY <1>2, GoodStage
<1>4. steps' \in [StageIds -> Seq(StepRow)]
  BY <1>1, <1>2 DEF GoodRows
<1> QED
  BY <1>3, <1>4 DEF RowsStep, Grown, AttemptsAreContiguous, GoodRows, Contiguous

LEMMA TouchRun ==
    ASSUME run \in RunRow, NEW at \in Nat, touch_run(at)
    PROVE  run' \in RunRow
BY DEF RunRow, touch_run, Younger

LEMMA NotedType ==
    ASSUME IInv, NEW e \in Executors, NEW s \in StageIds, NEW a \in Nat
    PROVE  /\ Noted(e, s, a) \in Memo
           /\ Noted(e, s, a).final = memo[e].final
           /\ \A t \in StageIds : Noted(e, s, a).highest[t] =
                 IF t = s /\ memo[e].highest[s] < a THEN a ELSE memo[e].highest[t]
<1>1. memo[e] \in Memo
  BY DEF IInv, LifecycleTypeOK
<1> QED
  BY <1>1 DEF Noted, Memo

\* SqliteLedger.record, with an attempt no further than the next one.
LEMMA RecordStep ==
    ASSUME IInv, NEW e \in Executors, NEW s \in StageIds, NEW row \in StepRow,
           row.attempt <= Len(steps[s]) + 1, record(e, s, row)
    PROVE  /\ RowsStep
           /\ row.attempt <= Len(steps'[s])
           /\ run' \in RunRow
           /\ memo' \in [Executors -> Memo]
           /\ MemoIsBehind'
<1> DEFINE rows == finish_step(steps[s], row)
<1>1. /\ GoodRows(rows)
      /\ Len(steps[s]) <= Len(rows)
      /\ row.attempt <= Len(rows)
  BY GoodStage, FinishStep
<1>2. steps' = [steps EXCEPT ![s] = rows]
  BY DEF record
<1>3. RowsStep
  <2> HIDE DEF rows
  <2> QED
    BY <1>1, <1>2, OneStageStep
<1>4. row.attempt <= Len(steps'[s])
  BY <1>1, <1>2 DEF IInv, LifecycleTypeOK
<1>5. run' \in RunRow
  BY TouchRun DEF record, IInv, LifecycleTypeOK
<1> DEFINE noted == [Noted(e, s, row.attempt) EXCEPT !.final[s] = row.status]
<1>6. row.attempt \in Nat /\ row.status \in StepStatus
  BY DEF StepRow
<1>7. noted \in Memo /\ noted.highest = Noted(e, s, row.attempt).highest
  <2>1. ASSUME NEW m \in Memo
        PROVE  LET n == [m EXCEPT !.final[s] = row.status]
               IN  n \in Memo /\ n.highest = m.highest
    BY <1>6 DEF Memo
  <2>2. Noted(e, s, row.attempt) \in Memo
    BY <1>6, NotedType
  <2> QED
    BY <2>1, <2>2
<1>8. memo' = [memo EXCEPT ![e] = noted]
  BY DEF record
<1>9. memo' \in [Executors -> Memo]
  BY <1>7, <1>8 DEF IInv, LifecycleTypeOK
<1>10. MemoIsBehind'
  <2> SUFFICES ASSUME NEW d \in Executors, NEW t \in StageIds
               PROVE  memo'[d].highest[t] <= Len(steps'[t])
    BY DEF MemoIsBehind
  <2>1. memo[d].highest[t] <= Len(steps[t]) /\ memo[d].highest[t] \in Nat
    BY DEF IInv, MemoIsBehind, LifecycleTypeOK, Memo
  <2>2. Len(steps[t]) <= Len(steps'[t]) /\ Len(steps[t]) \in Nat /\ Len(steps'[t]) \in Nat
    BY <1>3, GoodStage DEF RowsStep, Grown
  <2>3. CASE d = e
    <3>1. memo'[d].highest[t] = Noted(e, s, row.attempt).highest[t]
      BY <1>7, <1>8, <2>3 DEF IInv, LifecycleTypeOK
    <3> QED
      BY <1>4, <1>6, <2>1, <2>2, <2>3, <3>1, NotedType
  <2>4. CASE d # e
    <3>1. memo'[d] = memo[d]
      BY <1>8, <2>4 DEF IInv, LifecycleTypeOK
    <3> QED
      BY <2>1, <2>2, <3>1
  <2> QED
    BY <2>3, <2>4
<1> QED
  BY <1>3, <1>4, <1>5, <1>9, <1>10

\* Stale memories and working processes survive any growth of the rows.
LEMMA StillBehind ==
    ASSUME IInv, RowsStep, memo' = memo
    PROVE  MemoIsBehind'
<1> SUFFICES ASSUME NEW d \in Executors, NEW t \in StageIds
             PROVE  memo'[d].highest[t] <= Len(steps'[t])
  BY DEF MemoIsBehind
<1>1. memo[d].highest[t] <= Len(steps[t]) /\ memo[d].highest[t] \in Nat
  BY DEF IInv, MemoIsBehind, LifecycleTypeOK, Memo
<1>2. Len(steps[t]) <= Len(steps'[t]) /\ Len(steps[t]) \in Nat /\ Len(steps'[t]) \in Nat
  BY GoodStage DEF RowsStep, Grown
<1> QED
  BY <1>1, <1>2

LEMMA StillOnARow ==
    ASSUME IInv, RowsStep, NEW d \in Executors,
           loop'[d] = loop[d], pc[d] \in OnARow
    PROVE  /\ loop'[d].stage \in StageIds
           /\ loop'[d].attempt \in 1..Len(steps'[loop'[d].stage])
<1>1. /\ loop[d].stage \in StageIds
      /\ loop[d].attempt \in 1..Len(steps[loop[d].stage])
  BY DEF IInv, LoopIsOnARow
<1> DEFINE t == loop[d].stage
<1>2. Len(steps[t]) <= Len(steps'[t]) /\ Len(steps[t]) \in Nat /\ Len(steps'[t]) \in Nat
  BY <1>1, GoodStage DEF RowsStep, Grown
<1> QED
  BY <1>1, <1>2

\* An action that leaves the rows alone.
LEMMA SameRows ==
    ASSUME IInv, steps' = steps
    PROVE  RowsStep
<1>1. Grown
  BY GoodStage DEF Grown
<1> QED
  BY <1>1 DEF IInv, LifecycleTypeOK, AttemptsAreContiguous, RowsStep

-----------------------------------------------------------------------------
(* The types of what an action moves. *)

\* The parts of IInv that speak of one process at a time.
Places == /\ pc \in [Executors -> Where]
          /\ memo \in [Executors -> Memo]
          /\ loop \in [Executors -> Loop]
          /\ lag \in [Executors -> Nat]
          /\ copy \in [Executors -> RunRow]

LEMMA Blanks ==
    /\ NoRow \in RunRow /\ NoMemo \in Memo /\ NoLoop \in Loop /\ Idle \in Sweep
BY LifecycleAssumption DEF NoRow, RunRow, RunStatus, NoMemo, Memo, NoLoop, Loop, Idle, Sweep, StageIds

LEMMA InitIInv == Init => IInv
<1> SUFFICES ASSUME Init PROVE IInv
  OBVIOUS
<1>1. LifecycleTypeOK
  BY Blanks DEF Init, LifecycleTypeOK, Where
<1>2. AttemptsAreContiguous
  BY DEF Init, AttemptsAreContiguous
<1>3. MemoIsBehind
  BY DEF Init, MemoIsBehind, NoMemo
<1>4. LoopIsOnARow
  BY DEF Init, LoopIsOnARow, OnARow
<1> QED
  BY <1>1, <1>2, <1>3, <1>4 DEF IInv

\* A process that ends: whatever the rows did meanwhile.
LEMMA ForgetStep ==
    ASSUME IInv, NEW e \in Executors, Forget(e), steps' = steps,
           run' \in RunRow, UNCHANGED <<sweep, opens>>
    PROVE  IInv'
<1>1. RowsStep
  BY SameRows
<1>2. Places'
  BY Blanks DEF IInv, LifecycleTypeOK, Places, Forget, Goto, Where
<1>3. MemoIsBehind'
  BY DEF IInv, LifecycleTypeOK, MemoIsBehind, Forget, NoMemo
<1>4. LoopIsOnARow'
  BY DEF IInv, LifecycleTypeOK, LoopIsOnARow, Forget, Goto, OnARow
<1> QED
  BY <1>1, <1>2, <1>3, <1>4 DEF IInv, LifecycleTypeOK, Places, RowsStep

\* An action after which the process is where no row is being worked on.
LEMMA OffRowStep ==
    ASSUME IInv, NEW e \in Executors, NEW place \in Where \ OnARow, Goto(e, place),
           RowsStep, MemoIsBehind', Places', \A d \in Executors \ {e} : loop'[d] = loop[d],
           run' \in RunRow, sweep' \in [Sweepers -> Sweep], opens' \in Nat
    PROVE  IInv'
<1>1. LoopIsOnARow'
  <2> SUFFICES ASSUME NEW d \in Executors, pc'[d] \in OnARow
               PROVE  /\ loop'[d].stage \in StageIds
                      /\ loop'[d].attempt \in 1..Len(steps'[loop'[d].stage])
    BY DEF LoopIsOnARow
  <2>1. d # e /\ pc[d] \in OnARow
    BY DEF IInv, LifecycleTypeOK, Goto
  <2> QED
    BY <2>1, StillOnARow
<1> QED
  BY <1>1 DEF IInv, LifecycleTypeOK, Places, RowsStep

\* The same for a process that stays on, or comes to, a row.
LEMMA OnRowStep ==
    ASSUME IInv, NEW e \in Executors, NEW place \in Where, Goto(e, place),
           RowsStep, MemoIsBehind', Places', \A d \in Executors \ {e} : loop'[d] = loop[d],
           loop'[e].stage \in StageIds,
           loop'[e].attempt \in 1..Len(steps'[loop'[e].stage]),
           run' \in RunRow, sweep' \in [Sweepers -> Sweep], opens' \in Nat
    PROVE  IInv'
<1>1. LoopIsOnARow'
  <2> SUFFICES ASSUME NEW d \in Executors, pc'[d] \in OnARow
               PROVE  /\ loop'[d].stage \in StageIds
                      /\ loop'[d].attempt \in 1..Len(steps'[loop'[d].stage])
    BY DEF LoopIsOnARow
  <2>1. CASE d = e
    BY <2>1
  <2>2. CASE d # e
    <3>1. pc[d] \in OnARow
      BY <2>2 DEF IInv, LifecycleTypeOK, Goto
    <3> QED
      BY <2>2, <3>1, StillOnARow
  <2> QED
    BY <2>1, <2>2
<1> QED
  BY <1>1 DEF IInv, LifecycleTypeOK, Places, RowsStep

-----------------------------------------------------------------------------
(* One lemma per action, or per group of actions that move alike. *)

LEMMA EnterStep == ASSUME IInv, NEW e \in Executors, Enter(e) PROVE IInv'
<1>1. RowsStep /\ MemoIsBehind'
  BY SameRows, StillBehind DEF Enter, Rows
<1>2. Places'
  BY DEF IInv, LifecycleTypeOK, Places, Enter, Goto, Where
<1>3. run' = run /\ loop' = loop /\ sweep' = sweep /\ opens' \in Nat
  BY DEF IInv, LifecycleTypeOK, Enter, Rows
<1>4. Goto(e, "opening") /\ "opening" \in Where \ OnARow
  BY DEF Enter, Where, OnARow
<1> QED
  BY <1>1, <1>2, <1>3, <1>4, OffRowStep DEF IInv, LifecycleTypeOK

LEMMA CreateStep == ASSUME IInv, NEW e \in Executors, create_run(e) PROVE IInv'
<1>1. RowsStep /\ MemoIsBehind'
  BY SameRows, StillBehind DEF create_run, Private
<1>2. Places'
  BY DEF IInv, LifecycleTypeOK, Places, create_run, Private, Goto, Where
<1>3. run' \in RunRow
  BY DEF IInv, LifecycleTypeOK, create_run, NoRow, RunRow, RunStatus
<1>4. Goto(e, "announce") /\ "announce" \in Where \ OnARow
  BY DEF create_run, Where, OnARow
<1> QED
  BY <1>1, <1>2, <1>3, <1>4, OffRowStep DEF IInv, LifecycleTypeOK, create_run, Private

LEMMA AnnounceStep == ASSUME IInv, NEW e \in Executors, announce_run(e) PROVE IInv'
<1>1. RowsStep /\ MemoIsBehind'
  BY SameRows, StillBehind DEF announce_run, Private
<1>2. Places'
  BY DEF IInv, LifecycleTypeOK, Places, announce_run, Private, Goto, Where, Executing
<1>3. Goto(e, "next") /\ "next" \in Where \ OnARow
  BY DEF announce_run, Where, Executing, OnARow
<1> QED
  BY <1>1, <1>2, <1>3, OffRowStep DEF IInv, LifecycleTypeOK, announce_run, Private

LEMMA RewrittenType ==
    ASSUME IInv, NEW status \in RunStatus, NEW finished \in BOOLEAN, NEW at \in Nat
    PROVE  Rewritten(status, finished, at) \in RunRow
<1>1. ASSUME NEW r \in RunRow
      PROVE  [r EXCEPT !.status = status, !.finished = finished, !.beat = at,
                       !.version = r.version + 1] \in RunRow
  <2>1. r.version + 1 \in Nat
    BY DEF RunRow
  <2> QED
    BY <2>1 DEF RunRow
<1>2. run \in RunRow
  BY DEF IInv, LifecycleTypeOK
<1> QED
  BY <1>1, <1>2 DEF Rewritten

\* The rows settled, the memory still empty.
LEMMA ResumeStep == ASSUME IInv, NEW e \in Executors, resume_run(e) PROVE IInv'
<1> DEFINE settled(s) == SettleRunning(steps[s], "cancelled", "interrupted")
<1>1. steps' = [s \in StageIds |-> settled(s)]
  BY DEF resume_run
<1>2. ASSUME NEW s \in StageIds
      PROVE  GoodRows(settled(s)) /\ Len(settled(s)) = Len(steps[s])
  <2>1. "cancelled" \in StepStatus /\ "interrupted" \in Errors
    BY DEF StepStatus, Settled, Errors
  <2> QED
    BY <2>1, GoodStage, SettleKeepsRows
<1>3. \A s \in StageIds : /\ GoodRows(steps'[s]) /\ Len(steps'[s]) = Len(steps[s])
                          /\ Len(steps'[s]) \in Nat
  <2> HIDE DEF settled
  <2> QED
    BY <1>1, <1>2, GoodStage
<1>4. RowsStep
  <2>1. steps' \in [StageIds -> Seq(StepRow)]
    BY <1>1, <1>3 DEF GoodRows
  <2> QED
    BY <2>1, <1>3 DEF RowsStep, Grown, AttemptsAreContiguous, GoodRows, Contiguous
<1>5. MemoIsBehind'
  BY <1>4, StillBehind DEF resume_run, Private
<1>6. Places'
  BY DEF IInv, LifecycleTypeOK, Places, resume_run, Private, Goto, Where
<1>7. run' \in RunRow
  BY RewrittenType DEF IInv, LifecycleTypeOK, resume_run, RunStatus
<1>8. Goto(e, "loading") /\ "loading" \in Where \ OnARow
  BY DEF resume_run, Where, OnARow
<1> QED
  BY <1>4, <1>5, <1>6, <1>7, <1>8, OffRowStep DEF IInv, LifecycleTypeOK, resume_run, Private

\* The result _load keeps is that of a row.
LEMMA LoadedIsTyped ==
    ASSUME NEW rows \in Seq(StepRow)
    PROVE  Loaded(rows) \in StepStatus \cup {"none"}
<1>1. CASE LastSettled(rows) = {}
  BY <1>1 DEF Loaded
<1>2. CASE LastSettled(rows) # {}
  <2>1. PICK i \in LastSettled(rows) : Loaded(rows) = rows[i].status
    BY <1>2 DEF Loaded
  <2>2. rows[i] \in StepRow
    BY <2>1 DEF LastSettled
  <2> QED
    BY <2>1, <2>2 DEF StepRow
<1> QED
  BY <1>1, <1>2

\* The memory reloaded from the rows.
LEMMA LoadStep == ASSUME IInv, NEW e \in Executors, load_run(e) PROVE IInv'
<1> DEFINE loaded == [final |-> [s \in StageIds |-> Loaded(steps[s])],
                      highest |-> [s \in StageIds |-> Highest(steps[s])]]
<1>1. loaded \in Memo /\ \A s \in StageIds : loaded.highest[s] = Len(steps[s])
  <2>1. \A s \in StageIds : Highest(steps[s]) = Len(steps[s]) /\ Len(steps[s]) \in Nat
    BY GoodStage, HighestIsLength
  <2>2. \A s \in StageIds : Loaded(steps[s]) \in StepStatus \cup {"none"}
    BY GoodStage, LoadedIsTyped DEF GoodRows
  <2> QED
    BY <2>1, <2>2 DEF Memo
<1>2. memo' = [memo EXCEPT ![e] = loaded] /\ steps' = steps
  BY DEF load_run, Rows
<1>3. RowsStep
  BY <1>2, SameRows
<1> HIDE DEF loaded
<1>4. MemoIsBehind'
  <2> SUFFICES ASSUME NEW d \in Executors, NEW s \in StageIds
               PROVE  memo'[d].highest[s] <= Len(steps'[s])
    BY DEF MemoIsBehind
  <2>1. CASE d = e
    BY <1>1, <1>2, <2>1, GoodStage DEF IInv, LifecycleTypeOK
  <2>2. CASE d # e
    BY <1>2, <2>2 DEF IInv, LifecycleTypeOK, MemoIsBehind
  <2> QED
    BY <2>1, <2>2
<1>5. Places'
  BY <1>1, <1>2 DEF IInv, LifecycleTypeOK, Places, load_run, Goto, Where, Executing
<1>6. Goto(e, "next") /\ "next" \in Where \ OnARow
  BY DEF load_run, Where, Executing, OnARow
<1>7. run' = run /\ loop' = loop /\ sweep' = sweep /\ opens' = opens
  BY DEF load_run, Rows
<1> QED
  BY <1>3, <1>4, <1>5, <1>6, <1>7, OffRowStep DEF IInv, LifecycleTypeOK

LEMMA NextStageType ==
    ASSUME IInv, NEW e \in Executors, loop[e].stage \in StageIds, NEW stopped \in BOOLEAN
    PROVE  /\ NextStage(e, stopped) \in [Executors -> Loop]
           /\ \A d \in Executors \ {e} : NextStage(e, stopped)[d] = loop[d]
<1>1. [NoLoop EXCEPT !.stage = loop[e].stage + 1, !.stopped = stopped] \in Loop
  <2>1. loop[e].stage + 1 \in 1..Stages + 1
    BY LifecycleAssumption DEF StageIds
  <2> QED
    BY <2>1 DEF NoLoop, Loop
<1> QED
  BY <1>1 DEF NextStage, IInv, LifecycleTypeOK

\* What OnStage says of the next attempt.
LEMMA NextAttempt ==
    ASSUME IInv, NEW e \in Executors, OnStage(e)
    PROVE  /\ loop[e].stage \in StageIds
           /\ next_attempt(e) \in Nat \ {0}
           /\ next_attempt(e) <= Len(steps[loop[e].stage]) + 1
           /\ loop[e].stopped \in BOOLEAN
           /\ Goto(e, "next") <=> pc' = pc
<1>1. loop[e] \in Loop /\ memo[e] \in Memo
  BY DEF IInv, LifecycleTypeOK
<1>2. loop[e].stage \in StageIds /\ loop[e].stopped \in BOOLEAN
  BY <1>1, LifecycleAssumption DEF OnStage, Loop, StageIds
<1>3. memo[e].highest[loop[e].stage] \in Nat
  BY <1>1, <1>2 DEF Memo
<1>4. memo[e].highest[loop[e].stage] <= Len(steps[loop[e].stage])
  BY <1>2 DEF IInv, MemoIsBehind
<1>5. Goto(e, "next") <=> pc' = pc
  <2>1. [pc EXCEPT ![e] = "next"] = pc
    <3>1. pc \in [Executors -> Where] /\ pc[e] = "next"
      BY DEF OnStage, IInv, LifecycleTypeOK
    <3> QED
      BY <3>1, Zenon
  <2> QED
    BY <2>1, Zenon DEF Goto
<1> QED
  BY <1>2, <1>3, <1>4, <1>5, GoodStage DEF next_attempt

LEMMA SkipSucceededStep == ASSUME IInv, NEW e \in Executors, skip_succeeded(e) PROVE IInv'
<1>1. RowsStep /\ MemoIsBehind'
  BY SameRows, StillBehind DEF skip_succeeded, Rows
<1>2. OnStage(e) /\ pc' = pc
  BY DEF skip_succeeded
<1>3. Goto(e, "next") /\ loop[e].stage \in StageIds /\ loop[e].stopped \in BOOLEAN
  BY <1>2, NextAttempt
<1>4. loop' \in [Executors -> Loop] /\ \A d \in Executors \ {e} : loop'[d] = loop[d]
  BY <1>3, NextStageType DEF skip_succeeded
<1>5. Places'
  BY <1>2, <1>4 DEF IInv, LifecycleTypeOK, Places, skip_succeeded
<1>6. "next" \in Where \ OnARow
  BY DEF Where, Executing, OnARow
<1> QED
  BY <1>1, <1>3, <1>4, <1>5, <1>6, OffRowStep DEF IInv, LifecycleTypeOK, skip_succeeded, Rows

\* A skip or a guard error: a row with the next attempt, and on to the next stage.
LEMMA RecordedStep ==
    ASSUME IInv, NEW e \in Executors, OnStage(e),
           NEW status \in StepStatus, NEW started \in BOOLEAN, NEW error \in Errors,
           NEW stopped \in BOOLEAN,
           record(e, loop[e].stage, NewRow(next_attempt(e), status, started, error)),
           loop' = NextStage(e, stopped),
           UNCHANGED <<pc, lag, copy, sweep, opens>>
    PROVE  IInv'
<1> DEFINE row == NewRow(next_attempt(e), status, started, error)
<1>1. /\ loop[e].stage \in StageIds
      /\ next_attempt(e) \in Nat \ {0}
      /\ next_attempt(e) <= Len(steps[loop[e].stage]) + 1
      /\ Goto(e, "next")
  BY NextAttempt
<1>2. row \in StepRow /\ row.attempt = next_attempt(e)
  BY <1>1 DEF NewRow, StepRow
<1>3. RowsStep /\ run' \in RunRow /\ memo' \in [Executors -> Memo] /\ MemoIsBehind'
  <2> HIDE DEF row
  <2>1. record(e, loop[e].stage, row)
    BY DEF row
  <2> QED
    BY <1>1, <1>2, <2>1, RecordStep
<1>4. loop' \in [Executors -> Loop] /\ \A d \in Executors \ {e} : loop'[d] = loop[d]
  BY <1>1, NextStageType
<1>5. Places'
  BY <1>3, <1>4 DEF IInv, LifecycleTypeOK, Places
<1>6. "next" \in Where \ OnARow
  BY DEF Where, Executing, OnARow
<1> QED
  BY <1>1, <1>3, <1>4, <1>5, <1>6, OffRowStep DEF IInv, LifecycleTypeOK

LEMMA RecordSkippedStep == ASSUME IInv, NEW e \in Executors, record_skipped(e) PROVE IInv'
<1>1. OnStage(e)
  BY DEF record_skipped, ToRun
<1>2. loop[e].stopped \in BOOLEAN
  BY <1>1, NextAttempt
<1>3. "skipped" \in StepStatus /\ "skipped" \in Errors
  BY DEF StepStatus, Settled, Errors
<1> QED
  BY <1>1, <1>2, <1>3, RecordedStep DEF record_skipped

LEMMA GuardErrorStep == ASSUME IInv, NEW e \in Executors, record_guard_error(e) PROVE IInv'
<1>1. OnStage(e)
  BY DEF record_guard_error, ToRun
<1>2. "failed" \in StepStatus /\ "condition-error" \in Errors
  BY DEF StepStatus, Settled, Errors
<1> QED
  BY <1>1, <1>2, RecordedStep DEF record_guard_error

\* SqliteLedger.begin: the attempt is not taken, so it is the next row.
LEMMA BeginsStep ==
    ASSUME IInv, NEW e \in Executors, loop[e].stage \in StageIds,
           NEW attempt \in Nat \ {0}, attempt <= Len(steps[loop[e].stage]) + 1,
           NEW tries \in Nat, Begins(e, attempt, tries)
    PROVE  IInv'
<1> DEFINE s == loop[e].stage
           row == NewRow(attempt, Running, TRUE, "none")
           rows == Append(steps[s], row)
<1>1. row \in StepRow /\ row.attempt = attempt
  BY DEF NewRow, StepRow, StepStatus, Errors
<1>2. attempt = Len(steps[s]) + 1
  BY GoodStage, AttemptUsed DEF Begins, Collides
<1>3. GoodRows(rows) /\ Len(rows) = Len(steps[s]) + 1
  <2> HIDE DEF row
  <2>1. GoodRows(steps[s])
    BY GoodStage
  <2> QED
    BY <1>1, <1>2, <2>1 DEF GoodRows, Contiguous
<1>4. steps' = [steps EXCEPT ![s] = rows]
  BY DEF Begins
<1>5. RowsStep /\ attempt <= Len(steps'[s])
  <2> HIDE DEF rows
  <2>1. Len(steps[s]) <= Len(rows)
    BY <1>3, GoodStage
  <2>2. RowsStep
    BY <1>3, <1>4, <2>1, OneStageStep
  <2> QED
    BY <1>2, <1>3, <1>4, <2>2 DEF IInv, LifecycleTypeOK
<1>6. run' \in RunRow
  BY TouchRun DEF Begins, IInv, LifecycleTypeOK
<1>7. memo' = [memo EXCEPT ![e] = Noted(e, s, attempt)]
  BY DEF Begins
<1>8. memo' \in [Executors -> Memo]
  BY <1>7, NotedType DEF IInv, LifecycleTypeOK
<1>9. MemoIsBehind'
  <2> SUFFICES ASSUME NEW d \in Executors, NEW t \in StageIds
               PROVE  memo'[d].highest[t] <= Len(steps'[t])
    BY DEF MemoIsBehind
  <2>1. memo[d].highest[t] <= Len(steps[t]) /\ memo[d].highest[t] \in Nat
    BY DEF IInv, MemoIsBehind, LifecycleTypeOK, Memo
  <2>2. Len(steps[t]) <= Len(steps'[t]) /\ Len(steps[t]) \in Nat /\ Len(steps'[t]) \in Nat
    BY <1>5, GoodStage DEF RowsStep, Grown
  <2>3. memo'[d].highest[t] \in {attempt, memo[d].highest[t]}
        /\ (t # s => memo'[d].highest[t] = memo[d].highest[t])
    BY <1>7, NotedType DEF IInv, LifecycleTypeOK
  <2> QED
    BY <1>5, <2>1, <2>2, <2>3
<1>10. loop' = [loop EXCEPT ![e].attempt = attempt, ![e].tries = tries]
  BY DEF Begins
<1>11. /\ loop' \in [Executors -> Loop]
       /\ \A d \in Executors \ {e} : loop'[d] = loop[d]
       /\ loop'[e].stage = s /\ loop'[e].attempt = attempt
  BY <1>10 DEF IInv, LifecycleTypeOK, Loop
<1>12. Goto(e, "handling") /\ "handling" \in Where
  BY DEF Begins, Where, Executing
<1>13. Places'
  BY <1>8, <1>11, <1>12 DEF IInv, LifecycleTypeOK, Places, Begins, Goto
<1>14. attempt \in 1..Len(steps'[s])
  BY <1>5, GoodStage DEF RowsStep, Grown
<1> QED
  BY <1>5, <1>6, <1>9, <1>11, <1>12, <1>13, <1>14, OnRowStep DEF IInv, LifecycleTypeOK, Begins

LEMMA BeginStep == ASSUME IInv, NEW e \in Executors, begin(e) PROVE IInv'
<1>1. OnStage(e)
  BY DEF begin, ToRun
<1> QED
  BY <1>1, NextAttempt, BeginsStep DEF begin

LEMMA OnRowFacts ==
    ASSUME IInv, NEW e \in Executors, pc[e] \in OnARow
    PROVE  /\ loop[e].stage \in StageIds /\ loop[e] \in Loop
           /\ loop[e].attempt \in Nat \ {0}
           /\ loop[e].attempt <= Len(steps[loop[e].stage])
           /\ Len(steps[loop[e].stage]) \in Nat
<1>1. /\ loop[e].stage \in StageIds /\ loop[e] \in Loop
      /\ loop[e].attempt \in 1..Len(steps[loop[e].stage])
  BY DEF IInv, LoopIsOnARow, LifecycleTypeOK
<1> QED
  BY <1>1, GoodStage

LEMMA BeginRetryStep == ASSUME IInv, NEW e \in Executors, begin_retry(e) PROVE IInv'
<1>1. pc[e] \in OnARow
  BY DEF begin_retry, OnARow
<1>2. loop[e].tries + 1 \in Nat
  BY <1>1, OnRowFacts DEF Loop
<1>3. /\ loop[e].attempt + 1 \in Nat \ {0}
      /\ loop[e].attempt + 1 <= Len(steps[loop[e].stage]) + 1
  BY <1>1, OnRowFacts
<1> QED
  BY <1>1, <1>2, <1>3, OnRowFacts, BeginsStep DEF begin_retry

LEMMA ForgottenStep ==
    ASSUME IInv, NEW e \in Executors,
           begin_collides(e) \/ leave(e) \/ Crash(e)
    PROVE  IInv'
BY ForgetStep DEF begin_collides, leave, Crash, Rows, IInv, LifecycleTypeOK

\* The handler is over: its own row is settled.
LEMMA FinishedStep ==
    ASSUME IInv, NEW e \in Executors, pc[e] \in OnARow,
           NEW status \in StepStatus, NEW error \in Errors, NEW retryable \in BOOLEAN,
           Finish(e, status, error, retryable)
    PROVE  IInv'
<1> DEFINE s == loop[e].stage
           row == NewRow(loop[e].attempt, status, TRUE, error)
           again == retryable /\ loop[e].tries < MaxAttempts[s]
           stopped == status \in Unsuccessful /\ s \notin Continue
<1>1. /\ s \in StageIds
      /\ loop[e].attempt \in Nat \ {0}
      /\ loop[e].attempt <= Len(steps[s]) /\ Len(steps[s]) \in Nat
  BY OnRowFacts
<1>2. row \in StepRow /\ row.attempt = loop[e].attempt
  BY <1>1 DEF NewRow, StepRow
<1>3. RowsStep /\ run' \in RunRow /\ memo' \in [Executors -> Memo] /\ MemoIsBehind'
  <2> HIDE DEF row
  <2>1. record(e, s, row)
    BY DEF Finish, row
  <2>2. row.attempt <= Len(steps[s]) + 1
    BY <1>1, <1>2
  <2> QED
    BY <1>1, <1>2, <2>1, <2>2, RecordStep
<1>4. UNCHANGED <<lag, copy, sweep, opens>>
  BY DEF Finish
<1>5. CASE again
  <2>1. loop' = loop /\ Goto(e, "retry") /\ "retry" \in Where
    BY <1>5 DEF Finish, Where, Executing
  <2>2. Places'
    BY <1>3, <1>4, <2>1 DEF IInv, LifecycleTypeOK, Places, Goto
  <2>3. s \in StageIds /\ loop'[e].attempt \in 1..Len(steps'[s])
    BY <1>3, <2>1, StillOnARow
  <2> QED
    BY <1>3, <1>4, <2>1, <2>2, <2>3, OnRowStep DEF IInv, LifecycleTypeOK
<1>6. CASE ~again
  <2>1. loop' = NextStage(e, stopped) /\ Goto(e, "next") /\ stopped \in BOOLEAN
    BY <1>6 DEF Finish
  <2>2. loop' \in [Executors -> Loop] /\ \A d \in Executors \ {e} : loop'[d] = loop[d]
    BY <1>1, <2>1, NextStageType
  <2>3. "next" \in Where \ OnARow
    BY DEF Where, Executing, OnARow
  <2>4. Places'
    BY <1>3, <1>4, <2>1, <2>2, <2>3 DEF IInv, LifecycleTypeOK, Places, Goto
  <2> QED
    BY <1>3, <1>4, <2>1, <2>2, <2>3, <2>4, OffRowStep DEF IInv, LifecycleTypeOK
<1> QED
  BY <1>5, <1>6

LEMMA HandlerStep ==
    ASSUME IInv, NEW e \in Executors,
           handler_succeeds(e) \/ handler_fails(e) \/ handler_times_out(e)
    PROVE  IInv'
<1>1. {"succeeded", "failed", "timed_out"} \subseteq StepStatus
  BY DEF StepStatus, Settled
<1>2. {"none", "failure", "timeout"} \subseteq Errors
  BY DEF Errors
<1>3. CASE handler_succeeds(e)
  BY <1>1, <1>2, <1>3, FinishedStep DEF handler_succeeds, OnARow
<1>4. CASE handler_fails(e)
  BY <1>1, <1>2, <1>4, FinishedStep DEF handler_fails, OnARow
<1>5. CASE handler_times_out(e)
  BY <1>1, <1>2, <1>5, FinishedStep DEF handler_times_out, OnARow
<1> QED
  BY <1>3, <1>4, <1>5

LEMMA CloseStep == ASSUME IInv, NEW e \in Executors, close_run(e) PROVE IInv'
<1>1. RowsStep /\ MemoIsBehind'
  BY SameRows, StillBehind DEF close_run, Private
<1>2. run' \in RunRow
  BY RewrittenType DEF close_run, RunStatus
<1>3. Goto(e, "attach") /\ "attach" \in Where \ OnARow
  BY DEF close_run, Where, Attached, OnARow
<1>4. UNCHANGED <<memo, loop, lag, copy, sweep, opens>>
  BY DEF close_run, Private
<1>5. Places'
  BY <1>3, <1>4 DEF IInv, LifecycleTypeOK, Places, Goto
<1> QED
  BY <1>1, <1>2, <1>3, <1>4, <1>5, OffRowStep DEF IInv, LifecycleTypeOK

LEMMA AttachStep ==
    ASSUME IInv, NEW e \in Executors,
           attach_read(e) \/ attach_write(e) \/ attach_conflict(e)
    PROVE  IInv'
<1>1. CASE attach_read(e)
  <2>1. RowsStep /\ MemoIsBehind'
    BY <1>1, SameRows, StillBehind DEF attach_read, Rows
  <2>2. /\ loop' \in [Executors -> Loop]
        /\ \A d \in Executors \ {e} : loop'[d] = loop[d]
    <3>1. loop' = [loop EXCEPT ![e].tries = loop[e].tries + 1]
      BY <1>1 DEF attach_read
    <3>2. loop \in [Executors -> Loop] /\ loop[e].tries + 1 \in Nat
      BY DEF IInv, LifecycleTypeOK, Loop
    <3> QED
      BY <3>1, <3>2 DEF Loop
  <2>3. Goto(e, "attachWrite") /\ "attachWrite" \in Where \ OnARow
    BY <1>1 DEF attach_read, Where, Attached, OnARow
  <2>4. Places'
    BY <1>1, <2>2, <2>3 DEF IInv, LifecycleTypeOK, Places, Goto, attach_read
  <2> QED
    BY <1>1, <2>1, <2>2, <2>3, <2>4, OffRowStep DEF IInv, LifecycleTypeOK, attach_read, Rows
<1>2. CASE attach_write(e)
  <2>1. [copy[e] EXCEPT !.repo = TRUE, !.version = copy[e].version + 1] \in RunRow
    <3>1. ASSUME NEW r \in RunRow
          PROVE  [r EXCEPT !.repo = TRUE, !.version = r.version + 1] \in RunRow
      <4>1. r.version + 1 \in Nat
        BY DEF RunRow
      <4> QED
        BY <4>1 DEF RunRow
    <3> QED
      BY <3>1 DEF IInv, LifecycleTypeOK
  <2>2. run' \in RunRow
    BY <1>2, <2>1 DEF attach_write
  <2> QED
    BY <1>2, <2>2, ForgetStep DEF attach_write
<1>3. CASE attach_conflict(e)
  <2>1. RowsStep /\ MemoIsBehind'
    BY <1>3, SameRows, StillBehind DEF attach_conflict, Rows, Private
  <2>2. Goto(e, "attach") /\ "attach" \in Where \ OnARow
    BY <1>3 DEF attach_conflict, Where, Attached, OnARow
  <2>3. UNCHANGED <<run, memo, loop, lag, copy, sweep, opens>>
    BY <1>3 DEF attach_conflict, Rows, Private
  <2>4. Places'
    BY <2>2, <2>3 DEF IInv, LifecycleTypeOK, Places, Goto
  <2> QED
    BY <2>1, <2>2, <2>3, <2>4, OffRowStep DEF IInv, LifecycleTypeOK
<1> QED
  BY <1>1, <1>2, <1>3

\* The runner attending its agent moves between the places of a row.
LEMMA AttendStep ==
    ASSUME IInv, NEW e \in Executors, heartbeat(e) \/ poll(e) \/ poll_claim(e)
    PROVE  IInv'
<1>1. UNCHANGED <<steps, memo, loop, lag, copy, sweep, opens>>
  BY DEF heartbeat, poll, poll_claim, Rows, Private
<1>2. RowsStep /\ MemoIsBehind'
  BY <1>1, SameRows, StillBehind
<1>3. pc[e] \in OnARow
  BY DEF heartbeat, poll, poll_claim, Attends, OnARow
<1>4. loop'[e].stage \in StageIds /\ loop'[e].attempt \in 1..Len(steps'[loop'[e].stage])
  BY <1>1, <1>2, <1>3, StillOnARow
<1>5. run' \in RunRow
  <2>1. CASE heartbeat(e)
    BY <2>1, TouchRun DEF heartbeat, IInv, LifecycleTypeOK
  <2>2. CASE poll(e) \/ poll_claim(e)
    BY <2>2 DEF poll, poll_claim, Rows, IInv, LifecycleTypeOK
  <2> QED
    BY <2>1, <2>2
<1>6. \E place \in Where : Goto(e, place)
  <2>1. CASE heartbeat(e)
    <3>1. pc \in [Executors -> Where]
      BY DEF IInv, LifecycleTypeOK
    <3>2. [pc EXCEPT ![e] = pc[e]] = pc /\ pc[e] \in Where
      BY <3>1, Zenon
    <3> QED
      BY <2>1, <3>2 DEF heartbeat, Goto
  <2>2. CASE poll(e)
    BY <2>2 DEF poll, Where, Executing
  <2>3. CASE poll_claim(e)
    BY <2>3 DEF poll_claim, Where, Executing
  <2> QED
    BY <2>1, <2>2, <2>3
<1>7. Places'
  BY <1>1, <1>6 DEF IInv, LifecycleTypeOK, Places, Goto
<1> QED
  BY <1>1, <1>2, <1>4, <1>5, <1>6, <1>7, OnRowStep DEF IInv, LifecycleTypeOK

LEMMA ExecuteStep == ASSUME IInv, NEW e \in Executors, Execute(e) PROVE IInv'
BY EnterStep, CreateStep, AnnounceStep, ResumeStep, LoadStep, SkipSucceededStep, RecordSkippedStep,
   GuardErrorStep, BeginStep, BeginRetryStep, ForgottenStep, HandlerStep, CloseStep,
   AttachStep, AttendStep
   DEF Execute

-----------------------------------------------------------------------------
(* The watchdog, the operator, and time. *)

\* An action that leaves every process, and the rows, where they are.
LEMMA StillStep ==
    ASSUME IInv, UNCHANGED <<steps, pc, memo, loop, lag, copy, opens>>,
           run' \in RunRow, sweep' \in [Sweepers -> Sweep]
    PROVE  IInv'
<1>1. RowsStep /\ MemoIsBehind'
  BY SameRows, StillBehind
<1>2. LoopIsOnARow'
  BY DEF IInv, LoopIsOnARow
<1> QED
  BY <1>1, <1>2 DEF IInv, LifecycleTypeOK, RowsStep

LEMMA InFlightIsTyped ==
    ASSUME IInv, NEW at \in InFlight, NEW kind \in {"step", "silent"}
    PROVE  StallOf(kind, at) \in Stall
<1>1. PICK s \in StageIds : at \in {s} \X RunningIn(steps[s])
  BY DEF InFlight
<1>2. at[1] = s /\ at[2] \in DOMAIN steps[s]
  BY <1>1 DEF RunningIn
<1>3. at[2] \in Nat
  BY <1>2, GoodStage DEF GoodRows
<1> QED
  BY <1>2, <1>3 DEF StallOf, Stall

LEMMA RecoveringType ==
    ASSUME IInv, NEW w \in Sweepers, NEW stalls \in SUBSET Stall, Recovering(w, stalls)
    PROVE  sweep' \in [Sweepers -> Sweep]
<1>1. sweep \in [Sweepers -> Sweep]
  BY DEF IInv, LifecycleTypeOK
<1>2. [sweep[w] EXCEPT !.phase = "recovering", !.stalls = stalls] \in Sweep
  BY <1>1 DEF Sweep
<1> QED
  BY <1>1, <1>2, Blanks DEF Recovering

LEMMA DetectStep ==
    ASSUME IInv, NEW w \in Sweepers,
           detect_steps(w) \/ detect_run_row(w) \/ detect_run(w) \/ WatchdogCrash(w)
    PROVE  IInv'
<1>1. UNCHANGED <<run, steps, pc, memo, loop, lag, copy, opens>>
  BY DEF detect_steps, detect_run_row, detect_run, WatchdogCrash, Rows, Private
<1>2. sweep \in [Sweepers -> Sweep] /\ sweep[w].stalls \in SUBSET Stall
  BY DEF IInv, LifecycleTypeOK, Sweep
<1>3. sweep' \in [Sweepers -> Sweep]
  <2>1. CASE detect_steps(w)
    <3>1. PICK stalls \in SUBSET Stall : Sweeping(w, "scanned", stalls)
      <4> DEFINE overdue == {at \in InFlight : Overdue(at[1], at[2])}
                 silent == {at \in InFlight \ overdue : Silent(at[1], at[2])}
                 stalls == {StallOf("step", at) : at \in overdue}
                              \cup {StallOf("silent", at) : at \in silent}
      <4>1. stalls \in SUBSET Stall
        BY InFlightIsTyped
      <4>2. Sweeping(w, "scanned", stalls)
        BY <2>1 DEF detect_steps
      <4> QED
        BY <4>1, <4>2
    <3>2. [[sweep[w] EXCEPT !.phase = "scanned"] EXCEPT !.stalls = stalls] \in Sweep
      BY <1>2 DEF Sweep
    <3> QED
      BY <1>2, <3>1, <3>2 DEF Sweeping, Sweep
  <2>2. CASE detect_run_row(w)
    <3>1. CASE Recovering(w, sweep[w].stalls)
      BY <1>2, <3>1, RecoveringType
    <3>2. CASE ~Recovering(w, sweep[w].stalls)
      BY <1>2, <2>2, <3>2 DEF detect_run_row, Sweep
    <3> QED
      BY <3>1, <3>2
  <2>3. CASE detect_run(w)
    <3>1. StallOf("run", TheRun) \in Stall
      BY DEF StallOf, TheRun, Stall
    <3> DEFINE stalls == sweep[w].stalls \cup
                 IF InFlight = {} /\ sweep[w].late THEN {StallOf("run", TheRun)} ELSE {}
    <3>2. stalls \in SUBSET Stall
      BY <1>2, <3>1
    <3> QED
      BY <2>3, <3>2, RecoveringType DEF detect_run
  <2>4. CASE WatchdogCrash(w)
    BY <1>2, <2>4, Blanks DEF WatchdogCrash
  <2> QED
    BY <2>1, <2>2, <2>3, <2>4 
<1> QED
  BY <1>1, <1>3, StillStep DEF IInv, LifecycleTypeOK

\* Rows change only by being settled in place: nothing a process relies on moves.
LEMMA SettledInPlace ==
    ASSUME IInv, RowsStep, UNCHANGED <<pc, memo, loop, copy, opens>>,
           lag' \in [Executors -> Nat], run' \in RunRow, sweep' \in [Sweepers -> Sweep]
    PROVE  IInv'
<1>1. MemoIsBehind'
  BY StillBehind
<1>2. LoopIsOnARow'
  BY StillOnARow DEF LoopIsOnARow
<1> QED
  BY <1>1, <1>2 DEF IInv, LifecycleTypeOK, RowsStep

LEMMA RecoverStep == ASSUME IInv, NEW w \in Sweepers, recover(w) PROVE IInv'
<1>1. PICK stall \in sweep[w].stalls :
         /\ recover_silent(w, stall) \/ recover_step(w, stall) \/ recover_run(w, stall)
         /\ Recovered(w, stall)
  BY DEF recover
<1>2. UNCHANGED <<pc, memo, loop, lag, copy, opens>>
  BY DEF recover, Private
<1>3. sweep \in [Sweepers -> Sweep] /\ stall \in Stall /\ sweep[w].lag \in Nat
  BY DEF IInv, LifecycleTypeOK, Sweep
<1>4. sweep' \in [Sweepers -> Sweep]
  <2>1. sweep[w].stalls \ {stall} \in SUBSET Stall
    BY DEF IInv, LifecycleTypeOK, Sweep
  <2> QED
    BY <1>1, <2>1, RecoveringType DEF Recovered
<1>5. run' \in RunRow
  BY <1>1, <1>3, RewrittenType
     DEF recover_silent, recover_step, recover_run, RunStatus, IInv, LifecycleTypeOK
<1>6. RowsStep
  <2>1. CASE recover_silent(w, stall) \/ recover_run(w, stall)
    BY <2>1, SameRows DEF recover_silent, recover_run
  <2>2. CASE recover_step(w, stall)
    <3> DEFINE s == stall.stage
               rows == SettleRunning(steps[s], "timed_out", "watchdog-timeout")
    <3>1. s \in StageIds
      BY <1>3, <2>2 DEF recover_step, Stall
    <3>2. "timed_out" \in StepStatus /\ "watchdog-timeout" \in Errors
      BY DEF StepStatus, Settled, Errors
    <3>3. GoodRows(rows) /\ Len(rows) = Len(steps[s]) /\ Len(steps[s]) \in Nat
      BY <3>1, <3>2, GoodStage, SettleKeepsRows
    <3>4. steps' = [steps EXCEPT ![s] = rows]
      BY <2>2 DEF recover_step
    <3> HIDE DEF rows
    <3>5. Len(steps[s]) <= Len(rows)
      BY <3>3
    <3> QED
      BY <3>1, <3>3, <3>4, <3>5, OneStageStep
  <2> QED
    BY <1>1, <2>1, <2>2
<1> QED
  BY <1>2, <1>4, <1>5, <1>6, SettledInPlace DEF IInv, LifecycleTypeOK

LEMMA OperatorStep == ASSUME IInv, Send \/ RequestStop PROVE IInv'
BY StillStep DEF Send, RequestStop, Rows, Private, IInv, LifecycleTypeOK

LEMMA OlderType == \A a \in Nat : Older(a) \in Nat
BY LifecycleAssumption DEF Older

LEMMA TickStep == ASSUME IInv, Tick PROVE IInv'
<1> DEFINE aged(r) == IF r.status = Running THEN [r EXCEPT !.age = Older(r.age)] ELSE r
<1>1. ASSUME NEW r \in StepRow PROVE aged(r) \in StepRow /\ aged(r).attempt = r.attempt
  BY OlderType DEF StepRow
<1>2. steps' = [s \in StageIds |-> [i \in DOMAIN steps[s] |-> aged(steps[s][i])]]
  BY DEF Tick
<1>3. ASSUME NEW s \in StageIds
      PROVE  GoodRows(steps'[s]) /\ Len(steps'[s]) = Len(steps[s]) /\ Len(steps[s]) \in Nat
  <2>1. GoodRows(steps[s]) /\ Len(steps[s]) \in Nat
    BY GoodStage
  <2> HIDE DEF aged
  <2>2. steps'[s] = [i \in 1..Len(steps[s]) |-> aged(steps[s][i])]
    BY <1>2, <2>1 DEF GoodRows
  <2>3. \A i \in 1..Len(steps[s]) : aged(steps[s][i]) \in StepRow
                                   /\ aged(steps[s][i]).attempt = i
    BY <1>1, <2>1 DEF GoodRows, Contiguous
  <2> QED
    BY <2>1, <2>2, <2>3 DEF GoodRows, Contiguous
<1>4. RowsStep
  <2> HIDE DEF aged
  <2>1. steps' \in [StageIds -> Seq(StepRow)]
    BY <1>2, <1>3 DEF GoodRows
  <2> QED
    BY <1>3, <2>1 DEF RowsStep, Grown, AttemptsAreContiguous, GoodRows, Contiguous
<1>5. run' \in RunRow
  BY OlderType DEF Tick, IInv, LifecycleTypeOK, RunRow
<1>6. lag' \in [Executors -> Nat]
  BY OlderType DEF Tick, IInv, LifecycleTypeOK
<1>7. copy' \in [Executors -> RunRow]
  BY OlderType DEF Tick, IInv, LifecycleTypeOK, RunRow
<1>8. sweep' \in [Sweepers -> Sweep]
  BY OlderType DEF Tick, IInv, LifecycleTypeOK, Sweep
<1>9. MemoIsBehind' /\ LoopIsOnARow'
  BY <1>4, StillBehind, StillOnARow DEF Tick, LoopIsOnARow
<1> QED
  BY <1>4, <1>5, <1>6, <1>7, <1>8, <1>9 DEF Tick, IInv, LifecycleTypeOK, RowsStep

-----------------------------------------------------------------------------
LEMMA NextIInv == IInv /\ [Next]_vars => IInv'
<1> SUFFICES ASSUME IInv, [Next]_vars PROVE IInv'
  OBVIOUS
<1>1. CASE \E e \in Executors : Execute(e)
  BY <1>1, ExecuteStep
<1>2. CASE \E w \in Sweepers : Watch(w)
  BY <1>2, DetectStep, RecoverStep DEF Watch
<1>3. CASE Send \/ RequestStop
  BY <1>3, OperatorStep
<1>4. CASE Tick
  BY <1>4, TickStep
<1>5. CASE UNCHANGED vars
  BY <1>5, StillStep DEF vars, IInv, LifecycleTypeOK
<1> QED
  BY <1>1, <1>2, <1>3, <1>4, <1>5 DEF Next

-----------------------------------------------------------------------------
(* The inbox, under every step of the system. *)

LEMMA InitInbox == Init => InboxInv
<1> SUFFICES ASSUME Init PROVE InboxInv
  OBVIOUS
<1>1. inbox = <<>> /\ handed = <<>> /\ cancel = NoCancel
  BY DEF Init, ControlInit
<1>2. ControlTypeOK
  BY <1>1 DEF ControlTypeOK, Cancellation
<1>3. Given = {}
  BY <1>1 DEF Given
<1>4. OrdinalsAreADenseOrder
  BY <1>1, <1>3, FS_EmptySet DEF OrdinalsAreADenseOrder
<1> QED
  BY <1>1, <1>2, <1>4 DEF InboxInv, UnreadIsUnhanded, Unread, HandedAtMostOnce

LEMMA NextInbox == InboxInv /\ [Next]_vars => InboxInv'
<1> SUFFICES ASSUME InboxInv, [Next]_vars PROVE InboxInv'
  OBVIOUS
<1>1. ASSUME UNCHANGED controlVars PROVE InboxInv'
  BY <1>1, CancelKeepsInbox DEF controlVars
<1>2. CASE \E e \in Executors : Execute(e)
  <2>1. PICK e \in Executors : Execute(e)
    BY <1>2
  <2>2. CASE resume_run(e)
    BY <2>2, FailOpenKeepsInbox DEF resume_run, abandon, Cancellation
  <2>3. CASE close_run(e)
    <3>1. cancel' \in Cancellation
      BY <2>3 DEF close_run, InboxInv, ControlTypeOK
    <3> QED
      BY <2>3, <3>1, FailOpenKeepsInbox DEF close_run, close
  <2>4. CASE poll(e)
    BY <2>4, CancelKeepsInbox DEF poll
  <2>5. CASE poll_claim(e)
    BY <2>5, ClaimKeepsInbox DEF poll_claim
  <2>6. CASE ~resume_run(e) /\ ~close_run(e) /\ ~poll(e) /\ ~poll_claim(e)
    <3>1. UNCHANGED controlVars
      BY <2>1, <2>6
         DEF Execute, Enter, create_run, announce_run, load_run, skip_succeeded, record_skipped,
             record_guard_error, begin, begin_retry, begin_collides, Begins,
             handler_succeeds, handler_fails, handler_times_out, Finish,
             attach_read, attach_write, attach_conflict, leave, Crash, heartbeat
    <3> QED
      BY <1>1, <3>1
  <2> QED
    BY <2>2, <2>3, <2>4, <2>5, <2>6
<1>3. CASE \E w \in Sweepers : Watch(w)
  <2>1. PICK w \in Sweepers : Watch(w)
    BY <1>3
  <2>2. CASE recover(w)
    BY <2>2, <1>1, CancelKeepsInbox
       DEF recover, recover_silent, recover_step, recover_run
  <2>3. CASE ~recover(w)
    <3>1. UNCHANGED controlVars
      BY <2>1, <2>3 DEF Watch, detect_steps, detect_run_row, detect_run, WatchdogCrash
    <3> QED
      BY <1>1, <3>1
  <2> QED
    BY <2>2, <2>3
<1>4. CASE Send
  BY <1>4, SendKeepsInbox DEF Send
<1>5. CASE RequestStop
  BY <1>5, CancelKeepsInbox DEF RequestStop
<1>6. CASE Tick \/ UNCHANGED vars
  BY <1>1, <1>6 DEF Tick, vars
<1> QED
  BY <1>2, <1>3, <1>4, <1>5, <1>6 DEF Next

-----------------------------------------------------------------------------
(***************************************************************************)
(* All of the state keeps its types: what is left out of them (log, handed *)
(* beyond a count) is a history of the writes.                             *)
(***************************************************************************)
THEOREM TypesHold == Spec => []TypeOK
<1>1. IInv /\ InboxInv => TypeOK
  BY DEF IInv, InboxInv, TypeOK
<1>2. Spec => [](IInv /\ InboxInv)
  BY InitIInv, NextIInv, InitInbox, NextInbox, PTL DEF Spec
<1> QED
  BY <1>1, <1>2, PTL

(***************************************************************************)
(* No crash, resume, claim limit or second claimant makes a steering       *)
(* message be handed over twice.                                           *)
(***************************************************************************)
THEOREM MessagesAreHandedAtMostOnce == Spec => []HandedAtMostOnce
<1>1. InboxInv => HandedAtMostOnce
  BY DEF InboxInv
<1> QED
  BY <1>1, InitInbox, NextInbox, PTL DEF Spec

(***************************************************************************)
(* The ordinals given to the agent are 1..n, one for each message handed   *)
(* over, for every priority order, claim limit and interleaving.           *)
(***************************************************************************)
THEOREM OrdinalsStayDense == Spec => []OrdinalsAreADenseOrder
<1>1. InboxInv => OrdinalsAreADenseOrder
  BY DEF InboxInv
<1> QED
  BY <1>1, InitInbox, NextInbox, PTL DEF Spec

(***************************************************************************)
(* Attempt numbers are global to a stage, for every workflow and however   *)
(* many processes execute the run at once, crash, and resume it.           *)
(***************************************************************************)
THEOREM AttemptsStayContiguous == Spec => []AttemptsAreContiguous
<1>1. IInv => AttemptsAreContiguous
  BY DEF IInv
<1> QED
  BY <1>1, InitIInv, NextIInv, PTL DEF Spec
=============================================================================
