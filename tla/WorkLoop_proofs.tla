-------------------------- MODULE WorkLoop_proofs --------------------------
(***************************************************************************)
(* Proofs about WorkLoop, for any set of items and of processes and any    *)
(* bounds.                                                                 *)
(***************************************************************************)
EXTENDS WorkLoop, FiniteSetTheorems, TLAPS

-----------------------------------------------------------------------------
(* The three stores, one transaction at a time. *)

\* Rows are never removed, and their commands never change.
RowsStand ==
    /\ DOMAIN effects \subseteq DOMAIN effects'
    /\ \A x \in DOMAIN effects : /\ effects'[x].item = effects[x].item
                                 /\ effects'[x].head = effects[x].head

LEMMA Enqueue ==
    ASSUME EffectsTypeOK, NEW item \in Items, NEW head \in Heads,
           Len(effects) < MaxEffects, enqueue(item, head)
    PROVE  /\ EffectsTypeOK' /\ RowsStand
           /\ Len(effects) + 1 \in DOMAIN effects'
BY EffectsAssumption DEF EffectsAssumption, EffectsTypeOK, Effect, EffectState, enqueue, RowsStand

\* An update of one row that leaves its command alone.
LEMMA RowUpdate ==
    ASSUME EffectsTypeOK, NEW x \in DOMAIN effects, NEW row \in Effect,
           row.item = effects[x].item, row.head = effects[x].head,
           effects' = [effects EXCEPT ![x] = row]
    PROVE  EffectsTypeOK' /\ RowsStand
BY DEF EffectsTypeOK, RowsStand

LEMMA Claim ==
    ASSUME EffectsTypeOK, NEW x \in DOMAIN effects, NEW owner \in Workers, claim(x, owner)
    PROVE  EffectsTypeOK' /\ RowsStand
<1> DEFINE tries == OneMore(effects[x].attempts)
           row(n) == [effects[x] EXCEPT !.state = "delivering", !.owner = owner,
                                   !.ripe = FALSE, !.attempts = n]
<1>1. effects[x] \in Effect
  BY DEF EffectsTypeOK
<1>2. tries \in 0..AttemptCap
  BY <1>1, EffectsAssumption DEF EffectsAssumption, Effect, OneMore
<1>3. ASSUME NEW n \in 0..AttemptCap
      PROVE  row(n) \in Effect /\ row(n).item = effects[x].item
                              /\ row(n).head = effects[x].head
  BY <1>1 DEF Effect, EffectState
<1>4. effects' = [effects EXCEPT ![x] = row(tries)]
  BY DEF claim
<1> QED
  <2> HIDE DEF row, tries
  <2> QED
    BY <1>2, <1>3, <1>4, RowUpdate

LEMMA Delivered ==
    ASSUME EffectsTypeOK, NEW x \in DOMAIN effects, delivered(x)
    PROVE  EffectsTypeOK' /\ RowsStand
<1> DEFINE row == [effects[x] EXCEPT !.state = "delivered", !.owner = NoOne]
<1>1. effects[x] \in Effect
  BY DEF EffectsTypeOK
<1>2. row \in Effect /\ row.item = effects[x].item /\ row.head = effects[x].head
  BY <1>1, EffectsAssumption DEF EffectsAssumption, Effect, EffectState
<1>3. effects' = [effects EXCEPT ![x] = row]
  BY <1>1 DEF delivered, Effect
<1> QED
  BY <1>2, <1>3, RowUpdate

LEMMA Failed ==
    ASSUME EffectsTypeOK, NEW x \in DOMAIN effects, NEW transient \in BOOLEAN, failed(x, transient)
    PROVE  EffectsTypeOK' /\ RowsStand
<1> DEFINE row == [effects[x] EXCEPT !.state = IF Retrying(x, transient) THEN "pending" ELSE "parked",
                                !.owner = NoOne, !.ripe = FALSE]
<1>1. effects[x] \in Effect
  BY DEF EffectsTypeOK
<1>2. row \in Effect /\ row.item = effects[x].item /\ row.head = effects[x].head
  BY <1>1, EffectsAssumption DEF EffectsAssumption, Effect, EffectState
<1>3. effects' = [effects EXCEPT ![x] = row]
  BY <1>1 DEF failed, Effect
<1> QED
  BY <1>2, <1>3, RowUpdate

LEMMA Retry ==
    ASSUME EffectsTypeOK, NEW x \in DOMAIN effects, retry(x)
    PROVE  EffectsTypeOK' /\ RowsStand
<1> DEFINE tries == 0
           row(n) == [effects[x] EXCEPT !.state = "pending", !.attempts = n, !.ripe = TRUE]
<1>1. effects[x] \in Effect
  BY DEF EffectsTypeOK
<1>2. tries \in 0..AttemptCap
  BY <1>1, EffectsAssumption DEF EffectsAssumption, Effect
<1>3. ASSUME NEW n \in 0..AttemptCap
      PROVE  row(n) \in Effect /\ row(n).item = effects[x].item
                              /\ row(n).head = effects[x].head
  BY <1>1 DEF Effect, EffectState
<1>4. effects' = [effects EXCEPT ![x] = row(tries)]
  BY DEF retry
<1> QED
  <2> HIDE DEF row, tries
  <2> QED
    BY <1>2, <1>3, <1>4, RowUpdate

LEMMA RipenRow ==
    ASSUME EffectsTypeOK, NEW x \in DOMAIN effects, ripen(x)
    PROVE  EffectsTypeOK' /\ RowsStand
<1> DEFINE row == [effects[x] EXCEPT !.ripe = TRUE]
<1>1. effects[x] \in Effect
  BY DEF EffectsTypeOK
<1>2. row \in Effect /\ row.item = effects[x].item /\ row.head = effects[x].head
  BY <1>1, EffectsAssumption DEF EffectsAssumption, Effect, EffectState
<1>3. effects' = [effects EXCEPT ![x] = row]
  BY <1>1 DEF ripen, Effect
<1> QED
  BY <1>2, <1>3, RowUpdate

LEMMA Acknowledge ==
    ASSUME IntakeTypeOK, NEW i \in Items, acknowledge(i)
    PROVE  IntakeTypeOK'
BY DEF IntakeTypeOK, Request, ArrivalState, acknowledge

LEMMA SubmitRequest ==
    ASSUME IntakeTypeOK, NEW i \in Items, NEW text \in Texts, submit(i, text)
    PROVE  IntakeTypeOK'
BY IntakeAssumption DEF IntakeAssumption, IntakeTypeOK, Request, ArrivalState, submit, insert, revise

LEMMA WithdrawRequest ==
    ASSUME IntakeTypeOK, NEW i \in Items, withdraw(i)
    PROVE  IntakeTypeOK'
BY DEF IntakeTypeOK, Request, ArrivalState, withdraw

-----------------------------------------------------------------------------
(* The forge, one call at a time. *)

\* What is open shows its branch: the history variable misses nothing.
PullShowsBranch == \A i \in Items : pull[i] => remote[i] <= shown[i]

\* A commit that is on the forge, or was shown.
Arrived(i, head) == head <= remote[i] \/ head <= shown[i]

ForgeMove ==
    \/ \E i \in Items : \E head \in Heads : FastForwards(i, head) /\ land(i, head)
    \/ \E i \in Items : open(i) \/ close(i)
    \/ UNCHANGED forgeVars

LEMMA ForgeTypes ==
    ASSUME ForgeTypeOK, ForgeMove
    PROVE  ForgeTypeOK'
<1> USE WorkItemAssumption DEF WorkItemAssumption, ForgeTypeOK, Newest, Heads
<1>1. CASE \E i \in Items : \E head \in Heads : FastForwards(i, head) /\ land(i, head)
  BY <1>1 DEF land
<1>2. CASE \E i \in Items : open(i)
  BY <1>2 DEF open
<1>3. CASE \E i \in Items : close(i)
  BY <1>3 DEF close
<1>4. CASE UNCHANGED forgeVars
  BY <1>4 DEF forgeVars
<1> QED
  BY <1>1, <1>2, <1>3, <1>4 DEF ForgeMove

\* Nothing that was shown is unshown, and nothing that arrived is lost unless it
\* was shown: a branch goes back only when its pull request is closed.
LEMMA ForgeKeeps ==
    ASSUME ForgeTypeOK, PullShowsBranch, ForgeMove
    PROVE  /\ PullShowsBranch'
           /\ \A i \in Items : shown[i] <= shown'[i]
           /\ \A i \in Items, head \in Heads : Arrived(i, head) => Arrived(i, head)'
<1> USE WorkItemAssumption DEF WorkItemAssumption, ForgeTypeOK, PullShowsBranch, Arrived,
        FastForwards, Newest, Heads
<1>1. CASE \E i \in Items : \E head \in Heads : FastForwards(i, head) /\ land(i, head)
  BY <1>1 DEF land
<1>2. CASE \E i \in Items : open(i)
  BY <1>2 DEF open
<1>3. CASE \E i \in Items : close(i)
  BY <1>3 DEF close
<1>4. CASE UNCHANGED forgeVars
  BY <1>4 DEF forgeVars
<1> QED
  BY <1>1, <1>2, <1>3, <1>4 DEF ForgeMove

-----------------------------------------------------------------------------
(* What a process holds at each place. *)

Busy == Calling \cup {"settle"}

\* The row it claims or delivers exists, and so do those it means to claim.
RowsAreThere ==
    \A w \in Workers : /\ pc[w] \in Busy \cup {"claim"} => job[w].row \in DOMAIN effects
                       /\ job[w].todo \subseteq DOMAIN effects

\* It has a request in hand from dispatch to acknowledgement.
WorkIsThere ==
    \A w \in Workers :
        /\ pc[w] \in {"running", "publish", "claim", "release", "ack"} => job[w].work \in Work
        /\ job[w].fresh => pc[w] \in Busy \cup {"claim"} /\ job[w].work \in Work

Typing == TypeOK /\ RowsAreThere /\ WorkIsThere

LEMMA NoJobIsAJob == NoJob \in Job
BY EffectsAssumption DEF EffectsAssumption, NoJob, Job, Outcomes

LEMMA InitTyping == Init => Typing
<1> SUFFICES ASSUME Init PROVE Typing
  OBVIOUS
<1> USE DEF Init
<1>1. IntakeTypeOK
  <2>1. (CHOOSE t \in Texts : TRUE) \in Texts
    BY IntakeAssumption DEF IntakeAssumption
  <2> QED
    BY <2>1, IntakeAssumption
       DEF IntakeAssumption, IntakeInit, IntakeTypeOK, Request, ArrivalState
<1>2. EffectsTypeOK
  BY EffectsAssumption DEF EffectsAssumption, EffectsInit, EffectsTypeOK
<1>3. ForgeTypeOK
  BY WorkItemAssumption DEF WorkItemAssumption, ForgeInit, ForgeTypeOK
<1>4. NoJob \in Job
  BY NoJobIsAJob
<1>5. WorkTypeOK
  <2>1. local \in [Items -> 0..MaxHeads]
    BY WorkItemAssumption DEF WorkItemAssumption
  <2>2. used \in [closes : 0..MaxCloses, retries : 0..MaxRetries, crashes : 0..MaxCrashes]
    BY WorkAssumption DEF WorkAssumption
  <2>3. pc \in [Workers -> Where] /\ job \in [Workers -> Job]
    BY <1>4 DEF Where
  <2> QED
    BY <2>1, <2>2, <2>3 DEF WorkTypeOK
<1>6. RowsAreThere /\ WorkIsThere
  BY DEF RowsAreThere, WorkIsThere, Busy, Calling, NoJob
<1> QED
  BY <1>1, <1>2, <1>3, <1>5, <1>6 DEF Typing, TypeOK

\* The row in hand of a process that is delivering.
LEMMA RowInHand ==
    ASSUME Typing, NEW w \in Workers, pc[w] \in Busy
    PROVE  /\ job[w].row \in DOMAIN effects /\ Row(w) \in Effect
           /\ Row(w).item \in Items /\ Row(w).head \in Heads
<1>1. job[w].row \in DOMAIN effects
  BY DEF Typing, RowsAreThere
<1>2. Row(w) \in Effect
  BY <1>1 DEF Typing, TypeOK, EffectsTypeOK, Row
<1> QED
  BY <1>1, <1>2 DEF Effect

Stores == IntakeTypeOK /\ EffectsTypeOK /\ ForgeTypeOK

\* Every step is one transaction of each store, or none.
LEMMA StoresStep ==
    ASSUME Typing, [Next]_vars
    PROVE  Stores' /\ RowsStand /\ ForgeMove
<1> USE DEF Stores
<1> DEFINE StillIntake == UNCHANGED intake
           StillEffects == UNCHANGED effects
           StillForge == UNCHANGED forgeVars
<1>i. StillIntake => IntakeTypeOK'
  BY DEF Typing, TypeOK, IntakeTypeOK
<1>e. StillEffects => EffectsTypeOK' /\ RowsStand
  BY DEF Typing, TypeOK, EffectsTypeOK, RowsStand
<1>f. ForgeMove => ForgeTypeOK'
  BY ForgeTypes DEF Typing, TypeOK
<1>g. StillForge => ForgeMove
  BY DEF ForgeMove
<1>1. ASSUME NEW w \in Workers, Deliver(w) PROVE Stores' /\ RowsStand /\ ForgeMove
  <2>1. CASE create_branch_push(w) \/ push(w) \/ answer_lost(w) \/ open_pull_request(w)
    <3>1. pc[w] \in Busy
      BY <2>1 DEF create_branch_push, push, answer_lost, open_pull_request, Busy, Calling
    <3>2. ForgeMove
      BY <2>1, <3>1, RowInHand
         DEF create_branch_push, push, answer_lost, open_pull_request, Pushes, ForgeMove
    <3> QED
      BY <2>1, <3>2, <1>i, <1>e, <1>f
         DEF create_branch_push, push, answer_lost, open_pull_request
  <2>2. CASE settle(w)
    <3>1. job[w].row \in DOMAIN effects
      BY <2>2, RowInHand DEF settle, Busy
    <3>2. EffectsTypeOK' /\ RowsStand
      BY <2>2, <3>1, Delivered, Failed DEF settle, Typing, TypeOK
    <3> QED
      BY <2>2, <3>2, <1>i, <1>f, <1>g DEF settle
  <2>3. CASE \/ create_branch(w) \/ push_exists(w) \/ push_verify(w) \/ find_open(w)
             \/ see_opened(w) \/ call_fails(w) \/ settle_lost(w)
    BY <2>3, <1>i, <1>e, <1>f, <1>g
       DEF create_branch, push_exists, push_verify, find_open, see_opened, call_fails,
           settle_lost
  <2> QED
    BY <1>1, <2>1, <2>2, <2>3 DEF Deliver
<1>2. ASSUME NEW w \in Workers, Step(w) PROVE Stores' /\ RowsStand /\ ForgeMove
  <2>1. CASE drain_one(w)
    <3>1. job[w].todo \subseteq DOMAIN effects
      BY DEF Typing, RowsAreThere
    <3>2. EffectsTypeOK' /\ RowsStand
      BY <2>1, <3>1, <1>e, Claim DEF drain_one, Typing, TypeOK
    <3> QED
      BY <2>1, <3>2, <1>i, <1>f, <1>g DEF drain_one
  <2>2. CASE ack_resumed(w)
    <3>1. job[w].unacked \subseteq Items
      BY DEF Typing, TypeOK, WorkTypeOK, Job
    <3>2. IntakeTypeOK'
      BY <2>2, <3>1, Acknowledge DEF ack_resumed, Typing, TypeOK
    <3> QED
      BY <2>2, <3>2, <1>e, <1>f, <1>g DEF ack_resumed
  <2>3. CASE publish(w)
    <3>1. Item(w) \in Items
      BY <2>3 DEF publish, Typing, WorkIsThere, Work, Item
    <3>2. local[Item(w)] \in Heads
      BY <2>3, <3>1, WorkItemAssumption
         DEF WorkItemAssumption, publish, Typing, TypeOK, WorkTypeOK, Heads
    <3>3. EffectsTypeOK' /\ RowsStand
      BY <2>3, <3>1, <3>2, Enqueue DEF publish, Typing, TypeOK
    <3> QED
      BY <2>3, <3>3, <1>i, <1>f, <1>g DEF publish
  <2>4. CASE claim_own(w)
    <3>1. job[w].row \in DOMAIN effects
      BY <2>4 DEF claim_own, Typing, RowsAreThere
    <3>2. EffectsTypeOK' /\ RowsStand
      BY <2>4, <3>1, <1>e, Claim DEF claim_own, Typing, TypeOK
    <3> QED
      BY <2>4, <3>2, <1>i, <1>f, <1>g DEF claim_own
  <2>5. CASE ack(w)
    <3>1. Item(w) \in Items
      BY <2>5 DEF ack, Typing, WorkIsThere, Work, Item
    <3>2. IntakeTypeOK'
      BY <2>5, <3>1, Acknowledge DEF ack, Typing, TypeOK
    <3> QED
      BY <2>5, <3>2, <1>e, <1>f, <1>g DEF ack
  <2>6. CASE \/ start_work(w) \/ drained(w) \/ collect(w) \/ refuse(w) \/ dispatch(w)
             \/ execute(w) \/ publish_nothing(w) \/ release(w) \/ finish(w)
    BY <2>6, <1>i, <1>e, <1>f, <1>g
       DEF start_work, drained, collect, refuse, dispatch, execute, publish_nothing,
           release, finish
  <2> QED
    BY <1>2, <2>1, <2>2, <2>3, <2>4, <2>5, <2>6 DEF Step
<1>3. ASSUME NEW w \in Workers, Crash(w) PROVE Stores' /\ RowsStand /\ ForgeMove
  BY <1>3, <1>i, <1>e, <1>f, <1>g DEF Crash
<1>4. ASSUME NEW i \in Items, Submit(i) \/ Withdraw(i) \/ Reap(i)
      PROVE  Stores' /\ RowsStand /\ ForgeMove
  <2>1. CASE Submit(i)
    BY <2>1, <1>e, <1>f, <1>g, SubmitRequest DEF Submit, Typing, TypeOK
  <2>2. CASE Withdraw(i)
    BY <2>2, <1>e, <1>f, <1>g, WithdrawRequest DEF Withdraw, Typing, TypeOK
  <2>3. CASE Reap(i)
    BY <2>3, <1>i, <1>e, <1>f, <1>g DEF Reap
  <2> QED
    BY <1>4, <2>1, <2>2, <2>3
<1>5. ASSUME NEW x \in 1..MaxEffects, Ripen(x) PROVE Stores' /\ RowsStand /\ ForgeMove
  BY <1>5, <1>i, <1>f, <1>g, RipenRow DEF Ripen, Typing, TypeOK
<1>6. CASE EffectsRetry
  BY <1>6, <1>i, <1>f, <1>g, Retry DEF EffectsRetry, Typing, TypeOK
<1>7. CASE Close
  <2>1. ForgeMove
    BY <1>7 DEF Close, ForgeMove
  <2> QED
    BY <1>7, <2>1, <1>i, <1>e, <1>f DEF Close
<1>8. CASE UNCHANGED vars
  BY <1>8, <1>i, <1>e, <1>f, <1>g DEF vars
<1> QED
  BY <1>1, <1>2, <1>3, <1>4, <1>5, <1>6, <1>7, <1>8 DEF Next

-----------------------------------------------------------------------------
(* The locals of the processes. *)

Holds(w) ==
    /\ pc[w] \in Where /\ job[w] \in Job
    /\ pc[w] \in Busy \cup {"claim"} => job[w].row \in DOMAIN effects
    /\ job[w].todo \subseteq DOMAIN effects
    /\ pc[w] \in {"running", "publish", "claim", "release", "ack"} => job[w].work \in Work
    /\ job[w].fresh => pc[w] \in Busy \cup {"claim"} /\ job[w].work \in Work

\* A step of w changes its own locals, and no others.
OnlyMine(w) == pc' = [pc EXCEPT ![w] = pc'[w]] /\ job' = [job EXCEPT ![w] = job'[w]]

Shared ==
    /\ local \in [Items -> 0..MaxHeads]
    /\ checkout \in [Items -> Workers \cup {Free, Debris}]
    /\ worked \in [Items -> SUBSET (1..MaxRevision)]
    /\ used \in [closes : 0..MaxCloses, retries : 0..MaxRetries, crashes : 0..MaxCrashes]

LEMMA HoldsIsLocal ==
    ASSUME Typing, RowsStand, NEW w \in Workers, OnlyMine(w), Holds(w)', Shared'
    PROVE  WorkTypeOK' /\ RowsAreThere' /\ WorkIsThere'
<1>1. ASSUME NEW v \in Workers PROVE Holds(v)'
  BY <1>1 DEF Typing, TypeOK, WorkTypeOK, RowsAreThere, WorkIsThere, Holds, RowsStand,
          OnlyMine
<1> QED
  BY <1>1 DEF Typing, TypeOK, WorkTypeOK, RowsAreThere, WorkIsThere, Holds, OnlyMine, Shared

\* A process that is gone holds nothing.
LEMMA LeaveHolds ==
    ASSUME Typing, NEW w \in Workers, NEW place \in {Free, Debris}, Leave(w, place)
    PROVE  /\ OnlyMine(w) /\ Holds(w)'
           /\ checkout' \in [Items -> Workers \cup {Free, Debris}]
<1>1. pc'[w] = "idle" /\ job'[w] = NoJob
  BY DEF Leave, Goto, Typing, TypeOK, WorkTypeOK
<1>2. OnlyMine(w)
  BY <1>1 DEF Leave, Goto, OnlyMine
<1>3. Holds(w)'
  BY <1>1, NoJobIsAJob DEF Holds, Where, Busy, Calling, NoJob
<1>4. checkout' \in [Items -> Workers \cup {Free, Debris}]
  BY DEF Leave, Typing, TypeOK, WorkTypeOK
<1> QED
  BY <1>2, <1>3, <1>4

\* The next call, with or without an outcome to settle.
MovesOn(w, place) ==
    /\ pc' = [pc EXCEPT ![w] = place]
    /\ \/ UNCHANGED job
       \/ \E outcome \in Outcomes : job' = [job EXCEPT ![w].outcome = outcome]

\* A delivery moves on to the next call, or to its settlement.
LEMMA DeliverHolds ==
    ASSUME Typing, RowsStand, NEW w \in Workers, Deliver(w)
    PROVE  OnlyMine(w) /\ Holds(w)' /\ Shared'
<1> USE DEF Goto, Settling
<1>1. Holds(w) /\ pc \in [Workers -> Where] /\ job \in [Workers -> Job]
  BY DEF Holds, Typing, TypeOK, WorkTypeOK, RowsAreThere, WorkIsThere
<1>2. CASE \/ create_branch(w) \/ create_branch_push(w) \/ push_exists(w) \/ push(w)
           \/ push_verify(w) \/ find_open(w) \/ open_pull_request(w) \/ see_opened(w)
           \/ call_fails(w) \/ answer_lost(w)
  <2>1. pc[w] \in Busy /\ \E place \in Busy : MovesOn(w, place)
    <3> USE DEF MovesOn, Busy, Calling, Outcomes
    <3>1. CASE create_branch(w)
      BY <3>1 DEF create_branch
    <3>2. CASE create_branch_push(w)
      BY <3>2 DEF create_branch_push, Pushes
    <3>3. CASE push_exists(w)
      BY <3>3 DEF push_exists
    <3>4. CASE push(w)
      BY <3>4 DEF push, Pushes
    <3>5. CASE push_verify(w)
      BY <3>5 DEF push_verify
    <3>6. CASE find_open(w)
      BY <3>6 DEF find_open
    <3>7. CASE open_pull_request(w)
      BY <3>7 DEF open_pull_request
    <3>8. CASE see_opened(w)
      BY <3>8 DEF see_opened
    <3>9. CASE call_fails(w)
      BY <3>9 DEF call_fails
    <3>10. CASE answer_lost(w)
      BY <3>10 DEF answer_lost
    <3> QED
      BY <1>2, <3>1, <3>2, <3>3, <3>4, <3>5, <3>6, <3>7, <3>8, <3>9, <3>10
  <2>m. \E place \in Busy, outcome \in Outcomes :
           pc' = [pc EXCEPT ![w] = place] /\ job' = [job EXCEPT ![w].outcome = outcome]
    <3>1. job = [job EXCEPT ![w].outcome = job[w].outcome] /\ job[w].outcome \in Outcomes
      BY <1>1 DEF Job
    <3> QED
      BY <2>1, <3>1 DEF MovesOn
  <2>2. PICK place \in Busy, outcome \in Outcomes :
           pc' = [pc EXCEPT ![w] = place] /\ job' = [job EXCEPT ![w].outcome = outcome]
    BY <2>m
  <2>o. OnlyMine(w)
    BY <1>1, <2>2 DEF OnlyMine
  <2>j. pc'[w] = place /\ job'[w] = [job[w] EXCEPT !.outcome = outcome]
    BY <1>1, <2>2
  <2>t. job'[w] \in Job /\ pc'[w] \in Where
    BY <1>1, <2>j DEF Holds, Job, Where, Busy
  <2>k. /\ job'[w].row = job[w].row /\ job'[w].todo = job[w].todo
        /\ job'[w].fresh = job[w].fresh /\ job'[w].work = job[w].work
    BY <1>1, <2>j DEF Job
  <2>h. Holds(w)'
    BY <1>1, <2>1, <2>j, <2>t, <2>k DEF Holds, RowsStand, Busy, Calling
  <2>3. Shared'
    BY <1>2 DEF create_branch, create_branch_push, push_exists, push, push_verify,
                find_open, open_pull_request, see_opened, call_fails, answer_lost,
                tree, Shared, Typing, TypeOK, WorkTypeOK
  <2> QED
    BY <2>o, <2>h, <2>3
<1>3. CASE settle(w)
  <2>1. Row(w).item \in Items
    BY <1>3, RowInHand DEF settle, Busy
  <2> DEFINE resumed == IF job[w].fresh THEN job[w].resumed
                                        ELSE job[w].resumed \cup {Row(w).item}
             new == [job[w] EXCEPT !.resumed = resumed, !.row = 0, !.outcome = "none",
                                   !.fresh = FALSE]
             place == IF job[w].fresh THEN "release" ELSE "drain"
  <2>j. pc' = [pc EXCEPT ![w] = place] /\ job' = [job EXCEPT ![w] = new]
    BY <1>1, <1>3 DEF settle, Settled
  <2>r. resumed \subseteq Items
    BY <1>1, <2>1 DEF Job
  <2>t. new \in Job
    <3>1. 0 \in 0..MaxEffects /\ "none" \in Outcomes /\ job[w] \in Job
      BY <1>1, EffectsAssumption DEF EffectsAssumption, Outcomes
    <3>2. ASSUME NEW r \in SUBSET Items, NEW n \in 0..MaxEffects, NEW o \in Outcomes
          PROVE  [job[w] EXCEPT !.resumed = r, !.row = n, !.outcome = o, !.fresh = FALSE]
                     \in Job
      BY <3>1 DEF Job
    <3> QED
      <4> HIDE DEF resumed
      <4> QED
        BY <2>r, <3>1, <3>2
  <2>k. /\ new.todo = job[w].todo /\ new.work = job[w].work
        /\ new.fresh = FALSE
    BY <1>1 DEF Job
  <2>w. job[w].fresh => job[w].work \in Work
    BY <1>1 DEF Holds
  <2>h. OnlyMine(w) /\ Holds(w)'
    <3> HIDE DEF new
    <3> QED
      BY <1>1, <2>j, <2>t, <2>k, <2>w DEF OnlyMine, Holds, RowsStand, Where, Busy, Calling
  <2>3. Shared'
    BY <1>3 DEF settle, tree, Shared, Typing, TypeOK, WorkTypeOK
  <2> QED
    BY <2>h, <2>3
<1>4. CASE settle_lost(w)
  BY <1>1, <1>4, LeaveHolds DEF settle_lost, Shared, Typing, TypeOK, WorkTypeOK
<1> QED
  BY <1>2, <1>3, <1>4 DEF Deliver

\* The requests collected, with the revision each had.
LEMMA CollectedIsWork ==
    ASSUME Typing, NEW w \in Workers,
           NEW order \in SetToSeqs(Pending \ job[w].resumed)
    PROVE  [k \in DOMAIN order |->
               [item |-> order[k], revision |-> intake[order[k]].revision]] \in Seq(Work)
<1> DEFINE S == Pending \ job[w].resumed
<1>1. IsFiniteSet(S)
  BY FS_Subset, WorkItemAssumption DEF WorkItemAssumption, Pending
<1>2. Cardinality(S) \in Nat
  BY <1>1, FS_CardinalityType
<1>3. order \in [1..Cardinality(S) -> S]
  BY DEF SetToSeqs
<1>4. ASSUME NEW k \in 1..Cardinality(S)
      PROVE  order[k] \in Items /\ intake[order[k]].revision \in 1..MaxRevision
  <2>1. order[k] \in Items /\ intake[order[k]].state = "pending"
    BY <1>3 DEF Pending
  <2>2. intake[order[k]].revision \in 0..MaxRevision /\ intake[order[k]].revision # 0
    BY <2>1 DEF Typing, TypeOK, IntakeTypeOK, Request
  <2> QED
    BY <2>1, <2>2, IntakeAssumption DEF IntakeAssumption
<1>5. DOMAIN order = 1..Cardinality(S)
  BY <1>3
<1>6. ASSUME NEW k \in 1..Cardinality(S)
      PROVE  [item |-> order[k], revision |-> intake[order[k]].revision] \in Work
  BY <1>4 DEF Work
<1> QED
  <2> HIDE DEF S
  <2> QED
    BY <1>2, <1>5, <1>6

LEMMA NewHolds ==
    ASSUME Typing, NEW w \in Workers, NEW place \in Where, NEW new \in Job,
           pc' = [pc EXCEPT ![w] = place], job' = [job EXCEPT ![w] = new],
           place \in Busy \cup {"claim"} => new.row \in DOMAIN effects',
           new.todo \subseteq DOMAIN effects',
           place \in {"running", "publish", "claim", "release", "ack"} => new.work \in Work,
           new.fresh => place \in Busy \cup {"claim"} /\ new.work \in Work
    PROVE  OnlyMine(w) /\ Holds(w)'
<1>1. pc'[w] = place /\ job'[w] = new
  BY DEF Typing, TypeOK, WorkTypeOK
<1>2. OnlyMine(w)
  BY <1>1 DEF OnlyMine
<1>3. Holds(w)'
  BY <1>1 DEF Holds
<1> QED
  BY <1>2, <1>3

WithRow(j, todo, row) == [j EXCEPT !.todo = todo, !.row = row]
WithQueue(j, queue) == [j EXCEPT !.queue = queue]
WithWork(j, queue, work) == [j EXCEPT !.queue = queue, !.work = work]
WithFresh(j, row, fresh) == [j EXCEPT !.row = row, !.fresh = fresh]

LEMMA JobFields ==
    ASSUME NEW j \in Job
    PROVE  /\ \A todo \in SUBSET (1..MaxEffects), row \in 0..MaxEffects :
                  WithRow(j, todo, row) \in Job
           /\ \A queue \in Seq(Work) : WithQueue(j, queue) \in Job
           /\ \A queue \in Seq(Work), work \in Work \cup {NoItem} :
                  WithWork(j, queue, work) \in Job
           /\ \A row \in 0..MaxEffects, fresh \in BOOLEAN : WithFresh(j, row, fresh) \in Job
BY DEF Job, WithRow, WithQueue, WithWork, WithFresh

LEMMA QueueShrinks ==
    ASSUME NEW j \in Job, j.queue # <<>>
    PROVE  Head(j.queue) \in Work /\ Tail(j.queue) \in Seq(Work)
<1>1. j.queue \in Seq(Work)
  BY DEF Job
<1> QED
  BY <1>1

\* A step of the loop keeps what its process holds.
LEMMA StepHolds ==
    ASSUME Typing, RowsStand, NEW w \in Workers, Step(w)
    PROVE  OnlyMine(w) /\ Holds(w)' /\ Shared'
<1> USE DEF Goto
<1>1. Holds(w) /\ pc \in [Workers -> Where] /\ job \in [Workers -> Job] /\ job[w] \in Job
  BY DEF Holds, Typing, TypeOK, WorkTypeOK, RowsAreThere, WorkIsThere
<1>2. Shared
  BY DEF Shared, Typing, TypeOK, WorkTypeOK
<1>3. DOMAIN effects \subseteq 1..MaxEffects /\ DOMAIN effects \subseteq DOMAIN effects'
  BY EffectsAssumption DEF EffectsAssumption, Typing, TypeOK, EffectsTypeOK, RowsStand
<1>a. CASE start_work(w)
  <2> DEFINE new == [job[w] EXCEPT !.todo = due]
  <2>1. pc' = [pc EXCEPT ![w] = "drain"] /\ job' = [job EXCEPT ![w] = new]
    BY <1>1, <1>a DEF start_work
  <2>2. new \in Job
    BY <1>1, <1>3, <1>a DEF Job, start_work, due
  <2>3. new.todo \subseteq DOMAIN effects /\ new.fresh = job[w].fresh
    BY <1>1, <1>3, <1>a DEF Job, start_work, due
  <2>4. Shared'
    BY <1>2, <1>a DEF start_work, tree, Shared
  <2> QED
    <3> HIDE DEF new
    <3> QED
      BY <1>1, <1>3, <1>a, <2>1, <2>2, <2>3, <2>4, NewHolds
         DEF start_work, Holds, Where, Busy, Calling
<1>b. CASE drain_one(w)
  <2>1. PICK x \in job[w].todo :
           IF IsDue(x)
           THEN /\ job' = [job EXCEPT ![w].todo = @ \ {x}, ![w].row = x]
                /\ Goto(w, "branch")
           ELSE /\ job' = [job EXCEPT ![w].todo = @ \ {x}]
                /\ UNCHANGED pc
    BY <1>b DEF drain_one
  <2>2. job[w].todo \subseteq DOMAIN effects /\ ~job[w].fresh
    BY <1>1, <1>b DEF drain_one, Holds, Busy, Calling
  <2>3. Shared'
    BY <1>2, <1>b DEF drain_one, tree, Shared
  <2>4. CASE IsDue(x)
    <3> DEFINE new == [job[w] EXCEPT !.todo = job[w].todo \ {x}, !.row = x]
    <3>1. pc' = [pc EXCEPT ![w] = "branch"] /\ job' = [job EXCEPT ![w] = new]
      BY <1>1, <2>1, <2>4
    <3>2. new \in Job
      <4>1. x \in 0..MaxEffects /\ job[w].todo \ {x} \in SUBSET (1..MaxEffects)
        BY <1>3, <2>2
      <4>2. WithRow(job[w], job[w].todo \ {x}, x) \in Job
        BY <1>1, <4>1, JobFields
      <4> QED
        BY <4>2 DEF WithRow
    <3>3. new.row \in DOMAIN effects /\ new.todo \subseteq DOMAIN effects /\ ~new.fresh
      BY <1>1, <2>2 DEF Job
    <3> QED
      <4> HIDE DEF new
      <4> QED
        BY <1>3, <2>3, <3>1, <3>2, <3>3, NewHolds DEF Where, Busy, Calling
  <2>5. CASE ~IsDue(x)
    <3> DEFINE new == [job[w] EXCEPT !.todo = job[w].todo \ {x}]
    <3>1. pc' = [pc EXCEPT ![w] = "drain"] /\ job' = [job EXCEPT ![w] = new]
      BY <1>1, <1>b, <2>1, <2>5 DEF drain_one
    <3>2. new \in Job
      BY <1>1 DEF Job
    <3>3. new.todo \subseteq DOMAIN effects /\ ~new.fresh
      BY <1>1, <2>2 DEF Job
    <3> QED
      <4> HIDE DEF new
      <4> QED
        BY <1>3, <2>3, <3>1, <3>2, <3>3, NewHolds DEF Where, Busy, Calling
  <2> QED
    BY <2>4, <2>5
<1>c. CASE drained(w)
  <2> DEFINE new == [job[w] EXCEPT !.unacked = job[w].resumed]
  <2>1. pc' = [pc EXCEPT ![w] = "acks"] /\ job' = [job EXCEPT ![w] = new]
    BY <1>1, <1>c DEF drained
  <2>2. new \in Job
    BY <1>1, <1>3, <1>c DEF Job, drained
  <2>3. new.todo = job[w].todo /\ new.fresh = job[w].fresh
    BY <1>1, <1>3, <1>c DEF Job, drained
  <2>4. Shared'
    BY <1>2, <1>c DEF drained, tree, Shared
  <2> QED
    <3> HIDE DEF new
    <3> QED
      BY <1>1, <1>3, <1>c, <2>1, <2>2, <2>3, <2>4, NewHolds
         DEF drained, Holds, Where, Busy, Calling
<1>d. CASE ack_resumed(w)
  <2> PICK i \in job[w].unacked : job' = [job EXCEPT ![w].unacked = @ \ {i}]
    BY <1>d DEF ack_resumed
  <2> DEFINE new == [job[w] EXCEPT !.unacked = job[w].unacked \ {i}]
  <2>1. pc' = [pc EXCEPT ![w] = "acks"] /\ job' = [job EXCEPT ![w] = new]
    BY <1>1, <1>d DEF ack_resumed
  <2>2. new \in Job
    BY <1>1, <1>3, <1>d DEF Job, ack_resumed
  <2>3. new.todo = job[w].todo /\ new.fresh = job[w].fresh
    BY <1>1, <1>3, <1>d DEF Job, ack_resumed
  <2>4. Shared'
    BY <1>2, <1>d DEF ack_resumed, tree, Shared
  <2> QED
    <3> HIDE DEF new
    <3> QED
      BY <1>1, <1>3, <1>d, <2>1, <2>2, <2>3, <2>4, NewHolds
         DEF ack_resumed, Holds, Where, Busy, Calling
<1>e. CASE collect(w)
  <2> PICK order \in SetToSeqs(Pending \ job[w].resumed) :
           job' = [job EXCEPT ![w].resumed = {},
                     ![w].queue = [k \in DOMAIN order |->
                         [item |-> order[k], revision |-> intake[order[k]].revision]]]
    BY <1>e DEF collect
  <2> DEFINE found == [k \in DOMAIN order |->
                          [item |-> order[k], revision |-> intake[order[k]].revision]]
  <2>0. found \in Seq(Work)
    BY CollectedIsWork
  <2> DEFINE new == [job[w] EXCEPT !.resumed = {}, !.queue = found]
  <2>1. pc' = [pc EXCEPT ![w] = "next"] /\ job' = [job EXCEPT ![w] = new]
    BY <1>1, <1>e DEF collect
  <2>2. new \in Job
    <3> HIDE DEF found
    <3> QED
      BY <1>1, <2>0 DEF Job
  <2>3. new.todo = job[w].todo /\ new.fresh = job[w].fresh
    BY <1>1, <1>3, <1>e DEF Job, collect
  <2>4. Shared'
    BY <1>2, <1>e DEF collect, tree, Shared
  <2> QED
    <3> HIDE DEF new
    <3> QED
      BY <1>1, <1>3, <1>e, <2>1, <2>2, <2>3, <2>4, NewHolds
         DEF collect, Holds, Where, Busy, Calling
<1>f. CASE refuse(w)
  <2> DEFINE new == [job[w] EXCEPT !.queue = Tail(job[w].queue)]
  <2>1. pc' = [pc EXCEPT ![w] = "next"] /\ job' = [job EXCEPT ![w] = new]
    BY <1>1, <1>f DEF refuse
  <2>2. new \in Job
    <3>1. Head(job[w].queue) \in Work /\ Tail(job[w].queue) \in Seq(Work)
      BY <1>1, <1>f, QueueShrinks DEF refuse
    <3>2. WithQueue(job[w], Tail(job[w].queue)) \in Job
      BY <1>1, <3>1, JobFields
    <3> QED
      BY <3>2 DEF WithQueue
  <2>3. new.todo = job[w].todo /\ new.fresh = job[w].fresh
    BY <1>1, <1>3, <1>f DEF Job, refuse
  <2>4. Shared'
    BY <1>2, <1>f DEF refuse, tree, Shared
  <2> QED
    <3> HIDE DEF new
    <3> QED
      BY <1>1, <1>3, <1>f, <2>1, <2>2, <2>3, <2>4, NewHolds, ZenonT(40)
         DEF refuse, Holds, Where, Busy, Calling
<1>g. CASE dispatch(w)
  <2> DEFINE new == [job[w] EXCEPT !.queue = Tail(job[w].queue), !.work = Head(job[w].queue)]
  <2>1. pc' = [pc EXCEPT ![w] = "running"] /\ job' = [job EXCEPT ![w] = new]
    BY <1>1, <1>g DEF dispatch
  <2>2. new \in Job
    <3>1. Head(job[w].queue) \in Work /\ Tail(job[w].queue) \in Seq(Work)
      BY <1>1, <1>g, QueueShrinks DEF dispatch
    <3>2. WithWork(job[w], Tail(job[w].queue), Head(job[w].queue)) \in Job
      BY <1>1, <3>1, JobFields
    <3> QED
      BY <3>2 DEF WithWork
  <2>3. new.todo = job[w].todo /\ new.fresh = job[w].fresh /\ new.work \in Work
    BY <1>1, <1>3, <1>g DEF Job, dispatch
  <2>4. Shared'
    <3>1. Head(job[w].queue) \in Work
      BY <1>1, <1>g DEF dispatch, Job
    <3> QED
      BY <1>2, <1>g, <3>1 DEF dispatch, Shared, Work
  <2> QED
    <3> HIDE DEF new
    <3> QED
      BY <1>1, <1>3, <1>g, <2>1, <2>2, <2>3, <2>4, NewHolds
         DEF dispatch, Holds, Where, Busy, Calling
<1>h. CASE execute(w)
  <2>1. job[w].work \in Work /\ ~job[w].fresh
    BY <1>1, <1>h DEF execute, Holds, Busy, Calling
  <2>2. Item(w) \in Items
    BY <2>1 DEF Item, Work
  <2>3. local' \in [Items -> 0..MaxHeads]
    BY <1>2, <1>h, <2>2, WorkItemAssumption DEF WorkItemAssumption, execute, Shared
  <2>4. Shared'
    BY <1>2, <1>h, <2>3 DEF execute, Shared
  <2>5. job' = [job EXCEPT ![w] = job[w]]
    BY <1>1, <1>h DEF execute
  <2> QED
    BY <1>1, <1>3, <1>h, <2>1, <2>4, <2>5, NewHolds DEF execute, Holds, Where, Busy, Calling
<1>i. CASE publish_nothing(w)
  <2>1. job' = [job EXCEPT ![w] = job[w]]
    BY <1>1, <1>i DEF publish_nothing
  <2>2. Shared'
    BY <1>2, <1>i DEF publish_nothing, tree, Shared
  <2> QED
    BY <1>1, <1>3, <1>i, <2>1, <2>2, NewHolds DEF publish_nothing, Holds, Where, Busy, Calling
<1>j. CASE publish(w)
  <2> DEFINE new == [job[w] EXCEPT !.row = Len(effects) + 1, !.fresh = TRUE]
  <2>1. pc' = [pc EXCEPT ![w] = "claim"] /\ job' = [job EXCEPT ![w] = new]
    BY <1>1, <1>j DEF publish
  <2>0. Len(effects) + 1 \in 1..MaxEffects /\ Len(effects) + 1 \in DOMAIN effects'
    BY <1>j, EffectsAssumption
       DEF EffectsAssumption, publish, enqueue, Typing, TypeOK, EffectsTypeOK
  <2>2. new \in Job
    <3>1. Len(effects) + 1 \in 0..MaxEffects
      BY <2>0
    <3>2. WithFresh(job[w], Len(effects) + 1, TRUE) \in Job
      BY <1>1, <3>1, JobFields
    <3> QED
      BY <3>2 DEF WithFresh
  <2>3. new.todo = job[w].todo /\ new.work = job[w].work /\ new.row \in DOMAIN effects'
    BY <1>1, <2>0 DEF Job
  <2>4. Shared'
    BY <1>2, <1>j DEF publish, tree, Shared
  <2> QED
    <3> HIDE DEF new
    <3> QED
      BY <1>1, <1>3, <1>j, <2>1, <2>2, <2>3, <2>4, NewHolds
         DEF publish, Holds, Where, Busy, Calling
<1>k. CASE claim_own(w)
  <2>1. Shared'
    BY <1>2, <1>k DEF claim_own, tree, Shared
  <2>2. CASE IsDue(job[w].row)
    <3>1. pc' = [pc EXCEPT ![w] = "branch"] /\ job' = [job EXCEPT ![w] = job[w]]
      BY <1>1, <1>k, <2>2 DEF claim_own
    <3> QED
      BY <1>1, <1>3, <1>k, <2>1, <3>1, NewHolds DEF claim_own, Holds, Where, Busy, Calling
  <2>3. CASE ~IsDue(job[w].row)
    <3> DEFINE new == [job[w] EXCEPT !.row = 0, !.fresh = FALSE]
    <3>1. pc' = [pc EXCEPT ![w] = "release"] /\ job' = [job EXCEPT ![w] = new]
      BY <1>1, <1>k, <2>3 DEF claim_own
    <3>2. new \in Job /\ new.todo = job[w].todo /\ new.work = job[w].work /\ ~new.fresh
      <4>1. 0 \in 0..MaxEffects
        BY EffectsAssumption DEF EffectsAssumption
      <4>2. WithFresh(job[w], 0, FALSE) \in Job
        BY <1>1, <4>1, JobFields
      <4> QED
        BY <1>1, <4>2 DEF Job, WithFresh
    <3> QED
      <4> HIDE DEF new
      <4> QED
        BY <1>1, <1>3, <1>k, <2>1, <3>1, <3>2, NewHolds
           DEF claim_own, Holds, Where, Busy, Calling
  <2> QED
    BY <2>2, <2>3
<1>l. CASE release(w)
  <2>1. job' = [job EXCEPT ![w] = job[w]]
    BY <1>1, <1>l DEF release
  <2>2. Shared'
    BY <1>2, <1>l DEF release, Shared
  <2> QED
    BY <1>1, <1>3, <1>l, <2>1, <2>2, NewHolds DEF release, Holds, Where, Busy, Calling
<1>m. CASE ack(w)
  <2> DEFINE new == [job[w] EXCEPT !.work = NoItem]
  <2>1. pc' = [pc EXCEPT ![w] = "next"] /\ job' = [job EXCEPT ![w] = new]
    BY <1>1, <1>m DEF ack
  <2>2. new \in Job
    BY <1>1, <1>3, <1>m DEF Job, ack
  <2>3. new.todo = job[w].todo /\ new.fresh = job[w].fresh
    BY <1>1, <1>3, <1>m DEF Job, ack
  <2>4. Shared'
    BY <1>2, <1>m DEF ack, tree, Shared
  <2> QED
    <3> HIDE DEF new
    <3> QED
      BY <1>1, <1>3, <1>m, <2>1, <2>2, <2>3, <2>4, NewHolds
         DEF ack, Holds, Where, Busy, Calling
<1>n. CASE finish(w)
  <2>1. job' = [job EXCEPT ![w] = job[w]]
    BY <1>1, <1>n DEF finish
  <2>2. Shared'
    BY <1>2, <1>n DEF finish, tree, Shared
  <2> QED
    BY <1>1, <1>3, <1>n, <2>1, <2>2, NewHolds DEF finish, Holds, Where, Busy, Calling
<1> QED
  BY <1>a, <1>b, <1>c, <1>d, <1>e, <1>f, <1>g, <1>h, <1>i, <1>j, <1>k, <1>l, <1>m, <1>n
     DEF Step

LEMMA NextTyping ==
    ASSUME Typing, [Next]_vars
    PROVE  Typing'
<1>1. Stores' /\ RowsStand
  BY StoresStep
<1>2. Shared /\ pc \in [Workers -> Where] /\ job \in [Workers -> Job]
  BY DEF Shared, Typing, TypeOK, WorkTypeOK
<1> SUFFICES WorkTypeOK' /\ RowsAreThere' /\ WorkIsThere'
  BY <1>1 DEF Typing, TypeOK, Stores
<1>3. ASSUME NEW w \in Workers, Step(w) \/ Deliver(w)
      PROVE  WorkTypeOK' /\ RowsAreThere' /\ WorkIsThere'
  BY <1>1, <1>3, StepHolds, DeliverHolds, HoldsIsLocal
<1>4. ASSUME NEW w \in Workers, Crash(w)
      PROVE  WorkTypeOK' /\ RowsAreThere' /\ WorkIsThere'
  <2>1. PICK place \in {Free, Debris} : Leave(w, place)
    BY <1>4 DEF Crash
  <2>2. OnlyMine(w) /\ Holds(w)' /\ checkout' \in [Items -> Workers \cup {Free, Debris}]
    BY <2>1, LeaveHolds
  <2>3. used' \in [closes : 0..MaxCloses, retries : 0..MaxRetries, crashes : 0..MaxCrashes]
    BY <1>2, <1>4, WorkAssumption DEF WorkAssumption, Crash, Shared
  <2>4. Shared'
    BY <1>2, <1>4, <2>2, <2>3 DEF Crash, Shared
  <2> QED
    BY <1>1, <2>2, <2>4, HoldsIsLocal
<1>5. ASSUME UNCHANGED <<pc, job>>, Shared'
      PROVE  WorkTypeOK' /\ RowsAreThere' /\ WorkIsThere'
  BY <1>1, <1>2, <1>5
     DEF WorkTypeOK, Shared, Typing, RowsAreThere, WorkIsThere, RowsStand
<1>6. ASSUME NEW i \in Items, Submit(i) \/ Withdraw(i) \/ Reap(i)
      PROVE  UNCHANGED <<pc, job>> /\ Shared'
  BY <1>2, <1>6 DEF Submit, Withdraw, Reap, tree, Shared
<1>7. ASSUME NEW x \in 1..MaxEffects, Ripen(x)
      PROVE  UNCHANGED <<pc, job>> /\ Shared'
  BY <1>2, <1>7 DEF Ripen, tree, Shared
<1>8. CASE EffectsRetry
  <2>1. used' \in [closes : 0..MaxCloses, retries : 0..MaxRetries, crashes : 0..MaxCrashes]
    BY <1>2, <1>8, WorkAssumption DEF WorkAssumption, EffectsRetry, Shared
  <2> QED
    BY <1>2, <1>5, <1>8, <2>1 DEF EffectsRetry, tree, Shared
<1>9. CASE Close
  <2>1. used' \in [closes : 0..MaxCloses, retries : 0..MaxRetries, crashes : 0..MaxCrashes]
    BY <1>2, <1>9, WorkAssumption DEF WorkAssumption, Close, Shared
  <2> QED
    BY <1>2, <1>5, <1>9, <2>1 DEF Close, tree, Shared
<1>10. CASE UNCHANGED vars
  BY <1>2, <1>5, <1>10 DEF vars, tree, Shared
<1> QED
  BY <1>3, <1>4, <1>5, <1>6, <1>7, <1>8, <1>9, <1>10 DEF Next

(***************************************************************************)
(* Every reachable state of `clawdence work` is well typed, for any number *)
(* of processes, items, publications, crashes and retries.                 *)
(***************************************************************************)
THEOREM WorkTypesHold == Spec => []TypeOK
<1>1. Init => Typing
  BY InitTyping
<1>2. Typing /\ [Next]_vars => Typing'
  BY NextTyping
<1>3. Typing => TypeOK
  BY DEF Typing
<1> QED
  BY <1>1, <1>2, <1>3, PTL DEF Spec

-----------------------------------------------------------------------------
(* The way of a commit into a pull request. *)

Reviewed(x) == effects[x].head <= shown[effects[x].item]

\* From the remote's own answer on, a delivery knows that its commit arrived;
\* from the pull request on, that it was shown.
OnItsWay ==
    \A w \in Workers :
        /\ pc[w] \in {"find", "open"} => Arrived(Row(w).item, Row(w).head)
        /\ pc[w] = "see" \/ (pc[w] = "settle" /\ job[w].outcome = "done")
               => Reviewed(job[w].row)

DeliveredWasShown ==
    \A x \in DOMAIN effects : effects[x].state = "delivered" => Reviewed(x)

Review == Typing /\ PullShowsBranch /\ OnItsWay /\ DeliveredWasShown

\* Some process has a run of this item behind it, and is about to publish it.
Carried(item) == \E w \in Workers : job[w].work \in Work /\ Item(w) = item

\* One transaction of the queue, while the forge stands still.
QueueMove ==
    /\ UNCHANGED forgeVars
    /\ \/ \E item \in Items, head \in Heads :
              Carried(item) /\ Len(effects) < MaxEffects /\ enqueue(item, head)
       \/ \E x \in DOMAIN effects :
             \/ IsDue(x) /\ \E w \in Workers : claim(x, w)
             \/ effects[x].state = "delivering" /\ Reviewed(x) /\ delivered(x)
             \/ effects[x].state = "delivering" /\ \E transient \in BOOLEAN : failed(x, transient)
             \/ retry(x)
             \/ ripen(x)

LEMMA QueueStep ==
    ASSUME Typing, OnItsWay, [Next]_vars
    PROVE  UNCHANGED effects \/ QueueMove
<1>1. ASSUME NEW w \in Workers, Deliver(w) PROVE UNCHANGED effects \/ QueueMove
  <2>1. CASE settle(w)
    <3>1. job[w].row \in DOMAIN effects /\ effects[job[w].row].state = "delivering"
      BY <2>1, RowInHand DEF settle, Busy, owned
    <3>2. job[w].outcome = "done" => Reviewed(job[w].row)
      BY <2>1 DEF settle, OnItsWay
    <3> QED
      BY <2>1, <3>1, <3>2 DEF settle, QueueMove
  <2>2. CASE ~settle(w)
    BY <1>1, <2>2
       DEF Deliver, create_branch, create_branch_push, push_exists, push, push_verify,
           find_open, open_pull_request, see_opened, call_fails, answer_lost, settle_lost
  <2> QED
    BY <2>1, <2>2
<1>2. ASSUME NEW w \in Workers, Step(w) PROVE UNCHANGED effects \/ QueueMove
  <2>1. CASE drain_one(w)
    <3>1. job[w].todo \subseteq DOMAIN effects
      BY DEF Typing, RowsAreThere
    <3> QED
      BY <2>1, <3>1 DEF drain_one, QueueMove
  <2>2. CASE publish(w)
    <3>1. Item(w) \in Items /\ Carried(Item(w))
      BY <2>2 DEF publish, Typing, WorkIsThere, Work, Item, Carried
    <3>2. local[Item(w)] \in Heads
      BY <2>2, <3>1, WorkItemAssumption
         DEF WorkItemAssumption, publish, Typing, TypeOK, WorkTypeOK, Heads
    <3> QED
      BY <2>2, <3>1, <3>2 DEF publish, QueueMove
  <2>3. CASE claim_own(w)
    <3>1. job[w].row \in DOMAIN effects
      BY <2>3 DEF claim_own, Typing, RowsAreThere
    <3> QED
      BY <2>3, <3>1 DEF claim_own, QueueMove
  <2>4. CASE ~(drain_one(w) \/ publish(w) \/ claim_own(w))
    BY <1>2, <2>4
       DEF Step, start_work, drained, ack_resumed, collect, refuse, dispatch, execute,
           publish_nothing, release, ack, finish
  <2> QED
    BY <2>1, <2>2, <2>3, <2>4
<1>3. ASSUME NEW w \in Workers, Crash(w) PROVE UNCHANGED effects
  BY <1>3 DEF Crash
<1>4. ASSUME NEW i \in Items, Submit(i) \/ Withdraw(i) \/ Reap(i) PROVE UNCHANGED effects
  BY <1>4 DEF Submit, Withdraw, Reap
<1>5. ASSUME NEW x \in 1..MaxEffects, Ripen(x) PROVE QueueMove
  BY <1>5 DEF Ripen, QueueMove
<1>6. CASE EffectsRetry
  BY <1>6 DEF EffectsRetry, QueueMove
<1>7. CASE Close \/ UNCHANGED vars
  BY <1>7 DEF Close, vars
<1> QED
  BY <1>1, <1>2, <1>3, <1>4, <1>5, <1>6, <1>7 DEF Next

\* What is delivered was so before, or is what a process just settled.
LEMMA QueueKeeps ==
    ASSUME EffectsTypeOK, DeliveredWasShown, RowsStand, QueueMove
    PROVE  DeliveredWasShown'
<1> SUFFICES ASSUME NEW y \in DOMAIN effects', effects'[y].state = "delivered"
             PROVE  Reviewed(y)'
  BY DEF DeliveredWasShown
<1>1. shown' = shown
  BY DEF QueueMove, forgeVars
<1>2. ASSUME y \in DOMAIN effects, Reviewed(y) PROVE Reviewed(y)'
  BY <1>1, <1>2 DEF Reviewed, RowsStand
<1>3. CASE \E item \in Items, head \in Heads : enqueue(item, head)
  BY <1>2, <1>3 DEF enqueue, EffectsTypeOK, DeliveredWasShown
<1>4. ASSUME NEW x \in DOMAIN effects,
             \/ \E w \in Workers : claim(x, w)
             \/ \E transient \in BOOLEAN : failed(x, transient)
             \/ retry(x)
             \/ ripen(x) /\ effects[x].state \in Outstanding
      PROVE  y \in DOMAIN effects /\ effects[y].state = "delivered"
  <2>1. effects[x] \in Effect
    BY DEF EffectsTypeOK
  <2>2. CASE \E w \in Workers : claim(x, w)
    BY <2>1, <2>2 DEF claim, Effect
  <2>3. CASE \E transient \in BOOLEAN : failed(x, transient)
    <3>1. PICK transient \in BOOLEAN : failed(x, transient)
      BY <2>3
    <3>2. effects'[x].state # "delivered" /\ DOMAIN effects' = DOMAIN effects
      BY <2>1, <3>1 DEF failed, Effect
    <3>3. y # x => effects'[y] = effects[y]
      BY <3>1, <3>2 DEF failed
    <3> QED
      BY <3>2, <3>3
  <2>4. CASE retry(x)
    BY <2>1, <2>4 DEF retry, Effect
  <2>5. CASE ripen(x) /\ effects[x].state \in Outstanding
    BY <2>1, <2>5 DEF ripen, Effect, Outstanding
  <2> QED
    BY <1>4, <2>2, <2>3, <2>4, <2>5
<1>5. ASSUME NEW x \in DOMAIN effects, delivered(x), Reviewed(x)
      PROVE  y \in DOMAIN effects /\ (effects[y].state = "delivered" \/ Reviewed(y))
  BY <1>5 DEF delivered
<1> QED
  BY <1>2, <1>3, <1>4, <1>5 DEF QueueMove, DeliveredWasShown, ripen

\* A delivery that has the remote's answer keeps it, and the pull request too.
LEMMA WayStep ==
    ASSUME Review, [Next]_vars, Typing', RowsStand, ForgeMove
    PROVE  OnItsWay'
<1>1. /\ \A i \in Items : shown[i] <= shown'[i]
      /\ \A i \in Items, head \in Heads : Arrived(i, head) => Arrived(i, head)'
  BY ForgeKeeps DEF Review, Typing, TypeOK
<1>2. \A i \in Items : shown[i] \in Nat /\ shown'[i] \in Nat /\ remote[i] \in Nat
  BY WorkItemAssumption DEF WorkItemAssumption, Review, Typing, TypeOK, ForgeTypeOK
<1>3. \A head \in Heads : head \in Nat
  BY DEF Heads
<1> DEFINE Way(v) ==
        /\ pc[v] \in {"find", "open"} => Arrived(Row(v).item, Row(v).head)
        /\ pc[v] = "see" \/ (pc[v] = "settle" /\ job[v].outcome = "done")
               => Reviewed(job[v].row)
<1>4. ASSUME NEW v \in Workers, pc'[v] = pc[v], job'[v] = job[v] PROVE Way(v)'
  <2>1. CASE pc[v] \in Busy
    <3>1. /\ job[v].row \in DOMAIN effects /\ Row(v).item \in Items /\ Row(v).head \in Heads
      BY <2>1, RowInHand DEF Review
    <3>2. Row(v)'.item = Row(v).item /\ Row(v)'.head = Row(v).head
      BY <1>4, <3>1 DEF Row, RowsStand
    <3>3. Reviewed(job[v].row) => Reviewed(job[v].row)'
      BY <1>1, <1>2, <1>3, <1>4, <3>1, <3>2 DEF Reviewed, Row
    <3>4. Way(v)
      BY DEF Review, OnItsWay
    <3> QED
      BY <1>1, <1>4, <3>1, <3>2, <3>3, <3>4 DEF Arrived
  <2>2. CASE pc[v] \notin Busy
    BY <1>4, <2>2 DEF Busy, Calling
  <2> QED
    BY <2>1, <2>2
<1>5. ASSUME NEW w \in Workers, Deliver(w) PROVE Way(w)'
  <2>1. pc[w] \in Busy
    BY <1>5 DEF Deliver, create_branch, create_branch_push, push_exists, push, push_verify,
                find_open, open_pull_request, see_opened, call_fails, answer_lost, settle,
                settle_lost, Busy, Calling
  <2>2. job[w].row \in DOMAIN effects /\ Row(w).item \in Items /\ Row(w).head \in Heads
    BY <2>1, RowInHand DEF Review
  <2>3. pc \in [Workers -> Where] /\ job \in [Workers -> Job]
    BY DEF Review, Typing, TypeOK, WorkTypeOK
  <2> USE <2>2, <2>3 DEF Goto, Settling, Row
  <2>s. ASSUME NEW outcome \in Outcomes, Settling(w, outcome)
        PROVE  pc'[w] = "settle" /\ job'[w].row = job[w].row /\ job'[w].outcome = outcome
    BY <2>s DEF Job
  <2>4. CASE push_verify(w)
    <3>1. CASE remote[Row(w).item] = Row(w).head
      BY <2>4, <3>1, <1>3 DEF push_verify, Arrived, forgeVars
    <3>2. CASE remote[Row(w).item] # Row(w).head
      BY <2>4, <3>2, <2>s DEF push_verify, Outcomes
    <3> QED
      BY <3>1, <3>2
  <2>5. CASE find_open(w)
    <3>1. Arrived(Row(w).item, Row(w).head)
      BY <2>5 DEF find_open, Review, OnItsWay
    <3>2. CASE pull[Row(w).item]
      <4>1. Reviewed(job[w].row)
        BY <1>2, <1>3, <3>1, <3>2 DEF Review, PullShowsBranch, Arrived, Reviewed
      <4>2. pc'[w] = "settle" /\ job'[w].row = job[w].row
        BY <2>5, <3>2, <2>s DEF find_open, Outcomes
      <4> QED
        BY <2>5, <4>1, <4>2 DEF find_open, forgeVars, Reviewed
    <3>3. CASE ~pull[Row(w).item]
      BY <2>5, <3>1, <3>3 DEF find_open, Arrived, forgeVars
    <3> QED
      BY <3>2, <3>3
  <2>6. CASE open_pull_request(w)
    <3>1. Arrived(Row(w).item, Row(w).head)
      BY <2>6 DEF open_pull_request, Review, OnItsWay
    <3>2. CASE Creatable(Row(w).item)
      <4>1. shown'[Row(w).item] = Newest(shown[Row(w).item], remote[Row(w).item])
        BY <2>6, <3>2 DEF open_pull_request, open, Review, Typing, TypeOK, ForgeTypeOK
      <4>2. Row(w).head <= shown'[Row(w).item]
        BY <1>2, <1>3, <3>1, <4>1 DEF Arrived, Newest
      <4>3. pc'[w] = "see" /\ job' = job /\ effects' = effects
        BY <2>6, <3>2 DEF open_pull_request
      <4> QED
        BY <4>2, <4>3 DEF Reviewed
    <3>3. CASE ~Creatable(Row(w).item)
      BY <2>6, <3>3, <2>s DEF open_pull_request, Outcomes
    <3> QED
      BY <3>2, <3>3
  <2>7. CASE see_opened(w)
    <3>1. Reviewed(job[w].row)
      BY <2>7 DEF see_opened, Review, OnItsWay
    <3>2. pc'[w] = "settle" /\ job'[w].row = job[w].row
      BY <2>7, <2>s DEF see_opened, Outcomes
    <3> QED
      BY <2>7, <3>1, <3>2 DEF see_opened, forgeVars, Reviewed
  <2>8. CASE create_branch(w) \/ create_branch_push(w) \/ push_exists(w) \/ push(w)
    <3>1. \/ pc'[w] \in {"create", "exists", "push", "verify"}
          \/ Settling(w, "permanent")
      BY <2>8 DEF create_branch, create_branch_push, push_exists, push, Pushes
    <3> QED
      BY <3>1, <2>s DEF Outcomes
  <2>9. CASE call_fails(w) \/ answer_lost(w)
    <3>1. \E outcome \in {"transient", "permanent"} : Settling(w, outcome)
      BY <2>9 DEF call_fails, answer_lost
    <3> QED
      BY <3>1, <2>s DEF Outcomes
  <2>10. CASE settle(w) \/ settle_lost(w)
    BY <2>10 DEF settle, Settled, settle_lost, Leave
  <2> QED
    BY <1>5, <2>4, <2>5, <2>6, <2>7, <2>8, <2>9, <2>10 DEF Deliver
<1>6. ASSUME NEW w \in Workers, Step(w) PROVE Way(w)'
  <2>1. pc \in [Workers -> Where]
    BY DEF Review, Typing, TypeOK, WorkTypeOK
  <2>2. pc'[w] \notin {"find", "open", "see", "settle"}
    BY <1>6, <2>1
       DEF Step, start_work, drain_one, drained, ack_resumed, collect, refuse, dispatch,
           execute, publish_nothing, publish, claim_own, release, ack, finish, Goto
  <2> QED
    BY <2>2
<1>7. ASSUME NEW w \in Workers, Step(w) \/ Deliver(w), NEW v \in Workers PROVE Way(v)'
  <2>1. OnlyMine(w)
    BY <1>7, StepHolds, DeliverHolds DEF Review
  <2>2. v # w => pc'[v] = pc[v] /\ job'[v] = job[v]
    BY <2>1 DEF OnlyMine, Review, Typing, TypeOK, WorkTypeOK
  <2> QED
    BY <1>4, <1>5, <1>6, <1>7, <2>2
<1>8. ASSUME NEW w \in Workers, Crash(w), NEW v \in Workers PROVE Way(v)'
  <2>1. PICK place \in {Free, Debris} : Leave(w, place)
    BY <1>8 DEF Crash
  <2>2. pc'[w] = "idle"
    BY <2>1 DEF Leave, Goto, Review, Typing, TypeOK, WorkTypeOK
  <2>3. v # w => pc'[v] = pc[v] /\ job'[v] = job[v]
    BY <2>1 DEF Leave, Goto, Review, Typing, TypeOK, WorkTypeOK
  <2> QED
    BY <1>4, <2>2, <2>3
<1>9. ASSUME NEW v \in Workers, UNCHANGED <<pc, job>> PROVE Way(v)'
  BY <1>4, <1>9
<1>10. ASSUME \/ \E i \in Items : Submit(i) \/ Withdraw(i) \/ Reap(i)
              \/ \E x \in 1..MaxEffects : Ripen(x)
              \/ EffectsRetry \/ Close \/ UNCHANGED vars
       PROVE  UNCHANGED <<pc, job>>
  BY <1>10 DEF Submit, Withdraw, Reap, Ripen, EffectsRetry, Close, vars
<1> HIDE DEF Way
<1>11. \A v \in Workers : Way(v)'
  BY <1>7, <1>8, <1>9, <1>10 DEF Next
<1> QED
  BY <1>11 DEF Way, OnItsWay

LEMMA ReviewStep ==
    ASSUME Review, [Next]_vars
    PROVE  Review'
<1>1. Typing' /\ RowsStand /\ ForgeMove
  BY NextTyping, StoresStep DEF Review
<1>2. PullShowsBranch' /\ \A i \in Items : shown[i] <= shown'[i]
  BY <1>1, ForgeKeeps DEF Review, Typing, TypeOK
<1>3. OnItsWay'
  BY <1>1, WayStep
<1>4. DeliveredWasShown'
  <2>1. CASE UNCHANGED effects
    <3> SUFFICES ASSUME NEW x \in DOMAIN effects, effects[x].state = "delivered"
                 PROVE  effects[x].head <= shown'[effects[x].item]
      BY <2>1 DEF DeliveredWasShown, Reviewed
    <3>1. effects[x].head <= shown[effects[x].item]
      BY DEF Review, DeliveredWasShown, Reviewed
    <3>0. effects[x] \in Effect
      BY DEF Review, Typing, TypeOK, EffectsTypeOK
    <3>2. effects[x].item \in Items /\ effects[x].head \in Nat
      BY <3>0 DEF Effect, Heads
    <3>3. shown[effects[x].item] \in Nat /\ shown'[effects[x].item] \in Nat
      BY <1>1, <3>2, WorkItemAssumption
         DEF WorkItemAssumption, Review, Typing, TypeOK, ForgeTypeOK
    <3> QED
      BY <1>2, <3>1, <3>2, <3>3
  <2>2. CASE QueueMove
    BY <1>1, <2>2, QueueKeeps DEF Review, Typing, TypeOK
  <2> QED
    BY <2>1, <2>2, QueueStep DEF Review
<1> QED
  BY <1>1, <1>2, <1>3, <1>4 DEF Review

LEMMA InitReview == Init => Review
<1> SUFFICES ASSUME Init PROVE Review
  OBVIOUS
<1>1. Typing
  BY InitTyping
<1>2. PullShowsBranch
  BY DEF Init, ForgeInit, PullShowsBranch
<1>3. OnItsWay
  BY DEF Init, OnItsWay
<1>4. DeliveredWasShown
  BY DEF Init, EffectsInit, DeliveredWasShown
<1> QED
  BY <1>1, <1>2, <1>3, <1>4 DEF Review

(* The promise kept. *)

promised == [x \in 1..MaxEffects |->
                IF x \in DOMAIN effects THEN PromiseOf(effects[x].state) ELSE "none"]
shownRows == {x \in DOMAIN effects : effects[x].head <= shown[effects[x].item]}

\* The queue changed one row, and nothing of it but what becomes of it.
Settles(x, state) ==
    /\ DOMAIN effects' = DOMAIN effects
    /\ \A y \in DOMAIN effects \ {x} : effects'[y] = effects[y]
    /\ effects'[x].item = effects[x].item /\ effects'[x].head = effects[x].head
    /\ effects'[x].state = state

LEMMA RowSettles ==
    ASSUME EffectsTypeOK, NEW x \in DOMAIN effects, NEW row, NEW state,
           effects' = [effects EXCEPT ![x] = row],
           row.item = effects[x].item, row.head = effects[x].head, row.state = state
    PROVE  Settles(x, state)
<1>1. DOMAIN effects' = DOMAIN effects /\ effects'[x] = row
  OBVIOUS
<1>2. \A y \in DOMAIN effects \ {x} : effects'[y] = effects[y]
  OBVIOUS
<1> QED
  BY <1>1, <1>2 DEF Settles

LEMMA ClaimSettles ==
    ASSUME EffectsTypeOK, NEW x \in DOMAIN effects, NEW owner, claim(x, owner)
    PROVE  Settles(x, "delivering")
<1> DEFINE tries == OneMore(effects[x].attempts)
           row(n) == [effects[x] EXCEPT !.state = "delivering", !.owner = owner,
                                   !.ripe = FALSE, !.attempts = n]
<1>1. effects[x] \in Effect
  BY DEF EffectsTypeOK
<1>2. ASSUME NEW n
      PROVE  row(n).item = effects[x].item /\ row(n).head = effects[x].head
             /\ row(n).state = "delivering"
  BY <1>1 DEF Effect
<1>3. effects' = [effects EXCEPT ![x] = row(tries)]
  BY DEF claim
<1> HIDE DEF row, tries
<1> QED
  BY <1>2, <1>3, RowSettles

LEMMA DeliveredSettles ==
    ASSUME EffectsTypeOK, NEW x \in DOMAIN effects, delivered(x)
    PROVE  Settles(x, "delivered")
<1> DEFINE row == [effects[x] EXCEPT !.state = "delivered", !.owner = NoOne]
<1>1. effects[x] \in Effect
  BY DEF EffectsTypeOK
<1>2. row.item = effects[x].item /\ row.head = effects[x].head /\ row.state = "delivered"
  BY <1>1 DEF Effect
<1>3. effects' = [effects EXCEPT ![x] = row]
  BY <1>1 DEF delivered, Effect
<1> HIDE DEF row
<1> QED
  BY <1>2, <1>3, RowSettles

LEMMA FailedSettles ==
    ASSUME EffectsTypeOK, NEW x \in DOMAIN effects, NEW transient, failed(x, transient)
    PROVE  Settles(x, "pending") \/ Settles(x, "parked")
<1> DEFINE row(state) == [effects[x] EXCEPT !.state = state, !.owner = NoOne, !.ripe = FALSE]
<1>1. effects[x] \in Effect
  BY DEF EffectsTypeOK
<1>2. ASSUME NEW state
      PROVE  row(state).item = effects[x].item /\ row(state).head = effects[x].head
             /\ row(state).state = state
  BY <1>1 DEF Effect
<1>3. effects' = [effects EXCEPT ![x] = row("pending")]
      \/ effects' = [effects EXCEPT ![x] = row("parked")]
  BY <1>1 DEF failed, Effect
<1> HIDE DEF row
<1> QED
  BY <1>2, <1>3, RowSettles

LEMMA RetrySettles ==
    ASSUME EffectsTypeOK, NEW x \in DOMAIN effects, retry(x)
    PROVE  effects[x].state = "parked" /\ Settles(x, "pending")
<1> DEFINE tries == 0
           row(n) == [effects[x] EXCEPT !.state = "pending", !.attempts = n, !.ripe = TRUE]
<1>1. effects[x] \in Effect
  BY DEF EffectsTypeOK
<1>2. ASSUME NEW n
      PROVE  row(n).item = effects[x].item /\ row(n).head = effects[x].head
             /\ row(n).state = "pending"
  BY <1>1 DEF Effect
<1>3. effects[x].state = "parked" /\ effects' = [effects EXCEPT ![x] = row(tries)]
  BY DEF retry
<1> HIDE DEF row, tries
<1> QED
  BY <1>2, <1>3, RowSettles

LEMMA RipenSettles ==
    ASSUME EffectsTypeOK, NEW x \in DOMAIN effects, ripen(x)
    PROVE  Settles(x, effects[x].state)
<1> DEFINE row == [effects[x] EXCEPT !.ripe = TRUE]
<1>1. effects[x] \in Effect
  BY DEF EffectsTypeOK
<1>2. row.item = effects[x].item /\ row.head = effects[x].head
      /\ row.state = effects[x].state
  BY <1>1 DEF Effect
<1>3. effects' = [effects EXCEPT ![x] = row]
  BY <1>1 DEF ripen, Effect
<1> HIDE DEF row
<1> QED
  BY <1>2, <1>3, RowSettles

\* What the settled row does to the promise.
LEMMA PromiseOfRow ==
    ASSUME EffectsTypeOK, NEW x \in DOMAIN effects, NEW state, Settles(x, state),
           UNCHANGED shown
    PROVE  /\ x \in 1..MaxEffects
           /\ promised[x] = PromiseOf(effects[x].state)
           /\ promised' = [promised EXCEPT ![x] = PromiseOf(state)]
           /\ UNCHANGED shownRows
<1>1. DOMAIN effects \subseteq 1..MaxEffects
  BY EffectsAssumption DEF EffectsAssumption, EffectsTypeOK
<1>2. promised' = [promised EXCEPT ![x] = PromiseOf(state)]
  BY <1>1 DEF promised, Settles
<1>3. UNCHANGED shownRows
  BY DEF shownRows, Settles
<1> QED
  BY <1>1, <1>2, <1>3 DEF promised

LEMMA PromiseStep ==
    ASSUME Review, [Next]_vars
    PROVE  [Promised!PromiseNext]_<<promised, shownRows>>
<1>1. EffectsTypeOK /\ DOMAIN effects \subseteq 1..MaxEffects
  BY EffectsAssumption DEF EffectsAssumption, Review, Typing, TypeOK, EffectsTypeOK
<1>2. RowsStand /\ ForgeMove /\ Typing'
  BY StoresStep, NextTyping DEF Review
<1>3. CASE UNCHANGED effects
  <2>1. UNCHANGED promised
    BY <1>3 DEF promised
  <2>2. shownRows \subseteq shownRows' /\ shownRows' \subseteq 1..MaxEffects
    <3>1. \A i \in Items : shown[i] <= shown'[i] /\ shown[i] \in Nat /\ shown'[i] \in Nat
      BY <1>2, ForgeKeeps, WorkItemAssumption
         DEF WorkItemAssumption, Review, Typing, TypeOK, ForgeTypeOK
    <3>2. \A x \in DOMAIN effects : effects[x].item \in Items /\ effects[x].head \in Nat
      <4> SUFFICES ASSUME NEW x \in DOMAIN effects
                   PROVE  effects[x].item \in Items /\ effects[x].head \in Nat
        OBVIOUS
      <4>1. effects[x] \in Effect
        BY <1>1 DEF EffectsTypeOK
      <4> QED
        BY <4>1 DEF Effect, Heads
    <3> QED
      BY <1>1, <1>3, <3>1, <3>2 DEF shownRows
  <2> QED
    BY <2>1, <2>2 DEF Promised!PromiseNext, Promised!Show, promised, shownRows
<1>4. CASE QueueMove
  <2>1. UNCHANGED shown
    BY <1>4 DEF QueueMove, forgeVars
  <2>2. CASE \E item \in Items, head \in Heads :
                Len(effects) < MaxEffects /\ enqueue(item, head)
    <3> DEFINE x == Len(effects) + 1
    <3>1. x \in 1..MaxEffects /\ x \notin DOMAIN effects
      BY <1>1, <2>2, EffectsAssumption DEF EffectsAssumption, EffectsTypeOK
    <3>2. /\ DOMAIN effects' = DOMAIN effects \cup {x}
          /\ \A y \in DOMAIN effects : effects'[y] = effects[y]
          /\ effects'[x].state = "pending"
      BY <1>1, <2>2 DEF enqueue, EffectsTypeOK
    <3> HIDE DEF x
    <3>3. promised[x] = "none"
      BY <3>1 DEF promised
    <3>4. promised' = [promised EXCEPT ![x] = "owed"]
      <4>1. PromiseOf("pending") = "owed"
        BY DEF PromiseOf, Outstanding
      <4>2. ASSUME NEW y \in 1..MaxEffects
            PROVE  promised'[y] = IF y = x THEN "owed" ELSE promised[y]
        BY <3>1, <3>2, <4>1 DEF promised
      <4> QED
        BY <3>1, <4>2 DEF promised
    <3>5. shownRows' \in {shownRows, shownRows \cup {x}}
      BY <2>1, <3>1, <3>2 DEF shownRows
    <3> QED
      BY <3>1, <3>3, <3>4, <3>5
         DEF Promised!PromiseNext, Promised!Record, Promised!Becomes, promised, shownRows
  <2>3. PromiseOf("pending") = "owed" /\ PromiseOf("delivering") = "owed"
        /\ PromiseOf("delivered") = "done" /\ PromiseOf("parked") = "given_up"
    BY DEF PromiseOf, Outstanding
  <2>4. ASSUME NEW x \in DOMAIN effects, NEW state, Settles(x, state),
               PromiseOf(state) = PromiseOf(effects[x].state)
        PROVE  UNCHANGED <<promised, shownRows>>
    <3>1. promised' = [promised EXCEPT ![x] = promised[x]] /\ UNCHANGED shownRows
      BY <1>1, <2>1, <2>4, PromiseOfRow
    <3> QED
      BY <3>1 DEF promised
  <2>5. ASSUME NEW x \in DOMAIN effects, IsDue(x), NEW w \in Workers, claim(x, w)
        PROVE  UNCHANGED <<promised, shownRows>>
    <3>1. effects[x].state \in {"pending", "delivering"}
      BY <2>5 DEF IsDue, Outstanding
    <3> QED
      BY <1>1, <2>3, <2>4, <2>5, <3>1, ClaimSettles
  <2>6. ASSUME NEW x \in DOMAIN effects, effects[x].state = "delivering", Reviewed(x),
               delivered(x)
        PROVE  Promised!PromiseNext
    <3>1. x \in shownRows
      BY <2>6 DEF shownRows, Reviewed
    <3>2. /\ x \in 1..MaxEffects /\ promised[x] = "owed"
          /\ promised' = [promised EXCEPT ![x] = "done"] /\ UNCHANGED shownRows
      BY <1>1, <2>1, <2>3, <2>6, DeliveredSettles, PromiseOfRow
    <3> QED
      BY <3>1, <3>2
         DEF Promised!PromiseNext, Promised!Keep, Promised!Becomes, promised, shownRows
  <2>7. ASSUME NEW x \in DOMAIN effects, effects[x].state = "delivering",
               NEW transient \in BOOLEAN, failed(x, transient)
        PROVE  Promised!PromiseNext \/ UNCHANGED <<promised, shownRows>>
    <3>1. CASE Settles(x, "pending")
      BY <2>3, <2>4, <2>7, <3>1
    <3>2. CASE Settles(x, "parked")
      <4>1. /\ x \in 1..MaxEffects /\ promised[x] = "owed"
            /\ promised' = [promised EXCEPT ![x] = "given_up"] /\ UNCHANGED shownRows
        BY <1>1, <2>1, <2>3, <2>7, <3>2, PromiseOfRow
      <4> QED
        BY <4>1
           DEF Promised!PromiseNext, Promised!GiveUp, Promised!Becomes, promised, shownRows
    <3> QED
      BY <1>1, <2>7, <3>1, <3>2, FailedSettles
  <2>8. ASSUME NEW x \in DOMAIN effects, retry(x) PROVE Promised!PromiseNext
    <3>1. /\ x \in 1..MaxEffects /\ promised[x] = "given_up"
          /\ promised' = [promised EXCEPT ![x] = "owed"] /\ UNCHANGED shownRows
      BY <1>1, <2>1, <2>3, <2>8, RetrySettles, PromiseOfRow
    <3> QED
      BY <3>1
         DEF Promised!PromiseNext, Promised!TakeUp, Promised!Becomes, promised, shownRows
  <2>9. ASSUME NEW x \in DOMAIN effects, ripen(x) PROVE UNCHANGED <<promised, shownRows>>
    BY <1>1, <2>4, <2>9, RipenSettles
  <2>10. CASE \E x \in DOMAIN effects :
             \/ IsDue(x) /\ \E w \in Workers : claim(x, w)
             \/ effects[x].state = "delivering" /\ Reviewed(x) /\ delivered(x)
             \/ effects[x].state = "delivering" /\ \E transient \in BOOLEAN : failed(x, transient)
             \/ retry(x)
             \/ ripen(x)
    BY <2>5, <2>6, <2>7, <2>8, <2>9, <2>10
  <2> QED
    BY <1>4, <2>2, <2>10 DEF QueueMove
<1> QED
  BY <1>3, <1>4, QueueStep DEF Review

LEMMA InitPromise == Init => Promised!PromiseInit
BY DEF Init, EffectsInit, Promised!PromiseInit

(***************************************************************************)
(* A delivered publication was in an open pull request: the handler looks  *)
(* for its branch and its pull request before it settles the row, and the  *)
(* owner check keeps a process that lost its claim from settling it.       *)
(***************************************************************************)
THEOREM DeliveredPublicationsWereShown == Spec => []DeliveredWasShown
<1>1. Review => DeliveredWasShown
  BY DEF Review
<1> QED
  BY <1>1, InitReview, ReviewStep, PTL DEF Spec

(***************************************************************************)
(* The delivery queue implements its promise, for any number of processes, *)
(* requests, publications, attempts and crashes, and whatever the backoffs *)
(* and the leases are.                                                     *)
(***************************************************************************)
THEOREM DeliveryImplementsItsPromise == Spec => DeliveryKeepsItsPromise
<1> QED
  BY InitReview, ReviewStep, InitPromise, PromiseStep, PTL
     DEF Spec, DeliveryKeepsItsPromise, Promised!PromiseSpec, promised, shownRows

(* The queue gives up. *)

\* One changed row decides.
LEMMA PendingRow ==
    ASSUME EffectsTypeOK, PendingHasAnAttemptLeft, NEW x \in DOMAIN effects, NEW row,
           effects' = [effects EXCEPT ![x] = row],
           row.state = "pending" => row.attempts < MaxTries
    PROVE  PendingHasAnAttemptLeft'
BY DEF PendingHasAnAttemptLeft, EffectsTypeOK

LEMMA PendingStep ==
    ASSUME EffectsTypeOK, PendingHasAnAttemptLeft, QueueMove
    PROVE  PendingHasAnAttemptLeft'
<1>1. ASSUME NEW x \in DOMAIN effects PROVE effects[x] \in Effect
  BY DEF EffectsTypeOK
<1>2. 0 < MaxTries
  BY EffectsAssumption DEF EffectsAssumption
<1>3. CASE \E item \in Items, head \in Heads :
              Len(effects) < MaxEffects /\ enqueue(item, head)
  BY <1>2, <1>3 DEF enqueue, PendingHasAnAttemptLeft, EffectsTypeOK
<1>4. ASSUME NEW x \in DOMAIN effects, NEW w \in Workers, claim(x, w)
      PROVE  PendingHasAnAttemptLeft'
  <2> DEFINE row == [effects[x] EXCEPT !.state = "delivering", !.owner = w, !.ripe = FALSE,
                                  !.attempts = OneMore(effects[x].attempts)]
  <2>1. row.state # "pending"
    BY <1>1 DEF Effect
  <2>2. effects' = [effects EXCEPT ![x] = row]
    BY <1>4 DEF claim
  <2> HIDE DEF row
  <2> QED
    BY <2>1, <2>2, PendingRow
<1>5. ASSUME NEW x \in DOMAIN effects, delivered(x) PROVE PendingHasAnAttemptLeft'
  <2> DEFINE row == [effects[x] EXCEPT !.state = "delivered", !.owner = NoOne]
  <2>1. row.state # "pending"
    BY <1>1 DEF Effect
  <2>2. effects' = [effects EXCEPT ![x] = row]
    BY <1>1, <1>5 DEF delivered, Effect
  <2> HIDE DEF row
  <2> QED
    BY <2>1, <2>2, PendingRow
<1>6. ASSUME NEW x \in DOMAIN effects, NEW transient \in BOOLEAN, failed(x, transient)
      PROVE  PendingHasAnAttemptLeft'
  <2> DEFINE row(state) == [effects[x] EXCEPT !.state = state, !.owner = NoOne, !.ripe = FALSE]
  <2>1. ASSUME NEW state
        PROVE  row(state).state = state /\ row(state).attempts = effects[x].attempts
    BY <1>1 DEF Effect
  <2>2. \/ effects' = [effects EXCEPT ![x] = row("parked")]
        \/ /\ effects' = [effects EXCEPT ![x] = row("pending")]
           /\ effects[x].attempts < MaxTries
    <3>1. CASE Retrying(x, transient)
      <4>1. effects' = [effects EXCEPT ![x] = row("pending")]
        BY <1>1, <1>6, <3>1 DEF failed, Effect
      <4> QED
        BY <3>1, <4>1 DEF Retrying
    <3>2. CASE ~Retrying(x, transient)
      BY <1>1, <1>6, <3>2 DEF failed, Effect
    <3> QED
      BY <3>1, <3>2
  <2> HIDE DEF row
  <2> QED
    BY <2>1, <2>2, PendingRow
<1>7. ASSUME NEW x \in DOMAIN effects, retry(x) PROVE PendingHasAnAttemptLeft'
  <2> DEFINE tries == 0
             row(n) == [effects[x] EXCEPT !.state = "pending", !.attempts = n, !.ripe = TRUE]
  <2>1. ASSUME NEW n PROVE row(n).attempts = n
    BY <1>1 DEF Effect
  <2>2. effects' = [effects EXCEPT ![x] = row(tries)]
    BY <1>7 DEF retry
  <2>3. tries < MaxTries
    BY <1>2
  <2> HIDE DEF row, tries
  <2> QED
    BY <2>1, <2>2, <2>3, PendingRow
<1>8. ASSUME NEW x \in DOMAIN effects, ripen(x) PROVE PendingHasAnAttemptLeft'
  <2> DEFINE row == [effects[x] EXCEPT !.ripe = TRUE]
  <2>1. row.state = effects[x].state /\ row.attempts = effects[x].attempts
    BY <1>1 DEF Effect
  <2>2. effects' = [effects EXCEPT ![x] = row]
    BY <1>1, <1>8 DEF ripen, Effect
  <2>3. row.state = "pending" => row.attempts < MaxTries
    BY <2>1 DEF PendingHasAnAttemptLeft
  <2> HIDE DEF row
  <2> QED
    BY <2>2, <2>3, PendingRow
<1> QED
  BY <1>3, <1>4, <1>5, <1>6, <1>7, <1>8 DEF QueueMove

(***************************************************************************)
(* A row that waits for another attempt has one left: claims count the     *)
(* attempts, a failure asks before it re-queues, and only the operator's   *)
(* retry starts the count again.                                           *)
(***************************************************************************)
THEOREM TheQueueGivesUp == Spec => []PendingHasAnAttemptLeft
<1> DEFINE IInv == Review /\ PendingHasAnAttemptLeft
<1>1. Init => IInv
  BY InitReview DEF Init, EffectsInit, PendingHasAnAttemptLeft
<1>2. IInv /\ [Next]_vars => IInv'
  <2> SUFFICES ASSUME Review, PendingHasAnAttemptLeft, [Next]_vars
               PROVE  Review' /\ PendingHasAnAttemptLeft'
    OBVIOUS
  <2>1. UNCHANGED effects \/ QueueMove
    BY QueueStep DEF Review
  <2>2. EffectsTypeOK
    BY DEF Review, Typing, TypeOK
  <2> QED
    BY <2>1, <2>2, ReviewStep, PendingStep DEF PendingHasAnAttemptLeft
<1>3. IInv => PendingHasAnAttemptLeft
  OBVIOUS
<1> QED
  BY <1>1, <1>2, <1>3, PTL DEF Spec
-----------------------------------------------------------------------------
(* A request is acknowledged for what an agent worked on. *)

\* The request as it stands is one an agent was dispatched for.
Current(i) == intake[i].revision \in worked[i]

\* What a process will acknowledge was worked on as it stands; what it has yet
\* to dispatch it collected as it stands.
Knows(w) ==
    /\ job[w].work \in Work => Current(Item(w))
    /\ \A k \in DOMAIN job[w].queue :
          job[w].queue[k].revision = intake[job[w].queue[k].item].revision
    /\ \A i \in job[w].resumed \cup job[w].unacked : Current(i)

\* So was what is still to be delivered: the drain acknowledges that.
Owed ==
    \A x \in DOMAIN effects : effects[x].state # "delivered" => Current(effects[x].item)

Worked == Review /\ (\A w \in Workers : Knows(w)) /\ Owed /\ AckedRevisionWasWorked

\* A request changes its text only while nobody holds it, or when it first arrives.
LEMMA HeldStands ==
    ASSUME Typing, Considerate, [Next]_vars, NEW i \in Items
    PROVE  /\ worked[i] \subseteq worked'[i]
           /\ \/ intake'[i].revision = intake[i].revision
              \/ ~Held(i)
              \/ intake[i].revision = 0
<1>1. intake \in [Items -> Request] /\ worked \in [Items -> SUBSET (1..MaxRevision)]
  BY DEF Typing, TypeOK, IntakeTypeOK, WorkTypeOK
<1>2. ASSUME NEW j \in Items, acknowledge(j) \/ withdraw(j)
      PROVE  intake'[i].revision = intake[i].revision
  BY <1>1, <1>2 DEF acknowledge, withdraw, Request
<1>3. ASSUME NEW w \in Workers, Step(w)
      PROVE  worked[i] \subseteq worked'[i] /\ intake'[i].revision = intake[i].revision
  <2>1. CASE ack_resumed(w)
    <3>1. job[w].unacked \subseteq Items
      BY DEF Typing, TypeOK, WorkTypeOK, Job
    <3> QED
      BY <1>2, <2>1, <3>1 DEF ack_resumed
  <2>2. CASE ack(w)
    <3>1. Item(w) \in Items
      BY <2>2 DEF ack, Typing, WorkIsThere, Work, Item
    <3> QED
      BY <1>2, <2>2, <3>1 DEF ack
  <2>3. CASE dispatch(w)
    BY <1>1, <2>3 DEF dispatch
  <2>4. CASE ~(ack_resumed(w) \/ ack(w) \/ dispatch(w))
    BY <1>3, <2>4
       DEF Step, start_work, drain_one, drained, collect, refuse, execute, publish_nothing,
           publish, claim_own, release, finish
  <2> QED
    BY <2>1, <2>2, <2>3, <2>4
<1>4. ASSUME NEW w \in Workers, Deliver(w) \/ Crash(w)
      PROVE  UNCHANGED <<intake, worked>>
  BY <1>4 DEF Deliver, create_branch, create_branch_push, push_exists, push, push_verify,
              find_open, open_pull_request, see_opened, call_fails, answer_lost, settle,
              settle_lost, Crash
<1>5. ASSUME NEW j \in Items, Submit(j)
      PROVE  /\ worked' = worked
             /\ \/ intake'[i].revision = intake[i].revision
                \/ ~Held(i)
                \/ intake[i].revision = 0
  <2>1. PICK text \in Texts : (text # intake[j].text => ~Held(j)) /\ submit(j, text)
    BY <1>5 DEF Submit
  <2>2. CASE intake[j].state = "absent"
    <3>1. intake[j].revision = 0
      BY <2>2 DEF Typing, TypeOK, IntakeTypeOK
    <3> QED
      BY <1>1, <1>5, <2>1, <2>2, <3>1 DEF Submit, submit, insert
  <2>3. CASE intake[j].state # "absent"
    <3>1. intake' = [intake EXCEPT ![j].state = "pending", ![j].text = text,
                         ![j].revision = IF text = intake[j].text THEN @ ELSE @ + 1]
      BY <2>1, <2>3 DEF submit, revise
    <3>2. CASE i = j /\ text # intake[j].text
      BY <2>1, <3>2, <1>5 DEF Submit
    <3>3. CASE i # j \/ text = intake[j].text
      BY <1>1, <1>5, <3>1, <3>3 DEF Submit, Request
    <3> QED
      BY <3>2, <3>3
  <2> QED
    BY <2>2, <2>3
<1>6. ASSUME NEW j \in Items, Withdraw(j) \/ Reap(j)
      PROVE  worked' = worked /\ intake'[i].revision = intake[i].revision
  BY <1>2, <1>6 DEF Withdraw, Reap
<1>7. CASE EffectsRetry \/ Close \/ (\E x \in 1..MaxEffects : Ripen(x)) \/ UNCHANGED vars
  BY <1>7 DEF EffectsRetry, Close, Ripen, vars
<1> QED
  BY <1>3, <1>4, <1>5, <1>6, <1>7 DEF Next

\* i as it is now, in the state after the step.
StaysCurrent(i) == intake'[i].revision \in worked'[i]

LEMMA CurrentStays ==
    ASSUME Typing, Considerate, [Next]_vars
    PROVE  \A i \in Items : Held(i) /\ Current(i) => StaysCurrent(i)
<1> SUFFICES ASSUME NEW i \in Items, Held(i), Current(i) PROVE StaysCurrent(i)
  OBVIOUS
<1>1. intake[i].revision # 0
  <2>1. worked[i] \subseteq 1..MaxRevision
    BY DEF Typing, TypeOK, WorkTypeOK
  <2> QED
    BY <2>1, IntakeAssumption DEF IntakeAssumption, Current
<1> QED
  BY <1>1, HeldStands DEF Current, StaysCurrent

\* The items of a process's locals.
LEMMA ItemsOfJob ==
    ASSUME Typing, NEW w \in Workers
    PROVE  /\ job[w].work \in Work => Item(w) \in Items
           /\ \A k \in DOMAIN job[w].queue : job[w].queue[k] \in Work
           /\ job[w].resumed \cup job[w].unacked \subseteq Items
<1>1. job[w] \in Job
  BY DEF Typing, TypeOK, WorkTypeOK
<1>2. job[w].work \in Work => job[w].work.item \in Items
  BY DEF Work
<1>3. job[w].queue \in Seq(Work) /\ job[w].resumed \cup job[w].unacked \subseteq Items
  BY <1>1 DEF Job
<1> QED
  BY <1>2, <1>3 DEF Item

\* A step leaves true what a process knows: it holds all that it knows of.
LEMMA KnownStays ==
    ASSUME Typing, Considerate, [Next]_vars, NEW w \in Workers, Knows(w)
    PROVE  /\ job[w].work \in Work => StaysCurrent(Item(w))
           /\ \A k \in DOMAIN job[w].queue :
                 job[w].queue[k].revision = intake'[job[w].queue[k].item].revision
           /\ \A i \in job[w].resumed \cup job[w].unacked : StaysCurrent(i)
<1>1. ASSUME job[w].work \in Work PROVE StaysCurrent(Item(w))
  <2>1. Item(w) \in Items /\ Held(Item(w)) /\ Current(Item(w))
    BY <1>1, ItemsOfJob DEF Knows, Held
  <2> QED
    BY <2>1, CurrentStays
<1>2. ASSUME NEW k \in DOMAIN job[w].queue
      PROVE  job[w].queue[k].revision = intake'[job[w].queue[k].item].revision
  <2> DEFINE i == job[w].queue[k].item
  <2>1. i \in Items /\ Held(i) /\ job[w].queue[k].revision \in 1..MaxRevision
    BY ItemsOfJob DEF Held, Work
  <2>2. intake[i].revision = job[w].queue[k].revision
    BY DEF Knows
  <2>3. intake[i].revision # 0
    BY <2>1, <2>2, IntakeAssumption DEF IntakeAssumption
  <2>4. \A j \in Items : \/ intake'[j].revision = intake[j].revision
                         \/ ~Held(j)
                         \/ intake[j].revision = 0
    BY HeldStands
  <2> QED
    BY <2>1, <2>2, <2>3, <2>4
<1>3. ASSUME NEW i \in job[w].resumed \cup job[w].unacked PROVE StaysCurrent(i)
  BY ItemsOfJob, CurrentStays DEF Knows, Held
<1> QED
  BY <1>1, <1>2, <1>3

\* Whatever becomes of a process's locals, unless it learns of a request.
LEMMA KnowsNoMore ==
    ASSUME Typing, Considerate, [Next]_vars, NEW w \in Workers, Knows(w),
           NEW new, job'[w] = new,
           new.work \in Work => new.work = job[w].work,
           \A k \in DOMAIN new.queue : \E l \in DOMAIN job[w].queue :
               new.queue[k] = job[w].queue[l],
           new.resumed \cup new.unacked \subseteq job[w].resumed \cup job[w].unacked
    PROVE  Knows(w)'
<1>1. new.work \in Work => intake'[new.work.item].revision \in worked'[new.work.item]
  BY KnownStays DEF StaysCurrent, Item
<1>2. \A k \in DOMAIN new.queue :
          new.queue[k].revision = intake'[new.queue[k].item].revision
  BY KnownStays
<1>3. \A i \in new.resumed \cup new.unacked : intake'[i].revision \in worked'[i]
  BY KnownStays DEF StaysCurrent
<1> QED
  BY <1>1, <1>2, <1>3 DEF Knows, Current, Item

LEMMA KnowsTheSame ==
    ASSUME Typing, Considerate, [Next]_vars, NEW w \in Workers, Knows(w), job'[w] = job[w]
    PROVE  Knows(w)'
BY KnowsNoMore
\* A step of the loop: what it collects it collects as it stands, and what it
\* takes in hand it dispatched.
LEMMA StepKnows ==
    ASSUME Typing, Considerate, [Next]_vars, NEW w \in Workers, Knows(w), Step(w)
    PROVE  Knows(w)'
<1>1. job \in [Workers -> Job] /\ job[w] \in Job
  BY DEF Typing, TypeOK, WorkTypeOK
<1>2. ASSUME NEW new, job' = [job EXCEPT ![w] = new] PROVE job'[w] = new
  BY <1>1, <1>2
<1>a. CASE start_work(w) \/ drain_one(w) \/ publish(w) \/ claim_own(w) \/ ack(w)
  <2>1. /\ job'[w].work \in {job[w].work, NoItem} /\ job'[w].queue = job[w].queue
        /\ job'[w].resumed = job[w].resumed /\ job'[w].unacked = job[w].unacked
    <3>1. CASE start_work(w) \/ publish(w) \/ ack(w)
      BY <1>1, <3>1 DEF start_work, publish, ack, Job
    <3>2. CASE drain_one(w)
      <4>1. PICK x \in job[w].todo :
                \/ job' = [job EXCEPT ![w].todo = @ \ {x}, ![w].row = x]
                \/ job' = [job EXCEPT ![w].todo = @ \ {x}]
        BY <3>2 DEF drain_one
      <4> QED
        BY <1>1, <4>1 DEF Job
    <3>3. CASE claim_own(w)
      BY <1>1, <3>3 DEF claim_own, Job
    <3> QED
      BY <1>a, <3>1, <3>2, <3>3
  <2>2. NoItem \notin Work
    BY WorkItemAssumption DEF WorkItemAssumption, NoItem, Work
  <2> QED
    BY <2>1, <2>2, KnowsNoMore
<1>b. CASE drained(w) \/ ack_resumed(w)
  <2>1. /\ job'[w].work = job[w].work /\ job'[w].queue = job[w].queue
        /\ job'[w].resumed = job[w].resumed
        /\ job'[w].unacked \subseteq job[w].resumed \cup job[w].unacked
    BY <1>1, <1>b DEF drained, ack_resumed, Job
  <2> QED
    BY <2>1, KnowsNoMore
<1>c. CASE collect(w)
  <2>1. PICK order \in SetToSeqs(Pending \ job[w].resumed) :
           job' = [job EXCEPT ![w].resumed = {},
                      ![w].queue = [k \in DOMAIN order |->
                          [item |-> order[k], revision |-> intake[order[k]].revision]]]
    BY <1>c DEF collect
  <2>2. /\ job'[w].work = job[w].work /\ job'[w].resumed = {}
        /\ job'[w].unacked = job[w].unacked
        /\ job'[w].queue = [k \in DOMAIN order |->
               [item |-> order[k], revision |-> intake[order[k]].revision]]
    BY <1>1, <2>1 DEF Job
  <2>3. intake' = intake
    BY <1>c DEF collect
  <2>4. \A k \in DOMAIN job'[w].queue :
            job'[w].queue[k].revision = intake'[job'[w].queue[k].item].revision
    BY <2>2, <2>3
  <2>5. job'[w].work \in Work => intake'[job'[w].work.item].revision \in worked'[job'[w].work.item]
    BY <2>2, KnownStays DEF StaysCurrent, Item
  <2>6. \A i \in job'[w].resumed \cup job'[w].unacked : intake'[i].revision \in worked'[i]
    BY <2>2, KnownStays DEF StaysCurrent
  <2> QED
    BY <2>4, <2>5, <2>6 DEF Knows, Current, Item
<1>d. CASE refuse(w) \/ dispatch(w)
  <2>1. job[w].queue # <<>>
    BY <1>d DEF refuse, dispatch
  <2>2. job[w].queue \in Seq(Work)
    BY <1>1 DEF Job
  <2>3. /\ 1 \in DOMAIN job[w].queue /\ Head(job[w].queue) = job[w].queue[1]
        /\ \A k \in DOMAIN Tail(job[w].queue) :
              /\ k + 1 \in DOMAIN job[w].queue
              /\ Tail(job[w].queue)[k] = job[w].queue[k + 1]
    BY <2>1, <2>2
  <2>4. /\ job'[w].queue = Tail(job[w].queue)
        /\ job'[w].resumed = job[w].resumed /\ job'[w].unacked = job[w].unacked
        /\ job'[w].work \in {job[w].work, Head(job[w].queue)}
        /\ job'[w].work # job[w].work => dispatch(w)
    BY <1>1, <1>d DEF refuse, dispatch, Job
  <2>5. CASE job'[w].work = job[w].work
    <3>1. \A k \in DOMAIN job'[w].queue : \E l \in DOMAIN job[w].queue :
              job'[w].queue[k] = job[w].queue[l]
      BY <2>3, <2>4
    <3> QED
      BY <2>4, <2>5, <3>1, KnowsNoMore
  <2>6. CASE job'[w].work = Head(job[w].queue) /\ dispatch(w)
    <3> DEFINE work == job[w].queue[1]
    <3>1. work \in Work
      BY <2>3, ItemsOfJob
    <3>2. work.revision = intake'[work.item].revision
      BY <2>3, KnownStays
    <3>3. worked' = [worked EXCEPT ![work.item] = @ \cup {work.revision}]
      BY <2>3, <2>6 DEF dispatch
    <3>4. work.item \in Items /\ worked \in [Items -> SUBSET (1..MaxRevision)]
      BY <3>1 DEF Work, Typing, TypeOK, WorkTypeOK
    <3>5. intake'[job'[w].work.item].revision \in worked'[job'[w].work.item]
      BY <2>3, <2>6, <3>2, <3>3, <3>4
    <3>6. \A k \in DOMAIN job'[w].queue :
              job'[w].queue[k].revision = intake'[job'[w].queue[k].item].revision
      BY <2>3, <2>4, KnownStays
    <3>7. \A i \in job'[w].resumed \cup job'[w].unacked : intake'[i].revision \in worked'[i]
      BY <2>4, KnownStays DEF StaysCurrent
    <3> QED
      BY <3>5, <3>6, <3>7 DEF Knows, Current, Item
  <2> QED
    BY <2>4, <2>5, <2>6
<1>e. CASE execute(w) \/ publish_nothing(w) \/ release(w) \/ finish(w)
  BY <1>e, KnowsTheSame DEF execute, publish_nothing, release, finish
<1> QED
  BY <1>a, <1>b, <1>c, <1>d, <1>e DEF Step

\* A process that is gone knows nothing.
LEMMA LeaveKnows ==
    ASSUME Typing, NEW w \in Workers, NEW place, Leave(w, place)
    PROVE  Knows(w)'
<1>1. job'[w] = NoJob
  BY DEF Leave, Typing, TypeOK, WorkTypeOK
<1>2. NoItem \notin Work
  BY WorkItemAssumption DEF WorkItemAssumption, NoItem, Work
<1> QED
  BY <1>1, <1>2 DEF Knows, NoJob

\* A settlement of the drain learns of one request, which was worked on: its
\* publication was still to be delivered.
LEMMA DeliverKnows ==
    ASSUME Typing, Considerate, Owed, [Next]_vars, NEW w \in Workers, Knows(w), Deliver(w)
    PROVE  Knows(w)'
<1>1. job \in [Workers -> Job] /\ job[w] \in Job
  BY DEF Typing, TypeOK, WorkTypeOK
<1>2. CASE settle(w)
  <2>1. /\ job'[w].work = job[w].work /\ job'[w].queue = job[w].queue
        /\ job'[w].unacked = job[w].unacked
        /\ job'[w].resumed \subseteq job[w].resumed \cup {Row(w).item}
    BY <1>1, <1>2 DEF settle, Settled, Job
  <2>2. /\ Row(w).item \in Items /\ job[w].row \in DOMAIN effects
        /\ effects[job[w].row].state # "delivered"
    BY <1>2, RowInHand DEF settle, owned, Busy
  <2>3. Held(Row(w).item) /\ Current(Row(w).item)
    BY <2>2 DEF Held, Owed, Row
  <2>4. StaysCurrent(Row(w).item)
    BY <2>2, <2>3, CurrentStays
  <2>5. \A i \in job'[w].resumed \cup job'[w].unacked : intake'[i].revision \in worked'[i]
    BY <2>1, <2>4, KnownStays DEF StaysCurrent
  <2>6. /\ job'[w].work \in Work =>
               intake'[job'[w].work.item].revision \in worked'[job'[w].work.item]
        /\ \A k \in DOMAIN job'[w].queue :
               job'[w].queue[k].revision = intake'[job'[w].queue[k].item].revision
    BY <2>1, KnownStays DEF StaysCurrent, Item
  <2> QED
    BY <2>5, <2>6 DEF Knows, Current, Item
<1>3. CASE settle_lost(w)
  BY <1>3, LeaveKnows DEF settle_lost
<1>4. CASE ~(settle(w) \/ settle_lost(w))
  <2>1. /\ job'[w].work = job[w].work /\ job'[w].queue = job[w].queue
        /\ job'[w].unacked = job[w].unacked /\ job'[w].resumed = job[w].resumed
    BY <1>1, <1>4
       DEF Deliver, create_branch, create_branch_push, push_exists, push, push_verify,
           find_open, open_pull_request, see_opened, call_fails, answer_lost, Settling,
           Pushes, Job
  <2> QED
    BY <2>1, KnowsNoMore
<1> QED
  BY <1>2, <1>3, <1>4
LEMMA EverybodyKnows ==
    ASSUME Worked, Considerate, [Next]_vars, NEW v \in Workers
    PROVE  Knows(v)'
<1> USE DEF Worked, Review
<1>1. Typing /\ Knows(v) /\ OnItsWay /\ Owed
  OBVIOUS
<1>2. ASSUME NEW w \in Workers, Step(w) \/ Deliver(w) PROVE Knows(v)'
  <2>1. CASE v = w
    BY <1>1, <1>2, <2>1, StepKnows, DeliverKnows
  <2>2. CASE v # w
    <3>1. RowsStand
      BY <1>1, StoresStep
    <3>2. OnlyMine(w)
      BY <1>1, <1>2, <3>1, StepHolds, DeliverHolds
    <3>3. job'[v] = job[v]
      BY <1>1, <2>2, <3>2 DEF OnlyMine, Typing, TypeOK, WorkTypeOK
    <3> QED
      BY <1>1, <3>3, KnowsTheSame
  <2> QED
    BY <2>1, <2>2
<1>3. ASSUME NEW w \in Workers, Crash(w) PROVE Knows(v)'
  <2>1. PICK place : Leave(w, place)
    BY <1>3 DEF Crash
  <2>2. CASE v = w
    BY <1>1, <2>1, <2>2, LeaveKnows
  <2>3. CASE v # w
    <3>1. job'[v] = job[v]
      BY <1>1, <2>1, <2>3 DEF Leave, Typing, TypeOK, WorkTypeOK
    <3> QED
      BY <1>1, <3>1, KnowsTheSame
  <2> QED
    BY <2>2, <2>3
<1>4. CASE job' = job
  BY <1>1, <1>4, KnowsTheSame
<1>5. \/ \E w \in Workers : Step(w) \/ Deliver(w) \/ Crash(w)
      \/ job' = job
  BY DEF Next, Submit, Withdraw, Reap, Ripen, EffectsRetry, Close, vars
<1> QED
  BY <1>2, <1>3, <1>4, <1>5

\* What is recorded was worked on, and it is held until it is delivered.
LEMMA OwedStays ==
    ASSUME Worked, Considerate, [Next]_vars
    PROVE  Owed'
<1> USE DEF Worked, Review
<1>1. Typing /\ Owed /\ EffectsTypeOK /\ OnItsWay
  BY DEF Typing, TypeOK
<1>2. RowsStand
  BY <1>1, StoresStep
<1> SUFFICES ASSUME NEW x \in DOMAIN effects', effects'[x].state # "delivered"
             PROVE  StaysCurrent(effects'[x].item)
  BY DEF Owed, Current, StaysCurrent
<1>3. ASSUME x \in DOMAIN effects, effects[x].state # "delivered"
      PROVE  StaysCurrent(effects'[x].item)
  <2>1. effects'[x].item = effects[x].item
    BY <1>2, <1>3 DEF RowsStand
  <2>2. effects[x] \in Effect
    BY <1>1, <1>3 DEF EffectsTypeOK
  <2>3. effects[x].item \in Items /\ Held(effects[x].item) /\ Current(effects[x].item)
    BY <1>1, <1>3, <2>2 DEF Effect, Held, Owed
  <2> QED
    BY <1>1, <2>1, <2>3, CurrentStays
<1>4. CASE UNCHANGED effects
  BY <1>3, <1>4
<1>5. ASSUME NEW item \in Items, NEW head \in Heads, Carried(item), enqueue(item, head)
      PROVE  StaysCurrent(effects'[x].item)
  <2>1. PICK w \in Workers : job[w].work \in Work /\ Item(w) = item
    BY <1>5 DEF Carried
  <2>2. StaysCurrent(item)
    BY <1>1, <2>1, KnownStays
  <2>3. \/ x \in DOMAIN effects /\ effects'[x] = effects[x]
        \/ effects'[x].item = item
    BY <1>1, <1>5 DEF enqueue, EffectsTypeOK
  <2> QED
    BY <1>3, <2>2, <2>3
<1>6. ASSUME NEW y \in DOMAIN effects, NEW state, Settles(y, state),
             state # "delivered" => effects[y].state # "delivered"
      PROVE  StaysCurrent(effects'[x].item)
  BY <1>3, <1>6 DEF Settles
<1>7. ASSUME NEW y \in DOMAIN effects,
             \/ IsDue(y) /\ \E w \in Workers : claim(y, w)
             \/ delivered(y)
             \/ effects[y].state = "delivering" /\ \E transient \in BOOLEAN : failed(y, transient)
             \/ retry(y)
             \/ ripen(y)
      PROVE  StaysCurrent(effects'[x].item)
  <2>1. CASE IsDue(y) /\ \E w \in Workers : claim(y, w)
    BY <1>1, <1>6, <2>1, ClaimSettles DEF IsDue, Outstanding
  <2>2. CASE delivered(y)
    BY <1>1, <1>6, <2>2, DeliveredSettles
  <2>3. CASE effects[y].state = "delivering" /\ \E transient \in BOOLEAN : failed(y, transient)
    BY <1>1, <1>6, <2>3, FailedSettles
  <2>4. CASE retry(y)
    BY <1>1, <1>6, <2>4, RetrySettles
  <2>5. CASE ripen(y)
    BY <1>1, <1>6, <2>5, RipenSettles
  <2> QED
    BY <1>7, <2>1, <2>2, <2>3, <2>4, <2>5
<1>8. UNCHANGED effects \/ QueueMove
  BY <1>1, QueueStep
<1> QED
  BY <1>4, <1>5, <1>7, <1>8 DEF QueueMove

\* The transactions on the requests.
LEMMA WhoMovesIntake ==
    ASSUME [Next]_vars
    PROVE  \/ \E w \in Workers : ack_resumed(w) \/ ack(w)
           \/ \E j \in Items : Submit(j) \/ Withdraw(j)
           \/ intake' = intake
<1>1. ASSUME NEW w \in Workers, Step(w) \/ Deliver(w) \/ Crash(w)
      PROVE  ack_resumed(w) \/ ack(w) \/ intake' = intake
  BY <1>1 DEF Step, start_work, drain_one, drained, collect, refuse, dispatch, execute,
              publish_nothing, publish, claim_own, release, finish, Deliver, create_branch,
              create_branch_push, push_exists, push, push_verify, find_open,
              open_pull_request, see_opened, call_fails, answer_lost, settle, settle_lost,
              Crash
<1> QED
  BY <1>1 DEF Next, Reap, Ripen, EffectsRetry, Close, vars

\* The two acknowledgements are of what their process knows.
LEMMA AckedStays ==
    ASSUME Worked, Considerate, [Next]_vars
    PROVE  AckedRevisionWasWorked'
<1> USE DEF Worked, Review
<1>1. Typing /\ intake \in [Items -> Request]
  BY DEF Typing, TypeOK, IntakeTypeOK
<1>2. \A i \in Items : worked[i] \subseteq worked'[i]
  BY <1>1, HeldStands
<1> SUFFICES ASSUME NEW i \in Items, intake'[i].acked # 0
             PROVE  intake'[i].acked \in worked'[i]
  BY DEF AckedRevisionWasWorked
<1>3. ASSUME intake'[i].acked = intake[i].acked PROVE intake'[i].acked \in worked'[i]
  BY <1>2, <1>3 DEF AckedRevisionWasWorked
<1>4. ASSUME NEW j \in Items, Current(j), acknowledge(j)
      PROVE  intake'[i].acked \in worked'[i]
  <2>1. intake'[i].acked = intake[i].acked \/ (i = j /\ intake'[i].acked = intake[j].revision)
    BY <1>1, <1>4 DEF acknowledge, Request
  <2> QED
    BY <1>2, <1>3, <1>4, <2>1 DEF Current
<1>5. ASSUME NEW w \in Workers, ack_resumed(w) PROVE intake'[i].acked \in worked'[i]
  <2>1. PICK j \in job[w].unacked : acknowledge(j)
    BY <1>5 DEF ack_resumed
  <2>2. j \in Items /\ Current(j)
    BY <1>1, ItemsOfJob DEF Knows
  <2> QED
    BY <1>4, <2>1, <2>2
<1>6. ASSUME NEW w \in Workers, ack(w) PROVE intake'[i].acked \in worked'[i]
  <2>1. job[w].work \in Work
    BY <1>1, <1>6 DEF ack, Typing, WorkIsThere
  <2>2. Item(w) \in Items /\ Current(Item(w)) /\ acknowledge(Item(w))
    BY <1>1, <1>6, <2>1, ItemsOfJob DEF ack, Knows
  <2> QED
    BY <1>4, <2>2
<1>7. ASSUME NEW j \in Items, Submit(j) \/ Withdraw(j) PROVE intake'[i].acked \in worked'[i]
  <2>1. intake'[i].acked \in {intake[i].acked, 0}
    <3>1. CASE Withdraw(j)
      BY <1>1, <3>1 DEF Withdraw, withdraw, Request
    <3>2. CASE Submit(j)
      <4>1. PICK text \in Texts : submit(j, text)
        BY <3>2 DEF Submit
      <4>2. CASE insert(j, text)
        BY <1>1, <4>2 DEF insert
      <4>3. CASE revise(j, text)
        BY <1>1, <4>3 DEF revise, Request
      <4> QED
        BY <4>1, <4>2, <4>3 DEF submit
    <3> QED
      BY <1>7, <3>1, <3>2
  <2> QED
    BY <1>3, <2>1
<1> QED
  BY <1>3, <1>5, <1>6, <1>7, WhoMovesIntake

LEMMA InitWorked == Init => Worked
<1> SUFFICES ASSUME Init PROVE Worked
  OBVIOUS
<1>1. Review
  BY InitReview
<1>2. NoItem \notin Work
  BY WorkItemAssumption DEF WorkItemAssumption, NoItem, Work
<1>3. \A w \in Workers : Knows(w)
  BY <1>2 DEF Init, Knows, NoJob
<1>4. Owed
  BY DEF Init, EffectsInit, Owed
<1>5. AckedRevisionWasWorked
  BY DEF Init, IntakeInit, AckedRevisionWasWorked
<1> QED
  BY <1>1, <1>3, <1>4, <1>5 DEF Worked

(***************************************************************************)
(* No request leaves the queue because of work on another one or on an     *)
(* earlier text: where people wait with a new text until nothing holds the *)
(* request (run amendment_lost shows what happens where they do not), the  *)
(* revision a request is acknowledged at is one an agent was dispatched    *)
(* for, however many processes drain, crash and retry meanwhile.           *)
(***************************************************************************)
THEOREM AcknowledgedIsWorked ==
    ASSUME Considerate
    PROVE  Spec => []AckedRevisionWasWorked
<1>1. Worked /\ [Next]_vars => Worked'
  <2> SUFFICES ASSUME Worked, [Next]_vars PROVE Worked'
    OBVIOUS
  <2>1. Review'
    BY ReviewStep DEF Worked
  <2> QED
    BY <2>1, EverybodyKnows, OwedStays, AckedStays DEF Worked
<1>2. Worked => AckedRevisionWasWorked
  BY DEF Worked
<1> QED
  BY <1>1, <1>2, InitWorked, PTL DEF Spec

-----------------------------------------------------------------------------
(***************************************************************************)
(* A request that was taken back stays back until it is submitted again:   *)
(* an acknowledgement looks at the state it finds, whatever its run began  *)
(* with.  Needs no more than the types, and holds for any texts, any       *)
(* number of processes, and whether people wait or not.                    *)
(***************************************************************************)
THEOREM TakenBackStaysBack == Spec => WithdrawalStands
<1> DEFINE Stands == \A i \in Items : intake[i].state = "withdrawn" =>
                          intake'[i].state \in {"withdrawn", "pending"}
<1>1. Typing /\ [Next]_vars => [Stands]_vars
  <2> SUFFICES ASSUME Typing, Next PROVE Stands
    OBVIOUS
  <2>1. intake \in [Items -> Request]
    BY DEF Typing, TypeOK, IntakeTypeOK
  <2>2. ASSUME NEW j \in Items, acknowledge(j) PROVE Stands
    BY <2>1, <2>2 DEF acknowledge, Request
  <2>3. ASSUME NEW j \in Items, Submit(j) \/ Withdraw(j) PROVE Stands
    BY <2>1, <2>3, ZenonT(40) DEF Submit, submit, insert, revise, Withdraw, withdraw, Request
  <2>4. ASSUME NEW w \in Workers, ack_resumed(w) \/ ack(w) PROVE Stands
    <3>1. job[w].unacked \subseteq Items
      BY ItemsOfJob
    <3>2. ack(w) => Item(w) \in Items
      BY ItemsOfJob DEF ack, Typing, WorkIsThere
    <3> QED
      BY <2>2, <2>4, <3>1, <3>2 DEF ack_resumed, ack
  <2>5. CASE intake' = intake
    BY <2>5
  <2> QED
    BY <2>3, <2>4, <2>5, WhoMovesIntake
<1>2. Init => Typing
  BY InitTyping
<1>3. Typing /\ [Next]_vars => Typing'
  BY NextTyping
<1> QED
  BY <1>1, <1>2, <1>3, PTL DEF Spec, WithdrawalStands

-----------------------------------------------------------------------------
(***************************************************************************)
(* What the requests are of which RequestPromise speaks.                   *)
(***************************************************************************)
Listed(row) == IF row.state = "absent" THEN [is |-> "absent"]
               ELSE [is |-> row.state, says |-> row.text, version |-> row.revision,
                     taken |-> row.acked]
Asked == [i \in Items |-> Listed(intake[i])]

\* The row of one request becomes another.
LEMMA OneRow ==
    ASSUME intake \in [Items -> Request], NEW i \in Items, NEW row,
           intake' = [intake EXCEPT ![i] = row]
    PROVE  /\ Asked' = [Asked EXCEPT ![i] = Listed(row)]
           /\ Asked[i] = Listed(intake[i])
BY DEF Asked

LEMMA SubmittedIsPromised ==
    ASSUME intake \in [Items -> Request], NEW i \in Items, NEW text \in Texts, submit(i, text)
    PROVE  Queued!QueueNext
<1> DEFINE row == intake[i]
<1>1. row \in Request
  OBVIOUS
<1>2. CASE row.state = "absent"
  <2> DEFINE new == [state |-> "pending", text |-> text, revision |-> 1, acked |-> 0]
  <2>1. intake' = [intake EXCEPT ![i] = new]
    BY <1>2 DEF submit, insert
  <2>2. Asked' = [Asked EXCEPT ![i] = Listed(new)] /\ Asked[i] = Listed(row)
    BY <2>1, OneRow
  <2>3. Listed(new) = [is |-> "pending", says |-> text, version |-> 1, taken |-> 0]
    BY DEF Listed
  <2>4. Asked[i].is = "absent"
    BY <1>2, <2>2 DEF Listed
  <2> HIDE DEF new
  <2>5. Queued!First(i, text)
    BY <2>2, <2>3, <2>4 DEF Queued!First, Queued!Becomes, Asked, Listed
  <2> QED
    BY <2>5, Zenon DEF Queued!QueueNext
<1>3. CASE row.state # "absent"
  <2> DEFINE newer == IF text = row.text THEN row.revision ELSE row.revision + 1
             new == [row EXCEPT !.state = "pending", !.text = text, !.revision = newer]
  <2>1. (text # row.text \/ row.state = "withdrawn") /\ intake' = [intake EXCEPT ![i] = new]
    BY <1>3 DEF submit, revise, Redelivery
  <2>2. Asked' = [Asked EXCEPT ![i] = Listed(new)] /\ Asked[i] = Listed(row)
    BY <2>1, OneRow
  <2>3. /\ new.state = "pending" /\ new.text = text /\ new.revision = newer
        /\ new.acked = row.acked
    BY <1>1 DEF Request
  <2>4. /\ Asked[i] = [is |-> row.state, says |-> row.text, version |-> row.revision,
                       taken |-> row.acked]
        /\ Listed(new) = [is |-> "pending", says |-> text, version |-> newer, taken |-> row.acked]
    <3> HIDE DEF new, newer
    <3> QED
      BY <1>3, <2>2, <2>3 DEF Listed
  <2> HIDE DEF new
  <2>5. CASE text # row.text
    <3>1. Queued!Amended(i, text)
      BY <1>3, <2>2, <2>4, <2>5 DEF Queued!Amended, Queued!Becomes, Asked, Listed
    <3> QED
      BY <3>1, Zenon DEF Queued!QueueNext
  <2>6. CASE text = row.text
    <3>1. Queued!Reopened(i)
      BY <1>3, <2>1, <2>2, <2>4, <2>6 DEF Queued!Reopened, Queued!Becomes, Asked, Listed
    <3> QED
      BY <3>1, Zenon DEF Queued!QueueNext
  <2> QED
    BY <2>5, <2>6
<1> QED
  BY <1>2, <1>3

LEMMA WithdrawnIsPromised ==
    ASSUME intake \in [Items -> Request], NEW i \in Items, withdraw(i)
    PROVE  Queued!QueueNext
<1> DEFINE row == intake[i]
           new == [row EXCEPT !.state = "withdrawn"]
<1>1. row \in Request /\ row.state # "absent" /\ intake' = [intake EXCEPT ![i] = new]
  BY DEF withdraw
<1>2. Asked' = [Asked EXCEPT ![i] = Listed(new)] /\ Asked[i] = Listed(row)
  BY <1>1, OneRow
<1>3. /\ Asked[i] = [is |-> row.state, says |-> row.text, version |-> row.revision,
                     taken |-> row.acked]
      /\ Listed(new) = [is |-> "withdrawn", says |-> row.text, version |-> row.revision,
                        taken |-> row.acked]
  BY <1>1, <1>2 DEF Listed, Request
<1> HIDE DEF new
<1>4. Queued!TakenBack(i)
  BY <1>1, <1>2, <1>3 DEF Queued!TakenBack, Queued!Becomes, Asked, Listed
<1> QED
  BY <1>4, Zenon DEF Queued!QueueNext

LEMMA AcknowledgedIsPromised ==
    ASSUME intake \in [Items -> Request], NEW i \in Items, acknowledge(i)
    PROVE  Queued!QueueNext \/ intake' = intake
<1> DEFINE row == intake[i]
           new == [row EXCEPT !.state = "acknowledged", !.acked = row.revision]
<1>1. CASE row.state # "pending"
  BY <1>1 DEF acknowledge
<1>2. CASE row.state = "pending"
  <2>1. row \in Request /\ intake' = [intake EXCEPT ![i] = new]
    BY <1>2 DEF acknowledge
  <2>2. Asked' = [Asked EXCEPT ![i] = Listed(new)] /\ Asked[i] = Listed(row)
    BY <2>1, OneRow
  <2>3. /\ Asked[i] = [is |-> "pending", says |-> row.text, version |-> row.revision,
                       taken |-> row.acked]
        /\ Listed(new) = [is |-> "acknowledged", says |-> row.text, version |-> row.revision,
                          taken |-> row.revision]
    BY <1>2, <2>1, <2>2 DEF Listed, Request
  <2> HIDE DEF new
  <2>4. Queued!HandedOver(i)
    BY <2>2, <2>3 DEF Queued!HandedOver, Queued!Becomes, Asked, Listed
  <2> QED
    BY <2>4, Zenon DEF Queued!QueueNext
<1> QED
  BY <1>1, <1>2

(***************************************************************************)
(* Each request of the work loop is queued, handed over and taken back as  *)
(* RequestPromise says, whichever of any number of processes acknowledges  *)
(* it, however late, and whoever submits and withdraws it meanwhile.       *)
(***************************************************************************)
THEOREM TheQueueKeepsItsPromise == Spec => RequestsKeepTheirPromise
<1>1. Init => Queued!PromiseInit
  BY DEF Init, IntakeInit, Queued!PromiseInit, Queued!Absent
<1>2. Typing /\ [Next]_vars => [Queued!QueueNext]_Asked
  <2> SUFFICES ASSUME Typing, [Next]_vars PROVE Queued!QueueNext \/ Asked' = Asked
    OBVIOUS
  <2>1. intake \in [Items -> Request]
    BY DEF Typing, TypeOK, IntakeTypeOK
  <2>2. ASSUME NEW i \in Items, Submit(i) \/ Withdraw(i) PROVE Queued!QueueNext
    BY <2>1, <2>2, SubmittedIsPromised, WithdrawnIsPromised DEF Submit, Withdraw
  <2>3. ASSUME NEW w \in Workers, ack_resumed(w) \/ ack(w)
        PROVE  Queued!QueueNext \/ intake' = intake
    <3>1. PICK i \in Items : acknowledge(i)
      <4>1. job[w].unacked \subseteq Items
        BY ItemsOfJob
      <4>2. ack(w) => Item(w) \in Items
        BY ItemsOfJob DEF ack, Typing, WorkIsThere
      <4> QED
        BY <2>3, <4>1, <4>2 DEF ack_resumed, ack
    <3> QED
      BY <2>1, <3>1, AcknowledgedIsPromised
  <2>4. intake' = intake => Asked' = Asked
    BY DEF Asked
  <2> QED
    BY <2>2, <2>3, <2>4, WhoMovesIntake, Zenon
<1>3. Typing /\ [Next]_vars => Typing'
  BY NextTyping
<1>4. Init => Typing
  BY InitTyping
<1> QED
  BY <1>1, <1>2, <1>3, <1>4, PTL
  DEF Spec, RequestsKeepTheirPromise, Queued!QueueSpec, Asked, Listed
=============================================================================
