--------------------------- MODULE Services_proofs ---------------------------
(***************************************************************************)
(* Proofs about what the control plane does around its runs, one machine   *)
(* after the other.  Each machine gets an invariant of its own, which no   *)
(* other disturbs.                                                         *)
(***************************************************************************)
EXTENDS Services, FiniteSetTheorems, SequenceTheorems, WellFoundedInduction, TLAPS

(***************************************************************************)
(* Upgrade: whoever dies while others open an older database and settle    *)
(* what is in it.                                                          *)
(***************************************************************************)
Where(p) == process[p].in

Places == {Migration!Closed, Migration!Open}
            \cup [in : {"migrate"}, from : 0 .. NewestSchema]
            \cup [in : {"audit", "send", "sent"}, run : Runs]
            \cup [in : {"replay"}, letters : SUBSET Records, mended : SUBSET Records]
            \cup [in : {"discard"}, letter : Records, letters : SUBSET Records,
                  mended : SUBSET Records]

UpgradeTypes ==
    /\ version \in 0 .. NewestSchema /\ process \in [Processes -> Places]
    /\ pulls \in [Runs -> 0 .. 1] /\ publication \in [Runs -> {"pending", "refused", "published"}]
    /\ log \in Seq(Records) /\ parked \subseteq Records

\* Nobody is refused or fails to open (Places has no such place), and no process has read
\* a version that was not there yet.
SchemaIsWhole ==
    /\ tables = 1 .. version
    /\ \A p \in Processes :
         /\ Where(p) = "migrate" => process[p].from <= version
         /\ Where(p) \notin {"closed", "migrate"} => version = NewestSchema

SentIsReviewed ==
    /\ \A p \in Processes :
         /\ Where(p) \in {"send", "sent"} => process[p].run \notin Unreviewable
         /\ Where(p) = "sent" => pulls[process[p].run] = 1
    /\ Migration!LegacyIsDeliveredOnce

\* A letter is thrown away when its record is in the log.
DiscardedIsLogged ==
    /\ IsFiniteSet(Migration!Logged) /\ Cardinality(Migration!Logged) = Len(log)
    /\ \A p \in Processes : Where(p) = "discard" => process[p].letter \in Migration!Logged

UpgradeInv == UpgradeTypes /\ SchemaIsWhole /\ SentIsReviewed /\ DiscardedIsLogged

LEMMA UpgradeConstants ==
    NewestSchema \in Nat /\ Unreviewable \subseteq Runs /\ Malformed \subseteq Records
BY ServicesAssumption DEF Migration!UpgradeAssumption

LEMMA UpgradeInit == Init => UpgradeInv
<1> SUFFICES ASSUME Migration!Init PROVE UpgradeInv
  BY DEF Init
<1>1. UpgradeTypes
  BY DEF UpgradeTypes, Places, Migration!Init
<1>2. SchemaIsWhole
  BY DEF SchemaIsWhole, Where, Migration!Init, Migration!Closed
<1>3. SentIsReviewed
  BY DEF SentIsReviewed, Where, Migration!Init, Migration!Closed, Migration!LegacyIsDeliveredOnce
<1>4. Migration!Logged = {} /\ Len(log) = 0
  BY DEF Migration!Init, Migration!Logged
<1>5. DiscardedIsLogged
  BY <1>4, FS_EmptySet DEF DiscardedIsLogged, Where, Migration!Init, Migration!Closed
<1> QED
  BY <1>1, <1>2, <1>3, <1>5 DEF UpgradeInv

LEMMA Stored ==
    ASSUME UpgradeTypes, DiscardedIsLogged, NEW id \in Records, Migration!Stores(id)
    PROVE  /\ log' \in Seq(Records) /\ Migration!Logged' = Migration!Logged \cup {id}
           /\ IsFiniteSet(Migration!Logged') /\ Cardinality(Migration!Logged') = Len(log')
<1>1. CASE id \in Migration!Logged
  <2>1. log' = log
    BY <1>1 DEF Migration!Stores
  <2>2. Migration!Logged' = Migration!Logged
    BY <2>1 DEF Migration!Logged
  <2> QED
    BY <1>1, <2>1, <2>2 DEF UpgradeTypes, DiscardedIsLogged
<1>2. CASE id \notin Migration!Logged
  <2>1. log' = Append(log, id) /\ log \in Seq(Records)
    BY <1>2 DEF UpgradeTypes, Migration!Stores
  <2>2. /\ Migration!Logged' = Migration!Logged \cup {id}
        /\ Len(log') = Len(log) + 1 /\ log' \in Seq(Records)
    BY <2>1 DEF Migration!Logged
  <2> QED
    BY <1>2, <2>2, FS_AddElement DEF DiscardedIsLogged
<1> QED
  BY <1>1, <1>2

LEMMA UpgradeTypesStep ==
    ASSUME UpgradeTypes, SchemaIsWhole, DiscardedIsLogged, Migration!Next
    PROVE  UpgradeTypes'
<1> USE UpgradeConstants
    DEF UpgradeTypes, Places, Migration!Closed, Migration!Open, Migration!Goes, Migration!Database,
        Migration!Letters, Migration!Legacy, Migration!Apart, Migration!Alone
<1>1. ASSUME NEW p \in Processes, Migration!Connect(p) PROVE UpgradeTypes'
  BY <1>1 DEF Migration!Connect
<1>2. ASSUME NEW p \in Processes, Migration!Migrate(p) PROVE UpgradeTypes'
  <2>1. version' \in 0 .. NewestSchema
    BY <1>2 DEF Migration!Migrate, Migration!Applies
  <2>2. process[p].from + 1 \in 0 .. NewestSchema \/ process[p].from = NewestSchema
    BY <1>2 DEF Migration!Migrate
  <2>3. process' \in [Processes -> Places]
    BY <1>2, <2>2 DEF Migration!Migrate, Migration!Applies, SchemaIsWhole, Where
  <2> QED
    BY <1>2, <2>1, <2>3 DEF Migration!Migrate
<1>3. ASSUME NEW p \in Processes, Migration!Audit(p) PROVE UpgradeTypes'
  BY <1>3 DEF Migration!Audit, Migration!Settle
<1>4. ASSUME NEW p \in Processes, Migration!Send(p) PROVE UpgradeTypes'
  BY <1>4 DEF Migration!Send
<1>5. ASSUME NEW p \in Processes, Migration!Published(p) PROVE UpgradeTypes'
  BY <1>5 DEF Migration!Published, Migration!Settle
<1>6. ASSUME NEW p \in Processes, Migration!SendFails(p) PROVE UpgradeTypes'
  BY <1>6 DEF Migration!SendFails, Migration!Settle, Migration!Faults
<1>7. ASSUME NEW p \in Processes, Migration!Die(p) PROVE UpgradeTypes'
  BY <1>7 DEF Migration!Die
<1>8. ASSUME NEW p \in Processes, Migration!Retry(p) PROVE UpgradeTypes'
  BY <1>8 DEF Migration!Retry, Migration!Rest
<1>9. ASSUME NEW p \in Processes, Migration!ReplayStores(p) PROVE UpgradeTypes'
  <2>1. PICK id \in Records : Migration!Mends(p, id) /\ Migration!Stores(id)
    BY <1>9 DEF Migration!ReplayStores
  <2>2. log' \in Seq(Records)
    BY <2>1, Stored
  <2>3. process' \in [Processes -> Places]
    BY <2>1 DEF Migration!Mends
  <2> QED
    BY <1>9, <2>2, <2>3 DEF Migration!ReplayStores
<1>10. ASSUME NEW p \in Processes, Migration!Discard(p) PROVE UpgradeTypes'
  BY <1>10 DEF Migration!Discard, Migration!Rest
<1>11. ASSUME NEW p \in Processes, NEW run \in Runs, Migration!Attempt(p, run) PROVE UpgradeTypes'
  BY <1>11 DEF Migration!Attempt
<1>12. ASSUME NEW p \in Processes, NEW record \in Records, Migration!Submit(p, record)
       PROVE  UpgradeTypes'
  <2>1. log' \in Seq(Records)
    BY <1>12, Stored DEF Migration!Submit
  <2> QED
    BY <1>12, <2>1 DEF Migration!Submit
<1>13. ASSUME NEW p \in Processes, NEW mended \in SUBSET Malformed, Migration!Replay(p, mended)
       PROVE  UpgradeTypes'
  BY <1>13 DEF Migration!Replay
<1> QED
  BY <1>1, <1>2, <1>3, <1>4, <1>5, <1>6, <1>7, <1>8, <1>9, <1>10, <1>11, <1>12, <1>13
  DEF Migration!Next, Migration!Opens, Migration!Drains

LEMMA SchemaStep ==
    ASSUME UpgradeTypes, SchemaIsWhole, Migration!Next
    PROVE  SchemaIsWhole'
<1> USE UpgradeConstants
    DEF UpgradeTypes, SchemaIsWhole, Where, Places, Migration!Closed, Migration!Open, Migration!Goes,
        Migration!Database, Migration!Letters, Migration!Legacy, Migration!Apart, Migration!Alone
<1>1. ASSUME NEW p \in Processes, Migration!Connect(p) PROVE SchemaIsWhole'
  BY <1>1 DEF Migration!Connect
<1>2. ASSUME NEW p \in Processes, Migration!Migrate(p) PROVE SchemaIsWhole'
  <2>1. process[p].from \in 0 .. NewestSchema /\ process[p].from <= version
    BY <1>2 DEF Migration!Migrate
  <2>2. CASE Migration!Applies(process[p].from)
    <3>1. process[p].from = version /\ version' = version + 1 /\ tables' = 1 .. version'
      BY <2>1, <2>2 DEF Migration!Applies
    <3> QED
      BY <1>2, <2>1, <2>2, <3>1 DEF Migration!Migrate
  <2>3. CASE ~Migration!Applies(process[p].from)
    BY <1>2, <2>1, <2>3 DEF Migration!Migrate
  <2> QED
    BY <2>2, <2>3
<1>3. ASSUME NEW p \in Processes, Migration!Audit(p) PROVE SchemaIsWhole'
  BY <1>3 DEF Migration!Audit, Migration!Settle
<1>4. ASSUME NEW p \in Processes, Migration!Send(p) PROVE SchemaIsWhole'
  BY <1>4 DEF Migration!Send
<1>5. ASSUME NEW p \in Processes, Migration!Published(p) PROVE SchemaIsWhole'
  BY <1>5 DEF Migration!Published, Migration!Settle
<1>6. ASSUME NEW p \in Processes, Migration!SendFails(p) PROVE SchemaIsWhole'
  BY <1>6 DEF Migration!SendFails, Migration!Settle, Migration!Faults
<1>7. ASSUME NEW p \in Processes, Migration!Die(p) PROVE SchemaIsWhole'
  BY <1>7 DEF Migration!Die
<1>8. ASSUME NEW p \in Processes, Migration!Retry(p) PROVE SchemaIsWhole'
  BY <1>8 DEF Migration!Retry, Migration!Rest
<1>9. ASSUME NEW p \in Processes, Migration!ReplayStores(p) PROVE SchemaIsWhole'
  BY <1>9 DEF Migration!ReplayStores, Migration!Mends
<1>10. ASSUME NEW p \in Processes, Migration!Discard(p) PROVE SchemaIsWhole'
  BY <1>10 DEF Migration!Discard, Migration!Rest
<1>11. ASSUME NEW p \in Processes, NEW run \in Runs, Migration!Attempt(p, run)
       PROVE  SchemaIsWhole'
  BY <1>11 DEF Migration!Attempt
<1>12. ASSUME NEW p \in Processes, NEW record \in Records, Migration!Submit(p, record)
       PROVE  SchemaIsWhole'
  BY <1>12 DEF Migration!Submit
<1>13. ASSUME NEW p \in Processes, NEW mended \in SUBSET Malformed, Migration!Replay(p, mended)
       PROVE  SchemaIsWhole'
  BY <1>13 DEF Migration!Replay
<1> QED
  BY <1>1, <1>2, <1>3, <1>4, <1>5, <1>6, <1>7, <1>8, <1>9, <1>10, <1>11, <1>12, <1>13
  DEF Migration!Next, Migration!Opens, Migration!Drains

LEMMA SentStep ==
    ASSUME UpgradeTypes, SentIsReviewed, Migration!Next
    PROVE  SentIsReviewed'
<1> USE DEF UpgradeTypes, SentIsReviewed, Where, Places, Migration!Closed, Migration!Open,
            Migration!Goes, Migration!Database, Migration!Letters, Migration!Legacy,
            Migration!Apart, Migration!Alone, Migration!LegacyIsDeliveredOnce
<1>1. ASSUME NEW p \in Processes, Migration!Connect(p) PROVE SentIsReviewed'
  BY <1>1 DEF Migration!Connect
<1>2. ASSUME NEW p \in Processes, Migration!Migrate(p) PROVE SentIsReviewed'
  BY <1>2 DEF Migration!Migrate, Migration!Applies
<1>3. ASSUME NEW p \in Processes, Migration!Audit(p) PROVE SentIsReviewed'
  BY <1>3, SMTT(30) DEF Migration!Audit, Migration!Settle
<1>4. ASSUME NEW p \in Processes, Migration!Send(p) PROVE SentIsReviewed'
  BY <1>4 DEF Migration!Send
<1>5. ASSUME NEW p \in Processes, Migration!Published(p) PROVE SentIsReviewed'
  BY <1>5 DEF Migration!Published, Migration!Settle
<1>6. ASSUME NEW p \in Processes, Migration!SendFails(p) PROVE SentIsReviewed'
  BY <1>6 DEF Migration!SendFails, Migration!Settle, Migration!Faults
<1>7. ASSUME NEW p \in Processes, Migration!Die(p) PROVE SentIsReviewed'
  BY <1>7 DEF Migration!Die
<1>8. ASSUME NEW p \in Processes, Migration!Retry(p) PROVE SentIsReviewed'
  BY <1>8 DEF Migration!Retry, Migration!Rest
<1>9. ASSUME NEW p \in Processes, Migration!ReplayStores(p) PROVE SentIsReviewed'
  BY <1>9 DEF Migration!ReplayStores, Migration!Mends
<1>10. ASSUME NEW p \in Processes, Migration!Discard(p) PROVE SentIsReviewed'
  BY <1>10 DEF Migration!Discard, Migration!Rest
<1>11. ASSUME NEW p \in Processes, NEW run \in Runs, Migration!Attempt(p, run)
       PROVE  SentIsReviewed'
  BY <1>11 DEF Migration!Attempt
<1>12. ASSUME NEW p \in Processes, NEW record \in Records, Migration!Submit(p, record)
       PROVE  SentIsReviewed'
  BY <1>12 DEF Migration!Submit
<1>13. ASSUME NEW p \in Processes, NEW mended \in SUBSET Malformed, Migration!Replay(p, mended)
       PROVE  SentIsReviewed'
  BY <1>13 DEF Migration!Replay
<1> QED
  BY <1>1, <1>2, <1>3, <1>4, <1>5, <1>6, <1>7, <1>8, <1>9, <1>10, <1>11, <1>12, <1>13
  DEF Migration!Next, Migration!Opens, Migration!Drains

LEMMA LogStep ==
    ASSUME UpgradeTypes, DiscardedIsLogged, Migration!Next
    PROVE  /\ DiscardedIsLogged'
           /\ Migration!Logged \cup parked \subseteq (Migration!Logged \cup parked)'
<1> DEFINE Kept == Migration!Logged \cup parked \subseteq (Migration!Logged \cup parked)'
<1>0. ASSUME UNCHANGED log PROVE Migration!Logged' = Migration!Logged
  BY <1>0 DEF Migration!Logged
<1> USE <1>0
    DEF UpgradeTypes, DiscardedIsLogged, Where, Places, Migration!Closed, Migration!Open,
        Migration!Goes, Migration!Database, Migration!Letters, Migration!Legacy,
        Migration!Apart, Migration!Alone
<1>1. ASSUME NEW p \in Processes, Migration!Connect(p) PROVE DiscardedIsLogged' /\ Kept
  BY <1>1 DEF Migration!Connect
<1>2. ASSUME NEW p \in Processes, Migration!Migrate(p) PROVE DiscardedIsLogged' /\ Kept
  BY <1>2 DEF Migration!Migrate, Migration!Applies
<1>3. ASSUME NEW p \in Processes, Migration!Audit(p) PROVE DiscardedIsLogged' /\ Kept
  BY <1>3 DEF Migration!Audit, Migration!Settle
<1>4. ASSUME NEW p \in Processes, Migration!Send(p) PROVE DiscardedIsLogged' /\ Kept
  BY <1>4 DEF Migration!Send
<1>5. ASSUME NEW p \in Processes, Migration!Published(p) PROVE DiscardedIsLogged' /\ Kept
  BY <1>5 DEF Migration!Published, Migration!Settle
<1>6. ASSUME NEW p \in Processes, Migration!SendFails(p) PROVE DiscardedIsLogged' /\ Kept
  BY <1>6 DEF Migration!SendFails, Migration!Settle, Migration!Faults
<1>7. ASSUME NEW p \in Processes, Migration!Die(p) PROVE DiscardedIsLogged' /\ Kept
  BY <1>7 DEF Migration!Die
<1>8. ASSUME NEW p \in Processes, Migration!Retry(p) PROVE DiscardedIsLogged' /\ Kept
  BY <1>8 DEF Migration!Retry, Migration!Rest
<1>9. ASSUME NEW p \in Processes, Migration!ReplayStores(p) PROVE DiscardedIsLogged' /\ Kept
  <2>1. PICK id \in Records : Migration!Mends(p, id) /\ Migration!Stores(id) /\ UNCHANGED parked
    BY <1>9 DEF Migration!ReplayStores
  <2>2. /\ Migration!Logged' = Migration!Logged \cup {id}
        /\ IsFiniteSet(Migration!Logged') /\ Cardinality(Migration!Logged') = Len(log')
    BY <2>1, Stored
  <2> HIDE <1>0
  <2> QED
    BY <2>1, <2>2 DEF Migration!Mends
<1>10. ASSUME NEW p \in Processes, Migration!Discard(p) PROVE DiscardedIsLogged' /\ Kept
  BY <1>10 DEF Migration!Discard, Migration!Rest
<1>11. ASSUME NEW p \in Processes, NEW run \in Runs, Migration!Attempt(p, run)
       PROVE  DiscardedIsLogged' /\ Kept
  BY <1>11 DEF Migration!Attempt
<1>12. ASSUME NEW p \in Processes, NEW record \in Records, Migration!Submit(p, record)
       PROVE  DiscardedIsLogged' /\ Kept
  <2>1. CASE record \in Malformed
    BY <1>12, <2>1 DEF Migration!Submit
  <2>2. CASE record \notin Malformed
    <3>1. /\ Migration!Logged' = Migration!Logged \cup {record}
          /\ IsFiniteSet(Migration!Logged') /\ Cardinality(Migration!Logged') = Len(log')
      BY <1>12, <2>2, Stored DEF Migration!Submit
    <3> HIDE <1>0
    <3> QED
      BY <1>12, <2>2, <3>1 DEF Migration!Submit
  <2> QED
    BY <2>1, <2>2
<1>13. ASSUME NEW p \in Processes, NEW mended \in SUBSET Malformed, Migration!Replay(p, mended)
       PROVE  DiscardedIsLogged' /\ Kept
  BY <1>13 DEF Migration!Replay
<1> QED
  BY <1>1, <1>2, <1>3, <1>4, <1>5, <1>6, <1>7, <1>8, <1>9, <1>10, <1>11, <1>12, <1>13
  DEF Migration!Next, Migration!Opens, Migration!Drains

LEMMA UpgradeStays ==
    ASSUME UpgradeInv, UNCHANGED upgrade
    PROVE  /\ UpgradeInv'
           /\ Migration!Logged \cup parked \subseteq (Migration!Logged \cup parked)'
<1>1. Migration!Logged' = Migration!Logged /\ UNCHANGED upgrade
  BY DEF upgrade, Migration!Logged
<1> QED
  BY <1>1 DEF UpgradeInv, UpgradeTypes, SchemaIsWhole, SentIsReviewed, DiscardedIsLogged, Where, upgrade,
     Migration!LegacyIsDeliveredOnce, Places

LEMMA SameCardinality == \A S : Migration!Cardinality(S) = Cardinality(S)
BY Zenon DEF Migration!Cardinality, Cardinality

(***************************************************************************)
(* Whoever dies while others open a database of an older build, everyone   *)
(* finds a whole schema, what was to be delivered is delivered once, what  *)
(* the audit refused is never sent, and a record is in the log or parked   *)
(* from then on, for any number of processes, schemas, rows and records.   *)
(***************************************************************************)
THEOREM NothingIsLostInAnUpgrade == Spec => UpgradeLosesNothing
<1>1. UpgradeInv /\ [Next]_vars =>
        /\ UpgradeInv'
        /\ Migration!Logged \cup parked \subseteq Migration!Logged' \cup parked'
  BY UpgradeTypesStep, SchemaStep, SentStep, LogStep, UpgradeStays
  DEF Next, SchedulerMoves, IntakeMoves, UpgradeMoves, ModelMoves, OutboxMoves, Decides, vars, UpgradeInv
<1>2. UpgradeInv => /\ Migration!EveryoneOpensAWholeSchema /\ Migration!LegacyIsDeliveredOnce
                    /\ Migration!Cardinality(Migration!Logged) = Len(log)
  BY SameCardinality
  DEF UpgradeInv, UpgradeTypes, SchemaIsWhole, SentIsReviewed, DiscardedIsLogged, Where, Places,
      Migration!EveryoneOpensAWholeSchema, Migration!Closed, Migration!Open
<1> QED
  BY <1>1, <1>2, UpgradeInit, PTL DEF Spec, UpgradeLosesNothing, Migration!NoRecordIsLost

-----------------------------------------------------------------------------
(***************************************************************************)
(* Inbox: requests that arrive again and again, a process that works on    *)
(* them and one that starts over.                                          *)
(***************************************************************************)
StoredRequest ==
    [ref : Refs, id : Nat, submitter : People \cup {Requests!Self}, conversation : Conversations,
     heading : Texts \cup {Requests!Blank, "given"}, text : Texts,
     state : {"pending", "acknowledged", "withdrawn"}, revision : Nat, acked : Nat]

ResetStates ==
    [at : {"rest", "agreed", "checked", "deleted"}, keep : BOOLEAN, force : BOOLEAN,
     shown : SUBSET (Requests!Tables \cup {"external_effects"}), unclean : BOOLEAN]

InboxTypes ==
    /\ inbox \in Seq(StoredRequest) /\ turns \in Seq([ref : Refs, text : Texts]) /\ minted \in Nat
    /\ DOMAIN work = {"at", "batch", "run"}
    /\ work.at \in {"rest", "started", "running", "ran"}
    /\ reset \in ResetStates

\* What was handed over is no more than what there is, and every turn is of a request
\* that is there.
RowsAgree ==
    /\ \A i \in DOMAIN inbox : inbox[i].acked <= inbox[i].revision
    /\ \A t \in DOMAIN turns : \E i \in DOMAIN inbox : inbox[i].ref = turns[t].ref

RunsAreNumbered ==
    /\ IsFiniteSet(runs)
    /\ \A r \in runs : r.run \in 1 .. Cardinality(runs)
    /\ \A r, s \in runs : r.run = s.run => r = s

\* The run of whatever is worked on is there, and is of it.
WorkIsOfARun ==
    /\ work.run # Requests!NoRun <=> work.at \in {"running", "ran"}
    /\ work.run # Requests!NoRun /\ ~reset.unclean =>
          \E r \in runs : r.run = work.run /\ r.item = work.batch[1].id

NobodyIsForgotten == ~reset.unclean /\ reset.at # "deleted" => Requests!Forgotten = {}

InboxInv == InboxTypes /\ RowsAgree /\ RunsAreNumbered /\ WorkIsOfARun /\ NobodyIsForgotten

LEMMA InboxInit == Init => InboxInv
<1> SUFFICES ASSUME Requests!Init PROVE InboxInv
  BY DEF Init
<1>1. InboxTypes
  BY DEF InboxTypes, ResetStates, Requests!Init, Requests!AtRest, Requests!NoReset
<1>2. RowsAgree
  BY DEF RowsAgree, Requests!Init
<1>3. RunsAreNumbered
  BY FS_EmptySet DEF RunsAreNumbered, Requests!Init
<1>4. WorkIsOfARun /\ NobodyIsForgotten
  BY DEF WorkIsOfARun, NobodyIsForgotten, Requests!Forgotten, Requests!Init, Requests!AtRest, Requests!NoReset
<1> QED
  BY <1>1, <1>2, <1>3, <1>4 DEF InboxInv

RowKept(was, now) ==
    /\ <<now.id, now.ref, now.submitter, now.conversation>>
         = <<was.id, was.ref, was.submitter, was.conversation>>
    /\ now.revision = was.revision + (IF Requests!Content(now) = Requests!Content(was) THEN 0 ELSE 1)
    /\ now.acked <= now.revision

RowsKept == inbox' # <<>> => /\ Len(inbox) <= Len(inbox')
                             /\ \A i \in DOMAIN inbox : RowKept(inbox[i], inbox'[i])

LEMMA SameRow ==
    ASSUME NEW row \in StoredRequest, row.acked <= row.revision
    PROVE  RowKept(row, row)
BY DEF RowKept, StoredRequest, Requests!Content

LEMMA SameInbox == ASSUME InboxTypes, RowsAgree, UNCHANGED inbox PROVE RowsKept
BY SameRow DEF RowsKept, InboxTypes, RowsAgree

\* Some rows become others.
LEMMA RowsReplaced ==
    ASSUME InboxTypes, RowsAgree, inbox' = [i \in DOMAIN inbox |-> inbox'[i]],
           \A i \in DOMAIN inbox : inbox'[i] \in StoredRequest /\ RowKept(inbox[i], inbox'[i])
    PROVE  /\ inbox' \in Seq(StoredRequest) /\ DOMAIN inbox' = DOMAIN inbox /\ RowsKept
           /\ \A i \in DOMAIN inbox' : inbox'[i].acked <= inbox'[i].revision
           /\ \A i \in DOMAIN inbox : inbox'[i].ref = inbox[i].ref
<1>1. inbox' \in Seq(StoredRequest) /\ DOMAIN inbox' = DOMAIN inbox /\ Len(inbox') = Len(inbox)
  BY DEF InboxTypes
<1> QED
  BY <1>1 DEF RowsKept, RowKept, InboxTypes, RowsAgree

\* Nothing is forgotten while every run goes on to be there and no other row is
\* acknowledged.
LEMMA StillRemembered ==
    ASSUME NobodyIsForgotten, reset'.unclean \/ reset'.at = "deleted" \/ UNCHANGED <<reset, runs>>,
           \A i \in DOMAIN inbox' : inbox'[i].state = "acknowledged" =>
               /\ i \in DOMAIN inbox /\ inbox[i].state = "acknowledged"
               /\ inbox'[i].id = inbox[i].id
    PROVE  NobodyIsForgotten'
BY DEF NobodyIsForgotten, Requests!Forgotten

LEMMA SubmitStep ==
    ASSUME InboxInv, NEW a \in Requests!Arrivals, Requests!Submit(a)
    PROVE  InboxInv' /\ RowsKept
<1>1. PICK item \in Requests!Normalised(a) :
         /\ Requests!Screened(item)
         /\ \/ Requests!Rows(a.ref) = {} /\ Requests!Insert(item)
            \/ \E i \in Requests!Rows(a.ref) : Requests!Revise(i, item)
  BY DEF Requests!Submit
<1>2. /\ item.ref \in Refs /\ item.id \in Nat /\ item.submitter \in People \cup {Requests!Self}
      /\ item.conversation \in Conversations /\ item.text \in Texts
      /\ item.heading \in Texts \cup {Requests!Blank, "given"}
  BY <1>1 DEF Requests!Normalised, Requests!Screened, Requests!Arrivals, InboxInv, InboxTypes
<1>3. /\ UNCHANGED <<turns, runs, work, reset>> /\ minted' \in Nat
      /\ InboxTypes /\ RowsAgree /\ RunsAreNumbered /\ WorkIsOfARun /\ NobodyIsForgotten
  BY DEF Requests!Submit, InboxInv, InboxTypes
<1>4. RunsAreNumbered' /\ WorkIsOfARun'
  BY <1>3 DEF RunsAreNumbered, WorkIsOfARun
<1>5. CASE Requests!Insert(item)
  <2> DEFINE row == inbox'[Len(inbox) + 1]
  <2>1. /\ inbox' = Append(inbox, row) /\ row \in StoredRequest
        /\ row.state = "pending" /\ row.acked = 0 /\ row.revision = 1
    BY <1>2, <1>3, <1>5 DEF Requests!Insert, StoredRequest, InboxTypes
  <2> HIDE DEF row
  <2>2. /\ inbox' \in Seq(StoredRequest) /\ Len(inbox') = Len(inbox) + 1
        /\ \A i \in DOMAIN inbox : i \in DOMAIN inbox' /\ inbox'[i] = inbox[i]
        /\ \A i \in DOMAIN inbox' : i \in DOMAIN inbox \/ inbox'[i] = row
    BY <2>1, <1>3 DEF InboxTypes
  <2>3. RowsKept
    BY <2>2, <1>3, SameRow DEF RowsKept, InboxTypes, RowsAgree
  <2>4. RowsAgree'
    BY <2>1, <2>2, <1>3 DEF RowsAgree
  <2>5. NobodyIsForgotten'
    BY <2>1, <2>2, <1>3, StillRemembered
  <2> QED
    BY <2>2, <2>3, <2>4, <2>5, <1>3, <1>4 DEF InboxInv, InboxTypes
<1>6. ASSUME NEW i \in Requests!Rows(a.ref), Requests!Revise(i, item) PROVE InboxInv' /\ RowsKept
  <2>1. i \in DOMAIN inbox /\ inbox[i] \in StoredRequest /\ inbox[i].acked <= inbox[i].revision
    BY <1>3, <1>6 DEF Requests!Rows, InboxTypes, RowsAgree
  <2>2. /\ inbox' = [inbox EXCEPT ![i] = inbox'[i]]
        /\ inbox'[i] \in StoredRequest /\ inbox'[i].state = "pending"
        /\ RowKept(inbox[i], inbox'[i])
    <3> DEFINE row == inbox[i]
               merged == Requests!Merge(row, item)
               newer == IF Requests!Content(row) = Requests!Content(item)
                          THEN row.revision ELSE row.revision + 1
               next == [merged EXCEPT !.state = "pending", !.revision = newer]
    <3>1. inbox' = [inbox EXCEPT ![i] = next]
      BY <1>6 DEF Requests!Revise
    <3>2. inbox'[i] = next /\ inbox' = [inbox EXCEPT ![i] = inbox'[i]]
      BY <2>1, <3>1 DEF InboxTypes
    <3>3. /\ merged \in StoredRequest /\ merged.acked = row.acked /\ merged.revision = row.revision
          /\ merged.heading = item.heading /\ merged.text = item.text
          /\ <<merged.id, merged.ref, merged.submitter, merged.conversation>>
              = <<row.id, row.ref, row.submitter, row.conversation>>
      BY <2>1, <1>2 DEF Requests!Merge, StoredRequest
    <3>5. newer \in Nat
      BY <2>1 DEF StoredRequest
    <3> HIDE DEF merged, newer
    <3>4. /\ next \in StoredRequest /\ next.state = "pending" /\ next.acked = merged.acked
          /\ next.heading = merged.heading /\ next.text = merged.text
          /\ <<next.id, next.ref, next.submitter, next.conversation>>
              = <<merged.id, merged.ref, merged.submitter, merged.conversation>>
          /\ next.revision = newer
      BY <3>3, <3>5 DEF StoredRequest
    <3> HIDE DEF next
    <3>6. RowKept(row, next)
      BY <3>3, <3>4, <2>1 DEF RowKept, Requests!Content, StoredRequest, newer
    <3> QED
      BY <3>2, <3>4, <3>6
  <2>3. \A j \in DOMAIN inbox : inbox'[j] \in StoredRequest /\ RowKept(inbox[j], inbox'[j])
    BY <2>1, <2>2, <1>3, SameRow DEF InboxTypes, RowsAgree
  <2>4. /\ inbox' \in Seq(StoredRequest) /\ DOMAIN inbox' = DOMAIN inbox /\ RowsKept
        /\ \A j \in DOMAIN inbox' : inbox'[j].acked <= inbox'[j].revision
        /\ \A j \in DOMAIN inbox : inbox'[j].ref = inbox[j].ref
    BY <2>2, <2>3, <1>3, RowsReplaced
  <2>5. RowsAgree'
    BY <2>4, <1>3 DEF RowsAgree
  <2>6. NobodyIsForgotten'
    BY <2>2, <2>4, <1>3, StillRemembered
  <2> QED
    BY <2>4, <2>5, <2>6, <1>3, <1>4 DEF InboxInv, InboxTypes
<1> QED
  BY <1>1, <1>5, <1>6

LEMMA WithdrawStep ==
    ASSUME InboxInv, NEW ref \in Refs, Requests!Withdraw(ref)
    PROVE  InboxInv' /\ RowsKept
<1>1. PICK i \in Requests!Rows(ref) : inbox' = [inbox EXCEPT ![i].state = "withdrawn"]
  BY DEF Requests!Withdraw
<1>2. /\ UNCHANGED <<turns, minted, runs, work, reset>>
      /\ InboxTypes /\ RowsAgree /\ RunsAreNumbered /\ WorkIsOfARun /\ NobodyIsForgotten
  BY DEF Requests!Withdraw, InboxInv
<1>3. i \in DOMAIN inbox /\ inbox[i] \in StoredRequest /\ inbox[i].acked <= inbox[i].revision
  BY <1>2 DEF Requests!Rows, InboxTypes, RowsAgree
<1>4. /\ inbox' = [inbox EXCEPT ![i] = inbox'[i]]
      /\ inbox'[i] = [inbox[i] EXCEPT !.state = "withdrawn"]
  BY <1>1, <1>3
<1>5. /\ inbox'[i] \in StoredRequest /\ inbox'[i].state = "withdrawn"
      /\ RowKept(inbox[i], inbox'[i])
  BY <1>3, <1>4 DEF StoredRequest, RowKept, Requests!Content
<1>6. \A j \in DOMAIN inbox : inbox'[j] \in StoredRequest /\ RowKept(inbox[j], inbox'[j])
  <2>1. ASSUME NEW j \in DOMAIN inbox, j # i
        PROVE  inbox'[j] \in StoredRequest /\ RowKept(inbox[j], inbox'[j])
    <3>1. inbox'[j] = inbox[j] /\ inbox[j] \in StoredRequest /\ inbox[j].acked <= inbox[j].revision
      BY <1>2, <1>4, <2>1 DEF InboxTypes, RowsAgree
    <3> QED
      BY <3>1, SameRow
  <2> QED
    BY <1>5, <2>1
<1>7. /\ inbox' \in Seq(StoredRequest) /\ DOMAIN inbox' = DOMAIN inbox /\ RowsKept
      /\ \A j \in DOMAIN inbox' : inbox'[j].acked <= inbox'[j].revision
      /\ \A j \in DOMAIN inbox : inbox'[j].ref = inbox[j].ref
  BY <1>2, <1>4, <1>6, RowsReplaced
<1>8. InboxTypes'
  BY <1>2, <1>7 DEF InboxTypes
<1>9. RowsAgree' /\ RunsAreNumbered' /\ WorkIsOfARun'
  BY <1>2, <1>7 DEF RowsAgree, RunsAreNumbered, WorkIsOfARun
<1>10. NobodyIsForgotten'
  BY <1>2, <1>4, <1>5, <1>7, StillRemembered
<1> QED
  BY <1>7, <1>8, <1>9, <1>10 DEF InboxInv

LEMMA ReplyStep ==
    ASSUME InboxInv, NEW c \in Conversations, NEW t \in Texts, Requests!Reply(c, t)
    PROVE  InboxInv' /\ RowsKept
<1>1. PICK i \in DOMAIN inbox : turns' = Append(turns, [ref |-> inbox[i].ref, text |-> t])
  BY DEF Requests!Reply
<1>2. /\ UNCHANGED <<inbox, minted, runs, work, reset>>
      /\ InboxTypes /\ RowsAgree /\ RunsAreNumbered /\ WorkIsOfARun /\ NobodyIsForgotten
  BY DEF Requests!Reply, InboxInv
<1>3. inbox[i].ref \in Refs
  <2>1. inbox[i] \in StoredRequest
    BY <1>2 DEF InboxTypes
  <2> QED
    BY <2>1 DEF StoredRequest
<1>4. InboxTypes'
  BY <1>1, <1>2, <1>3 DEF InboxTypes
<1>5. RowsAgree'
  BY <1>1, <1>2 DEF RowsAgree, InboxTypes
<1>6. RunsAreNumbered' /\ WorkIsOfARun' /\ NobodyIsForgotten'
  BY <1>2 DEF RunsAreNumbered, WorkIsOfARun, NobodyIsForgotten, Requests!Forgotten
<1> QED
  BY <1>2, <1>4, <1>5, <1>6, SameInbox DEF InboxInv

\* A step of clawdence work that leaves the inbox and the runs alone.
LEMMA IdleWork ==
    ASSUME InboxInv, UNCHANGED <<inbox, turns, minted, runs, reset>>,
           DOMAIN work' = DOMAIN work, work'.at \in {"rest", "started"}, work'.run = Requests!NoRun
    PROVE  InboxInv' /\ RowsKept
<1>1. InboxTypes'
  BY DEF InboxInv, InboxTypes
<1>2. RowsAgree' /\ RunsAreNumbered' /\ WorkIsOfARun' /\ NobodyIsForgotten'
  BY DEF InboxInv, RowsAgree, RunsAreNumbered, WorkIsOfARun, NobodyIsForgotten,
         Requests!Forgotten, Requests!NoRun
<1> QED
  BY <1>1, <1>2, SameInbox DEF InboxInv

LEMMA NextItemIsNone ==
    ASSUME InboxTypes, work' = Requests!NextItem
    PROVE  /\ DOMAIN work' = DOMAIN work /\ work'.at \in {"rest", "started"}
           /\ work'.run = Requests!NoRun
BY DEF InboxTypes, Requests!NextItem

LEMMA CollectStep ==
    ASSUME InboxInv, Requests!Collect \/ Requests!Refuse
    PROVE  InboxInv' /\ RowsKept
<1>1. CASE Requests!Collect
  <2>1. /\ UNCHANGED <<inbox, turns, minted, runs, reset>>
        /\ DOMAIN work' = {"at", "batch", "run"} /\ work'.at = "started"
        /\ work'.run = Requests!NoRun
    BY <1>1 DEF Requests!Collect
  <2> QED
    BY <2>1, IdleWork DEF InboxInv, InboxTypes
<1>2. CASE Requests!Refuse
  BY <1>2, NextItemIsNone, IdleWork DEF Requests!Refuse, InboxInv
<1> QED
  BY <1>1, <1>2

LEMMA SizeOfRuns == \A S : Requests!Cardinality(S) = Cardinality(S)
BY Zenon DEF Requests!Cardinality, Cardinality

LEMMA StartRunStep ==
    ASSUME InboxInv, Requests!StartRun
    PROVE  InboxInv' /\ RowsKept
<1> DEFINE n == Cardinality(runs) + 1
           new == [run |-> n, item |-> work.batch[1].id, status |-> "running", owed |-> FALSE]
<1>1. /\ UNCHANGED <<inbox, turns, minted, reset>> /\ runs' = runs \cup {new}
      /\ work' = [work EXCEPT !.at = "running", !.run = n]
  BY SizeOfRuns DEF Requests!StartRun
<1>2. InboxTypes /\ RowsAgree /\ RunsAreNumbered /\ WorkIsOfARun /\ NobodyIsForgotten
  BY DEF InboxInv
<1>3. Cardinality(runs) \in Nat /\ new \notin runs
  BY <1>2, FS_CardinalityType DEF RunsAreNumbered
<1>4. IsFiniteSet(runs') /\ Cardinality(runs') = n
  BY <1>1, <1>2, <1>3, FS_AddElement DEF RunsAreNumbered
<1>5. RunsAreNumbered'
  <2>1. new.run = n
    OBVIOUS
  <2> HIDE DEF new
  <2>2. \A r \in runs : r.run \in 1 .. n /\ r.run # n
    BY <1>2, <1>3 DEF RunsAreNumbered
  <2>3. \A r, s \in runs \cup {new} : r.run = s.run => r = s
    BY <1>2, <2>1, <2>2 DEF RunsAreNumbered
  <2> QED
    BY <1>1, <1>2, <1>3, <1>4, <2>1, <2>2, <2>3 DEF RunsAreNumbered
<1>6. /\ work'.at = "running" /\ work'.run = n /\ work'.batch = work.batch
      /\ DOMAIN work' = DOMAIN work
  BY <1>1, <1>2 DEF InboxTypes
<1>7. InboxTypes' /\ RowsAgree'
  BY <1>1, <1>2, <1>6 DEF InboxTypes, RowsAgree
<1>8. WorkIsOfARun'
  BY <1>1, <1>3, <1>6 DEF WorkIsOfARun, Requests!NoRun
<1>9. NobodyIsForgotten'
  BY <1>1, <1>2 DEF NobodyIsForgotten, Requests!Forgotten
<1> QED
  BY <1>1, <1>2, <1>5, <1>7, <1>8, <1>9, SameInbox DEF InboxInv

LEMMA FinishRunStep ==
    ASSUME InboxInv, Requests!FinishRun
    PROVE  InboxInv' /\ RowsKept
<1>1. /\ UNCHANGED <<inbox, turns, minted, reset>> /\ work.at = "running"
      /\ InboxTypes /\ RowsAgree /\ RunsAreNumbered /\ WorkIsOfARun /\ NobodyIsForgotten
  BY DEF Requests!FinishRun, InboxInv
<1>2. CASE Requests!Mine = {} /\ work' = Requests!AtRest /\ UNCHANGED runs
  <2>1. DOMAIN work' = DOMAIN work /\ work'.at = "rest" /\ work'.run = Requests!NoRun
    BY <1>1, <1>2 DEF Requests!AtRest, InboxTypes
  <2> QED
    BY <1>1, <1>2, <2>1, IdleWork DEF InboxInv
<1>3. ASSUME NEW r \in Requests!Mine, NEW owed \in BOOLEAN,
             runs' = (runs \ Requests!Mine) \cup {[r EXCEPT !.status = "done", !.owed = owed]},
             work' = [work EXCEPT !.at = "ran"]
      PROVE  InboxInv' /\ RowsKept
  <2> DEFINE done == [r EXCEPT !.status = "done", !.owed = owed]
  <2>1. r \in runs /\ r.run = work.run /\ Requests!Mine = {r}
    BY <1>1, <1>3 DEF Requests!Mine, RunsAreNumbered
  <2>2. done.run = r.run /\ done.item = r.item
    OBVIOUS
  <2> HIDE DEF done
  <2>3. runs' = (runs \ {r}) \cup {done}
    BY <1>3, <2>1 DEF done
  <2>4. done \notin runs \ {r}
    BY <1>1, <2>1, <2>2 DEF RunsAreNumbered
  <2>5. IsFiniteSet(runs') /\ Cardinality(runs') = Cardinality(runs)
    <3>1. IsFiniteSet(runs \ {r}) /\ Cardinality(runs \ {r}) = Cardinality(runs) - 1
      BY <1>1, <2>1, FS_RemoveElement DEF RunsAreNumbered
    <3>2. IsFiniteSet(runs') /\ Cardinality(runs') = Cardinality(runs \ {r}) + 1
      BY <2>3, <2>4, <3>1, FS_AddElement
    <3> QED
      BY <1>1, <3>1, <3>2, FS_CardinalityType DEF RunsAreNumbered
  <2>6. RunsAreNumbered'
    BY <1>1, <2>1, <2>2, <2>3, <2>5 DEF RunsAreNumbered
  <2>7. /\ work'.at = "ran" /\ work'.run = work.run /\ work'.batch = work.batch
        /\ DOMAIN work' = DOMAIN work
    BY <1>1, <1>3 DEF InboxTypes
  <2>8. InboxTypes' /\ RowsAgree'
    BY <1>1, <2>7 DEF InboxTypes, RowsAgree
  <2>9. WorkIsOfARun'
    BY <1>1, <2>1, <2>2, <2>3, <2>7 DEF WorkIsOfARun
  <2>10. NobodyIsForgotten'
    BY <1>1, <2>1, <2>2, <2>3 DEF NobodyIsForgotten, Requests!Forgotten
  <2> QED
    BY <1>1, <2>6, <2>8, <2>9, <2>10, SameInbox DEF InboxInv
<1> QED
  BY <1>2, <1>3 DEF Requests!FinishRun

LEMMA AcknowledgeStep ==
    ASSUME InboxInv, Requests!Acknowledge
    PROVE  InboxInv' /\ RowsKept
<1> DEFINE Mine(i) == inbox[i].id = work.batch[1].id /\ inbox[i].state = "pending"
           row(i) == [inbox[i] EXCEPT !.state = "acknowledged", !.acked = inbox[i].revision]
<1>1. /\ UNCHANGED <<turns, minted, runs, reset>> /\ work.at = "ran"
      /\ InboxTypes /\ RowsAgree /\ RunsAreNumbered /\ WorkIsOfARun /\ NobodyIsForgotten
  BY DEF Requests!Acknowledge, InboxInv
<1>2. inbox' = [i \in DOMAIN inbox |-> IF Mine(i) THEN row(i) ELSE inbox[i]]
  BY DEF Requests!Acknowledge
<1>3. DOMAIN work' = DOMAIN work /\ work'.at \in {"rest", "started"} /\ work'.run = Requests!NoRun
  BY <1>1, NextItemIsNone DEF Requests!Acknowledge
<1>4. ASSUME NEW i \in DOMAIN inbox
      PROVE  /\ inbox[i] \in StoredRequest /\ RowKept(inbox[i], inbox[i])
             /\ row(i) \in StoredRequest /\ RowKept(inbox[i], row(i)) /\ row(i).id = inbox[i].id
  <2>1. inbox[i] \in StoredRequest /\ RowKept(inbox[i], inbox[i])
    BY <1>1, SameRow DEF InboxTypes, RowsAgree
  <2>2. row(i) \in StoredRequest
    BY <2>1 DEF StoredRequest
  <2>3. /\ <<row(i).id, row(i).ref, row(i).submitter, row(i).conversation>>
            = <<inbox[i].id, inbox[i].ref, inbox[i].submitter, inbox[i].conversation>>
        /\ row(i).heading = inbox[i].heading /\ row(i).text = inbox[i].text
        /\ row(i).revision = inbox[i].revision /\ row(i).acked = inbox[i].revision
    BY <2>1 DEF StoredRequest
  <2>4. inbox[i].revision \in Nat
    BY <2>1 DEF StoredRequest
  <2> HIDE DEF row
  <2>5. RowKept(inbox[i], row(i))
    BY <2>3, <2>4 DEF RowKept, Requests!Content
  <2> QED
    BY <2>1, <2>2, <2>3, <2>5
<1>5. \A i \in DOMAIN inbox : inbox'[i] = IF Mine(i) THEN row(i) ELSE inbox[i]
  BY <1>2
<1>6. \A i \in DOMAIN inbox :
         inbox'[i] \in StoredRequest /\ RowKept(inbox[i], inbox'[i]) /\ inbox'[i].id = inbox[i].id
  BY <1>4, <1>5
<1>7. /\ inbox' \in Seq(StoredRequest) /\ DOMAIN inbox' = DOMAIN inbox /\ RowsKept
      /\ \A i \in DOMAIN inbox' : inbox'[i].acked <= inbox'[i].revision
      /\ \A i \in DOMAIN inbox : inbox'[i].ref = inbox[i].ref
  <2>1. inbox' = [i \in DOMAIN inbox |-> inbox'[i]]
    BY <1>2
  <2> QED
    BY <1>1, <1>6, <2>1, RowsReplaced
<1>8. InboxTypes'
  BY <1>1, <1>3, <1>7 DEF InboxTypes
<1>9. RowsAgree' /\ RunsAreNumbered' /\ WorkIsOfARun'
  BY <1>1, <1>3, <1>7 DEF RowsAgree, RunsAreNumbered, WorkIsOfARun, Requests!NoRun
<1>10. NobodyIsForgotten'
  <2> HIDE DEF row
  <2>1. ~reset.unclean => \E r \in runs : r.item = work.batch[1].id
    BY <1>1 DEF WorkIsOfARun
  <2>2. ASSUME ~reset.unclean, reset.at # "deleted", NEW i \in DOMAIN inbox,
               inbox'[i].state = "acknowledged"
        PROVE  \E r \in runs : r.item = inbox'[i].id
    <3>1. CASE Mine(i)
      BY <1>6, <2>1, <2>2, <3>1
    <3>2. CASE ~Mine(i)
      BY <1>1, <1>5, <2>2, <3>2 DEF NobodyIsForgotten, Requests!Forgotten
    <3> QED
      BY <3>1, <3>2
  <2> QED
    BY <1>1, <1>7, <2>2 DEF NobodyIsForgotten, Requests!Forgotten
<1> QED
  BY <1>7, <1>8, <1>9, <1>10 DEF InboxInv

LEMMA UnacknowledgeStep ==
    ASSUME InboxInv, Requests!Unacknowledge
    PROVE  InboxInv' /\ RowsKept
<1> DEFINE row(i) == [inbox[i] EXCEPT !.state = "pending", !.acked = 0]
<1>1. /\ UNCHANGED <<turns, minted, runs, work>> /\ reset' = [reset EXCEPT !.at = "rest"]
      /\ InboxTypes /\ RowsAgree /\ RunsAreNumbered /\ WorkIsOfARun
  BY DEF Requests!Unacknowledge, InboxInv
<1>2. inbox' = [i \in DOMAIN inbox |-> IF inbox[i].state = "acknowledged" THEN row(i) ELSE inbox[i]]
  BY DEF Requests!Unacknowledge
<1>3. ASSUME NEW i \in DOMAIN inbox
      PROVE  /\ inbox[i] \in StoredRequest /\ RowKept(inbox[i], inbox[i])
             /\ row(i) \in StoredRequest /\ RowKept(inbox[i], row(i)) /\ row(i).state = "pending"
  <2>1. inbox[i] \in StoredRequest /\ RowKept(inbox[i], inbox[i])
    BY <1>1, SameRow DEF InboxTypes, RowsAgree
  <2>2. row(i) \in StoredRequest
    BY <2>1 DEF StoredRequest
  <2>3. /\ <<row(i).id, row(i).ref, row(i).submitter, row(i).conversation>>
            = <<inbox[i].id, inbox[i].ref, inbox[i].submitter, inbox[i].conversation>>
        /\ row(i).heading = inbox[i].heading /\ row(i).text = inbox[i].text
        /\ row(i).revision = inbox[i].revision /\ row(i).acked = 0
    BY <2>1 DEF StoredRequest
  <2>4. inbox[i].revision \in Nat
    BY <2>1 DEF StoredRequest
  <2> HIDE DEF row
  <2>5. RowKept(inbox[i], row(i))
    BY <2>3, <2>4 DEF RowKept, Requests!Content
  <2> QED
    BY <2>1, <2>2, <2>3, <2>5 DEF row
<1>4. \A i \in DOMAIN inbox : inbox'[i] = IF inbox[i].state = "acknowledged" THEN row(i) ELSE inbox[i]
  BY <1>2
<1>5. \A i \in DOMAIN inbox : /\ inbox'[i] \in StoredRequest /\ RowKept(inbox[i], inbox'[i])
                              /\ inbox'[i].state # "acknowledged"
  BY <1>3, <1>4
<1>6. /\ inbox' \in Seq(StoredRequest) /\ DOMAIN inbox' = DOMAIN inbox /\ RowsKept
      /\ \A i \in DOMAIN inbox' : inbox'[i].acked <= inbox'[i].revision
      /\ \A i \in DOMAIN inbox : inbox'[i].ref = inbox[i].ref
  <2>1. inbox' = [i \in DOMAIN inbox |-> inbox'[i]]
    BY <1>2
  <2> QED
    BY <1>1, <1>5, <2>1, RowsReplaced
<1>7. InboxTypes'
  BY <1>1, <1>6 DEF InboxTypes, ResetStates
<1>8. RowsAgree' /\ RunsAreNumbered' /\ WorkIsOfARun'
  BY <1>1, <1>6 DEF RowsAgree, RunsAreNumbered, WorkIsOfARun, InboxTypes
<1>9. NobodyIsForgotten'
  BY <1>5, <1>6 DEF NobodyIsForgotten, Requests!Forgotten
<1> QED
  BY <1>6, <1>7, <1>8, <1>9 DEF InboxInv

LEMMA DeleteStep ==
    ASSUME InboxInv, Requests!Delete
    PROVE  InboxInv' /\ RowsKept
<1>1. /\ runs' = {} /\ UNCHANGED <<minted, work>> /\ reset.at = "checked"
      /\ reset' = [reset EXCEPT !.at = IF reset.keep THEN "deleted" ELSE "rest",
                                !.unclean = reset.unclean \/ work.run # Requests!NoRun]
      /\ InboxTypes /\ RowsAgree /\ WorkIsOfARun
  BY DEF Requests!Delete, InboxInv
<1>2. /\ RunsAreNumbered'
  BY <1>1, FS_EmptySet DEF RunsAreNumbered
<1>3. /\ reset'.at = IF reset.keep THEN "deleted" ELSE "rest"
      /\ reset'.unclean <=> (reset.unclean \/ work.run # Requests!NoRun)
      /\ reset' \in ResetStates
  BY <1>1 DEF InboxTypes, ResetStates
<1>4. WorkIsOfARun'
  BY <1>1, <1>3 DEF WorkIsOfARun
<1>5. CASE reset.keep
  <2>1. UNCHANGED <<inbox, turns>> /\ reset'.at = "deleted"
    BY <1>3, <1>5 DEF Requests!Delete
  <2>2. InboxTypes' /\ RowsAgree' /\ NobodyIsForgotten'
    BY <1>1, <1>3, <2>1 DEF InboxTypes, RowsAgree, NobodyIsForgotten
  <2> QED
    BY <1>1, <1>2, <1>4, <2>1, <2>2, SameInbox DEF InboxInv
<1>6. CASE ~reset.keep
  <2>1. inbox' = <<>> /\ turns' = <<>>
    BY <1>6 DEF Requests!Delete
  <2>2. InboxTypes' /\ RowsAgree' /\ NobodyIsForgotten'
    BY <1>1, <1>3, <2>1 DEF InboxTypes, RowsAgree, NobodyIsForgotten, Requests!Forgotten
  <2> QED
    BY <1>2, <1>4, <2>1, <2>2 DEF InboxInv, RowsKept
<1> QED
  BY <1>5, <1>6

\* A step of the reset that deletes nothing.
LEMMA IdleReset ==
    ASSUME InboxInv, \/ \E keep, force \in BOOLEAN : Requests!Plan(keep, force)
                     \/ Requests!Check \/ Requests!Crash
    PROVE  InboxInv' /\ RowsKept
<1>1. UNCHANGED <<inbox, turns, minted, runs, work>>
  BY DEF Requests!Plan, Requests!Check, Requests!Crash
<1>2. /\ InboxTypes /\ RowsAgree /\ RunsAreNumbered /\ WorkIsOfARun /\ NobodyIsForgotten
  BY DEF InboxInv
<1> DEFINE Moved == /\ InboxTypes' /\ (reset.unclean => reset'.unclean)
                    /\ (reset.at = "deleted" => reset'.unclean)
<1>3. Moved
  <2>1. ASSUME NEW keep \in BOOLEAN, NEW force \in BOOLEAN, Requests!Plan(keep, force)
        PROVE  Moved
    BY <1>1, <1>2, <2>1 DEF Requests!Plan, InboxTypes, ResetStates, Requests!Held, Requests!Emptied
  <2>2. CASE Requests!Check
    BY <1>1, <1>2, <2>2 DEF Requests!Check, InboxTypes, ResetStates
  <2>3. CASE Requests!Crash
    BY <1>1, <1>2, <2>3 DEF Requests!Crash, InboxTypes, ResetStates
  <2> QED
    BY <2>1, <2>2, <2>3
<1>4. RowsAgree' /\ RunsAreNumbered' /\ WorkIsOfARun' /\ NobodyIsForgotten'
  BY <1>1, <1>2, <1>3 DEF RowsAgree, RunsAreNumbered, WorkIsOfARun, NobodyIsForgotten,
                          Requests!Forgotten
<1> QED
  BY <1>1, <1>2, <1>3, <1>4, SameInbox DEF InboxInv

LEMMA InboxStep ==
    ASSUME InboxInv, Requests!Next
    PROVE  InboxInv' /\ RowsKept
BY SubmitStep, WithdrawStep, ReplyStep, CollectStep, StartRunStep, FinishRunStep, AcknowledgeStep,
   UnacknowledgeStep, DeleteStep, IdleReset
DEF Requests!Next, Requests!Arrives, Requests!Works, Requests!Resets, Requests!Amend

LEMMA InboxStays ==
    ASSUME InboxInv, UNCHANGED intake
    PROVE  InboxInv'
BY DEF InboxInv, InboxTypes, RowsAgree, RunsAreNumbered, WorkIsOfARun, NobodyIsForgotten,
       Requests!Forgotten, intake

(***************************************************************************)
(* The rows are requests as RequestPromise has them: every step of the     *)
(* three processes is a step of the promise or none, as no two rows are of *)
(* one request, or have one id.                                            *)
(***************************************************************************)
\* What a request may say.
Sayable == ({"given"} \cup Texts) \X Texts

\* What the rows of a table say of the requests.
AskedIn(rows) ==
    [ref \in Refs |-> LET of == {i \in DOMAIN rows : rows[i].ref = ref}
                      IN  IF of = {} THEN [is |-> "absent"]
                          ELSE Requests!RequestOf(rows[CHOOSE i \in of : TRUE])]

Asked == AskedIn(inbox)

Taken(r) == [r EXCEPT !.is = "acknowledged", !.taken = r.version]
Becoming(them, ref, new) == [them EXCEPT ![ref] = new]

\* No two rows are of one request, or have one id.
OwnRows(rows) ==
    \A i, j \in DOMAIN rows : rows[i].ref = rows[j].ref \/ rows[i].id = rows[j].id => i = j

\* And an id that was not minted is nobody's.
RowsAreTheirOwn == OwnRows(inbox) /\ \A i \in DOMAIN inbox : inbox[i].id <= minted

LEMMA AskedOfRow ==
    ASSUME NEW rows \in Seq(StoredRequest), OwnRows(rows), NEW i \in DOMAIN rows
    PROVE  rows[i].ref \in Refs /\ AskedIn(rows)[rows[i].ref] = Requests!RequestOf(rows[i])
<1>1. rows[i].ref \in Refs
  <2>1. rows[i] \in StoredRequest
    OBVIOUS
  <2> QED
    BY <2>1 DEF StoredRequest
<1>2. {j \in DOMAIN rows : rows[j].ref = rows[i].ref} = {i}
  BY DEF OwnRows
<1> QED
  BY <1>1, <1>2 DEF AskedIn

LEMMA AskedOfNobody ==
    ASSUME NEW rows, NEW ref \in Refs, \A i \in DOMAIN rows : rows[i].ref # ref
    PROVE  AskedIn(rows)[ref] = [is |-> "absent"]
<1>1. {i \in DOMAIN rows : rows[i].ref = ref} = {}
  OBVIOUS
<1> QED
  BY <1>1 DEF AskedIn

\* Row by row, the requests become what their rows become.
LEMMA AskedRowByRow ==
    ASSUME NEW rows \in Seq(StoredRequest), NEW now \in Seq(StoredRequest),
           DOMAIN now = DOMAIN rows, OwnRows(rows), OwnRows(now),
           \A j \in DOMAIN rows : now[j].ref = rows[j].ref,
           NEW ref \in Refs
    PROVE  \/ /\ AskedIn(rows)[ref] = [is |-> "absent"]
              /\ AskedIn(now)[ref] = [is |-> "absent"]
           \/ \E j \in DOMAIN rows : /\ rows[j].ref = ref
                                     /\ AskedIn(rows)[ref] = Requests!RequestOf(rows[j])
                                     /\ AskedIn(now)[ref] = Requests!RequestOf(now[j])
<1>1. CASE \A j \in DOMAIN rows : rows[j].ref # ref
  <2>1. \A j \in DOMAIN now : now[j].ref # ref
    BY <1>1
  <2> QED
    BY <1>1, <2>1, AskedOfNobody
<1>2. ASSUME NEW j \in DOMAIN rows, rows[j].ref = ref
      PROVE  /\ AskedIn(rows)[ref] = Requests!RequestOf(rows[j])
             /\ AskedIn(now)[ref] = Requests!RequestOf(now[j])
  BY <1>2, AskedOfRow
<1> QED
  BY <1>1, <1>2

\* One row becomes another of the same request.
LEMMA OneRowBecomes ==
    ASSUME NEW rows \in Seq(StoredRequest), NEW now \in Seq(StoredRequest),
           DOMAIN now = DOMAIN rows, OwnRows(rows), OwnRows(now),
           \A j \in DOMAIN rows : now[j].ref = rows[j].ref,
           NEW i \in DOMAIN rows, \A j \in DOMAIN rows \ {i} : now[j] = rows[j]
    PROVE  AskedIn(now) = Becoming(AskedIn(rows), rows[i].ref, Requests!RequestOf(now[i]))
<1> DEFINE new == Requests!RequestOf(now[i])
           then == [AskedIn(rows) EXCEPT ![rows[i].ref] = new]
<1>1. rows[i].ref \in Refs /\ AskedIn(now)[rows[i].ref] = new
  BY AskedOfRow
<1>2. AskedIn(now) = [ref \in Refs |-> AskedIn(now)[ref]] /\ AskedIn(rows) = [ref \in Refs |-> AskedIn(rows)[ref]]
  BY DEF AskedIn
<1> HIDE DEF new
<1>3. /\ then = [ref \in Refs |-> then[ref]] /\ then[rows[i].ref] = new
      /\ \A ref \in Refs \ {rows[i].ref} : then[ref] = AskedIn(rows)[ref]
  BY <1>1, <1>2
<1> HIDE DEF then
<1>4. ASSUME NEW ref \in Refs PROVE AskedIn(now)[ref] = then[ref]
  <2>1. CASE ref = rows[i].ref
    BY <1>1, <1>3, <2>1
  <2>2. CASE ref # rows[i].ref
    <3>1. AskedIn(now)[ref] = AskedIn(rows)[ref]
      BY <2>2, AskedRowByRow
    <3> QED
      BY <1>3, <2>2, <3>1
  <2> QED
    BY <2>1, <2>2
<1>5. AskedIn(now) = then
  BY <1>2, <1>3, <1>4
<1> QED
  BY <1>5 DEF then, new, Becoming

LEMMA OneRowAdded ==
    ASSUME NEW rows \in Seq(StoredRequest), NEW row \in StoredRequest,
           OwnRows(rows), OwnRows(Append(rows, row)), \A i \in DOMAIN rows : rows[i].ref # row.ref
    PROVE  AskedIn(Append(rows, row)) = Becoming(AskedIn(rows), row.ref, Requests!RequestOf(row))
<1> DEFINE now == Append(rows, row)
           new == Requests!RequestOf(row)
           then == [AskedIn(rows) EXCEPT ![row.ref] = new]
<1>1. /\ now \in Seq(StoredRequest) /\ \A j \in DOMAIN now : j \in DOMAIN rows \/ now[j] = row
      /\ \A j \in DOMAIN rows : j \in DOMAIN now /\ now[j] = rows[j]
      /\ Len(now) \in DOMAIN now /\ now[Len(now)] = row /\ OwnRows(now)
  OBVIOUS
<1>2. row.ref \in Refs
  BY DEF StoredRequest
<1> HIDE DEF now
<1>3. AskedIn(now)[row.ref] = new
  BY <1>1, AskedOfRow
<1>4. AskedIn(now) = [ref \in Refs |-> AskedIn(now)[ref]] /\ AskedIn(rows) = [ref \in Refs |-> AskedIn(rows)[ref]]
  BY DEF AskedIn
<1> HIDE DEF new
<1>5. /\ then = [ref \in Refs |-> then[ref]] /\ then[row.ref] = new
      /\ \A ref \in Refs \ {row.ref} : then[ref] = AskedIn(rows)[ref]
  BY <1>2, <1>4
<1> HIDE DEF then
<1>6. ASSUME NEW ref \in Refs, ref # row.ref PROVE AskedIn(now)[ref] = AskedIn(rows)[ref]
  <2>1. CASE \A j \in DOMAIN rows : rows[j].ref # ref
    <3>1. \A j \in DOMAIN now : now[j].ref # ref
      BY <1>1, <1>6, <2>1
    <3> QED
      BY <2>1, <3>1, AskedOfNobody
  <2>2. ASSUME NEW j \in DOMAIN rows, rows[j].ref = ref
        PROVE  AskedIn(now)[ref] = AskedIn(rows)[ref]
    <3>1. AskedIn(rows)[ref] = Requests!RequestOf(rows[j])
      BY <2>2, AskedOfRow
    <3>2. j \in DOMAIN now /\ now[j] = rows[j]
      BY <1>1
    <3>3. AskedIn(now)[now[j].ref] = Requests!RequestOf(now[j])
      BY <1>1, <3>2, AskedOfRow
    <3> QED
      BY <2>2, <3>1, <3>2, <3>3
  <2> QED
    BY <2>1, <2>2
<1>7. AskedIn(now) = then
  BY <1>3, <1>4, <1>5, <1>6
<1> QED
  BY <1>7 DEF then, new, now, Becoming

LEMMA AskedIsThat == Asked = AskedIn(inbox) /\ Asked' = AskedIn(inbox')
BY DEF Asked, AskedIn

\* Of every step but an arrival that is inserted.
LEMMA OwnRowsStay ==
    ASSUME InboxInv, InboxInv', RowsKept, RowsAreTheirOwn, minted' >= minted,
           Len(inbox') = Len(inbox) \/ inbox' = <<>>
    PROVE  RowsAreTheirOwn'
<1>1. inbox \in Seq(StoredRequest) /\ inbox' \in Seq(StoredRequest) /\ minted \in Nat /\ minted' \in Nat
  BY DEF InboxInv, InboxTypes
<1>2. CASE inbox' = <<>>
  BY <1>2 DEF RowsAreTheirOwn, OwnRows
<1>3. CASE Len(inbox') = Len(inbox) /\ inbox' # <<>>
  <2>1. DOMAIN inbox' = DOMAIN inbox
    BY <1>1, <1>3
  <2>2. \A i \in DOMAIN inbox : inbox'[i].id = inbox[i].id /\ inbox'[i].ref = inbox[i].ref
    BY <1>3 DEF RowsKept, RowKept
  <2>3. \A i \in DOMAIN inbox : inbox[i].id \in Nat
    <3>1. \A i \in DOMAIN inbox : inbox[i] \in StoredRequest
      BY <1>1
    <3> QED
      BY <3>1 DEF StoredRequest
  <2> QED
    BY <1>1, <2>1, <2>2, <2>3 DEF RowsAreTheirOwn, OwnRows
<1> QED
  BY <1>2, <1>3

Promises == Requests!Promised!QueueNext \/ Requests!Promised!Forget \/ Requests!Promised!TakeUp
            \/ UNCHANGED Asked

LEMMA WhatIsPromised ==
    ASSUME NEW ref, NEW content, NEW new, Asked' = Becoming(Asked, ref, new)
    PROVE  /\ /\ Asked[ref].is = "absent"
              /\ new = [is |-> "pending", says |-> content, version |-> 1, taken |-> 0]
              => Requests!Promised!First(ref, content)
           /\ /\ Asked[ref].is # "absent" /\ Asked[ref].says # content
              /\ new = [is |-> "pending", says |-> content, version |-> Asked[ref].version + 1,
                        taken |-> Asked[ref].taken]
              => Requests!Promised!Amended(ref, content)
           /\ Asked[ref].is = "withdrawn" /\ new = [Asked[ref] EXCEPT !.is = "pending"]
              => Requests!Promised!Reopened(ref)
           /\ Asked[ref].is # "absent" /\ new = [Asked[ref] EXCEPT !.is = "withdrawn"]
              => Requests!Promised!TakenBack(ref)
           /\ Asked[ref].is = "pending" /\ new = Taken(Asked[ref])
              => Requests!Promised!HandedOver(ref)
BY DEF Requests!Promised!First, Requests!Promised!Amended, Requests!Promised!Reopened,
       Requests!Promised!TakenBack, Requests!Promised!HandedOver, Requests!Promised!Becomes,
       Asked, AskedIn, Becoming, Taken, Requests!Rows

\* A step that keeps the table keeps what it says.
LEMMA SameRequests == ASSUME RowsAreTheirOwn, UNCHANGED inbox, minted' = minted
                      PROVE  RowsAreTheirOwn' /\ Promises
BY AskedIsThat DEF RowsAreTheirOwn, Promises

LEMMA ArrivalIsPromised ==
    ASSUME InboxInv, InboxInv', RowsAreTheirOwn, NEW a \in Requests!Arrivals, Requests!Submit(a)
    PROVE  RowsAreTheirOwn' /\ Promises
<1>1. PICK item \in Requests!Normalised(a) :
         /\ Requests!Screened(item)
         /\ \/ Requests!Rows(a.ref) = {} /\ Requests!Insert(item)
            \/ \E i \in Requests!Rows(a.ref) :
                  /\ Requests!Content(inbox[i]) # Requests!Content(item) \/ inbox[i].state = "withdrawn"
                  /\ Requests!Revise(i, item)
  BY DEF Requests!Submit
<1>2. /\ item.ref = a.ref /\ item.ref \in Refs /\ item.id = minted + 1
      /\ item.submitter \in People \cup {Requests!Self}
      /\ item.conversation \in Conversations /\ item.text \in Texts
      /\ item.heading \in Texts \cup {"given"}
  BY <1>1 DEF Requests!Normalised, Requests!Screened, Requests!Arrivals
<1>3. /\ minted' = minted + 1 /\ minted \in Nat
      /\ inbox \in Seq(StoredRequest) /\ inbox' \in Seq(StoredRequest)
      /\ OwnRows(inbox)
  BY DEF Requests!Submit, InboxInv, InboxTypes, RowsAreTheirOwn
<1>4. \A i \in DOMAIN inbox : inbox[i].id \in Nat /\ inbox[i].id <= minted
  <2>1. \A i \in DOMAIN inbox : inbox[i] \in StoredRequest
    BY <1>3
  <2> QED
    BY <2>1 DEF StoredRequest, RowsAreTheirOwn
<1>5. Requests!Content(item) \in Sayable
  BY <1>2 DEF Requests!Content, Sayable
<1>6. CASE Requests!Rows(a.ref) = {} /\ Requests!Insert(item)
  <2> DEFINE row == inbox'[Len(inbox) + 1]
  <2>1. /\ inbox' = Append(inbox, row) /\ row \in StoredRequest /\ row.ref = item.ref /\ row.id = item.id
        /\ row.state = "pending" /\ row.acked = 0 /\ row.revision = 1
        /\ row.heading = item.heading /\ row.text = item.text
    BY <1>2, <1>3, <1>6 DEF Requests!Insert, StoredRequest
  <2> HIDE DEF row
  <2>2. \A i \in DOMAIN inbox : inbox[i].ref # row.ref
    BY <1>2, <1>6, <2>1 DEF Requests!Rows
  <2>3. /\ \A i \in DOMAIN inbox' : i \in DOMAIN inbox \/ i = Len(inbox) + 1
        /\ \A i \in DOMAIN inbox : inbox'[i] = inbox[i]
        /\ inbox'[Len(inbox) + 1] = row
    BY <1>3, <2>1
  <2>4. RowsAreTheirOwn'
    <3>1. \A i \in DOMAIN inbox' : inbox'[i].id <= minted'
      BY <1>2, <1>3, <1>4, <2>1, <2>3
    <3>2. OwnRows(inbox')
      BY <1>2, <1>3, <1>4, <2>1, <2>2, <2>3 DEF OwnRows
    <3> QED
      BY <3>1, <3>2 DEF RowsAreTheirOwn
  <2>5. Asked' = Becoming(Asked, item.ref, Requests!RequestOf(row))
    <3>1. OwnRows(Append(inbox, row))
      BY <2>1, <2>4 DEF RowsAreTheirOwn
    <3> QED
      BY <1>3, <2>1, <2>2, <3>1, OneRowAdded, AskedIsThat
  <2>6. Asked[item.ref].is = "absent"
    BY <1>2, <2>1, <2>2, AskedOfNobody, AskedIsThat
  <2>7. Requests!RequestOf(row) = [is |-> "pending", says |-> Requests!Content(item), version |-> 1, taken |-> 0]
    BY <2>1 DEF Requests!RequestOf, Requests!Content
  <2>8. Requests!Promised!First(item.ref, Requests!Content(item))
    BY <2>5, <2>6, <2>7, WhatIsPromised
  <2> QED
    BY <1>2, <1>5, <2>4, <2>8 DEF Promises, Requests!Promised!QueueNext, Sayable
<1>7. ASSUME NEW i \in Requests!Rows(a.ref), Requests!Revise(i, item),
             Requests!Content(inbox[i]) # Requests!Content(item) \/ inbox[i].state = "withdrawn"
      PROVE  RowsAreTheirOwn' /\ Promises
  <2> DEFINE row == inbox[i]
             merged == Requests!Merge(row, item)
             newer == IF Requests!Content(row) = Requests!Content(item)
                        THEN row.revision ELSE row.revision + 1
             next == [merged EXCEPT !.state = "pending", !.revision = newer]
  <2>1. i \in DOMAIN inbox /\ row \in StoredRequest /\ row.ref = item.ref
    BY <1>2, <1>3, <1>7 DEF Requests!Rows
  <2>2. inbox' = [inbox EXCEPT ![i] = next]
    BY <1>7 DEF Requests!Revise
  <2>3. /\ merged \in StoredRequest /\ merged.acked = row.acked /\ merged.ref = row.ref
        /\ merged.heading = item.heading /\ merged.text = item.text
    BY <2>1, <1>2 DEF Requests!Merge, StoredRequest
  <2>4. newer \in Nat
    BY <2>1 DEF StoredRequest
  <2> HIDE DEF merged, newer
  <2>5. /\ next.state = "pending" /\ next.acked = merged.acked /\ next.ref = merged.ref
        /\ next.heading = merged.heading /\ next.text = merged.text /\ next.revision = newer
    BY <2>3, <2>4 DEF StoredRequest
  <2> HIDE DEF next, row
  <2>6. /\ DOMAIN inbox' = DOMAIN inbox /\ Len(inbox') = Len(inbox) /\ inbox'[i] = next
        /\ \A j \in DOMAIN inbox \ {i} : inbox'[j] = inbox[j]
    BY <1>3, <2>1, <2>2
  <2>7. RowsKept
    BY SubmitStep
  <2>8. RowsAreTheirOwn'
    BY <1>3, <2>6, <2>7, OwnRowsStay
  <2>9. Asked' = Becoming(Asked, item.ref, Requests!RequestOf(next))
    <3>1. \A j \in DOMAIN inbox : inbox'[j].ref = inbox[j].ref
      BY <2>1, <2>3, <2>5, <2>6 DEF row
    <3>2. OwnRows(inbox')
      BY <2>8 DEF RowsAreTheirOwn
    <3>3. AskedIn(inbox') = Becoming(AskedIn(inbox), inbox[i].ref, Requests!RequestOf(inbox'[i]))
      BY <1>3, <2>1, <2>6, <3>1, <3>2, OneRowBecomes
    <3> QED
      BY <2>1, <2>6, <3>3, AskedIsThat DEF row
  <2>10. Asked[item.ref] = Requests!RequestOf(row)
    BY <1>3, <2>1, AskedOfRow, AskedIsThat DEF row
  <2>11. Requests!RequestOf(next) = [is |-> "pending", says |-> Requests!Content(item),
                                     version |-> newer, taken |-> row.acked]
    BY <2>3, <2>5 DEF Requests!RequestOf, Requests!Content
  <2>12. /\ Asked[item.ref].is = row.state /\ Asked[item.ref].says = Requests!Content(row)
         /\ Asked[item.ref].version = row.revision /\ Asked[item.ref].taken = row.acked
    BY <2>10 DEF Requests!RequestOf
  <2>13. row.state # "absent"
    BY <2>1 DEF StoredRequest
  <2>14. CASE Requests!Content(row) # Requests!Content(item)
    <3>1. newer = row.revision + 1
      BY <2>14 DEF newer
    <3>2. Requests!Promised!Amended(item.ref, Requests!Content(item))
      <4>1. Requests!RequestOf(next) = [is |-> "pending", says |-> Requests!Content(item),
                                        version |-> Asked[item.ref].version + 1,
                                        taken |-> Asked[item.ref].taken]
        BY <2>11, <2>12, <3>1
      <4>2. Asked[item.ref].is # "absent" /\ Asked[item.ref].says # Requests!Content(item)
        BY <2>12, <2>13, <2>14
      <4> QED
        BY <2>9, <4>1, <4>2, WhatIsPromised
    <3> QED
      BY <1>2, <1>5, <2>8, <3>2 DEF Promises, Requests!Promised!QueueNext, Sayable
  <2>15. CASE Requests!Content(row) = Requests!Content(item) /\ row.state = "withdrawn"
    <3>1. newer = row.revision
      BY <2>15 DEF newer
    <3>2. Requests!RequestOf(next) = [Asked[item.ref] EXCEPT !.is = "pending"]
      BY <2>10, <2>11, <2>15, <3>1 DEF Requests!RequestOf
    <3>3. Requests!Promised!Reopened(item.ref)
      <4>1. Asked[item.ref].is = "withdrawn"
        BY <2>12, <2>15
      <4> QED
        BY <2>9, <3>2, <4>1, WhatIsPromised
    <3> QED
      BY <1>2, <2>8, <3>3 DEF Promises, Requests!Promised!QueueNext
  <2> QED
    BY <1>7, <2>14, <2>15 DEF row
<1> QED
  BY <1>1, <1>6, <1>7

LEMMA TakingBackIsPromised ==
    ASSUME InboxInv, InboxInv', RowsAreTheirOwn, NEW ref \in Refs, Requests!Withdraw(ref)
    PROVE  RowsAreTheirOwn' /\ Promises
<1>1. PICK i \in Requests!Rows(ref) : inbox' = [inbox EXCEPT ![i].state = "withdrawn"]
  BY DEF Requests!Withdraw
<1> DEFINE row == inbox[i]
           next == [row EXCEPT !.state = "withdrawn"]
<1>2. /\ inbox \in Seq(StoredRequest) /\ inbox' \in Seq(StoredRequest) /\ OwnRows(inbox)
      /\ minted' = minted /\ minted \in Nat
  BY DEF Requests!Withdraw, InboxInv, InboxTypes, RowsAreTheirOwn
<1>3. i \in DOMAIN inbox /\ row \in StoredRequest /\ row.ref = ref
  BY <1>2 DEF Requests!Rows
<1>4. /\ DOMAIN inbox' = DOMAIN inbox /\ Len(inbox') = Len(inbox) /\ inbox'[i] = next
      /\ \A j \in DOMAIN inbox \ {i} : inbox'[j] = inbox[j]
  BY <1>1, <1>2, <1>3
<1>5. RowsKept
  BY WithdrawStep
<1>6. RowsAreTheirOwn'
  BY <1>2, <1>4, <1>5, OwnRowsStay
<1>7. /\ next.state = "withdrawn" /\ next.ref = row.ref /\ next.heading = row.heading
      /\ next.text = row.text /\ next.revision = row.revision /\ next.acked = row.acked
  BY <1>3 DEF StoredRequest
<1> HIDE DEF next, row
<1>8. Asked' = Becoming(Asked, ref, Requests!RequestOf(next))
  <2>1. \A j \in DOMAIN inbox : inbox'[j].ref = inbox[j].ref
    BY <1>3, <1>4, <1>7 DEF row
  <2>2. OwnRows(inbox')
    BY <1>6 DEF RowsAreTheirOwn
  <2>3. AskedIn(inbox') = Becoming(AskedIn(inbox), inbox[i].ref, Requests!RequestOf(inbox'[i]))
    BY <1>2, <1>3, <1>4, <2>1, <2>2, OneRowBecomes
  <2> QED
    BY <1>3, <1>4, <2>3, AskedIsThat DEF row
<1>9. Asked[ref] = Requests!RequestOf(row)
  BY <1>2, <1>3, AskedOfRow, AskedIsThat DEF row
<1>10. Requests!RequestOf(next) = [Requests!RequestOf(row) EXCEPT !.is = "withdrawn"]
  BY <1>7 DEF Requests!RequestOf, Requests!Content
<1>11. Requests!RequestOf(row).is # "absent"
  BY <1>3 DEF StoredRequest, Requests!RequestOf
<1>12. Requests!Promised!TakenBack(ref)
  BY <1>8, <1>9, <1>10, <1>11, WhatIsPromised
<1> QED
  BY <1>6, <1>12 DEF Promises, Requests!Promised!QueueNext

LEMMA TakenAsItIs ==
    ASSUME NEW is, NEW says, NEW now, NEW was,
           NEW r, r = [is |-> is, says |-> says, version |-> now, taken |-> was]
    PROVE  Taken(r) = [is |-> "acknowledged", says |-> says, version |-> now, taken |-> now]
<1> DEFINE s == [r EXCEPT !.is = "acknowledged"]
           t == [s EXCEPT !.taken = now]
<1>1. s = [is |-> "acknowledged", says |-> says, version |-> now, taken |-> was]
  OBVIOUS
<1>2. t = [is |-> "acknowledged", says |-> says, version |-> now, taken |-> now]
  <2> HIDE DEF s
  <2> QED
    BY <1>1
<1>3. r.version = now
  OBVIOUS
<1>4. Taken(r) = t
  BY <1>3 DEF Taken
<1> QED
  BY <1>2, <1>4

\* At most one row has the id, and only while it waits is it handed over.
LEMMA HandingOverIsPromised ==
    ASSUME InboxInv, InboxInv', RowsAreTheirOwn, Requests!Acknowledge
    PROVE  RowsAreTheirOwn' /\ Promises
<1> DEFINE Mine(i) == inbox[i].id = work.batch[1].id /\ inbox[i].state = "pending"
           row(i) == [inbox[i] EXCEPT !.state = "acknowledged", !.acked = inbox[i].revision]
<1>1. /\ inbox \in Seq(StoredRequest) /\ inbox' \in Seq(StoredRequest) /\ OwnRows(inbox)
      /\ minted' = minted /\ minted \in Nat
      /\ inbox' = [i \in DOMAIN inbox |-> IF Mine(i) THEN row(i) ELSE inbox[i]]
  BY DEF Requests!Acknowledge, InboxInv, InboxTypes, RowsAreTheirOwn
<1>2. \A i \in DOMAIN inbox : Mine(i) => \A j \in DOMAIN inbox \ {i} : ~Mine(j)
  BY <1>1 DEF OwnRows
<1> HIDE DEF Mine, row
<1>3. /\ DOMAIN inbox' = DOMAIN inbox /\ Len(inbox') = Len(inbox)
      /\ \A i \in DOMAIN inbox : inbox'[i] = IF Mine(i) THEN row(i) ELSE inbox[i]
  BY <1>1
<1>4. RowsKept
  BY AcknowledgeStep
<1>5. RowsAreTheirOwn'
  BY <1>1, <1>3, <1>4, OwnRowsStay
<1>6. CASE \A i \in DOMAIN inbox : ~Mine(i)
  <2>1. inbox' = [i \in DOMAIN inbox |-> inbox[i]]
    BY <1>1, <1>6
  <2>2. inbox' = inbox
    BY <1>1, <2>1
  <2> QED
    BY <1>1, <2>2, SameRequests
<1>7. ASSUME NEW i \in DOMAIN inbox, Mine(i) PROVE RowsAreTheirOwn' /\ Promises
  <2> DEFINE ref == inbox[i].ref
  <2>1. inbox'[i] = row(i) /\ \A j \in DOMAIN inbox \ {i} : inbox'[j] = inbox[j]
    BY <1>2, <1>3, <1>7
  <2>2. inbox[i] \in StoredRequest /\ inbox[i].state = "pending" /\ ref \in Refs
    <3>1. inbox[i] \in StoredRequest
      BY <1>1, <1>7
    <3> QED
      BY <1>7, <3>1 DEF StoredRequest, Mine
  <2>3. /\ row(i).state = "acknowledged" /\ row(i).ref = ref /\ row(i).heading = inbox[i].heading
        /\ row(i).text = inbox[i].text /\ row(i).revision = inbox[i].revision
        /\ row(i).acked = inbox[i].revision
    BY <2>2 DEF StoredRequest, row
  <2>4. Asked' = Becoming(Asked, ref, Requests!RequestOf(row(i)))
    <3>1. \A j \in DOMAIN inbox : inbox'[j].ref = inbox[j].ref
      BY <1>7, <2>1, <2>3
    <3>2. OwnRows(inbox')
      BY <1>5 DEF RowsAreTheirOwn
    <3>3. AskedIn(inbox') = Becoming(AskedIn(inbox), inbox[i].ref, Requests!RequestOf(inbox'[i]))
      BY <1>1, <1>3, <1>7, <2>1, <3>1, <3>2, OneRowBecomes
    <3> QED
      BY <2>1, <3>3, AskedIsThat
  <2>5. Asked[ref] = Requests!RequestOf(inbox[i])
    BY <1>1, <1>7, AskedOfRow, AskedIsThat
  <2>6. Asked[ref].is = "pending"
    BY <2>2, <2>5 DEF Requests!RequestOf
  <2>7. Requests!RequestOf(row(i)) = Taken(Asked[ref])
    <3>1. Asked[ref] = [is |-> inbox[i].state, says |-> Requests!Content(row(i)),
                        version |-> row(i).revision, taken |-> inbox[i].acked]
      BY <2>3, <2>5 DEF Requests!RequestOf, Requests!Content
    <3>2. Requests!RequestOf(row(i)) = [is |-> "acknowledged", says |-> Requests!Content(row(i)),
                                        version |-> row(i).revision, taken |-> row(i).revision]
      BY <2>3 DEF Requests!RequestOf
    <3> QED
      BY <3>1, <3>2, TakenAsItIs
  <2> HIDE DEF ref
  <2>8. Requests!Promised!HandedOver(ref)
    BY <2>4, <2>6, <2>7, WhatIsPromised
  <2> QED
    BY <1>5, <2>2, <2>8 DEF Promises, Requests!Promised!QueueNext
<1> QED
  BY <1>6, <1>7

LEMMA TakingUpIsPromised ==
    ASSUME InboxInv, InboxInv', RowsAreTheirOwn, Requests!Unacknowledge
    PROVE  RowsAreTheirOwn' /\ Promises
<1> DEFINE row(i) == [inbox[i] EXCEPT !.state = "pending", !.acked = 0]
           Again(r) == IF r.is = "acknowledged" THEN [r EXCEPT !.is = "pending", !.taken = 0] ELSE r
<1>1. /\ inbox \in Seq(StoredRequest) /\ inbox' \in Seq(StoredRequest) /\ OwnRows(inbox)
      /\ minted' = minted /\ minted \in Nat
      /\ inbox' = [i \in DOMAIN inbox |-> IF inbox[i].state = "acknowledged" THEN row(i) ELSE inbox[i]]
  BY DEF Requests!Unacknowledge, InboxInv, InboxTypes, RowsAreTheirOwn
<1> HIDE DEF Again
<1>9. /\ inbox \in Seq(StoredRequest) /\ inbox' \in Seq(StoredRequest) /\ OwnRows(inbox)
      /\ \A i \in DOMAIN inbox : inbox[i] \in StoredRequest
  BY DEF InboxInv, InboxTypes, RowsAreTheirOwn
<1>2. ASSUME NEW i \in DOMAIN inbox
      PROVE  /\ Requests!RequestOf(inbox'[i]) = Again(Requests!RequestOf(inbox[i]))
             /\ inbox'[i].ref = inbox[i].ref
  <2>1. inbox[i] \in StoredRequest
    BY <1>9
  <2>2. /\ row(i).state = "pending" /\ row(i).ref = inbox[i].ref /\ row(i).heading = inbox[i].heading
        /\ row(i).text = inbox[i].text /\ row(i).revision = inbox[i].revision /\ row(i).acked = 0
    BY <2>1 DEF StoredRequest
  <2>3. inbox'[i] = IF inbox[i].state = "acknowledged" THEN row(i) ELSE inbox[i]
    BY <1>1
  <2> HIDE DEF row
  <2> QED
    BY <2>2, <2>3 DEF Requests!RequestOf, Requests!Content, Again
<1> HIDE DEF row
<1>3. DOMAIN inbox' = DOMAIN inbox /\ Len(inbox') = Len(inbox)
  BY <1>1
<1>4. RowsKept
  BY UnacknowledgeStep
<1>5. RowsAreTheirOwn'
  BY <1>1, <1>3, <1>4, OwnRowsStay
<1>6. ASSUME NEW ref \in Refs PROVE Asked'[ref] = Again(Asked[ref])
  <2>1. OwnRows(inbox')
    BY <1>5 DEF RowsAreTheirOwn
  <2>2. \/ /\ AskedIn(inbox)[ref] = [is |-> "absent"]
           /\ AskedIn(inbox')[ref] = [is |-> "absent"]
        \/ \E j \in DOMAIN inbox : /\ inbox[j].ref = ref
                                   /\ AskedIn(inbox)[ref] = Requests!RequestOf(inbox[j])
                                   /\ AskedIn(inbox')[ref] = Requests!RequestOf(inbox'[j])
    <3>1. DOMAIN inbox' = DOMAIN inbox /\ \A j \in DOMAIN inbox : inbox'[j].ref = inbox[j].ref
      BY <1>2, <1>3
    <3> QED
      BY <1>9, <2>1, <3>1, AskedRowByRow
  <2>3. CASE /\ AskedIn(inbox)[ref] = [is |-> "absent"]
             /\ AskedIn(inbox')[ref] = [is |-> "absent"]
    BY <2>3, AskedIsThat DEF Again
  <2>4. ASSUME NEW j \in DOMAIN inbox, AskedIn(inbox)[ref] = Requests!RequestOf(inbox[j]),
               AskedIn(inbox')[ref] = Requests!RequestOf(inbox'[j])
        PROVE  Asked'[ref] = Again(Asked[ref])
    BY <1>2, <2>4, AskedIsThat
  <2> QED
    BY <2>2, <2>3, <2>4
<1>7. Asked' = [ref \in Refs |-> Again(Asked[ref])]
  <2>1. Asked' = [ref \in Refs |-> Asked'[ref]]
    <3>1. AskedIn(inbox') = [ref \in Refs |-> AskedIn(inbox')[ref]]
      BY DEF AskedIn
    <3> QED
      BY <3>1, AskedIsThat
  <2> QED
    BY <1>6, <2>1
<1>8. Requests!Promised!TakeUp
  BY <1>7 DEF Requests!Promised!TakeUp, Again, Asked, AskedIn, Requests!Rows
<1> QED
  BY <1>5, <1>8 DEF Promises

LEMMA ForgettingIsPromised ==
    ASSUME InboxInv, InboxInv', RowsAreTheirOwn, Requests!Delete
    PROVE  RowsAreTheirOwn' /\ Promises
<1>1. minted' = minted /\ minted \in Nat
  BY DEF Requests!Delete, InboxInv, InboxTypes
<1>2. CASE reset.keep
  BY <1>1, <1>2, SameRequests DEF Requests!Delete
<1>3. CASE ~reset.keep
  <2>1. inbox' = <<>>
    BY <1>3 DEF Requests!Delete
  <2>2. \A ref \in Refs : AskedIn(inbox')[ref] = [is |-> "absent"]
    BY <2>1, AskedOfNobody
  <2>3. AskedIn(inbox') = [ref \in Refs |-> AskedIn(inbox')[ref]]
    BY DEF AskedIn
  <2>4. Asked' = [ref \in Refs |-> [is |-> "absent"]]
    BY <2>2, <2>3, AskedIsThat
  <2>5. Requests!Promised!Forget
    BY <2>4 DEF Requests!Promised!Forget, Requests!Promised!Absent, Asked, AskedIn, Requests!Rows
  <2>6. RowsAreTheirOwn'
    BY <1>1, <2>1, OwnRowsStay, DeleteStep
  <2> QED
    BY <2>5, <2>6 DEF Promises
<1> QED
  BY <1>2, <1>3

LEMMA EveryStepIsPromised ==
    ASSUME InboxInv, InboxInv', RowsAreTheirOwn, Requests!Next
    PROVE  RowsAreTheirOwn' /\ Promises
<1>1. CASE \/ \E c \in Conversations, t \in Texts : Requests!Reply(c, t)
           \/ Requests!Collect \/ Requests!Refuse \/ Requests!StartRun \/ Requests!FinishRun
           \/ \E keep, force \in BOOLEAN : Requests!Plan(keep, force)
           \/ Requests!Check \/ Requests!Crash
  <2>1. UNCHANGED <<inbox, minted>>
    BY <1>1 DEF Requests!Reply, Requests!Collect, Requests!Refuse, Requests!StartRun,
                Requests!FinishRun, Requests!Plan, Requests!Check, Requests!Crash
  <2> QED
    BY <2>1, SameRequests
<1> QED
  BY <1>1, ArrivalIsPromised, TakingBackIsPromised, HandingOverIsPromised, TakingUpIsPromised,
     ForgettingIsPromised
  DEF Requests!Next, Requests!Arrives, Requests!Works, Requests!Resets, Requests!Amend

LEMMA NothingIsPromisedYet == Init => RowsAreTheirOwn /\ Requests!Promised!PromiseInit
<1> SUFFICES ASSUME Requests!Init PROVE RowsAreTheirOwn /\ Requests!Promised!PromiseInit
  BY DEF Init
<1>1. inbox = <<>>
  BY DEF Requests!Init
<1> QED
  BY <1>1 DEF RowsAreTheirOwn, OwnRows, Requests!Promised!PromiseInit, Requests!Promised!Absent,
              Requests!Rows

(***************************************************************************)
(* Whatever is delivered under its reference, in any order and by anybody, *)
(* a request stays itself, its revision moves exactly with what it says,   *)
(* and every turn is of a request that is there; what becomes of it is     *)
(* what RequestPromise says; and whoever dies between the steps of a       *)
(* reset, no request is left acknowledged without a run but where the      *)
(* reset died half-way or deleted the run under a process that was working *)
(* on it: for any number of requests, people, runs and turns.              *)
(***************************************************************************)
THEOREM RequestsStayThemselves == Spec => RequestsAreKept
<1> DEFINE Keeps ==
      /\ inbox' # <<>> =>
           /\ Len(inbox) <= Len(inbox')
           /\ \A i \in DOMAIN inbox :
                 LET was == inbox[i]  now == inbox'[i] IN
                 /\ <<now.id, now.ref, now.submitter, now.conversation>>
                      = <<was.id, was.ref, was.submitter, was.conversation>>
                 /\ now.revision = was.revision + (IF Requests!Content(now) = Requests!Content(was)
                                                   THEN 0 ELSE 1)
                 /\ now.acked <= now.revision
      /\ \A t \in DOMAIN turns' : \E i \in DOMAIN inbox' : inbox'[i].ref = turns'[t].ref
<1>1. InboxInv /\ [Next]_vars => InboxInv'
  BY InboxStep, InboxStays
  DEF Next, SchedulerMoves, IntakeMoves, UpgradeMoves, ModelMoves, OutboxMoves, Decides, vars
<1>2. InboxInv /\ InboxInv' /\ [Next]_vars => Keeps \/ UNCHANGED Requests!vars
  <2> SUFFICES ASSUME InboxInv, InboxInv', [Next]_vars PROVE Keeps \/ UNCHANGED Requests!vars
    OBVIOUS
  <2>1. CASE Requests!Next
    BY <2>1, InboxStep DEF RowsKept, RowKept, InboxInv, RowsAgree
  <2>2. CASE UNCHANGED intake
    BY <2>2 DEF intake, Requests!vars
  <2> QED
    BY <2>1, <2>2
    DEF Next, SchedulerMoves, IntakeMoves, UpgradeMoves, ModelMoves, OutboxMoves, Decides, vars
<1>3. InboxInv' => Requests!NothingIsForgotten'
  BY DEF InboxInv, NobodyIsForgotten, Requests!NothingIsForgotten
<1>4. InboxInv /\ InboxInv' /\ RowsAreTheirOwn /\ [Next]_vars => RowsAreTheirOwn' /\ Promises
  <2> SUFFICES ASSUME InboxInv, InboxInv', RowsAreTheirOwn, [Next]_vars
               PROVE  RowsAreTheirOwn' /\ Promises
    OBVIOUS
  <2>1. CASE Requests!Next
    BY <2>1, EveryStepIsPromised
  <2>2. CASE UNCHANGED intake
    BY <2>2, SameRequests DEF intake
  <2> QED
    BY <2>1, <2>2
    DEF Next, SchedulerMoves, IntakeMoves, UpgradeMoves, ModelMoves, OutboxMoves, Decides, vars
<1>5. Spec => Requests!RequestsKeepTheirPromise
  BY <1>1, <1>4, InboxInit, NothingIsPromisedYet, PTL
  DEF Spec, Requests!RequestsKeepTheirPromise, Requests!Promised!PromiseSpec, Promises,
      Asked, AskedIn, Requests!Rows
<1> QED
  BY <1>1, <1>2, <1>3, <1>5, InboxInit, PTL
  DEF Spec, RequestsAreKept, Requests!RequestKeepsItself

-----------------------------------------------------------------------------
(***************************************************************************)
(* ModelStep: a stage that asks a model.                                   *)
(***************************************************************************)

\* Induction over the numbers of messages is by the least counterexample.
LEMMA Least == \A T \in SUBSET Nat : T # {} => \E n \in T : \A m \in T : n <= m
<1>1. SUFFICES ASSUME NEW T \in SUBSET Nat, T # {} PROVE \E n \in T : \A m \in T : n <= m
  OBVIOUS
<1>2. PICK n \in T : \A m \in T : <<m, n>> \notin OpToRel(<, Nat)
  BY <1>1, NatLessThanWellFounded, WFMin, Zenon
<1>3. \A m \in T : ~(m < n)
  BY <1>1, <1>2, Zenon DEF OpToRel
<1> QED
  BY <1>1, <1>3

AMessage == [what : {"task", "reply", "correction", "elided"}, size : Nat, cut : BOOLEAN]

\* The running sums exist, and are what their definition says.
LEMMA RunningSums ==
    ASSUME NEW m \in Seq(AMessage)
    PROVE  /\ Model!Running(m)[0] = 0
           /\ \A n \in 1 .. Len(m) : Model!Running(m)[n] = Model!Running(m)[n - 1] + m[n].size
<1> DEFINE Sums(s, k) == s = [n \in 0 .. k |-> IF n = 0 THEN 0 ELSE s[n - 1] + m[n].size]
           None == {k \in 0 .. Len(m) : ~\E s : Sums(s, k)}
<1>1. None = {}
  <2>1. SUFFICES ASSUME None # {} PROVE FALSE
    OBVIOUS
  <2>2. PICK k \in None : \A j \in None : k <= j
    <3>1. None \in SUBSET Nat
      OBVIOUS
    <3> QED
      BY <2>1, <3>1, Least
  <2>3. Sums([n \in 0 .. 0 |-> 0], 0)
    OBVIOUS
  <2>4. k # 0 /\ k - 1 \in 0 .. Len(m) /\ ~(k <= k - 1)
    <3> HIDE DEF Sums
    <3> QED
      BY <2>2, <2>3
  <2>5. PICK s : Sums(s, k - 1)
    <3> HIDE DEF Sums
    <3> QED
      BY <2>2, <2>4
  <2> DEFINE longer == [n \in 0 .. k |-> IF n = k THEN s[k - 1] + m[k].size ELSE s[n]]
  <2>6. \A n \in 0 .. k : longer[n] = IF n = 0 THEN 0 ELSE longer[n - 1] + m[n].size
    BY <2>4, <2>5
  <2>7. Sums(longer, k)
    BY <2>6
  <2> QED
    BY <2>2, <2>7
<1>2. \E s : Sums(s, Len(m))
  BY <1>1
<1>3. Model!Running(m) = CHOOSE s : Sums(s, Len(m))
  BY DEF Model!Running
<1>4. Sums(Model!Running(m), Len(m))
  BY <1>2, <1>3
<1> QED
  BY <1>4

LEMMA RunningIsNat ==
    ASSUME NEW m \in Seq(AMessage)
    PROVE  \A n \in 0 .. Len(m) : Model!Running(m)[n] \in Nat
<1> DEFINE Bad == {n \in 0 .. Len(m) : Model!Running(m)[n] \notin Nat}
<1>1. SUFFICES ASSUME Bad # {} PROVE FALSE
  OBVIOUS
<1>2. PICK n \in Bad : \A j \in Bad : n <= j
  <2>1. Bad \in SUBSET Nat
    OBVIOUS
  <2> QED
    BY <1>1, <2>1, Least
<1>3. n # 0 /\ n - 1 \in 0 .. Len(m) /\ n - 1 \notin Bad
  <2>1. Model!Running(m)[0] = 0
    BY RunningSums
  <2> QED
    BY <1>2, <2>1
<1>4. Model!Running(m)[n - 1] \in Nat /\ m[n] \in AMessage
  BY <1>2, <1>3
<1>5. m[n].size \in Nat
  BY <1>4 DEF AMessage
<1> QED
  BY <1>2, <1>3, <1>4, <1>5, RunningSums

\* What is truncated is as long as it was, and fits but for a mark for each message that
\* is cut.
LEMMA TruncateFits ==
    ASSUME NEW m \in Seq(AMessage), NEW a \in Nat \ {0}
    PROVE  LET t == Model!Truncate(m, a) IN
           /\ t \in Seq(AMessage) /\ Len(t) = Len(m)
           /\ \A i \in 1 .. Len(m) : t[i] = m[i] \/ t[i].cut
           /\ Model!Tokens(t) <= a + Cardinality({i \in 1 .. Len(t) : t[i].cut})
<1> DEFINE t == Model!Truncate(m, a)
           before(i) == Model!Running(m)[i - 1]
           room(i) == IF before(i) < a THEN a - before(i) ELSE 1
           short(i) == [Model!Elided(m[i].what) EXCEPT !.size = room(i)]
           cuts(n) == {i \in 1 .. n : t[i].cut}
<1>1. t = [i \in DOMAIN m |-> IF before(i) + m[i].size <= a THEN m[i] ELSE short(i)]
  BY DEF Model!Truncate
<1>2. \A i \in 1 .. Len(m) : before(i) \in Nat /\ room(i) \in Nat /\ m[i] \in AMessage
  BY RunningIsNat
<1>3. \A i \in 1 .. Len(m) : short(i) \in AMessage /\ short(i).size = room(i) /\ short(i).cut
  BY <1>2 DEF AMessage, Model!Elided
<1> DEFINE kept(i) == before(i) + m[i].size <= a
<1> HIDE DEF t, short, kept
<1>5. /\ DOMAIN m = 1 .. Len(m) /\ Len(m) \in Nat
      /\ \A i \in 1 .. Len(m) : t[i] = IF kept(i) THEN m[i] ELSE short(i)
  BY <1>1 DEF kept
<1>4. t \in Seq(AMessage) /\ Len(t) = Len(m)
  <2>1. t = [i \in 1 .. Len(m) |-> IF kept(i) THEN m[i] ELSE short(i)]
    BY <1>1, <1>5 DEF kept
  <2>2. \A i \in 1 .. Len(m) : (IF kept(i) THEN m[i] ELSE short(i)) \in AMessage
    BY <1>2, <1>3
  <2> QED
    BY <1>5, <2>1, <2>2
<1> DEFINE Fits(n) == /\ Model!Running(t)[n] <= a + Cardinality(cuts(n))
                      /\ Model!Running(m)[n] <= a => Model!Running(t)[n] = Model!Running(m)[n]
           Bad == {n \in 0 .. Len(m) : ~Fits(n)}
<1>6. \A n \in 0 .. Len(m) : /\ IsFiniteSet(cuts(n)) /\ Cardinality(cuts(n)) \in Nat
                             /\ Model!Running(t)[n] \in Nat /\ Model!Running(m)[n] \in Nat
  <2>1. ASSUME NEW n \in 0 .. Len(m) PROVE IsFiniteSet(cuts(n)) /\ Cardinality(cuts(n)) \in Nat
    <3>1. IsFiniteSet(1 .. n)
      BY FS_Interval
    <3>2. IsFiniteSet(cuts(n))
      BY <3>1, FS_Subset
    <3> QED
      BY <3>2, FS_CardinalityType
  <2> QED
    BY <1>4, <2>1, RunningIsNat
<1>7. Bad = {}
  <2>1. SUFFICES ASSUME Bad # {} PROVE FALSE
    OBVIOUS
  <2>2. PICK n \in Bad : \A j \in Bad : n <= j
    <3>1. Bad \in SUBSET Nat
      OBVIOUS
    <3> QED
      BY <2>1, <3>1, Least
  <2>3. n # 0
    <3>1. Model!Running(t)[0] = 0 /\ Model!Running(m)[0] = 0
      BY <1>4, RunningSums
    <3>2. Cardinality(cuts(0)) \in Nat
      <4> HIDE DEF cuts
      <4> QED
        BY <1>5, <1>6
    <3>3. Fits(0)
      BY <3>1, <3>2
    <3> HIDE DEF Fits
    <3> QED
      BY <2>2, <3>3
  <2>4. n \in 1 .. Len(m) /\ n - 1 \in 0 .. Len(m) /\ Fits(n - 1)
    <3> HIDE DEF Fits
    <3>1. n \in 1 .. Len(m) /\ n - 1 \in 0 .. Len(m) /\ ~(n <= n - 1)
      BY <1>5, <2>2, <2>3
    <3> QED
      BY <2>2, <3>1
  <2>5. /\ Model!Running(t)[n] = Model!Running(t)[n - 1] + t[n].size
        /\ Model!Running(m)[n] = before(n) + m[n].size
    BY <1>4, <2>4, RunningSums
  <2>6. m[n].size \in Nat
    BY <1>2, <2>4 DEF AMessage
  <2>7. Cardinality(cuts(n)) = Cardinality(cuts(n - 1)) + (IF t[n].cut THEN 1 ELSE 0)
    <3>1. CASE t[n].cut
      <4>1. cuts(n) = cuts(n - 1) \cup {n} /\ n \notin cuts(n - 1)
        BY <2>4, <3>1
      <4> QED
        BY <1>6, <2>4, <3>1, <4>1, FS_AddElement
    <3>2. CASE ~t[n].cut
      <4>1. cuts(n) = cuts(n - 1)
        BY <2>4, <3>2
      <4>2. Cardinality(cuts(n)) \in Nat
        <5> HIDE DEF cuts
        <5> QED
          BY <1>5, <1>6, <2>4
      <4> HIDE DEF cuts
      <4> QED
        BY <3>2, <4>1, <4>2
    <3> QED
      BY <3>1, <3>2
  <2> HIDE DEF cuts
  <2>8. Fits(n)
    <3>1. CASE kept(n)
      <4>1. t[n].size = m[n].size /\ before(n) + m[n].size <= a
        <5>1. t[n].size = m[n].size
          BY <1>5, <2>4, <3>1 DEF kept
        <5>2. before(n) + m[n].size <= a
          BY <1>5, <2>4, <3>1 DEF kept
        <5> QED
          BY <5>1, <5>2
      <4>2. /\ Model!Running(t)[n - 1] \in Nat /\ before(n) \in Nat
            /\ Cardinality(cuts(n)) \in Nat
        BY <1>5, <1>6, <2>4
      <4>3. before(n) <= a
        BY <2>6, <4>1, <4>2
      <4>4. Model!Running(t)[n - 1] = before(n)
        BY <2>4, <4>3
      <4>5. Model!Running(t)[n] = before(n) + m[n].size /\ Model!Running(m)[n] = before(n) + m[n].size
        BY <2>5, <4>1, <4>4
      <4> QED
        BY <2>6, <4>1, <4>2, <4>5
    <3>2. CASE ~kept(n)
      <4>1. t[n].cut /\ t[n].size = room(n)
        BY <1>3, <1>5, <2>4, <3>2
      <4>2. before(n) + m[n].size > a
        BY <1>2, <2>4, <2>6, <3>2 DEF kept
      <4>3. /\ Cardinality(cuts(n - 1)) \in Nat /\ Model!Running(t)[n - 1] \in Nat
            /\ before(n) \in Nat
        BY <1>2, <1>6, <2>4
      <4>4. Model!Running(t)[n] = Model!Running(t)[n - 1] + room(n)
        BY <2>5, <4>1
      <4>5. CASE before(n) < a
        <5>1. Model!Running(t)[n - 1] = before(n)
          BY <2>4, <4>3, <4>5
        <5>2. Model!Running(t)[n] = a
          BY <4>3, <4>4, <4>5, <5>1
        <5>3. Cardinality(cuts(n)) \in Nat /\ Model!Running(m)[n] > a
          BY <2>5, <2>7, <4>1, <4>2, <4>3
        <5> QED
          BY <5>2, <5>3, RunningIsNat
      <4>6. CASE ~(before(n) < a)
        <5>1. Model!Running(t)[n] = Model!Running(t)[n - 1] + 1
          BY <4>4, <4>6
        <5>2. Model!Running(t)[n - 1] <= a + Cardinality(cuts(n - 1))
          BY <2>4
        <5>3. Cardinality(cuts(n)) = Cardinality(cuts(n - 1)) + 1 /\ Model!Running(m)[n] > a
          BY <2>5, <2>7, <4>1, <4>2
        <5> HIDE DEF before
        <5> QED
          BY <4>3, <5>1, <5>2, <5>3, RunningIsNat
      <4> QED
        BY <4>5, <4>6
    <3> QED
      BY <3>1, <3>2
  <2> QED
    BY <2>2, <2>8
<1>8. Fits(Len(m))
  <2> HIDE DEF Fits
  <2> QED
    BY <1>5, <1>7
<1>9. \A i \in 1 .. Len(m) : t[i] = m[i] \/ t[i].cut
  BY <1>3, <1>5
<1> QED
  BY <1>4, <1>8, <1>9 DEF Model!Tokens, t

Live == at # "over" \/ outcome.kind = "ok"

ModelTypes ==
    /\ stage \in Stages /\ at \in {"fit", "ask", "over"} /\ asked \in 1 .. Len(Model!Chain)
    /\ conversation \in Seq(AMessage) /\ said \in Nat /\ usage \in Nat /\ spent \in Nat
    /\ at # "over" => outcome.kind = "none"
    /\ IsFiniteSet(by) /\ by \subseteq DOMAIN Price

\* The cap holds whenever there may be another call, and of what is used.
CapIsKept ==
    Live => /\ stage.cap # NoCap => usage <= stage.cap
            /\ stage.usd # NoCap /\ by # {} => usage * Price[answered] <= stage.usd

CutIsMarked == at # "over" => Len(conversation) = said \/ Model!Marks # {}

\* What one model was asked for costs what it charges.
OneModelCharges ==
    /\ by # {} => answered \in by
    /\ Live => \A model \in DOMAIN Price : by \subseteq {model} => spent = usage * Price[model]

ModelInv == /\ ModelTypes /\ CapIsKept /\ CutIsMarked /\ OneModelCharges
            /\ Model!ResultIsVouchedFor /\ Model!NothingIsSpentOnAnUncheckedChain
            /\ Model!OnlyQuotaMovesDown /\ Model!PromptIsBounded

LEMMA StageFields ==
    ASSUME NEW s \in Stages
    PROVE  /\ s.schema \in BOOLEAN /\ s.salvage \in BOOLEAN
           /\ s.policy \in {"compact", "truncate", "fail"}
           /\ s.task \in Nat \ {0} /\ s.budget \in Nat \ {0} /\ s.cap \in Nat \cup {NoCap}
           /\ s.usd \in Nat \cup {NoCap}
           /\ s.chain \in Seq(DOMAIN Price) /\ Len(s.chain) \in Nat \ {0}
           /\ \A i \in 1 .. Len(s.chain) : s.chain[i] \in DOMAIN Price
<1>1. /\ s.schema \in BOOLEAN /\ s.salvage \in BOOLEAN
      /\ s.policy \in {"compact", "truncate", "fail"}
      /\ s.task \in Nat \ {0} /\ s.budget \in Nat \ {0} /\ s.cap \in Nat \cup {NoCap}
      /\ s.usd \in Nat \cup {NoCap}
      /\ s.chain \in Seq(DOMAIN Price) \ {<<>>}
  BY ServicesAssumption DEF Model!ModelAssumption
<1> QED
  BY <1>1

LEMMA ConstantsOfCalls ==
    /\ \A r \in Replies : /\ r.tokens \in Nat \ {0}
                          /\ r.fits \in BOOLEAN /\ r.complete \in BOOLEAN /\ r.calls \in BOOLEAN
    /\ \A model \in DOMAIN Price : Price[model] \in Nat /\ Window[model] \in Nat \ {0}
BY ServicesAssumption DEF Model!ModelAssumption

LEMMA BudgetIsNat == ASSUME stage \in Stages PROVE Model!Budget \in Nat \ {0}
<1>1. /\ stage.budget \in Nat \ {0} /\ stage.chain[1] \in DOMAIN Price
  <2>1. 1 \in 1 .. Len(stage.chain)
    BY StageFields
  <2> QED
    BY <2>1, StageFields
<1> QED
  BY <1>1, ConstantsOfCalls DEF Model!Budget, Model!Chain

LEMMA SameSize == \A S : Model!Cardinality(S) = Cardinality(S)
BY Zenon DEF Model!Cardinality, Cardinality

\* A fresh conversation: of the first attempt and of each retry.
IsFresh(s) ==
    /\ at = "fit" /\ asked = 1 /\ said = 1 /\ conversation = <<Model!Message("task", s.task)>>
    /\ usage = 0 /\ spent = 0 /\ by = {} /\ misread = FALSE /\ outcome = Model!NoOutcome

LEMMA FreshIsRight == stage \in Stages /\ IsFresh(stage) => ModelInv
<1> SUFFICES ASSUME stage \in Stages, IsFresh(stage) PROVE ModelInv
  OBVIOUS
<1>1. /\ stage.task \in Nat /\ Len(stage.chain) \in Nat \ {0} /\ stage.cap \in Nat \cup {NoCap}
  BY StageFields
<1>2. outcome.kind = "none"
  BY DEF IsFresh, Model!NoOutcome
<1>3. Model!Message("task", stage.task) \in AMessage
  BY <1>1 DEF AMessage, Model!Message
<1>4. ModelTypes
  BY <1>1, <1>2, <1>3, FS_EmptySet DEF ModelTypes, IsFresh, Model!Chain
<1>5. CapIsKept
  BY <1>1 DEF CapIsKept, IsFresh
<1>6. CutIsMarked
  BY DEF CutIsMarked, IsFresh
<1>7. OneModelCharges
  <2>1. \A model \in DOMAIN Price : 0 = 0 * Price[model]
    BY ConstantsOfCalls
  <2> QED
    BY <2>1 DEF OneModelCharges, IsFresh
<1>8. Model!ResultIsVouchedFor
  BY <1>2 DEF Model!ResultIsVouchedFor
<1> QED
  BY <1>4, <1>5, <1>6, <1>7, <1>8
  DEF ModelInv, IsFresh, Model!NothingIsSpentOnAnUncheckedChain, Model!OnlyQuotaMovesDown,
      Model!PromptIsBounded

LEMMA ModelInit == Init => ModelInv
BY FreshIsRight DEF Init, Model!Init, IsFresh

LEMMA RetryStep == ASSUME ModelInv, Model!Retry PROVE ModelInv'
<1>1. (stage \in Stages /\ IsFresh(stage))'
  BY DEF ModelInv, ModelTypes, Model!Retry, Model!Fresh, IsFresh
<1>2. (stage \in Stages /\ IsFresh(stage))' => ModelInv'
  BY FreshIsRight, PTL
<1> QED
  BY <1>1, <1>2

\* A step that ends the attempt without a result.
LEMMA FailsStep ==
    ASSUME ModelInv, NEW kind, NEW retryable, Model!Fails(kind, retryable), kind # "ok",
           UNCHANGED <<stage, conversation, said>>, asked' \in 1 .. Len(Model!Chain),
           usage' \in Nat, spent' \in Nat, IsFiniteSet(by'), by' \subseteq DOMAIN Price,
           by' # {} => answered' \in by', misread' = FALSE,
           spent' > 0 => spent > 0 \/ Model!Checked(stage)
    PROVE  ModelInv'
<1>1. at' = "over" /\ outcome'.kind = kind
  BY DEF Model!Fails, Model!NoOutcome
<1>2. ModelTypes'
  BY <1>1 DEF ModelInv, ModelTypes, Model!Chain
<1> QED
  BY <1>1, <1>2
  DEF ModelInv, CapIsKept, CutIsMarked, OneModelCharges, Live, Model!ResultIsVouchedFor,
      Model!NothingIsSpentOnAnUncheckedChain, Model!Checked, Model!OnlyQuotaMovesDown,
      Model!PromptIsBounded

LEMMA IncapableStep == ASSUME ModelInv, Model!Incapable PROVE ModelInv'
<1>1. /\ Model!Fails("model-capability", FALSE)
      /\ UNCHANGED <<stage, try, turn, conversation, report, asked, usage, answered, spent, by,
                     said, misread>>
  BY DEF Model!Incapable
<1>2. /\ ModelTypes /\ OneModelCharges /\ misread' = FALSE
      /\ asked' \in 1 .. Len(Model!Chain) /\ usage' \in Nat /\ spent' \in Nat
  BY <1>1 DEF ModelInv, ModelTypes, Model!OnlyQuotaMovesDown
<1> QED
  BY <1>1, <1>2, FailsStep DEF ModelTypes, OneModelCharges

LEMMA RefusedStep == ASSUME ModelInv, NEW r \in Model!Refusals, Model!Refused(r) PROVE ModelInv'
<1>1. /\ UNCHANGED <<stage, conversation, usage, answered, spent, by, said>> /\ misread' = FALSE
      /\ at = "ask"
  <2>1. ~(Model!translate(r) = "quota" /\ r.for # "quota" /\ ~r.quotes)
    BY DEF Model!translate
  <2> QED
    BY <2>1 DEF ModelInv, Model!OnlyQuotaMovesDown, Model!Refused
<1>2. CASE Model!translate(r) = "quota" /\ asked < Len(Model!Chain)
  <2>1. asked' = asked + 1 /\ UNCHANGED <<at, outcome>>
    BY <1>2 DEF Model!Refused
  <2>2. ModelTypes'
    BY <1>1, <1>2, <2>1 DEF ModelInv, ModelTypes, Model!Chain
  <2>3. Model!Estimated' = Model!Estimated /\ Model!Budget' = Model!Budget /\ Model!Marks' = Model!Marks
    BY <1>1 DEF Model!Estimated, Model!Budget, Model!Marks, Model!Chain
  <2> QED
    BY <1>1, <2>1, <2>2, <2>3
    DEF ModelInv, CapIsKept, CutIsMarked, OneModelCharges, Live, Model!ResultIsVouchedFor,
        Model!NothingIsSpentOnAnUncheckedChain, Model!OnlyQuotaMovesDown, Model!PromptIsBounded
<1>3. CASE ~(Model!translate(r) = "quota" /\ asked < Len(Model!Chain))
  <2>1. UNCHANGED asked /\ \E b : Model!Fails(Model!translate(r), b)
    BY <1>3 DEF Model!Refused
  <2>2. Model!translate(r) # "ok"
    BY DEF Model!translate, Model!Refusals
  <2> QED
    BY <1>1, <2>1, <2>2, FailsStep DEF ModelInv, ModelTypes, OneModelCharges
<1> QED
  BY <1>2, <1>3

LEMMA MarksAreFinite ==
    ASSUME NEW m \in Seq(AMessage)
    PROVE  Cardinality({i \in DOMAIN m : m[i].cut}) \in Nat
<1>1. IsFiniteSet(1 .. Len(m))
  BY FS_Interval
<1>2. {i \in DOMAIN m : m[i].cut} \subseteq 1 .. Len(m)
  OBVIOUS
<1> QED
  BY <1>1, <1>2, FS_Subset, FS_CardinalityType

LEMMA TokensAreNat == ASSUME NEW m \in Seq(AMessage) PROVE Model!Tokens(m) \in Nat
BY RunningIsNat DEF Model!Tokens

\* The prompt goes out, whole or cut.
LEMMA AskStep ==
    ASSUME ModelInv, at = "fit", at' = "ask", asked' = 1, conversation' \in Seq(AMessage),
           UNCHANGED <<stage, try, turn, usage, answered, spent, by, said, misread, outcome>>,
           Len(conversation') = said \/ Model!Marks' # {},
           \/ stage.policy = "compact"
           \/ Model!Estimated' <= Model!Budget + Cardinality(Model!Marks')
    PROVE  ModelInv'
<1>1. 1 \in 1 .. Len(Model!Chain)
  BY StageFields DEF Model!Chain, ModelInv, ModelTypes
<1>2. ModelTypes'
  BY <1>1 DEF ModelInv, ModelTypes, Model!Chain
<1>3. CapIsKept' /\ CutIsMarked' /\ OneModelCharges'
  BY DEF ModelInv, CapIsKept, CutIsMarked, OneModelCharges, Live
<1>4. Model!Budget' = Model!Budget
  BY DEF Model!Budget, Model!Chain
<1>5. Model!PromptIsBounded'
  BY <1>4, SameSize DEF Model!PromptIsBounded
<1> QED
  BY <1>2, <1>3, <1>5
  DEF ModelInv, Model!ResultIsVouchedFor, Model!NothingIsSpentOnAnUncheckedChain,
      Model!OnlyQuotaMovesDown

LEMMA OneMark ==
    ASSUME NEW what \in {"task", "reply", "correction", "elided"}
    PROVE  LET m == <<Model!Elided(what)>> IN
           m \in Seq(AMessage) /\ Model!Tokens(m) = 1 /\ Cardinality({i \in DOMAIN m : m[i].cut}) = 1
<1> DEFINE m == <<Model!Elided(what)>>
<1>1. m[1] = Model!Elided(what) /\ Len(m) = 1 /\ DOMAIN m = {1}
  OBVIOUS
<1>2. Model!Elided(what) \in AMessage /\ Model!Elided(what).size = 1 /\ Model!Elided(what).cut
  BY DEF AMessage, Model!Elided
<1>3. m \in Seq(AMessage)
  BY <1>2
<1> HIDE DEF m
<1>4. Model!Running(m)[0] = 0 /\ Model!Running(m)[1] = Model!Running(m)[1 - 1] + m[1].size
  BY <1>1, <1>3, RunningSums
<1>5. Model!Tokens(m) = 1
  BY <1>1, <1>2, <1>4 DEF Model!Tokens
<1>6. {i \in DOMAIN m : m[i].cut} = {1}
  BY <1>1, <1>2
<1> QED
  BY <1>3, <1>5, <1>6, FS_Singleton DEF m

LEMMA FitStep == ASSUME ModelInv, Model!Fit PROVE ModelInv'
<1>1. /\ at = "fit" /\ asked' = 1 /\ conversation \in Seq(AMessage)
      /\ UNCHANGED <<stage, try, turn, usage, answered, spent, by, said, misread>>
      /\ Len(conversation) = said \/ Model!Marks # {}
      /\ ModelTypes /\ misread = FALSE
  BY DEF Model!Fit, ModelInv, ModelTypes, CutIsMarked, Model!OnlyQuotaMovesDown
<1>2. Model!Budget \in Nat \ {0} /\ Model!Estimated \in Nat
  BY <1>1, BudgetIsNat, TokensAreNat DEF ModelTypes, Model!Estimated, Model!System
<1>3. CASE Model!Estimated <= Model!Budget
  <2>1. at' = "ask" /\ UNCHANGED <<conversation, outcome>>
    BY <1>2, <1>3 DEF Model!Fit, Model!Fails
  <2>2. Model!Marks' = Model!Marks /\ Model!Estimated' = Model!Estimated
    BY <2>1 DEF Model!Marks, Model!Estimated
  <2>3. Cardinality(Model!Marks) \in Nat
    BY <1>1, MarksAreFinite DEF Model!Marks
  <2> QED
    BY <1>1, <1>2, <1>3, <2>1, <2>2, <2>3, AskStep
<1>4. CASE ~(Model!Estimated <= Model!Budget) /\ stage.policy = "fail"
  <2>1. Model!Fails("context-budget-exceeded", FALSE) /\ UNCHANGED conversation
    BY <1>2, <1>4 DEF Model!Fit, Model!Fails
  <2>2. 1 \in 1 .. Len(Model!Chain)
    BY <1>1, StageFields DEF Model!Chain, ModelTypes
  <2> QED
    BY <1>1, <2>1, <2>2, FailsStep DEF ModelTypes, OneModelCharges, ModelInv
<1>5. CASE ~(Model!Estimated <= Model!Budget) /\ stage.policy # "fail"
  <2> DEFINE allowance == IF Model!Budget > 1 THEN Model!Budget - 1 ELSE 0
  <2>1. /\ at' = "ask" /\ UNCHANGED outcome
        /\ conversation' = IF stage.policy = "compact" THEN Model!Compact(conversation)
                           ELSE Model!Truncate(conversation, allowance)
    BY <1>2, <1>5 DEF Model!Fit, Model!System
  <2>2. CASE stage.policy = "compact"
    <3>1. CASE Len(conversation) <= 2
      <4>1. conversation' = conversation
        BY <2>1, <2>2, <3>1 DEF Model!Compact
      <4>2. Model!Marks' = Model!Marks
        BY <4>1 DEF Model!Marks
      <4> QED
        BY <1>1, <2>1, <2>2, <4>1, <4>2, AskStep
    <3>2. CASE ~(Len(conversation) <= 2)
      <4> DEFINE first == conversation[1]
                 last == conversation[Len(conversation)]
      <4>1. conversation' = <<first, Model!Elided("elided"), last>>
        BY <1>1, <2>1, <2>2, <3>2 DEF Model!Compact, Model!Last
      <4>2. first \in AMessage /\ last \in AMessage /\ Model!Elided("elided") \in AMessage
        <5>1. Model!Elided("elided") \in AMessage
          BY DEF AMessage, Model!Elided
        <5>2. 1 \in 1 .. Len(conversation) /\ Len(conversation) \in 1 .. Len(conversation)
          BY <1>1, <3>2
        <5> QED
          BY <1>1, <5>1, <5>2
      <4>3. Model!Elided("elided").cut
        BY DEF Model!Elided
      <4> HIDE DEF first, last
      <4>4. conversation' \in Seq(AMessage) /\ 2 \in Model!Marks'
        BY <4>1, <4>2, <4>3 DEF Model!Marks
      <4> QED
        BY <1>1, <2>1, <2>2, <4>4, AskStep
    <3> QED
      BY <3>1, <3>2
  <2>3. CASE stage.policy # "compact" /\ Model!Budget > 1
    <3> DEFINE t == Model!Truncate(conversation, allowance)
    <3>1. allowance \in Nat \ {0} /\ allowance = Model!Budget - 1
      BY <1>2, <2>3
    <3> HIDE DEF allowance
    <3>2. /\ t \in Seq(AMessage) /\ Len(t) = Len(conversation)
          /\ \A i \in 1 .. Len(conversation) : t[i] = conversation[i] \/ t[i].cut
          /\ Model!Tokens(t) <= allowance + Cardinality({i \in 1 .. Len(t) : t[i].cut})
      BY <1>1, <3>1, TruncateFits
    <3>3. conversation' = t
      BY <2>1, <2>3
    <3> HIDE DEF t
    <3>4. Model!Marks' = {i \in 1 .. Len(t) : t[i].cut}
      BY <3>2, <3>3 DEF Model!Marks
    <3>5. Len(conversation') = said \/ Model!Marks' # {}
      <4>1. CASE Len(conversation) = said
        BY <3>2, <3>3, <4>1
      <4>2. ASSUME NEW i \in Model!Marks PROVE i \in Model!Marks'
        BY <1>1, <3>2, <3>4, <4>2 DEF Model!Marks
      <4> QED
        BY <1>1, <4>1, <4>2
    <3>6. Model!Estimated' = 1 + Model!Tokens(t)
      BY <3>3 DEF Model!Estimated, Model!System
    <3>7. Model!Estimated' <= Model!Budget + Cardinality(Model!Marks')
      <4>1. Model!Tokens(t) \in Nat /\ Cardinality(Model!Marks') \in Nat
        <5>1. DOMAIN t = 1 .. Len(t)
          BY <3>2
        <5> QED
          BY <3>2, <3>4, <5>1, TokensAreNat, MarksAreFinite
      <4> QED
        BY <1>2, <3>1, <3>2, <3>4, <3>6, <4>1
    <3> QED
      BY <1>1, <2>1, <3>2, <3>3, <3>5, <3>7, AskStep
  <2>4. CASE stage.policy # "compact" /\ ~(Model!Budget > 1)
    <3>1. Model!Budget = 1 /\ allowance = 0
      BY <1>2, <2>4
    <3>2. conversation # <<>>
      <4>1. Model!Tokens(<<>>) = 0
        <5>1. Len(<<>>) = 0 /\ <<>> \in Seq(AMessage)
          OBVIOUS
        <5> QED
          BY <5>1, RunningSums DEF Model!Tokens
      <4> QED
        BY <1>5, <3>1, <4>1 DEF Model!Estimated, Model!System
    <3> DEFINE what == conversation[Len(conversation)].what
    <3>3. what \in {"task", "reply", "correction", "elided"}
      <4>1. conversation[Len(conversation)] \in AMessage
        BY <1>1, <3>2
      <4> QED
        BY <4>1 DEF AMessage
    <3>4. conversation' = <<Model!Elided(what)>>
      BY <2>1, <2>4, <3>1 DEF Model!Truncate, Model!Last
    <3> HIDE DEF what
    <3>5. /\ conversation' \in Seq(AMessage) /\ Model!Tokens(conversation') = 1
          /\ Cardinality(Model!Marks') = 1
      <4>1. Cardinality({i \in DOMAIN conversation' : conversation'[i].cut}) = 1
        BY <3>3, <3>4, OneMark
      <4>2. Cardinality(Model!Marks') = 1
        BY <4>1 DEF Model!Marks
      <4> QED
        <5> DEFINE m == <<Model!Elided(what)>>
        <5>1. m \in Seq(AMessage) /\ Model!Tokens(m) = 1
          BY <3>3, OneMark
        <5>2. conversation' = m
          BY <3>4
        <5> HIDE DEF m
        <5> QED
          BY <4>2, <5>1, <5>2
    <3>6. Model!Marks' # {}
      <4>1. Cardinality({}) = 0
        BY FS_EmptySet
      <4>2. Cardinality(Model!Marks') # Cardinality({})
        BY <3>5, <4>1
      <4> QED
        BY <4>2, Zenon
    <3>7. Model!Estimated' = 2
      BY <3>5 DEF Model!Estimated, Model!System
    <3> QED
      BY <1>1, <2>1, <3>1, <3>5, <3>6, <3>7, AskStep
  <2> QED
    BY <2>2, <2>3, <2>4
<1> QED
  BY <1>3, <1>4, <1>5

LEMMA Charged == \A u, t, p, n \in Nat : n = u * p => n + p * t = (u + t) * p
OBVIOUS

Failures == {"agent-unrequested-tool-call", "budget-exceeded", "agent-response-incomplete",
             "agent-response-invalid"}

LEMMA RepliedStep == ASSUME ModelInv, NEW reply \in Replies, Model!Replied(reply) PROVE ModelInv'
<1> DEFINE model == Model!Chain[asked]
<1>1. /\ at = "ask" /\ Model!Checked(stage) /\ UNCHANGED <<stage, try, report, asked, misread>>
      /\ answered' = model /\ by' = by \cup {model}
      /\ spent' = spent + Price[model] * reply.tokens
      /\ usage' = IF reply.calls THEN usage ELSE usage + reply.tokens
      /\ IF Model!Corrected(reply) THEN Model!Corrects(reply)
         ELSE Model!Judged(reply) /\ UNCHANGED <<turn, said, conversation>>
  BY DEF Model!Replied
<1>2. /\ ModelTypes /\ CapIsKept /\ CutIsMarked /\ OneModelCharges /\ misread' = FALSE
  BY <1>1 DEF ModelInv, Model!OnlyQuotaMovesDown
<1>3. /\ reply.tokens \in Nat \ {0} /\ reply.calls \in BOOLEAN /\ reply.fits \in BOOLEAN
      /\ reply.complete \in BOOLEAN /\ stage.schema \in BOOLEAN /\ stage.salvage \in BOOLEAN
      /\ stage.cap \in Nat \cup {NoCap} /\ stage.usd \in Nat \cup {NoCap}
      /\ model \in DOMAIN Price /\ Price[model] \in Nat
  BY <1>2, StageFields, ConstantsOfCalls DEF ModelTypes, Model!Chain
<1> HIDE DEF model
<1>4. /\ usage \in Nat /\ spent \in Nat /\ usage' \in Nat /\ spent' \in Nat
      /\ IsFiniteSet(by') /\ by' \subseteq DOMAIN Price /\ by' # {} /\ answered' \in by'
  <2>1. Price[model] * reply.tokens \in Nat
    BY <1>3
  <2>2. usage \in Nat /\ spent \in Nat /\ usage' \in Nat /\ spent' \in Nat
    BY <1>1, <1>2, <1>3, <2>1, SMTT(30) DEF ModelTypes
  <2>3. IsFiniteSet(by') /\ by' \subseteq DOMAIN Price /\ by' # {} /\ answered' \in by'
    BY <1>1, <1>2, <1>3, FS_AddElement DEF ModelTypes
  <2> QED
    BY <2>2, <2>3
<1>5. ~reply.calls => \A m \in DOMAIN Price : by' \subseteq {m} => spent' = usage' * Price[m]
  <2>1. SUFFICES ASSUME ~reply.calls, NEW m \in DOMAIN Price, by' \subseteq {m}
                 PROVE  spent' = usage' * Price[m]
    OBVIOUS
  <2>2. m = model /\ by \subseteq {m}
    BY <1>1, <2>1
  <2>3. spent = usage * Price[m]
    BY <1>1, <1>2, <2>1, <2>2 DEF OneModelCharges, Live
  <2> QED
    BY <1>1, <1>3, <1>4, <2>1, <2>2, <2>3, Charged
<1>6. ~reply.calls /\ ~Model!Overspent(reply) =>
         /\ stage'.cap # NoCap => usage' <= stage'.cap
         /\ stage'.usd # NoCap => usage' * Price[answered'] <= stage'.usd
  <2>1. SUFFICES ASSUME ~reply.calls, ~Model!Overspent(reply)
                 PROVE  /\ stage.cap # NoCap => usage' <= stage.cap
                        /\ stage.usd # NoCap => usage' * Price[model] <= stage.usd
    BY <1>1
  <2>2. usage' = usage + reply.tokens
    BY <1>1, <2>1
  <2>3. stage.cap # NoCap => usage' <= stage.cap
    BY <1>3, <1>4, <2>1, <2>2 DEF Model!Overspent
  <2>4. stage.usd # NoCap => usage' * Price[model] <= stage.usd
    <3> DEFINE paid == (usage + reply.tokens) * Price[model]
    <3>1. stage.usd # NoCap => ~(paid > stage.usd)
      BY <2>1, Zenon DEF Model!Overspent, model
    <3>2. paid \in Nat
      BY <1>3, <1>4
    <3>3. paid = usage' * Price[model]
      BY <2>2
    <3> HIDE DEF paid
    <3>4. stage.usd # NoCap => paid <= stage.usd
      BY <1>3, <3>1, <3>2
    <3> QED
      BY <3>3, <3>4
  <2> QED
    BY <2>3, <2>4
<1>7. CASE Model!Corrected(reply)
  <2>1. /\ at' = "fit" /\ said' = said + 2 /\ UNCHANGED outcome
        /\ conversation' = conversation \o <<Model!Message("reply", reply.tokens),
                                             Model!Message("correction", 1)>>
        /\ ~reply.calls /\ ~Model!Overspent(reply)
    BY <1>1, <1>7 DEF Model!Corrects, Model!Corrected
  <2>2. /\ Model!Message("reply", reply.tokens) \in AMessage
        /\ Model!Message("correction", 1) \in AMessage
    BY <1>3 DEF AMessage, Model!Message
  <2>3. /\ conversation' \in Seq(AMessage) /\ Len(conversation') = Len(conversation) + 2
        /\ \A i \in DOMAIN conversation : i \in DOMAIN conversation'
                                          /\ conversation'[i] = conversation[i]
    BY <1>2, <2>1, <2>2 DEF ModelTypes
  <2>4. ModelTypes'
    BY <1>1, <1>2, <1>4, <2>1, <2>3 DEF ModelTypes, Model!Chain
  <2>5. CutIsMarked'
    BY <1>1, <1>2, <2>1, <2>3 DEF CutIsMarked, Model!Marks, ModelTypes
  <2>6. CapIsKept' /\ OneModelCharges'
    BY <1>1, <1>4, <1>5, <1>6, <2>1 DEF CapIsKept, OneModelCharges
  <2>7. Model!ResultIsVouchedFor' /\ Model!PromptIsBounded'
    BY <1>1, <1>2, <2>1 DEF Model!ResultIsVouchedFor, Model!PromptIsBounded, ModelTypes
  <2> QED
    BY <1>1, <1>2, <2>4, <2>5, <2>6, <2>7
    DEF ModelInv, Model!NothingIsSpentOnAnUncheckedChain, Model!OnlyQuotaMovesDown, Model!Checked
<1>8. CASE ~Model!Corrected(reply)
  <2>1. Model!Judged(reply) /\ UNCHANGED <<turn, said, conversation>>
    BY <1>1, <1>8
  <2>2. \/ \E kind \in Failures, b \in BOOLEAN : Model!Fails(kind, b)
        \/ /\ ~reply.calls /\ ~Model!Overspent(reply) /\ (reply.complete \/ stage.salvage)
           /\ stage.schema => Model!Structured(reply)
           /\ Model!Succeeds(reply)
    BY <1>3, <2>1 DEF Model!Judged, Failures
  <2>3. ASSUME NEW kind \in Failures, NEW b \in BOOLEAN, Model!Fails(kind, b)
        PROVE  ModelInv'
    BY <1>1, <1>2, <1>4, <2>1, <2>3, FailsStep DEF ModelTypes, Failures
  <2>4. ASSUME ~reply.calls, ~Model!Overspent(reply), reply.complete \/ stage.salvage,
               stage.schema => Model!Structured(reply), Model!Succeeds(reply)
        PROVE  ModelInv'
    <3>1. /\ at' = "over" /\ outcome'.kind = "ok" /\ outcome'.reply = reply
          /\ outcome'.repairs = IF stage.schema THEN reply.flaws ELSE {}
      BY <2>4 DEF Model!Succeeds
    <3>2. ModelTypes'
      BY <1>1, <1>2, <1>4, <2>1, <3>1 DEF ModelTypes, Model!Chain
    <3>3. CapIsKept' /\ CutIsMarked' /\ OneModelCharges'
      BY <1>1, <1>4, <1>5, <1>6, <2>4, <3>1 DEF CapIsKept, CutIsMarked, OneModelCharges
    <3>4. Model!ResultIsVouchedFor'
      BY <1>1, <1>3, <2>4, <3>1
      DEF Model!ResultIsVouchedFor, Model!Structured, Model!Extracted, Model!Removable
    <3> QED
      BY <1>1, <1>2, <3>1, <3>2, <3>3, <3>4
      DEF ModelInv, Model!NothingIsSpentOnAnUncheckedChain, Model!OnlyQuotaMovesDown, Model!Checked,
          Model!PromptIsBounded
  <2> QED
    BY <2>2, <2>3, <2>4
<1> QED
  BY <1>7, <1>8

LEMMA ModelStays == ASSUME ModelInv, UNCHANGED step PROVE ModelInv'
<1>1. /\ Model!Estimated' = Model!Estimated /\ Model!Budget' = Model!Budget
      /\ Model!Marks' = Model!Marks
  BY DEF step, Model!Estimated, Model!Budget, Model!Marks, Model!Chain
<1>2. ModelTypes' /\ CapIsKept' /\ CutIsMarked' /\ OneModelCharges'
  BY <1>1 DEF ModelInv, ModelTypes, CapIsKept, CutIsMarked, OneModelCharges, Live, step, Model!Chain
<1> QED
  BY <1>1, <1>2
  DEF ModelInv, step, Model!ResultIsVouchedFor, Model!NothingIsSpentOnAnUncheckedChain,
      Model!OnlyQuotaMovesDown, Model!PromptIsBounded

(***************************************************************************)
(* However badly a model answers, in any number of turns, attempts and     *)
(* fallbacks, a result fits what was asked and names its repairs; a step   *)
(* overspends its cap by one reply at most, says what its model charged,   *)
(* and pays no chain it did not check; and a prompt is cut to the budget,  *)
(* but for a mark for each message that was, and never without a mark.     *)
(***************************************************************************)
THEOREM RepliesAreAccountedFor == Spec => []ReplyIsAccountedFor
<1>1. ModelInv /\ [Next]_vars => ModelInv'
  BY FitStep, IncapableStep, RetryStep, RefusedStep, RepliedStep, ModelStays
  DEF Next, SchedulerMoves, IntakeMoves, UpgradeMoves, ModelMoves, OutboxMoves, Decides, vars,
      Model!Next
<1>2. ModelInv => ReplyIsAccountedFor
  <2> SUFFICES ASSUME ModelInv PROVE ReplyIsAccountedFor
    OBVIOUS
  <2>1. Model!OneReplyOverTheCap
    <3>1. SUFFICES ASSUME at = "ask" \/ outcome.kind = "ok"
                   PROVE  /\ stage.cap # NoCap => usage <= stage.cap
                          /\ stage.usd # NoCap /\ Cardinality(by) = 1 => spent <= stage.usd
      BY SameSize DEF Model!OneReplyOverTheCap
    <3>2. Live
      BY <3>1 DEF Live
    <3>3. Cardinality(by) = 1 => by # {} /\ spent = usage * Price[answered]
      <4>1. SUFFICES ASSUME Cardinality(by) = 1 PROVE by # {} /\ spent = usage * Price[answered]
        OBVIOUS
      <4>2. PICK m : by = {m}
        BY <4>1, FS_Singleton DEF ModelInv, ModelTypes
      <4> QED
        BY <3>2, <4>2 DEF ModelInv, ModelTypes, OneModelCharges
    <3> QED
      BY <3>2, <3>3 DEF ModelInv, CapIsKept
  <2>2. Model!NothingIsCutSilently
    BY DEF ModelInv, CutIsMarked, Model!NothingIsCutSilently
  <2>3. Model!CostIsWhatWasSpent
    <3>1. SUFFICES ASSUME outcome.kind = "ok", Cardinality(by) = 1
                   PROVE  usage * Price[answered] = spent
      BY SameSize DEF Model!CostIsWhatWasSpent, Model!Prices
    <3>2. PICK m : by = {m}
      BY <3>1, FS_Singleton DEF ModelInv, ModelTypes
    <3> QED
      BY <3>1, <3>2 DEF ModelInv, ModelTypes, OneModelCharges, Live
  <2> QED
    BY <2>1, <2>2, <2>3 DEF ModelInv, ReplyIsAccountedFor
<1> QED
  BY <1>1, <1>2, ModelInit, PTL DEF Spec

-----------------------------------------------------------------------------
(***************************************************************************)
(* Routing: the repository and the workflow a request gets, and what a     *)
(* deployment may name.                                                    *)
(***************************************************************************)

LEMMA SizeOfTerms ==
    \A S : Triage!Cardinality(S) = Cardinality(S) /\ Triage!IsFiniteSet(S) = IsFiniteSet(S)
BY DEF Triage!Cardinality, Cardinality, Triage!IsFiniteSet, IsFiniteSet

Name(p) == {p.id, p.name} \cup p.aliases

\* What a deployment is made of.
LEMMA DeploymentIs ==
    ASSUME NEW P, Triage!IsDeployment(P)
    PROVE  /\ Len(P) \in Nat /\ DOMAIN P = 1..Len(P)
           /\ \A i \in 1..Len(P) :
                /\ P[i] \in Triage!Profiles
                /\ IsFiniteSet(Name(P[i])) /\ IsFiniteSet(P[i].keywords)
           /\ \A i, j \in 1..Len(P) : P[i].id = P[j].id => i = j
<1>1. /\ P \in Seq(Triage!Profiles) /\ Len(P) \in Nat /\ DOMAIN P = 1..Len(P)
      /\ \A i \in 1..Len(P) : P[i] \in Triage!Profiles
  BY DEF Triage!IsDeployment
<1>2. \A i \in 1..Len(P) : IsFiniteSet(P[i].aliases) /\ IsFiniteSet(P[i].keywords)
  BY <1>1, SizeOfTerms DEF Triage!IsDeployment
<1>3. ASSUME NEW i \in 1..Len(P) PROVE IsFiniteSet(Name(P[i]))
  <2>1. IsFiniteSet({P[i].id} \cup {P[i].name})
    BY FS_Singleton, FS_Union
  <2>2. {P[i].id} \cup {P[i].name} = {P[i].id, P[i].name}
    OBVIOUS
  <2> QED
    BY <1>2, <2>1, <2>2, FS_Union DEF Name
<1> QED
  BY <1>1, <1>2, <1>3 DEF Triage!IsDeployment

\* What a term is worth to a profile: three if it is a name of it, one if it is a keyword.
LEMMA Scores ==
    ASSUME NEW m, NEW p \in Triage!Profiles,
           IsFiniteSet(Name(p)), IsFiniteSet(p.keywords),
           NEW text, text.mentions = m
    PROVE  /\ Triage!Score(text, p) = 3 * Cardinality(Name(p) \cap m)
                                      + Cardinality((p.keywords \cap m) \ (Name(p) \cap m))
           /\ IsFiniteSet(Name(p) \cap m)
           /\ IsFiniteSet((p.keywords \cap m) \ (Name(p) \cap m))
           /\ Cardinality(Name(p) \cap m) \in Nat
           /\ Cardinality((p.keywords \cap m) \ (Name(p) \cap m)) \in Nat
           /\ Triage!Score(text, p) \in Nat
<1> DEFINE x == Name(p) \cap m
           y == (p.keywords \cap m) \ (Name(p) \cap m)
<1>1. IsFiniteSet(x) /\ Cardinality(x) \in Nat
  BY FS_Intersection, FS_CardinalityType
<1>2. IsFiniteSet(y) /\ Cardinality(y) \in Nat
  <2>1. IsFiniteSet(p.keywords \cap m)
    BY FS_Intersection
  <2> QED
    BY <2>1, FS_Difference, FS_CardinalityType
<1>3. Triage!Score(text, p) = Triage!AliasWeight * Cardinality(x)
                              + Triage!KeywordWeight * Cardinality(y)
  BY SizeOfTerms DEF Triage!Score, Name
<1> HIDE DEF x, y
<1>4. Triage!Score(text, p) = 3 * Cardinality(x) + Cardinality(y)
  BY <1>1, <1>2, <1>3 DEF Triage!AliasWeight, Triage!KeywordWeight
<1>5. Triage!Score(text, p) \in Nat
  BY <1>1, <1>2, <1>4
<1> QED
  BY <1>1, <1>2, <1>4, <1>5 DEF x, y

\* One more mention is worth three at most, and three to whom it names.
LEMMA OneMention ==
    ASSUME NEW m, NEW t, t \notin m, NEW p \in Triage!Profiles,
           IsFiniteSet(Name(p)), IsFiniteSet(p.keywords),
           NEW text, text.mentions = m, NEW more, more.mentions = m \cup {t}
    PROVE  /\ Triage!Score(text, p) \in Nat /\ Triage!Score(more, p) \in Nat
           /\ Triage!Score(more, p) <= Triage!Score(text, p) + 3
           /\ t \in Name(p) => Triage!Score(more, p) = Triage!Score(text, p) + 3
<1> DEFINE x == Name(p) \cap m
           y == (p.keywords \cap m) \ (Name(p) \cap m)
           x2 == Name(p) \cap (m \cup {t})
           y2 == (p.keywords \cap (m \cup {t})) \ (Name(p) \cap (m \cup {t}))
<1>1. /\ Triage!Score(text, p) = 3 * Cardinality(x) + Cardinality(y)
      /\ IsFiniteSet(x) /\ IsFiniteSet(y) /\ Cardinality(x) \in Nat /\ Cardinality(y) \in Nat
      /\ Triage!Score(text, p) \in Nat
  BY Scores
<1>2. /\ Triage!Score(more, p) = 3 * Cardinality(x2) + Cardinality(y2)
      /\ Triage!Score(more, p) \in Nat
  BY Scores
<1>3. CASE t \in Name(p)
  <2>1. x2 = x \cup {t} /\ y2 = y /\ t \notin x
    BY <1>3
  <2> HIDE DEF x, y, x2, y2
  <2>2. Cardinality(x2) = Cardinality(x) + 1
    BY <1>1, <2>1, FS_AddElement
  <2> QED
    BY <1>1, <1>2, <2>1, <2>2
<1>4. CASE t \notin Name(p)
  <2>1. x2 = x /\ (y2 = y \/ y2 = y \cup {t})
    BY <1>4
  <2> HIDE DEF x, y, x2, y2
  <2>2. Cardinality(y2) = Cardinality(y) \/ Cardinality(y2) = Cardinality(y) + 1
    BY <1>1, <2>1, FS_AddElement
  <2> QED
    BY <1>1, <1>2, <1>4, <2>1, <2>2
<1> QED
  BY <1>3, <1>4

LEMMA HighestOf ==
    ASSUME NEW n \in Nat, n > 0, NEW f, \A i \in 1..n : f[i] \in Nat
    PROVE  \E i \in 1..n : \A j \in 1..n : f[j] <= f[i]
<1> DEFINE Top(k) == \E i \in 1..k : \A j \in 1..k : f[j] <= f[i]
           Bad == {k \in 1..n : ~Top(k)}
<1>1. SUFFICES Bad = {}
  <2>1. n \in 1..n
    OBVIOUS
  <2> QED
    BY <2>1
<1>2. SUFFICES ASSUME Bad # {} PROVE FALSE
  OBVIOUS
<1>3. PICK k \in Bad : \A m \in Bad : k <= m
  <2>1. Bad \in SUBSET Nat
    OBVIOUS
  <2> QED
    BY <1>2, <2>1, Least
<1>4. k # 1
  <2>1. Top(1)
    OBVIOUS
  <2> QED
    BY <1>3, <2>1
<1>5. k - 1 \in 1..n /\ ~(k <= k - 1)
  BY <1>3, <1>4
<1>6. PICK i \in 1..(k - 1) : \A j \in 1..(k - 1) : f[j] <= f[i]
  BY <1>3, <1>5
<1>7. k \in 1..n /\ i \in 1..k /\ f[i] \in Nat /\ f[k] \in Nat
      /\ \A j \in 1..k : j = k \/ j \in 1..(k - 1)
  BY <1>3, <1>5, <1>6
<1>8. CASE f[k] <= f[i]
  <2>1. \A j \in 1..k : f[j] <= f[i]
    BY <1>6, <1>7, <1>8
  <2> QED
    BY <1>3, <1>7, <2>1
<1>9. CASE ~(f[k] <= f[i])
  <2>1. \A j \in 1..k : f[j] <= f[k]
    <3>1. TAKE j \in 1..k
    <3>2. f[j] \in Nat
      BY <1>7
    <3> QED
      BY <1>6, <1>7, <1>9, <3>2
  <2>2. k \in 1..k
    BY <1>7
  <2> QED
    BY <1>3, <2>1, <2>2
<1> QED
  BY <1>8, <1>9

\* The repository that a text is about: the only one, or the only best one.
Wins(text, P, i) ==
    /\ i \in 1..Len(P)
    /\ \/ Len(P) = 1
       \/ /\ Triage!Score(text, P[i]) > 0
          /\ \A j \in 1..Len(P) : j # i => Triage!Score(text, P[j]) < Triage!Score(text, P[i])

LEMMA ScoresAreNat ==
    ASSUME NEW text, NEW P, Triage!IsDeployment(P), NEW i \in 1..Len(P)
    PROVE  Triage!Score(text, P[i]) \in Nat
BY DeploymentIs, Scores

LEMMA ChosenIs ==
    ASSUME NEW text, NEW P, Triage!IsDeployment(P), Len(P) # 0
    PROVE  /\ \A i : Wins(text, P, i) => Triage!Chosen(text, P) = P[i].id
           /\ (\A i : ~Wins(text, P, i)) => Triage!Chosen(text, P) = Triage!NoAnswer
<1> DEFINE n == Len(P)
           f == [i \in 1..n |-> Triage!Score(text, P[i])]
           S == {Triage!Score(text, P[i]) : i \in DOMAIN P}
           best == Triage!Max(S)
           first == {i \in DOMAIN P : Triage!Score(text, P[i]) = best}
<1>1. n \in Nat /\ DOMAIN P = 1..n /\ n > 0
  BY DeploymentIs
<1>2. \A i \in 1..n : f[i] \in Nat /\ f[i] = Triage!Score(text, P[i])
  BY ScoresAreNat
<1>3. PICK top \in 1..n : \A j \in 1..n : f[j] <= f[top]
  <2> HIDE DEF f
  <2> QED
    BY <1>1, <1>2, HighestOf
<1>4. best \in S /\ \A s \in S : best >= s
  <2>1. f[top] \in S /\ \A s \in S : f[top] >= s
    BY <1>1, <1>2, <1>3
  <2> HIDE DEF S
  <2> QED
    BY <2>1 DEF Triage!Max
<1>5. \A i \in 1..n : f[i] <= best
  BY <1>1, <1>2, <1>4
<1>6. \E i \in 1..n : f[i] = best
  BY <1>1, <1>2, <1>4
<1>7. first = {i \in 1..n : f[i] = best} /\ IsFiniteSet(first)
  <2>1. first = {i \in 1..n : f[i] = best}
    BY <1>1, <1>2
  <2>2. IsFiniteSet(1..n) /\ first \in SUBSET (1..n)
    BY <1>1, <2>1, FS_Interval
  <2> HIDE DEF first
  <2> QED
    BY <2>1, <2>2, FS_Subset
<1>8. /\ n = 1 => Triage!Chosen(text, P) = P[1].id
      /\ n > 1 /\ best > 0 /\ Cardinality(first) = 1
           => Triage!Chosen(text, P) = P[Triage!Min(first)].id
      /\ n > 1 /\ ~(best > 0 /\ Cardinality(first) = 1)
           => Triage!Chosen(text, P) = Triage!NoAnswer
  BY <1>1, SizeOfTerms DEF Triage!Chosen
<1> HIDE DEF f, S, best, first, n
<1>9. ASSUME NEW i, Wins(text, P, i) PROVE Triage!Chosen(text, P) = P[i].id
  <2>1. i \in 1..n
    BY <1>9 DEF Wins, n
  <2>2. CASE n = 1
    <3>1. i = 1
      BY <2>1, <2>2
    <3> QED
      BY <1>8, <2>2, <3>1
  <2>3. CASE n # 1
    <3>1. f[i] > 0 /\ \A j \in 1..n : j # i => f[j] < f[i]
      BY <1>2, <1>9, <2>1, <2>3 DEF Wins, n
    <3>2. best = f[i] /\ \A j \in 1..n : f[j] = best => j = i
      BY <1>2, <1>5, <1>6, <2>1, <3>1
    <3>3. first = {i} /\ best > 0
      BY <1>7, <2>1, <3>1, <3>2
    <3>4. Cardinality(first) = 1
      BY <3>3, FS_Singleton
    <3>5. Triage!Min(first) = i
      BY <2>1, <3>3 DEF Triage!Min
    <3> QED
      BY <1>1, <1>8, <2>3, <3>3, <3>4, <3>5
  <2> QED
    BY <2>2, <2>3
<1>10. ASSUME \A i : ~Wins(text, P, i) PROVE Triage!Chosen(text, P) = Triage!NoAnswer
  <2>1. n > 1
    <3>1. n = 1 => Wins(text, P, 1)
      BY DEF Wins, n
    <3> QED
      BY <1>1, <1>10, <3>1
  <2>2. SUFFICES ASSUME best > 0, Cardinality(first) = 1 PROVE FALSE
    BY <1>8, <2>1
  <2>3. PICK i : first = {i}
    BY <1>7, <2>2, FS_Singleton
  <2>4. i \in 1..n /\ f[i] = best /\ \A j \in 1..n : f[j] = best => j = i
    BY <1>7, <2>3
  <2>5. \A j \in 1..n : j # i => f[j] < f[i]
    <3>1. TAKE j \in 1..n
    <3>2. f[j] \in Nat /\ f[i] \in Nat /\ f[j] <= best
      BY <1>2, <1>5, <2>4
    <3> QED
      BY <2>4, <3>2
  <2>6. Wins(text, P, i)
    BY <1>2, <2>2, <2>4, <2>5 DEF Wins, n
  <2> QED
    BY <1>10, <2>6
<1> QED
  BY <1>9, <1>10

LEMMA EmptyDeployment == ASSUME NEW P, Triage!IsDeployment(P) PROVE P = << >> <=> Len(P) = 0
BY DEF Triage!IsDeployment

LEMMA RepoIsThere ==
    ASSUME NEW item, NEW P, Triage!IsDeployment(P)
    PROVE  Triage!Repo(item, P) \in Triage!Ids(P) \cup {Triage!NoAnswer}
<1>1. CASE item.repos # << >>
  BY <1>1 DEF Triage!Repo, Triage!Ids
<1>2. CASE item.repos = << >> /\ Len(P) = 0
  BY <1>2, EmptyDeployment DEF Triage!Repo
<1>3. CASE item.repos = << >> /\ Len(P) # 0
  <2>1. Triage!Repo(item, P) = Triage!Chosen(item.text, P)
    BY <1>3, EmptyDeployment DEF Triage!Repo
  <2>2. CASE \E i : Wins(item.text, P, i)
    <3>1. PICK i : Wins(item.text, P, i)
      BY <2>2
    <3>2. i \in DOMAIN P
      BY <3>1, DeploymentIs DEF Wins
    <3> QED
      BY <1>3, <2>1, <3>1, <3>2, ChosenIs DEF Triage!Ids
  <2>3. CASE \A i : ~Wins(item.text, P, i)
    BY <1>3, <2>1, <2>3, ChosenIs
  <2> QED
    BY <2>2, <2>3
<1> QED
  BY <1>1, <1>2, <1>3

\* The file that lists the repositories in another order has the same ones.
LEMMA OtherOrder ==
    ASSUME NEW P, Triage!IsDeployment(P),
           NEW order \in Triage!SetToSeqs(Triage!ToSet(P))
    PROVE  /\ Triage!IsDeployment(order) /\ Len(order) = Len(P)
           /\ \A i \in 1..Len(P) : \E j \in 1..Len(P) : order[j] = P[i]
           /\ \A j \in 1..Len(P) : \E i \in 1..Len(P) : order[j] = P[i]
           /\ \A i, j \in 1..Len(P) : order[i] = order[j] => i = j
<1> DEFINE n == Len(P)
           S == Triage!ToSet(P)
           N == Cardinality(S)
<1>1. n \in Nat /\ DOMAIN P = 1..n /\ \A i, j \in 1..n : P[i].id = P[j].id => i = j
  BY DeploymentIs
<1>2. S = {P[i] : i \in 1..n}
  BY <1>1 DEF Triage!ToSet
<1>3. IsFiniteSet(1..n) /\ Cardinality(1..n) = n
  BY <1>1, FS_Interval
<1>4. IsFiniteSet(S) /\ N = n
  <2> DEFINE f == [i \in 1..n |-> P[i]]
  <2>1. f \in Bijection(1..n, S)
    BY <1>1, <1>2 DEF Bijection, Injection, Surjection, IsInjective
  <2>2. ExistsBijection(1..n, S)
    BY <2>1 DEF ExistsBijection
  <2> QED
    BY <1>3, <2>2, FS_Bijection
<1>5. order \in [1..n -> S] /\ \A i, j \in 1..n : order[i] = order[j] => i = j
  <2>1. \A T : Triage!SetToSeqs(T) = {f \in [1..Cardinality(T) -> T] :
                 \A i, j \in 1..Cardinality(T) : i # j => f[i] # f[j]}
    BY SizeOfTerms DEF Triage!SetToSeqs
  <2> HIDE DEF S
  <2>2. order \in {f \in [1..n -> S] : \A i, j \in 1..n : i # j => f[i] # f[j]}
    BY <1>4, <2>1 DEF S
  <2> QED
    BY <2>2
<1>6. \A s \in S : \E j \in 1..n : order[j] = s
  <2>1. order \in Injection(1..n, S)
    BY <1>5 DEF Injection, IsInjective
  <2>2. order \in Surjection(1..n, S)
    BY <1>3, <1>4, <2>1, FS_Injection
  <2> QED
    BY <2>2 DEF Surjection
<1>7. order \in Seq(S) /\ Len(order) = n
  BY <1>1, <1>5
<1>8. \A j \in 1..n : \E i \in 1..n : order[j] = P[i]
  BY <1>2, <1>5
<1>9. Triage!IsDeployment(order)
  <2>1. order \in Seq(Triage!Profiles)
    <3>1. \A j \in 1..n : order[j] \in Triage!Profiles
      BY <1>8, DeploymentIs
    <3> QED
      BY <1>1, <1>5, <3>1
  <2>2. DOMAIN order = 1..n
    BY <1>5
  <2>3. \A j \in 1..n : /\ Triage!IsFiniteSet(order[j].aliases)
                        /\ Triage!IsFiniteSet(order[j].keywords)
    BY <1>1, <1>8 DEF Triage!IsDeployment
  <2>4. \A j, k \in 1..n : order[j].id = order[k].id => j = k
    <3>1. SUFFICES ASSUME NEW j \in 1..n, NEW k \in 1..n, order[j].id = order[k].id
                   PROVE  j = k
      OBVIOUS
    <3>2. PICK a \in 1..n : order[j] = P[a]
      BY <1>8
    <3>3. PICK b \in 1..n : order[k] = P[b]
      BY <1>8
    <3> QED
      BY <1>1, <1>5, <3>1, <3>2, <3>3
  <2> QED
    BY <2>1, <2>2, <2>3, <2>4 DEF Triage!IsDeployment
<1>10. \A i \in 1..n : \E j \in 1..n : order[j] = P[i]
  BY <1>2, <1>6
<1> QED
  BY <1>5, <1>7, <1>8, <1>9, <1>10

LEMMA OrderDoesNotMatter ==
    ASSUME NEW item, NEW P, Triage!IsDeployment(P),
           NEW order \in Triage!SetToSeqs(Triage!ToSet(P))
    PROVE  Triage!Repo(item, order) = Triage!Repo(item, P)
<1>1. /\ Triage!IsDeployment(order) /\ Len(order) = Len(P) /\ Len(P) \in Nat
      /\ DOMAIN P = 1..Len(P) /\ DOMAIN order = 1..Len(P)
  BY OtherOrder, DeploymentIs
<1>2. /\ \A i \in 1..Len(P) : \E j \in 1..Len(P) : order[j] = P[i]
      /\ \A j \in 1..Len(P) : \E i \in 1..Len(P) : order[j] = P[i]
      /\ \A i, j \in 1..Len(P) : order[i] = order[j] => i = j
  BY OtherOrder
<1>3. CASE item.repos # << >>
  <2>1. (\E i \in DOMAIN order : order[i].id = item.repos[1])
           <=> \E i \in DOMAIN P : P[i].id = item.repos[1]
    <3>1. ASSUME NEW j \in 1..Len(P), order[j].id = item.repos[1]
          PROVE  \E i \in 1..Len(P) : P[i].id = item.repos[1]
      <4>1. PICK i \in 1..Len(P) : order[j] = P[i]
        BY <1>2
      <4> QED
        BY <3>1, <4>1
    <3>2. ASSUME NEW i \in 1..Len(P), P[i].id = item.repos[1]
          PROVE  \E j \in 1..Len(P) : order[j].id = item.repos[1]
      <4>1. PICK j \in 1..Len(P) : order[j] = P[i]
        BY <1>2
      <4> QED
        BY <3>2, <4>1
    <3> QED
      BY <1>1, <3>1, <3>2
  <2> QED
    BY <1>3, <2>1 DEF Triage!Repo
<1>4. CASE item.repos = << >> /\ Len(P) = 0
  <2>1. P = << >> /\ order = << >>
    BY <1>1, <1>4, EmptyDeployment
  <2> QED
    BY <2>1
<1>5. CASE item.repos = << >> /\ Len(P) # 0
  <2>1. /\ Triage!Repo(item, P) = Triage!Chosen(item.text, P)
        /\ Triage!Repo(item, order) = Triage!Chosen(item.text, order)
    <3>1. P # << >> /\ order # << >>
      BY <1>1, <1>5, EmptyDeployment
    <3> QED
      BY <1>5, <3>1 DEF Triage!Repo
  <2>2. CASE \E i : Wins(item.text, P, i)
    <3>1. PICK i : Wins(item.text, P, i)
      BY <2>2
    <3>2. PICK j \in 1..Len(P) : order[j] = P[i]
      BY <1>2, <3>1 DEF Wins
    <3>3. Wins(item.text, order, j)
      <4>1. SUFFICES ASSUME Len(P) # 1
                     PROVE  /\ Triage!Score(item.text, order[j]) > 0
                            /\ \A k \in 1..Len(P) : k # j => Triage!Score(item.text, order[k])
                                                              < Triage!Score(item.text, order[j])
        BY <1>1, <3>2 DEF Wins
      <4>2. Triage!Score(item.text, order[j]) > 0
        BY <3>1, <3>2, <4>1 DEF Wins
      <4>3. ASSUME NEW k \in 1..Len(P), k # j
            PROVE  Triage!Score(item.text, order[k]) < Triage!Score(item.text, order[j])
        <5>1. PICK l \in 1..Len(P) : order[k] = P[l]
          BY <1>2
        <5>2. l # i
          BY <1>2, <3>2, <4>3, <5>1
        <5> QED
          BY <3>1, <3>2, <4>1, <5>1, <5>2 DEF Wins
      <4> QED
        BY <4>2, <4>3
    <3> QED
      BY <1>1, <1>5, <2>1, <3>1, <3>2, <3>3, ChosenIs
  <2>3. CASE \A i : ~Wins(item.text, P, i)
    <3>1. ASSUME NEW j, Wins(item.text, order, j) PROVE FALSE
      <4>1. j \in 1..Len(P)
        BY <1>1, <3>1 DEF Wins
      <4>2. PICK i \in 1..Len(P) : order[j] = P[i]
        BY <1>2, <4>1
      <4>3. SUFFICES ASSUME Len(P) # 1
                     PROVE  /\ Triage!Score(item.text, P[i]) > 0
                            /\ \A k \in 1..Len(P) : k # i => Triage!Score(item.text, P[k])
                                                              < Triage!Score(item.text, P[i])
        BY <2>3 DEF Wins
      <4>4. Triage!Score(item.text, P[i]) > 0
        BY <1>1, <3>1, <4>2, <4>3 DEF Wins
      <4>5. ASSUME NEW k \in 1..Len(P), k # i
            PROVE  Triage!Score(item.text, P[k]) < Triage!Score(item.text, P[i])
        <5>1. PICK l \in 1..Len(P) : order[l] = P[k]
          BY <1>2
        <5>2. P[k] # P[i]
          BY <4>5, DeploymentIs
        <5>3. l # j
          BY <4>2, <5>1, <5>2
        <5> QED
          BY <1>1, <3>1, <4>2, <4>3, <5>1, <5>3 DEF Wins
      <4> QED
        BY <4>4, <4>5
    <3> QED
      BY <1>1, <1>5, <2>1, <2>3, <3>1, ChosenIs
  <2> QED
    BY <2>2, <2>3
<1> QED
  BY <1>3, <1>4, <1>5

\* A repository whose name is said once more stays the one that is selected.
LEMMA SayingItAgain ==
    ASSUME NEW item \in Triage!Requests, NEW P, Triage!IsDeployment(P),
           NEW i \in DOMAIN P, Triage!Repo(item, P) = P[i].id,
           NEW again, again = [item EXCEPT !.text.mentions = item.text.mentions \cup {P[i].name}]
    PROVE  Triage!Repo(again, P) = P[i].id
<1> DEFINE m == item.text.mentions
           term == P[i].name
<1>1. /\ again.repos = item.repos /\ again.text.mentions = m \cup {term}
  BY DEF Triage!Requests, Triage!RequestTexts
<1>2. /\ Len(P) \in Nat /\ DOMAIN P = 1..Len(P)
      /\ \A j \in 1..Len(P) : /\ P[j] \in Triage!Profiles /\ IsFiniteSet(Name(P[j]))
                              /\ IsFiniteSet(P[j].keywords)
      /\ \A j, k \in 1..Len(P) : P[j].id = P[k].id => j = k
  BY DeploymentIs
<1>3. CASE item.repos # << >>
  BY <1>1, <1>3 DEF Triage!Repo
<1>4. CASE item.repos = << >>
  <2>1. Len(P) # 0
    BY <1>2
  <2>2. /\ Triage!Repo(item, P) = Triage!Chosen(item.text, P)
        /\ Triage!Repo(again, P) = Triage!Chosen(again.text, P)
    <3>1. P # << >>
      BY <2>1, EmptyDeployment
    <3> QED
      BY <1>1, <1>4, <3>1 DEF Triage!Repo
  <2>3. PICK k : Wins(item.text, P, k)
    <3>1. P[i].id # Triage!NoAnswer
      BY <1>2 DEF Triage!Profiles
    <3> QED
      BY <2>1, <2>2, <3>1, ChosenIs
  <2>4. k = i
    <3>1. P[k].id = P[i].id
      BY <2>1, <2>2, <2>3, ChosenIs
    <3> QED
      BY <1>2, <2>3, <3>1 DEF Wins
  <2>5. Wins(again.text, P, i)
    <3>1. SUFFICES ASSUME Len(P) # 1
                   PROVE  /\ Triage!Score(again.text, P[i]) > 0
                          /\ \A j \in 1..Len(P) : j # i => Triage!Score(again.text, P[j])
                                                            < Triage!Score(again.text, P[i])
      BY <1>2 DEF Wins
    <3>2. /\ Triage!Score(item.text, P[i]) > 0
          /\ \A j \in 1..Len(P) : j # i => Triage!Score(item.text, P[j])
                                            < Triage!Score(item.text, P[i])
      BY <2>3, <2>4, <3>1 DEF Wins
    <3>3. CASE term \in m
      <4>1. ASSUME NEW j \in 1..Len(P)
            PROVE  Triage!Score(again.text, P[j]) = Triage!Score(item.text, P[j])
        <5>1. m \cup {term} = m
          BY <3>3
        <5> QED
          BY <1>1, <5>1 DEF Triage!Score
      <4> QED
        BY <1>2, <3>2, <4>1
    <3>4. CASE term \notin m
      <4>1. ASSUME NEW j \in 1..Len(P)
            PROVE  /\ Triage!Score(item.text, P[j]) \in Nat
                   /\ Triage!Score(again.text, P[j]) \in Nat
                   /\ Triage!Score(again.text, P[j]) <= Triage!Score(item.text, P[j]) + 3
                   /\ term \in Name(P[j])
                        => Triage!Score(again.text, P[j]) = Triage!Score(item.text, P[j]) + 3
        BY <1>1, <1>2, <3>4, OneMention, SMTT(30)
      <4>2. term \in Name(P[i])
        BY DEF Name
      <4> HIDE DEF term
      <4>3. Triage!Score(again.text, P[i]) = Triage!Score(item.text, P[i]) + 3
        BY <1>2, <4>1, <4>2
      <4>4. ASSUME NEW j \in 1..Len(P), j # i
            PROVE  Triage!Score(again.text, P[j]) < Triage!Score(again.text, P[i])
        <5>1. Triage!Score(item.text, P[j]) < Triage!Score(item.text, P[i])
          BY <3>2, <4>4
        <5>2. /\ Triage!Score(item.text, P[j]) \in Nat /\ Triage!Score(again.text, P[j]) \in Nat
              /\ Triage!Score(again.text, P[j]) <= Triage!Score(item.text, P[j]) + 3
          BY <4>1
        <5>3. Triage!Score(item.text, P[i]) \in Nat
          BY <1>2, <4>1
        <5> QED
          BY <4>3, <5>1, <5>2, <5>3
      <4>5. Triage!Score(again.text, P[i]) > 0
        <5>1. Triage!Score(item.text, P[i]) \in Nat
          BY <1>2, <4>1
        <5> QED
          BY <4>3, <5>1
      <4> QED
        BY <4>4, <4>5
    <3> QED
      BY <3>3, <3>4
  <2> QED
    BY <2>1, <2>2, <2>5, ChosenIs
<1> QED
  BY <1>3, <1>4

LEMMA TextSelects ==
    ASSUME NEW item \in Triage!Requests, NEW P, Triage!IsDeployment(P), NEW rules
    PROVE  Triage!TextIsASelector(item, P, rules)
<1>1. \A one, Q : Triage!Route(one, Q, rules).repo = Triage!Repo(one, Q)
  BY DEF Triage!Route
<1>2. Triage!Route(item, P, rules).repo \in Triage!Ids(P) \cup {Triage!NoAnswer}
  BY <1>1, RepoIsThere
<1>3. ASSUME NEW order \in Triage!SetToSeqs(Triage!ToSet(P))
      PROVE  Triage!Route(item, order, rules) = Triage!Route(item, P, rules)
  <2>1. Triage!Repo(item, order) = Triage!Repo(item, P)
    BY OrderDoesNotMatter
  <2> QED
    BY <2>1 DEF Triage!Route
<1>4. ASSUME NEW i \in DOMAIN P, Triage!Route(item, P, rules).repo = P[i].id
      PROVE  Triage!Route([item EXCEPT !.text.mentions = item.text.mentions \cup {P[i].name}],
                          P, rules).repo = P[i].id
  <2> DEFINE again == [item EXCEPT !.text.mentions = item.text.mentions \cup {P[i].name}]
  <2>1. Triage!Repo(item, P) = P[i].id
    BY <1>1, <1>4
  <2>2. Triage!Repo(again, P) = P[i].id
    BY <2>1, SayingItAgain
  <2> QED
    BY <1>1, <2>2
<1> QED
  BY <1>2, <1>3, <1>4 DEF Triage!TextIsASelector

LEMMA EnvelopeIsKept ==
    ASSUME NEW item \in Triage!Requests, NEW text, NEW P, NEW rules
    PROVE  Triage!EnvelopeOverrides(item, text, P, rules)
<1> DEFINE other == [item EXCEPT !.text = text]
           a == Triage!Route(item, P, rules)
           b == Triage!Route(other, P, rules)
<1>1. /\ other.type = item.type /\ other.workflow = item.workflow /\ other.repos = item.repos
      /\ other.text = text
  BY DEF Triage!Requests
<1> HIDE DEF other
<1>2. ASSUME item.type # Triage!DefaultType PROVE a = [b EXCEPT !.repo = a.repo]
  <2>1. Triage!Classify(item) = item.type /\ Triage!Classify(other) = item.type
    BY <1>1, <1>2 DEF Triage!Classify
  <2>2. \A t : Triage!Workflow(item, t, rules) = Triage!Workflow(other, t, rules)
    BY <1>1 DEF Triage!Workflow
  <2> QED
    BY <1>1, <2>1, <2>2 DEF Triage!Route
<1>3. ASSUME item.workflow # Triage!NoAnswer PROVE a.workflow = b.workflow
  BY <1>1, <1>3 DEF Triage!Route, Triage!Workflow
<1>4. ASSUME item.repos # << >> PROVE a.repo = b.repo
  BY <1>1, <1>4 DEF Triage!Route, Triage!Repo
<1>5. ASSUME Triage!Asks(item.text), item.type = Triage!DefaultType, rules.classify
      PROVE  a.type = "spike"
  <2>1. Triage!Classify(item) = "spike"
    BY <1>5 DEF Triage!Classify
  <2> QED
    BY <1>5, <2>1 DEF Triage!Route
<1> QED
  BY <1>2, <1>3, <1>4, <1>5 DEF Triage!EnvelopeOverrides, other

LEMMA Pair ==
    ASSUME NEW S, NEW x \in S, NEW y \in S
    PROVE  <<x, y>> \in Seq(S) /\ Len(<<x, y>>) = 2
OBVIOUS

\* One component more.
LEMMA OneComponent ==
    ASSUME NEW S, NEW root \in Seq(S), Len(root) = 2, NEW name \in Seq(S), Len(name) = 1
    PROVE  /\ Len(root \o name) = 3 /\ (root \o name)[3] = name[1]
           /\ SubSeq(root \o name, 1, 2) = root
<1> DEFINE path == root \o name
<1>1. /\ path \in Seq(S) /\ Len(path) = Len(root) + Len(name)
      /\ \A i \in 1..(Len(root) + Len(name)) :
           path[i] = IF i <= Len(root) THEN root[i] ELSE name[i - Len(root)]
  BY ConcatProperties, Zenon
<1> HIDE DEF path
<1>2. Len(path) = 3 /\ \A i \in 1..3 : path[i] = IF i <= 2 THEN root[i] ELSE name[i - 2]
  BY <1>1
<1>3. path[3] = name[1]
  BY <1>2
<1>4. \A i \in 1..2 : path[i] = root[i]
  BY <1>2
<1> DEFINE front == SubSeq(path, 1, 2)
<1>5. front \in Seq(S) /\ Len(front) = 2 /\ \A i \in 1..2 : front[i] = path[i]
  <2>1. \A i \in 1..2 : path[i] \in S
    BY <1>4, ElementOfSeq
  <2>2. /\ front \in Seq(S) /\ Len(front) = IF 1 <= 2 THEN 2 - 1 + 1 ELSE 0
        /\ \A i \in 1..(2 - 1 + 1) : front[i] = path[1 + i - 1]
    BY <2>1, SubSeqProperties
  <2> HIDE DEF front
  <2> QED
    BY <2>2
<1> HIDE DEF front
<1>6. front = root
  BY <1>4, <1>5, SeqEqual
<1> QED
  BY <1>2, <1>3, <1>6 DEF path, front

LEMMA LoadedIsClosed ==
    ASSUME NEW document, document.repos \in Seq(STRING), NEW files, NEW name \in Seq(STRING)
    PROVE  Triage!DeploymentIsClosed(document, files, name)
<1> DEFINE paths == document.repos
           n == Len(paths)
<1>1. n \in Nat /\ DOMAIN paths = 1..n
  OBVIOUS
<1>2. ASSUME NEW P \in Triage!Load(document, files)
      PROVE  /\ Triage!Cardinality(Triage!Ids(P)) = n
             /\ \A i \in DOMAIN P : P[i].tier = "docker socket" => P[i].acknowledged
  <2>1. /\ P = [i \in DOMAIN paths |-> files[paths[i]]]
        /\ \A i \in DOMAIN paths : Triage!Validates(files[paths[i]])
        /\ \A i, j \in DOMAIN paths : files[paths[i]].id = files[paths[j]].id => i = j
    BY DEF Triage!Load, Triage!ReadProfiles
  <2>2. \A i \in DOMAIN P : P[i].tier = "docker socket" => P[i].acknowledged
    BY <2>1 DEF Triage!Validates
  <2> HIDE DEF n, paths
  <2>3. Cardinality(Triage!Ids(P)) = n
    <3> DEFINE f == [i \in 1..n |-> P[i].id]
    <3>1. f \in Bijection(1..n, Triage!Ids(P))
      BY <1>1, <2>1 DEF Triage!Ids, Bijection, Injection, Surjection, IsInjective
    <3>2. ExistsBijection(1..n, Triage!Ids(P)) /\ IsFiniteSet(1..n) /\ Cardinality(1..n) = n
      BY <1>1, <3>1, FS_Interval DEF ExistsBijection
    <3> QED
      BY <3>2, FS_Bijection
  <2> QED
    BY <2>2, <2>3, SizeOfTerms
<1>3. ASSUME NEW path \in Triage!WorkflowPath(<<"etc", "workflows">>, name)
      PROVE  Triage!Front(path) = <<"etc", "workflows">> /\ Triage!Last(path) # ".."
  <2> DEFINE root == <<"etc", "workflows">>
             S == STRING \cup {"etc", "workflows"}
  <2>1. Len(name) = 1 /\ name[1] # ".." /\ path = root \o name
    BY DEF Triage!WorkflowPath
  <2>2. root \in Seq(S) /\ Len(root) = 2
    BY Pair
  <2>3. name \in Seq(S)
    <3>1. \A k \in 1..Len(name) : name[k] \in S
      BY ElementOfSeq
    <3> QED
      BY <3>1
  <2> HIDE DEF root, S
  <2>4. Len(path) = 3 /\ path[3] = name[1] /\ SubSeq(path, 1, 2) = root
    BY <2>1, <2>2, <2>3, OneComponent
  <2> QED
    BY <2>1, <2>4 DEF Triage!Front, Triage!Last, root
<1> QED
  BY <1>2, <1>3 DEF Triage!DeploymentIsClosed

-----------------------------------------------------------------------------
(***************************************************************************)
(* Probe: what is proposed for a repository.                               *)
(***************************************************************************)

LEMMA SizeOfPaths == \A S : Survey!Cardinality(S) = Cardinality(S)
BY Zenon DEF Survey!Cardinality, Cardinality

LEMMA FirstOfThese ==
    ASSUME NEW S \in SUBSET Nat, S # {}
    PROVE  Survey!Min(S) \in S
<1>1. \E n \in S : \A m \in S : n <= m
  BY Least
<1> QED
  BY <1>1 DEF Survey!Min

LEMMA FirstIs ==
    ASSUME NEW tree, NEW names, NEW n \in Nat, DOMAIN names = 1..n
    PROVE  \/ Survey!First(tree, names) = Survey!Nothing
           \/ \E i \in 1..n : /\ Survey!First(tree, names) = names[i]
                              /\ Survey!Has(tree, names[i])
<1> DEFINE there == {i \in DOMAIN names : Survey!Has(tree, names[i])}
<1>1. CASE there = {}
  BY <1>1 DEF Survey!First
<1>2. CASE there # {}
  <2>1. Survey!First(tree, names) = names[Survey!Min(there)]
    BY <1>2 DEF Survey!First
  <2>2. there \in SUBSET Nat
    OBVIOUS
  <2> DEFINE i == Survey!Min(there)
  <2>3. i \in there
    <3> HIDE DEF there
    <3> QED
      BY <1>2, <2>2, FirstOfThese
  <2> HIDE DEF i
  <2>4. i \in 1..n /\ Survey!Has(tree, names[i])
    BY <2>3
  <2> QED
    BY <2>1, <2>4 DEF i
<1> QED
  BY <1>1, <1>2

\* One manager is declared at most, and a lockfile that is used is its own.
LEMMA ManagerIs ==
    ASSUME NEW tree, Survey!IsRepository(tree)
    PROVE  LET m == Survey!PackageManager(tree)
           IN  /\ m.system \in {"npm", "yarn", "pnpm"}
               /\ m.lock # Survey!Nothing
                    => /\ m.lock \in Survey!ToSet(Survey!NodeLocks)
                       /\ Survey!Has(tree, m.lock) /\ Survey!LockOf[m.lock] = m.system
<1> DEFINE lock == Survey!First(tree, Survey!NodeLocks)
           fromLock == IF lock = Survey!Nothing THEN "npm" ELSE Survey!LockOf[lock]
           declared == Survey!RootSays(tree, "package.json") \cap {"npm", "pnpm", "yarn", "bun"}
           supported == declared \ {"bun"}
           stale == supported # {} /\ lock # Survey!Nothing /\ fromLock \notin supported
           m == Survey!PackageManager(tree)
<1>1. /\ m.system = IF supported # {} THEN CHOOSE s \in supported : TRUE ELSE fromLock
      /\ m.lock = IF stale THEN Survey!Nothing ELSE lock
  BY DEF Survey!PackageManager
<1>2. DOMAIN Survey!NodeLocks = 1..4 /\ \A i \in 1..4 : Survey!NodeLocks[i] \in Survey!ToSet(Survey!NodeLocks)
  BY DEF Survey!NodeLocks, Survey!ToSet
<1>3. lock # Survey!Nothing => lock \in Survey!ToSet(Survey!NodeLocks) /\ Survey!Has(tree, lock)
  BY <1>2, FirstIs
<1>4. fromLock \in {"npm", "yarn", "pnpm"}
  BY <1>3 DEF Survey!LockOf
<1>5. supported \subseteq {"npm", "yarn", "pnpm"} /\ \A a, b \in supported : a = b
  BY DEF Survey!IsRepository
<1> HIDE DEF supported, fromLock, m, lock
<1>6. CASE supported # {}
  <2>1. m.system \in supported
    BY <1>1, <1>6
  <2>2. m.lock # Survey!Nothing => m.lock = lock /\ fromLock \in supported
    BY <1>1, <1>6
  <2>3. m.lock # Survey!Nothing => Survey!LockOf[m.lock] = m.system
    BY <1>5, <2>1, <2>2 DEF fromLock
  <2> QED
    BY <1>3, <1>5, <2>1, <2>2, <2>3 DEF m
<1>7. CASE supported = {}
  <2>1. m.system = fromLock /\ m.lock = lock
    BY <1>1, <1>7
  <2>2. m.lock # Survey!Nothing => Survey!LockOf[m.lock] = m.system
    BY <2>1 DEF fromLock
  <2> QED
    BY <1>3, <1>4, <2>1, <2>2 DEF m
<1> QED
  BY <1>6, <1>7

\* What a stack says, of itself and in its findings.
IsNode(s) == s.system \in {"npm", "yarn", "pnpm"}
About(s, field) == \E f \in s.findings : f.field = field
Asks(s) == Survey!Action("build_system") \in s.findings

Vouched(tree, s) ==
    /\ IsNode(s) /\ s.install # Survey!Nothing =>
          \E lock \in Survey!ToSet(Survey!NodeLocks) :
             Survey!Has(tree, lock) /\ Survey!LockOf[lock] = s.system
    /\ IsNode(s) /\ s.test # Survey!Nothing =>
          "scripts.test" \in Survey!RootSays(tree, "package.json")
    /\ s.install = Survey!Nothing => About(s, "install_command") \/ Asks(s)
    /\ s.test = Survey!Nothing => About(s, "test_command") \/ Asks(s)

LEMMA NodeIsVouched ==
    ASSUME NEW tree, Survey!IsRepository(tree) PROVE Vouched(tree, Survey!Node(tree))
<1> DEFINE s == Survey!Node(tree)
           m == Survey!PackageManager(tree)
           says == Survey!RootSays(tree, "package.json")
           tests == "scripts.test" \in says /\ "placeholder" \notin says
<1>1. /\ m.system \in {"npm", "yarn", "pnpm"}
      /\ m.lock # Survey!Nothing => \E lock \in Survey!ToSet(Survey!NodeLocks) :
                                      Survey!Has(tree, lock) /\ Survey!LockOf[lock] = m.system
  BY ManagerIs
<1>2. /\ s.system = m.system
      /\ s.install = IF m.lock # Survey!Nothing THEN m.system ELSE Survey!Nothing
      /\ s.test = IF tests THEN m.system ELSE Survey!Nothing
      /\ s.findings = m.findings \cup {IF m.lock # Survey!Nothing THEN Survey!Decided("build_system")
                                                         ELSE Survey!Action("install_command")}
                                 \cup {IF tests THEN Survey!Decided(Survey!Nothing)
                                                ELSE Survey!Action("test_command")}
  BY DEF Survey!Node, Survey!Stack
<1> HIDE DEF s, m, says
<1>3. m.system # Survey!Nothing
  BY <1>1 DEF Survey!Nothing
<1>4. s.install = Survey!Nothing => About(s, "install_command")
  <2>1. SUFFICES ASSUME s.install = Survey!Nothing PROVE About(s, "install_command")
    OBVIOUS
  <2>2. m.lock = Survey!Nothing
    BY <1>2, <1>3, <2>1
  <2>3. Survey!Action("install_command") \in s.findings
    BY <1>2, <2>2
  <2>4. Survey!Action("install_command").field = "install_command"
    BY DEF Survey!Action
  <2> QED
    BY <2>3, <2>4, Zenon DEF About
<1>5. s.test = Survey!Nothing => About(s, "test_command")
  <2>1. SUFFICES ASSUME s.test = Survey!Nothing PROVE About(s, "test_command")
    OBVIOUS
  <2>2. ~tests
    BY <1>2, <1>3, <2>1
  <2>3. Survey!Action("test_command") \in s.findings
    BY <1>2, <2>2
  <2>4. Survey!Action("test_command").field = "test_command"
    BY DEF Survey!Action
  <2> QED
    BY <2>3, <2>4, Zenon DEF About
<1>6. s.install # Survey!Nothing => m.lock # Survey!Nothing
  BY <1>2
<1>7. s.test # Survey!Nothing => "scripts.test" \in says
  BY <1>2
<1> QED
  BY <1>1, <1>2, <1>4, <1>5, <1>6, <1>7 DEF Vouched, s, says

\* Every detection is a stack, and what is added to its findings changes nothing else.
IsStack(s) == s = Survey!Stack(s.system, s.manifest, s.install, s.build, s.test, s.globs, s.findings)

LEMMA StackIs ==
    \A a, b, c, d, e, f, g :
       /\ IsStack(Survey!Stack(a, b, c, d, e, f, g))
       /\ Survey!Stack(a, b, c, d, e, f, g).system = a
       /\ Survey!Stack(a, b, c, d, e, f, g).install = c
       /\ Survey!Stack(a, b, c, d, e, f, g).test = e
       /\ Survey!Stack(a, b, c, d, e, f, g).findings = g
BY DEF IsStack, Survey!Stack

LEMMA MoreFindings ==
    ASSUME NEW tree, NEW s, IsStack(s), NEW more,
           \/ Vouched(tree, s)
           \/ Survey!Action("build_system") \in more /\ s.system = "unknown"
    PROVE  Vouched(tree, [s EXCEPT !.findings = @ \cup more])
<1> DEFINE t == [s EXCEPT !.findings = @ \cup more]
<1>1. /\ t.system = s.system /\ t.install = s.install /\ t.test = s.test
      /\ t.findings = s.findings \cup more
  BY DEF IsStack, Survey!Stack
<1> HIDE DEF t
<1> SUFFICES Vouched(tree, t)
  BY DEF t
<1>2. IsNode(t) <=> IsNode(s)
  BY <1>1 DEF IsNode
<1>3. \A field : About(s, field) => About(t, field)
  BY <1>1 DEF About
<1>4. Asks(s) => Asks(t)
  <2>1. s.findings \subseteq t.findings
    BY <1>1
  <2> QED
    BY <2>1, Zenon DEF Asks
<1>5. CASE Vouched(tree, s)
  BY <1>1, <1>2, <1>3, <1>4, <1>5 DEF Vouched
<1>6. CASE Survey!Action("build_system") \in more /\ s.system = "unknown"
  <2>1. Asks(t)
    BY <1>1, <1>6 DEF Asks
  <2>2. ~IsNode(t)
    BY <1>2, <1>6 DEF IsNode
  <2> QED
    BY <2>1, <2>2, Zenon DEF Vouched
<1> QED
  BY <1>5, <1>6

\* Whoever proposes both commands and is no Node is vouched for.
LEMMA ProposesBoth ==
    ASSUME NEW tree, NEW s, s.system \notin {"npm", "yarn", "pnpm"},
           s.install # Survey!Nothing, s.test # Survey!Nothing
    PROVE  Vouched(tree, s)
BY DEF Vouched, IsNode

LEMMA LauncherIs ==
    ASSUME NEW tree, NEW wrapper, NEW fallback,
           wrapper # Survey!Nothing, fallback # Survey!Nothing
    PROVE  Survey!Launcher(tree, wrapper, fallback).tool # Survey!Nothing
BY DEF Survey!Launcher

\* What Python is detected by.
Marked(tree) ==
    \E marker \in {"pyproject.toml", "setup.py", "requirements.txt"} : Survey!Has(tree, marker)

LEMMA OthersAreVouched ==
    ASSUME NEW tree
    PROVE  /\ Vouched(tree, Survey!Maven(tree)) /\ IsStack(Survey!Maven(tree))
           /\ Vouched(tree, Survey!Gradle(tree)) /\ IsStack(Survey!Gradle(tree))
           /\ Vouched(tree, Survey!Go(tree)) /\ IsStack(Survey!Go(tree))
           /\ Vouched(tree, Survey!Cargo(tree)) /\ IsStack(Survey!Cargo(tree))
           /\ Marked(tree) => Vouched(tree, Survey!Python(tree))
           /\ IsStack(Survey!Python(tree))
<1>1. /\ Survey!Nothing = "nothing"
      /\ Survey!Launcher(tree, "mvnw", "mvn").tool # Survey!Nothing
      /\ Survey!Launcher(tree, "gradlew", "gradle").tool # Survey!Nothing
  BY LauncherIs DEF Survey!Nothing
<1>2. Vouched(tree, Survey!Maven(tree)) /\ IsStack(Survey!Maven(tree))
  <2>1. /\ IsStack(Survey!Maven(tree)) /\ Survey!Maven(tree).system = "maven"
        /\ Survey!Maven(tree).install = Survey!Launcher(tree, "mvnw", "mvn").tool
        /\ Survey!Maven(tree).test = Survey!Launcher(tree, "mvnw", "mvn").tool
    BY DEF Survey!Maven, Survey!Stack, IsStack
  <2> QED
    BY <1>1, <2>1, ProposesBoth
<1>3. Vouched(tree, Survey!Gradle(tree)) /\ IsStack(Survey!Gradle(tree))
  <2>1. /\ IsStack(Survey!Gradle(tree)) /\ Survey!Gradle(tree).system = "gradle"
        /\ Survey!Gradle(tree).install = Survey!Launcher(tree, "gradlew", "gradle").tool
        /\ Survey!Gradle(tree).test = Survey!Launcher(tree, "gradlew", "gradle").tool
    BY DEF Survey!Gradle, Survey!Stack, IsStack
  <2> QED
    BY <1>1, <2>1, ProposesBoth
<1>4. Vouched(tree, Survey!Go(tree)) /\ IsStack(Survey!Go(tree))
  <2>1. /\ IsStack(Survey!Go(tree)) /\ Survey!Go(tree).system = "go"
        /\ Survey!Go(tree).install = "go" /\ Survey!Go(tree).test = "go"
    BY DEF Survey!Go, Survey!Stack, IsStack
  <2> QED
    BY <1>1, <2>1, ProposesBoth
<1>5. Vouched(tree, Survey!Cargo(tree)) /\ IsStack(Survey!Cargo(tree))
  <2>1. /\ IsStack(Survey!Cargo(tree)) /\ Survey!Cargo(tree).system = "cargo"
        /\ Survey!Cargo(tree).install = "cargo" /\ Survey!Cargo(tree).test = "cargo"
    BY DEF Survey!Cargo, Survey!Stack, IsStack
  <2> QED
    BY <1>1, <2>1, ProposesBoth
<1>6. (Marked(tree) => Vouched(tree, Survey!Python(tree))) /\ IsStack(Survey!Python(tree))
  <2> DEFINE s == Survey!Python(tree)
  <2>1. /\ IsStack(s) /\ s.system = Survey!PythonManager(tree)
        /\ s.install = IF Survey!PythonManager(tree) = "pip" THEN Survey!PipInstall(tree)
                       ELSE Survey!PythonManager(tree)
        /\ s.test = IF Survey!HasPytest(tree) THEN "pytest" ELSE Survey!Nothing
        /\ s.findings = {Survey!Decided("build_system"), Survey!Note("build_command"),
                         IF Survey!HasPytest(tree) THEN Survey!Decided("test_command")
                                                   ELSE Survey!Action("test_command")}
    BY StackIs, ZenonT(40) DEF Survey!Python
  <2> HIDE DEF s
  <2> SUFFICES ASSUME Marked(tree) PROVE Vouched(tree, s)
    BY <2>1 DEF s
  <2>5. Survey!PipInstall(tree) = "pip"
    BY DEF Survey!PipInstall, Marked
  <2>2. s.system \in {"uv", "poetry", "pip"} /\ s.install # Survey!Nothing
    BY <1>1, <2>1, <2>5 DEF Survey!PythonManager
  <2>3. CASE Survey!HasPytest(tree)
    <3>1. s.test # Survey!Nothing
      BY <1>1, <2>1, <2>3
    <3> QED
      BY <2>1, <2>2, <3>1, ProposesBoth DEF s
  <2>4. CASE ~Survey!HasPytest(tree)
    <3>1. Survey!Action("test_command") \in s.findings
      BY <2>1, <2>4
    <3>2. Survey!Action("test_command").field = "test_command"
      BY DEF Survey!Action
    <3>3. About(s, "test_command")
      BY <3>1, <3>2, Zenon DEF About
    <3>4. s.test = Survey!Nothing
      BY <2>1, <2>4
    <3> QED
      BY <2>1, <2>2, <3>3, <3>4 DEF Vouched, IsNode, s
  <2> QED
    BY <2>3, <2>4
<1> QED
  BY <1>2, <1>3, <1>4, <1>5, <1>6

LEMMA DetectIsVouched ==
    ASSUME NEW tree, Survey!IsRepository(tree) PROVE Vouched(tree, Survey!Detect(tree))
<1> DEFINE present == {i \in DOMAIN Survey!Candidates :
                          \E marker \in Survey!Candidates[i][2] : Survey!Has(tree, marker)}
           chosen == IF present = {} THEN Survey!Nothing ELSE Survey!Candidates[Survey!Min(present)][1]
           none == Survey!Stack("unknown", Survey!Nothing, Survey!Nothing, Survey!Nothing,
                                Survey!Nothing, <<>>, {})
           stack == CASE chosen = "maven" -> Survey!Maven(tree)
                      [] chosen = "gradle" -> Survey!Gradle(tree)
                      [] chosen = "go" -> Survey!Go(tree)
                      [] chosen = "cargo" -> Survey!Cargo(tree)
                      [] chosen = "python" -> Survey!Python(tree)
                      [] chosen = "node" -> Survey!Node(tree)
                      [] OTHER -> none
           more == Survey!When(Survey!Cardinality(present) # 1, Survey!Action("build_system"))
<1>1. Survey!Detect(tree) = [stack EXCEPT !.findings = @ \cup more]
  BY DEF Survey!Detect
<1>2. chosen \in {Survey!Nothing, "maven", "gradle", "go", "cargo", "python", "node"}
  <2>1. present \in SUBSET (1..6) /\ present \in SUBSET Nat
    BY DEF Survey!Candidates
  <2>2. present # {} => Survey!Min(present) \in 1..6
    <3> HIDE DEF present
    <3> QED
      BY <2>1, FirstOfThese
  <2>3. \A i \in 1..6 : Survey!Candidates[i][1] \in {"maven", "gradle", "go", "cargo", "python", "node"}
    BY DEF Survey!Candidates
  <2> HIDE DEF present
  <2> QED
    BY <2>2, <2>3
<1>3. chosen = Survey!Nothing => present = {}
  <2>1. present \in SUBSET (1..6) /\ present \in SUBSET Nat
    BY DEF Survey!Candidates
  <2>2. present # {} => Survey!Min(present) \in 1..6
    <3> HIDE DEF present
    <3> QED
      BY <2>1, FirstOfThese
  <2>3. \A i \in 1..6 : Survey!Candidates[i][1] # Survey!Nothing
    BY DEF Survey!Candidates, Survey!Nothing
  <2> HIDE DEF present
  <2> QED
    BY <2>2, <2>3
<1>4. IsStack(Survey!Node(tree)) /\ IsStack(none) /\ none.system = "unknown"
  <2>1. IsStack(Survey!Node(tree))
    BY DEF Survey!Node, Survey!Stack, IsStack
  <2>2. IsStack(none) /\ none.system = "unknown"
    BY DEF Survey!Stack, IsStack
  <2> QED
    BY <2>1, <2>2
<1>5. present = {} => Survey!Action("build_system") \in more
  <2>1. Survey!Cardinality({}) = 0
    BY SizeOfPaths, FS_EmptySet, Zenon
  <2> HIDE DEF present
  <2> QED
    BY <2>1 DEF Survey!When
<1>8. chosen = "python" => Marked(tree)
  <2>1. present \in SUBSET (1..6) /\ present \in SUBSET Nat
    BY DEF Survey!Candidates
  <2>2. present # {} => Survey!Min(present) \in present
    <3> HIDE DEF present
    <3> QED
      BY <2>1, FirstOfThese
  <2>3. \A i \in 1..6 : Survey!Candidates[i][1] = "python" =>
          Survey!Candidates[i][2] = {"pyproject.toml", "setup.py", "requirements.txt"}
    BY DEF Survey!Candidates
  <2>4. \A i \in present : i \in 1..6 /\ \E marker \in Survey!Candidates[i][2] : Survey!Has(tree, marker)
    BY <2>1
  <2>5. Survey!Nothing # "python"
    BY DEF Survey!Nothing
  <2> HIDE DEF present
  <2> QED
    BY <2>2, <2>3, <2>4, <2>5 DEF Marked
<1> HIDE DEF present, none, more
<1>6. CASE chosen = Survey!Nothing
  <2>1. stack = none
    BY <1>6 DEF Survey!Nothing
  <2> HIDE DEF stack
  <2> QED
    BY <1>1, <1>3, <1>4, <1>5, <1>6, <2>1, MoreFindings
<1>7. CASE chosen # Survey!Nothing
  <2>1. \/ stack \in {Survey!Maven(tree), Survey!Gradle(tree), Survey!Go(tree), Survey!Cargo(tree),
                      Survey!Node(tree)}
        \/ stack = Survey!Python(tree) /\ Marked(tree)
    <3> HIDE DEF chosen
    <3> QED
      BY <1>2, <1>7, <1>8
  <2>2. Vouched(tree, stack) /\ IsStack(stack)
    <3> HIDE DEF stack
    <3> QED
      BY <1>4, <2>1, NodeIsVouched, OthersAreVouched
  <2> HIDE DEF stack
  <2> QED
    BY <1>1, <2>2, MoreFindings
<1> QED
  BY <1>6, <1>7

\* What the report holds, of the parts that were asked.
LEMMA ProbedIs ==
    ASSUME NEW tree, NEW stack
    PROVE  LET p == Survey!Probed(tree, stack)
               facts == Survey!GitFacts(tree)
               docker == Survey!NeedsDocker(tree, stack, Survey!Members(tree, stack.globs).all)
           IN  /\ p.remote_url = facts.remote
               /\ p.build_system = stack.system /\ p.install_command = stack.install
               /\ p.test_command = stack.test
               /\ p["install_command"] = stack.install /\ p["test_command"] = stack.test
               /\ p.needs_docker = docker.needed /\ p.isolation_tier = "container"
               /\ facts.findings \subseteq p.findings /\ stack.findings \subseteq p.findings
               /\ docker.findings \subseteq p.findings
               /\ docker.needed => Survey!Action("isolation_tier") \in p.findings
BY DEF Survey!Probed, Survey!When

LEMMA GitIsAsked ==
    ASSUME NEW tree, Survey!IsRepository(tree)
    PROVE  LET facts == Survey!GitFacts(tree)
           IN  facts.remote = Survey!Nothing =>
                  \/ Survey!Action("remote_url") \in facts.findings
                  \/ Survey!Action("git") \in facts.findings
BY DEF Survey!GitFacts, Survey!When, Survey!IsRepository

LEMMA WhatIsVouchedIsNotGuessed ==
    ASSUME NEW tree, Survey!IsRepository(tree), NEW stack, Vouched(tree, stack)
    PROVE  Survey!NothingIsGuessed(tree, stack)
<1> DEFINE p == Survey!Probed(tree, stack)
           facts == Survey!GitFacts(tree)
<1>1. /\ p.remote_url = facts.remote
      /\ p.build_system = stack.system /\ p.install_command = stack.install
      /\ p.test_command = stack.test
      /\ p["install_command"] = stack.install /\ p["test_command"] = stack.test
      /\ facts.findings \subseteq p.findings /\ stack.findings \subseteq p.findings
  BY ProbedIs
<1>2. facts.remote = Survey!Nothing => \/ Survey!Action("remote_url") \in facts.findings
                                       \/ Survey!Action("git") \in facts.findings
  BY GitIsAsked
<1>3. Survey!NothingIsGuessed(tree, stack) <=>
        /\ p.build_system \in {"npm", "yarn", "pnpm"} /\ p.install_command # Survey!Nothing =>
              \E lock \in Survey!ToSet(Survey!NodeLocks) :
                 Survey!Has(tree, lock) /\ Survey!LockOf[lock] = p.build_system
        /\ p.build_system \in {"npm", "yarn", "pnpm"} /\ p.test_command # Survey!Nothing =>
              "scripts.test" \in Survey!RootSays(tree, "package.json")
        /\ \A field \in {"install_command", "test_command"} :
              p[field] = Survey!Nothing =>
                 Survey!Said(p, field) \/ Survey!Reports(p, "action", "build_system")
        /\ p.remote_url = Survey!Nothing =>
              Survey!Reports(p, "action", "remote_url") \/ Survey!Reports(p, "action", "git")
  BY Zenon DEF Survey!NothingIsGuessed
<1> HIDE DEF p, facts
<1>4. \A field : Survey!Action(field) \in p.findings => Survey!Reports(p, "action", field)
  BY Zenon DEF Survey!Action, Survey!Reports
<1>5. \A field : About(stack, field) => Survey!Said(p, field)
  BY <1>1, Zenon DEF About, Survey!Said
<1>6. Asks(stack) => Survey!Reports(p, "action", "build_system")
  BY <1>1, <1>4, Zenon DEF Asks
<1>7. IsNode(stack) <=> p.build_system \in {"npm", "yarn", "pnpm"}
  BY <1>1, Zenon DEF IsNode
<1>8. p.remote_url = Survey!Nothing =>
              Survey!Reports(p, "action", "remote_url") \/ Survey!Reports(p, "action", "git")
  BY <1>1, <1>2, <1>4, Zenon
<1>9. \A field \in {"install_command", "test_command"} :
         p[field] = Survey!Nothing =>
            Survey!Said(p, field) \/ Survey!Reports(p, "action", "build_system")
  BY <1>1, <1>5, <1>6, Zenon DEF Vouched
<1>10. p.build_system \in {"npm", "yarn", "pnpm"} /\ p.install_command # Survey!Nothing =>
              \E lock \in Survey!ToSet(Survey!NodeLocks) :
                 Survey!Has(tree, lock) /\ Survey!LockOf[lock] = p.build_system
  BY <1>1, <1>7, Zenon DEF Vouched
<1>11. p.build_system \in {"npm", "yarn", "pnpm"} /\ p.test_command # Survey!Nothing =>
              "scripts.test" \in Survey!RootSays(tree, "package.json")
  BY <1>1, <1>7, Zenon DEF Vouched
<1> QED
  BY <1>3, <1>8, <1>9, <1>10, <1>11, Zenon

LEMMA DaemonIsFoundOrAsked ==
    ASSUME NEW tree, Survey!IsRepository(tree), NEW stack
    PROVE  Survey!DaemonIsAskedForNeverTaken(tree, stack)
<1> DEFINE p == Survey!Probed(tree, stack)
           members == Survey!Members(tree, stack.globs).all
           docker == Survey!NeedsDocker(tree, stack, members)
           dirs == Survey!Directories(members)
           there == tree.files \ tree.outside
           opened == Survey!Opened(tree, dirs)
           fits == {m \in opened : Survey!Cardinality({n \in opened : Survey!Earlier(n, m)})
                                     < MaxFilesRead - Survey!Spent(tree, stack.system)}
           read == {Survey!Manifest(dirs, m) : m \in fits}
           evidence == {path \in read : "testcontainers" \in Survey!Says(tree, path)}
                  \cup {path \in there : /\ path[1] \in Survey!ToSet(dirs)
                                         /\ path[2] \in Survey!ComposeFiles}
           declared == {path \in there :
                          /\ path[1] \in Survey!ToSet(dirs)
                          /\ \/ path[2] \in Survey!ComposeFiles
                             \/ "testcontainers" \in tree.says[path] /\ path \notin tree.refused}
<1>1. /\ p.needs_docker = docker.needed /\ p.isolation_tier = "container"
      /\ docker.findings \subseteq p.findings
      /\ docker.needed => Survey!Action("isolation_tier") \in p.findings
  BY ProbedIs
<1>2. /\ docker.needed = (evidence # {})
      /\ fits # opened => Survey!Note("budget") \in docker.findings
      /\ read \cap (tree.illegible \ tree.refused) # {} => Survey!Note("illegible") \in docker.findings
  BY DEF Survey!NeedsDocker, Survey!When
<1>3. Survey!DaemonIsAskedForNeverTaken(tree, stack) <=>
        /\ declared # {} => \/ p.needs_docker \/ Survey!Said(p, "budget")
                            \/ Survey!Said(p, "illegible")
        /\ p.needs_docker => declared # {}
        /\ p.needs_docker => Survey!Reports(p, "action", "isolation_tier")
                             /\ p.isolation_tier = "container"
  BY Zenon DEF Survey!DaemonIsAskedForNeverTaken
<1>4. \A field : Survey!Note(field) \in p.findings => Survey!Said(p, field)
  <2>1. \A field : Survey!Note(field).field = field
    BY DEF Survey!Note
  <2> QED
    BY <2>1, Zenon DEF Survey!Said
<1>5. Survey!Action("isolation_tier") \in p.findings => Survey!Reports(p, "action", "isolation_tier")
  BY Zenon DEF Survey!Action, Survey!Reports
<1>6. Survey!ToSet(dirs) = {dirs[k] : k \in DOMAIN dirs}
  BY Zenon DEF Survey!ToSet
<1>7. Survey!ToSet(Survey!AllManifests) = {Survey!AllManifests[i] : i \in DOMAIN Survey!AllManifests}
  BY Zenon DEF Survey!ToSet
<1>8. opened = {m \in (DOMAIN dirs) \X (DOMAIN Survey!AllManifests) : Survey!Manifest(dirs, m) \in there}
  BY Zenon DEF Survey!Opened
<1>9. \A path : Survey!Says(tree, path) =
                  IF path \in tree.files \ (tree.outside \cup tree.illegible \cup tree.refused)
                  THEN tree.says[path] ELSE {}
  BY Zenon DEF Survey!Says, Survey!Legible
<1>10. /\ tree.files \subseteq STRING \X STRING
       /\ \A path \in tree.files :
             "testcontainers" \in tree.says[path] => path[2] \in Survey!ToSet(Survey!AllManifests)
  BY DEF Survey!IsRepository
<1>11. \A m : Survey!Manifest(dirs, m) = <<dirs[m[1]], Survey!AllManifests[m[2]]>>
  BY Zenon DEF Survey!Manifest
<1> HIDE DEF p, members, docker, dirs, opened, fits
<1>12. \A path \in evidence : path \in declared
  <2>1. SUFFICES ASSUME NEW path \in read, "testcontainers" \in Survey!Says(tree, path)
                 PROVE  path \in declared
    BY <1>6
  <2>2. path \in there /\ "testcontainers" \in tree.says[path] /\ path \notin tree.refused
    BY <1>9, <2>1
  <2>3. PICK m \in fits : path = Survey!Manifest(dirs, m)
    BY <2>1
  <2>4. m \in opened
    BY <2>3 DEF fits
  <2>5. m[1] \in DOMAIN dirs
    <3> DEFINE ks == DOMAIN dirs
               is == DOMAIN Survey!AllManifests
    <3>1. m \in ks \X is
      BY <1>8, <2>4
    <3> HIDE DEF ks, is
    <3>2. m[1] \in ks
      BY <3>1
    <3> QED
      BY <3>2 DEF ks
  <2>6. path[1] = dirs[m[1]]
    BY <1>11, <2>3
  <2>7. path[1] \in Survey!ToSet(dirs)
    BY <1>6, <2>5, <2>6, Zenon
  <2> QED
    BY <2>2, <2>7
<1>13. ASSUME NEW path \in declared, evidence = {}
       PROVE  Survey!Said(p, "budget") \/ Survey!Said(p, "illegible")
  <2>1. /\ path \in there /\ "testcontainers" \in tree.says[path] /\ path \notin tree.refused
        /\ path[1] \in Survey!ToSet(dirs)
    BY <1>13
  <2>2. PICK k \in DOMAIN dirs : path[1] = dirs[k]
    BY <1>6, <2>1, Zenon
  <2>3. PICK i \in DOMAIN Survey!AllManifests : path[2] = Survey!AllManifests[i]
    BY <1>7, <1>10, <2>1, Zenon
  <2>4. path = <<path[1], path[2]>>
    BY <1>10, <2>1
  <2> DEFINE m == <<k, i>>
  <2>5. m[1] = k /\ m[2] = i /\ m \in (DOMAIN dirs) \X (DOMAIN Survey!AllManifests)
    <3> DEFINE ks == DOMAIN dirs
               is == DOMAIN Survey!AllManifests
    <3>1. k \in ks /\ i \in is
      OBVIOUS
    <3> HIDE DEF ks, is
    <3>2. m[1] = k /\ m[2] = i /\ m \in ks \X is
      BY <3>1
    <3> QED
      BY <3>2 DEF ks, is
  <2> HIDE DEF m
  <2>6. path = Survey!Manifest(dirs, m)
    BY <1>11, <2>2, <2>3, <2>4, <2>5
  <2>7. m \in opened
    BY <1>8, <2>1, <2>5, <2>6
  <2>8. CASE m \in fits
    <3>1. path \in read
      BY <2>6, <2>8
    <3>2. path \in tree.illegible
      BY <1>9, <1>13, <2>1, <3>1
    <3>3. read \cap (tree.illegible \ tree.refused) # {}
      BY <2>1, <3>1, <3>2
    <3> QED
      BY <1>1, <1>2, <1>4, <3>3
  <2>9. CASE m \notin fits
    BY <1>1, <1>2, <1>4, <2>7, <2>9
  <2> QED
    BY <2>8, <2>9
<1> HIDE DEF evidence, declared
<1>14. declared # {} => \/ p.needs_docker \/ Survey!Said(p, "budget") \/ Survey!Said(p, "illegible")
  BY <1>1, <1>2, <1>13
<1>15. p.needs_docker => declared # {}
  BY <1>1, <1>2, <1>12
<1> QED
  BY <1>1, <1>3, <1>5, <1>14, <1>15, Zenon

-----------------------------------------------------------------------------
(***************************************************************************)
(* Decisions: a case is decided once, and is one of the cases there are.   *)
(***************************************************************************)
DecisionInv == case = NoCase \/ case \in Cases

LEMMA CasesAreDecided == Spec => []DecisionInv
<1>1. Init => DecisionInv
  BY DEF Init, DecisionInv
<1>2. DecisionInv /\ [Next]_vars => DecisionInv'
  BY DEF DecisionInv, Next, SchedulerMoves, IntakeMoves, UpgradeMoves, ModelMoves, OutboxMoves,
         Decides, vars
<1> QED
  BY <1>1, <1>2, PTL DEF Spec

LEMMA NothingToDecide == NoCase.of \notin {"text", "request", "file", "repository"}
BY DEF NoCase

LEMMA CasesAre == CasesAssumption
BY ServicesAssumption

(***************************************************************************)
(* Whatever a text says, it selects a repository of the deployment or      *)
(* none, the same one in whatever order the deployment lists them, and     *)
(* naming the selected one never takes the request away from it; the       *)
(* envelope's answers are not for the text to change; a deployment that    *)
(* loads has one profile per path and no host socket nobody agreed to; and *)
(* a workflow is a file of its one directory: for any request, any         *)
(* deployment and any document.                                            *)
(***************************************************************************)
THEOREM TextOnlySelects == Spec => []TextIsASelector
<1>1. DecisionInv => TextIsASelector
  <2> SUFFICES ASSUME DecisionInv PROVE TextIsASelector
    OBVIOUS
  <2>1. case = NoCase => TextIsASelector
    BY NothingToDecide, Zenon DEF TextIsASelector
  <2>2. ASSUME case \in Cases, case.of = "text"
        PROVE  Triage!TextIsASelector(case.item, case.profiles, case.rules)
    BY <2>2, CasesAre, TextSelects, Zenon DEF CasesAssumption
  <2>3. ASSUME case \in Cases, case.of = "request"
        PROVE  Triage!EnvelopeOverrides(case.item, case.text, case.profiles, case.rules)
    BY <2>3, CasesAre, EnvelopeIsKept, Zenon DEF CasesAssumption
  <2>4. ASSUME case \in Cases, case.of = "file"
        PROVE  Triage!DeploymentIsClosed(case.document, case.files, case.name)
    BY <2>4, CasesAre, LoadedIsClosed, Zenon DEF CasesAssumption
  <2> QED
    BY <2>1, <2>2, <2>3, <2>4, Zenon DEF DecisionInv, TextIsASelector
<1> QED
  BY <1>1, CasesAreDecided, PTL

(***************************************************************************)
(* Whatever files a repository has and whatever they say, an install that  *)
(* is frozen has a lockfile of its own package manager, a test command has *)
(* something that asks for it, and what is empty is a question; and a      *)
(* Docker daemon is found exactly where one is declared, or the report says *)
(* what was not read, and is a question too: for any repository and any    *)
(* budget of reads and of members.                                         *)
(***************************************************************************)
THEOREM NothingIsMadeUp == Spec => []NothingIsGuessed
<1>1. DecisionInv => NothingIsGuessed
  <2> SUFFICES ASSUME DecisionInv PROVE NothingIsGuessed
    OBVIOUS
  <2>1. case = NoCase => NothingIsGuessed
    BY NothingToDecide, Zenon DEF NothingIsGuessed
  <2>2. ASSUME case \in Cases, case.of = "repository"
        PROVE  /\ Survey!NothingIsGuessed(case.repository, case.stack)
               /\ Survey!DaemonIsAskedForNeverTaken(case.repository, case.stack)
    <3>1. Survey!IsRepository(case.repository) /\ case.stack = Survey!Detect(case.repository)
      BY <2>2, CasesAre, Zenon DEF CasesAssumption
    <3>2. Vouched(case.repository, case.stack)
      BY <3>1, DetectIsVouched, Zenon
    <3> QED
      BY <3>1, <3>2, WhatIsVouchedIsNotGuessed, DaemonIsFoundOrAsked, Zenon
  <2> QED
    BY <2>1, <2>2, Zenon DEF DecisionInv, NothingIsGuessed
<1> QED
  BY <1>1, CasesAreDecided, PTL

-----------------------------------------------------------------------------
(***************************************************************************)
(* Loader: what a workflow that loads may refer to.                        *)
(***************************************************************************)
Loading == INSTANCE Loader

Before(workflow, i) == {Loading!Request} \cup {workflow[j].id : j \in 1..(i - 1)}
Looked(was, one) == [ok |-> was.ok /\ ~Loading!Refused(one, was.declared),
                       declared |-> was.declared \cup {one.id}]

LEMMA Look ==
    \A was, one : /\ Looked(was, one).declared = was.declared \cup {one.id}
                    /\ Looked(was, one).ok = (was.ok /\ ~Loading!Refused(one, was.declared))
BY DEF Looked

LEMMA LooksOneByOne ==
    ASSUME NEW S, NEW workflow \in Seq(S)
    PROVE  /\ Loading!Validated(workflow)[0] = [ok |-> TRUE, declared |-> {Loading!Request}]
           /\ \A n \in 1..Len(workflow) :
                 Loading!Validated(workflow)[n]
                   = Looked(Loading!Validated(workflow)[n - 1], workflow[n])
<1> DEFINE Start == [ok |-> TRUE, declared |-> {Loading!Request}]
           Is(f, k) == f = [n \in 0..k |-> IF n = 0 THEN Start ELSE Looked(f[n - 1], workflow[n])]
           Not == {k \in 0..Len(workflow) : ~\E f : Is(f, k)}
<1>1. Len(workflow) \in Nat
  OBVIOUS
<1> HIDE DEF Start
<1>2. Not = {}
  <2>1. SUFFICES ASSUME Not # {} PROVE FALSE
    OBVIOUS
  <2>2. PICK k \in Not : \A j \in Not : k <= j
    <3>1. Not \in SUBSET Nat
      OBVIOUS
    <3> QED
      BY <2>1, <3>1, Least
  <2>3. Is([n \in 0..0 |-> Start], 0)
    OBVIOUS
  <2>4. k # 0 /\ k - 1 \in 0..Len(workflow) /\ ~(k <= k - 1)
    <3> HIDE DEF Is
    <3> QED
      BY <1>1, <2>2, <2>3
  <2>5. PICK f : Is(f, k - 1)
    <3> HIDE DEF Is
    <3> QED
      BY <2>2, <2>4
  <2> DEFINE g == [n \in 0..k |-> IF n = k THEN Looked(f[k - 1], workflow[k]) ELSE f[n]]
  <2>6. \A n \in 0..k : g[n] = IF n = 0 THEN Start ELSE Looked(g[n - 1], workflow[n])
    BY <2>4, <2>5
  <2>7. Is(g, k)
    BY <2>6
  <2> QED
    BY <2>2, <2>7
<1>3. \E f : Is(f, Len(workflow))
  <2> HIDE DEF Is
  <2> QED
    BY <1>1, <1>2
<1>4. Loading!Validated(workflow) = CHOOSE f : Is(f, Len(workflow))
  BY DEF Loading!Validated, Looked, Start
<1>5. Is(Loading!Validated(workflow), Len(workflow))
  BY <1>3, <1>4
<1>6. /\ Loading!Validated(workflow)[0] = Start
      /\ \A n \in 1..Len(workflow) :
            Loading!Validated(workflow)[n] = Looked(Loading!Validated(workflow)[n - 1], workflow[n])
  BY <1>1, <1>5
<1> QED
  BY <1>6 DEF Start

\* Up to a stage: the names before it are declared, and none was refused.
LEMMA LookedAt ==
    ASSUME NEW S, NEW workflow \in Seq(S), NEW n \in 0..Len(workflow)
    PROVE  /\ Loading!Validated(workflow)[n].declared = Before(workflow, n + 1)
           /\ Loading!Validated(workflow)[n].ok
                 <=> \A i \in 1..n : ~Loading!Refused(workflow[i], Before(workflow, i))
<1> DEFINE V == Loading!Validated(workflow)
           before(i) == Before(workflow, i)
           Right(k) == /\ V[k].declared = before(k + 1)
                       /\ V[k].ok <=> \A i \in 1..k : ~Loading!Refused(workflow[i], before(i))
           Bad == {k \in 0..Len(workflow) : ~Right(k)}
<1>1. Len(workflow) \in Nat
  OBVIOUS
<1>2. /\ V[0] = [ok |-> TRUE, declared |-> {Loading!Request}]
      /\ \A k \in 1..Len(workflow) : V[k] = Looked(V[k - 1], workflow[k])
  BY LooksOneByOne
<1> HIDE DEF V
<1>3. Right(0)
  BY <1>2 DEF Before
<1>4. ASSUME NEW k \in 1..Len(workflow), Right(k - 1) PROVE Right(k)
  <2>1. /\ V[k].declared = V[k - 1].declared \cup {workflow[k].id}
        /\ V[k].ok <=> V[k - 1].ok /\ ~Loading!Refused(workflow[k], V[k - 1].declared)
    <3>1. V[k] = Looked(V[k - 1], workflow[k])
      BY <1>2
    <3> QED
      BY <3>1, Look, Zenon
  <2>2. V[k - 1].declared = before(k)
    BY <1>4
  <2>3. before(k + 1) = before(k) \cup {workflow[k].id}
    <3>1. 1..((k + 1) - 1) = 1..(k - 1) \cup {k}
      BY <1>1
    <3> QED
      BY <3>1 DEF Before
  <2>4. V[k - 1].ok <=> \A i \in 1..(k - 1) : ~Loading!Refused(workflow[i], before(i))
    BY <1>4
  <2>5. 1..k = 1..(k - 1) \cup {k}
    BY <1>1
  <2> HIDE DEF before
  <2> QED
    BY <2>1, <2>2, <2>3, <2>4, <2>5
<1> HIDE DEF Right
<1>5. Bad = {}
  <2>1. SUFFICES ASSUME Bad # {} PROVE FALSE
    OBVIOUS
  <2>2. PICK k \in Bad : \A j \in Bad : k <= j
    <3>1. Bad \in SUBSET Nat
      OBVIOUS
    <3> QED
      BY <2>1, <3>1, Least
  <2>3. k # 0 /\ k \in 1..Len(workflow) /\ k - 1 \in 0..Len(workflow) /\ ~(k <= k - 1)
    BY <1>1, <1>3, <2>2
  <2> QED
    BY <1>4, <2>2, <2>3
<1> QED
  BY <1>5 DEF Right, V

LEMMA OntoIs ==
    \A S, T : \A f \in [S -> T] : (\A t \in T : \E x \in S : f[x] = t) => f \in Surjection(S, T)
BY DEF Surjection

\* No two stages of a name: the names are as many as the stages.
LEMMA DistinctNames ==
    ASSUME NEW S, NEW workflow \in Seq(S)
    PROVE  Loading!Cardinality({workflow[i].id : i \in DOMAIN workflow}) = Len(workflow)
             <=> \A i, j \in DOMAIN workflow : workflow[i].id = workflow[j].id => i = j
<1> DEFINE n == Len(workflow)
           names == {workflow[i].id : i \in 1..n}
           f == [i \in 1..n |-> workflow[i].id]
<1>1. n \in Nat /\ DOMAIN workflow = 1..n
  OBVIOUS
<1>2. IsFiniteSet(1..n) /\ Cardinality(1..n) = n
  BY <1>1, FS_Interval
<1>3. f \in Surjection(1..n, names)
  <2>1. f \in [1..n -> names]
    BY <1>1
  <2>2. \A name \in names : \E i \in 1..n : f[i] = name
    OBVIOUS
  <2> HIDE DEF f, names
  <2> QED
    BY <2>1, <2>2, OntoIs, Zenon
<1>4. IsFiniteSet(names) /\ (Cardinality(names) = n <=> f \in Injection(1..n, names))
  <2> DEFINE d == 1..n
  <2> HIDE DEF d, f, names
  <2>1. IsFiniteSet(d) /\ f \in Surjection(d, names) /\ Cardinality(d) = n
    BY <1>2, <1>3, Zenon DEF d
  <2>2. IsFiniteSet(names) /\ (Cardinality(names) = Cardinality(d) <=> f \in Injection(d, names))
    BY <2>1, FS_Surjection, Zenon
  <2> QED
    BY <2>1, <2>2, Zenon DEF d
<1>5. f \in Injection(1..n, names) <=> \A i, j \in 1..n : workflow[i].id = workflow[j].id => i = j
  BY DEF Injection, IsInjective
<1>6. Loading!Cardinality(names) = Cardinality(names)
  BY Zenon DEF Loading!Cardinality, Cardinality
<1> QED
  BY <1>1, <1>4, <1>5, <1>6

(***************************************************************************)
(* A workflow loads exactly if the names of its stages differ and every    *)
(* reference of every stage, of its guard and of its templates alike, is   *)
(* to a stage that has had its turn before, or to the request: for a       *)
(* workflow of any length (loader.py:165-210).                             *)
(***************************************************************************)
THEOREM LoadedIsEarlier ==
    ASSUME NEW S, NEW workflow \in Seq(S)
    PROVE  Loading!LoadedReferencesAreEarlier(workflow)
<1> DEFINE n == Len(workflow)
           before(i) == Before(workflow, i)
           Distinct == \A i, j \in DOMAIN workflow : workflow[i].id = workflow[j].id => i = j
           Allowed(i) == \A ref \in workflow[i].refs :
                            /\ Loading!WellFormed(ref)
                            /\ \/ ref.stage = Loading!Request /\ ref.facet = "json"
                               \/ \E j \in 1..(i - 1) : workflow[j].id = ref.stage
           Named(i) == workflow[i].id # Loading!Request /\ ~workflow[i].choosesCommand
<1>1. n \in Nat /\ DOMAIN workflow = 1..n
  OBVIOUS
<1>2. Loading!Loads(workflow) <=>
        /\ workflow # << >> /\ Distinct
        /\ \A i \in 1..n : ~Loading!Refused(workflow[i], before(i))
  <2>1. Loading!Loads(workflow) <=>
          /\ workflow # << >>
          /\ Loading!Cardinality({workflow[i].id : i \in DOMAIN workflow}) = Len(workflow)
          /\ Loading!Validated(workflow)[n].ok
    BY Zenon DEF Loading!Loads
  <2>2. n \in 0..Len(workflow)
    BY <1>1
  <2>3. Loading!Validated(workflow)[n].ok
          <=> \A i \in 1..n : ~Loading!Refused(workflow[i], before(i))
    BY <2>2, LookedAt, Zenon
  <2>4. Loading!Cardinality({workflow[i].id : i \in DOMAIN workflow}) = Len(workflow) <=> Distinct
    BY DistinctNames
  <2> QED
    BY <2>1, <2>3, <2>4, Zenon
<1>3. ASSUME NEW i \in 1..n PROVE
         Loading!Refused(workflow[i], before(i)) <=>
           \/ workflow[i].id = Loading!Request
           \/ workflow[i].choosesCommand
           \/ \E ref \in workflow[i].refs :
                \/ ~Loading!WellFormed(ref)
                \/ ref.stage = workflow[i].id
                \/ ref.stage = Loading!Request /\ ref.facet # "json"
                \/ ref.stage \notin before(i)
  BY Zenon DEF Loading!Refused
<1>4. ASSUME NEW i \in 1..n, ~Loading!Refused(workflow[i], before(i)) PROVE Named(i) /\ Allowed(i)
  <2>1. Named(i)
    BY <1>3, <1>4, Zenon
  <2>2. ASSUME NEW ref \in workflow[i].refs
        PROVE  /\ Loading!WellFormed(ref) /\ ref.stage \in before(i)
               /\ ref.stage = Loading!Request => ref.facet = "json"
    BY <1>3, <1>4, Zenon
  <2>3. ASSUME NEW ref \in workflow[i].refs
        PROVE  \/ ref.stage = Loading!Request /\ ref.facet = "json"
               \/ \E j \in 1..(i - 1) : workflow[j].id = ref.stage
    BY <2>2 DEF Before
  <2> QED
    BY <2>1, <2>2, <2>3, Zenon
<1>5. ASSUME Distinct, \A i \in 1..n : Named(i) /\ Allowed(i), NEW i \in 1..n
      PROVE  ~Loading!Refused(workflow[i], before(i))
  <2>1. ASSUME NEW ref \in workflow[i].refs
        PROVE  /\ Loading!WellFormed(ref) /\ ref.stage # workflow[i].id /\ ref.stage \in before(i)
               /\ ref.stage = Loading!Request => ref.facet = "json"
    <3>1. Loading!WellFormed(ref)
      BY <1>5
    <3>2. CASE ref.stage = Loading!Request /\ ref.facet = "json"
      BY <1>5, <3>1, <3>2 DEF Before
    <3>3. ASSUME NEW j \in 1..(i - 1), workflow[j].id = ref.stage
          PROVE  /\ ref.stage # workflow[i].id /\ ref.stage \in before(i)
                 /\ ref.stage # Loading!Request
      BY <1>1, <1>5, <3>3 DEF Before
    <3> QED
      BY <1>5, <3>1, <3>2, <3>3
  <2> QED
    BY <1>3, <1>5, <2>1
<1>6. Loading!LoadedReferencesAreEarlier(workflow) <=>
        (Loading!Loads(workflow) <=> /\ workflow # << >>
                                     /\ \A i \in DOMAIN workflow :
                                          /\ Named(i)
                                          /\ \A j \in DOMAIN workflow :
                                                workflow[i].id = workflow[j].id => i = j
                                          /\ Allowed(i))
  BY Zenon DEF Loading!LoadedReferencesAreEarlier
<1> HIDE DEF Named, Allowed, before
<1> QED
  BY <1>1, <1>2, <1>4, <1>5, <1>6
=============================================================================
