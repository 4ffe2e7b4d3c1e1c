-------------------------------- MODULE Upgrade --------------------------------
(***************************************************************************)
(* What a process finds in a database that others use and older builds     *)
(* wrote: store/schema.py (connect, migrate, transaction), the publication *)
(* queue of the build before (store/publication.py, and the drain in       *)
(* triage/pipeline.py) and the records that could not be logged            *)
(* (store/audit.py: submit, dead_letters, replay).                         *)
(*                                                                         *)
(* A schema is the migrations that were applied; a process may die at any  *)
(* step, and its open transaction with it.                                 *)
(***************************************************************************)
EXTENDS Naturals, Sequences, FiniteSets

CONSTANTS Processes,
          SchemaVersion,    \* of this build
          Runs,             \* with a publication of the older build to deliver
          Unreviewable,     \* those whose branch the audit refuses
          Records,          \* that arrive for the log
          Malformed,        \* those that this build cannot read
          MaxTries, MaxFaults      \* bounds

UpgradeAssumption == SchemaVersion \in Nat \ {0} /\ Unreviewable \subseteq Runs
                     /\ Malformed \subseteq Records

VARIABLES version, tables,      \* PRAGMA user_version, and what is there
          publication, attempts, \* the rows of "publications"
          pulls,                \* what the forge has: run -> pull requests of its branch
          log, parked,          \* "audit" (ids in order of seq), "dead_letters" (a set:
                                \* nothing depends on their order)
          at,                   \* each process
          faults
vars == <<version, tables, publication, attempts, pulls, log, parked, at, faults>>
Database == <<version, tables>>
Legacy == <<publication, attempts, pulls>>
Letters == <<log, parked>>

Closed == [in |-> "closed"]
Open == [in |-> "open"]

Init ==
    /\ \E v \in 0 .. SchemaVersion : version = v /\ tables = 1 .. v
    /\ publication = [r \in Runs |-> "pending"] /\ attempts = [r \in Runs |-> 0]
    /\ pulls = [r \in Runs |-> 0]
    /\ log = <<>> /\ parked = {}
    /\ at = [p \in Processes |-> Closed]
    /\ faults = 0

Goes(p, to) == at' = [at EXCEPT ![p] = to]
Faults == faults < MaxFaults /\ faults' = faults + 1

-----------------------------------------------------------------------------
(* schema.py: connect and migrate *)

\* _version, read outside the write lock
Connect(p) ==
    /\ at[p] = Closed
    /\ Goes(p, IF version > SchemaVersion THEN [in |-> "refused"]
               ELSE [in |-> "migrate", from |-> version])
    /\ UNCHANGED <<Database, Legacy, Letters, faults>>

\* The script of one migration, in one transaction with the version it makes.
Applies(v) == /\ v + 1 \notin tables
              /\ tables' = tables \cup {v + 1} /\ version' = v + 1

\* migrate: the one that comes second finds the tables there, and a version
\* that has moved past its own.
Migrate(p) ==
    /\ at[p].in = "migrate"
    /\ LET v == at[p].from
       IN  \/ v = SchemaVersion /\ Goes(p, Open) /\ UNCHANGED Database
           \/ v < SchemaVersion /\ Applies(v) /\ Goes(p, [in |-> "migrate", from |-> v + 1])
           \/ /\ v < SchemaVersion /\ v + 1 \in tables
              /\ Goes(p, IF version > v THEN [in |-> "migrate", from |-> v + 1]
                                        ELSE [in |-> "failed"])
              /\ UNCHANGED Database
    /\ UNCHANGED <<Legacy, Letters, faults>>

-----------------------------------------------------------------------------
(* pipeline.py: _resume_legacy_publications, one row at a time *)

Alone == UNCHANGED <<Database, Letters>>

\* Publications.pending, attempting: nothing keeps two drainers apart.
Attempt(p, run) ==
    /\ at[p] = Open /\ publication[run] = "pending" /\ attempts[run] < MaxTries
    /\ attempts' = [attempts EXCEPT ![run] = @ + 1]
    /\ Goes(p, [in |-> "audit", run |-> run])
    /\ Alone /\ UNCHANGED <<publication, pulls, faults>>

\* _set: only ever of a row that is pending
Settle(run, state) ==
    publication' = [publication EXCEPT ![run] = IF @ = "pending" THEN state ELSE @]

\* The findings of the audit refuse it, before anything is sent.
Audit(p) ==
    /\ at[p].in = "audit"
    /\ LET run == at[p].run
       IN  IF run \in Unreviewable THEN Settle(run, "refused") /\ Goes(p, Open)
           ELSE UNCHANGED publication /\ Goes(p, [at[p] EXCEPT !.in = "send"])
    /\ Alone /\ UNCHANGED <<attempts, pulls, faults>>

\* create_branch, push, open_pull_request: each one finds what is there.
Send(p) ==
    /\ at[p].in = "send"
    /\ pulls' = [pulls EXCEPT ![at[p].run] = IF @ = 0 THEN 1 ELSE @]
    /\ Goes(p, [at[p] EXCEPT !.in = "sent"])
    /\ Alone /\ UNCHANGED <<publication, attempts, faults>>

\* An error leaves the row pending, and says so.
SendFails(p) ==
    /\ at[p].in \in {"audit", "send"} /\ Faults
    /\ Settle(at[p].run, "pending") /\ Goes(p, Open)
    /\ Alone /\ UNCHANGED <<attempts, pulls>>

Published(p) ==
    /\ at[p].in = "sent"
    /\ Settle(at[p].run, "published") /\ Goes(p, Open)
    /\ Alone /\ UNCHANGED <<attempts, pulls, faults>>

-----------------------------------------------------------------------------
(* audit.py: the log and its dead letters *)

Apart == UNCHANGED <<Database, Legacy, faults>>
Logged == {log[i] : i \in DOMAIN log}

\* _store: an id that is in the log already is a success.
Stores(id) == log' = IF id \in Logged THEN log ELSE Append(log, id)

\* AuditLog.submit, _park: never an error of the one who submits
Submit(p, record) ==
    /\ at[p] = Open /\ record \notin Logged \cup parked
    /\ IF record \in Malformed THEN parked' = parked \cup {record} /\ UNCHANGED log
       ELSE Stores(record) /\ UNCHANGED parked
    /\ Apart /\ UNCHANGED at

\* replay: the letters as they are when it begins, and what repair mends of them
Replay(p, mended) ==
    /\ at[p] = Open /\ parked # {}
    /\ Goes(p, [in |-> "replay", letters |-> parked, mended |-> mended])
    /\ Apart /\ UNCHANGED Letters

Rest(p, id) == IF at[p].letters = {id} THEN Open
               ELSE [in |-> "replay", letters |-> at[p].letters \ {id}, mended |-> at[p].mended]

\* _retried: a letter that fails again stays.
Retry(p) ==
    /\ at[p].in = "replay"
    /\ \E id \in at[p].letters \ at[p].mended : Goes(p, Rest(p, id))
    /\ Apart /\ UNCHANGED Letters

\* The letter that is mended.
Mends(p, id) ==
    /\ at[p].in = "replay" /\ id \in at[p].letters \cap at[p].mended
    /\ Goes(p, [in |-> "discard", letter |-> id, letters |-> at[p].letters,
                mended |-> at[p].mended])

\* Mutant: the letter goes before the event is in the log.
Bug_ReplayStores(p) ==
    /\ \E id \in Records : Mends(p, id) /\ parked' = parked \ {id}
    /\ Apart /\ UNCHANGED log

\* Stored, and then discarded: a transaction each.
ReplayStores(p) ==
    /\ \E id \in Records : Mends(p, id) /\ Stores(id)
    /\ Apart /\ UNCHANGED parked

Discard(p) ==
    /\ at[p].in = "discard"
    /\ parked' = parked \ {at[p].letter}
    /\ Goes(p, Rest(p, at[p].letter))
    /\ Apart /\ UNCHANGED log

-----------------------------------------------------------------------------
Die(p) == /\ at[p] # Closed /\ Faults /\ Goes(p, Closed)
          /\ UNCHANGED <<Database, Legacy, Letters>>

Drains(p) == Audit(p) \/ Send(p) \/ Published(p) \/ \E run \in Runs : Attempt(p, run)
Opens(p) == Connect(p) \/ Migrate(p)

Next == \E p \in Processes :
            \/ Opens(p) \/ Drains(p) \/ SendFails(p) \/ Die(p)
            \/ \E record \in Records : Submit(p, record)
            \/ \E mended \in SUBSET Malformed : Replay(p, mended)
            \/ Retry(p) \/ ReplayStores(p) \/ Discard(p)

\* A process is scheduled, and somebody runs `work` again after it died.
Fairness == \A p \in Processes : WF_vars(Opens(p)) /\ SF_vars(Drains(p))
                                 /\ WF_vars(Retry(p) \/ ReplayStores(p) \/ Discard(p))
Spec == Init /\ [][Next]_vars /\ Fairness

-----------------------------------------------------------------------------
(* Properties *)

(***************************************************************************)
(* Any number of processes open a database at once, and any of them may    *)
(* die: the schema is always that of its version, and nobody is turned     *)
(* away by a migration another one applied.                                *)
(***************************************************************************)
EveryoneOpensAWholeSchema ==
    /\ tables = 1 .. version
    /\ \A p \in Processes : at[p].in # "failed"
    /\ \A p \in Processes : at[p].in \notin {"closed", "migrate"} => version = SchemaVersion

(***************************************************************************)
(* What the older build left to deliver has one pull request at most, and  *)
(* is published only when it has it; what the audit refused is never sent. *)
(***************************************************************************)
LegacyIsDeliveredOnce ==
    \A run \in Runs :
        /\ pulls[run] <= 1
        /\ publication[run] = "published" => pulls[run] = 1
        /\ run \in Unreviewable => pulls[run] = 0 /\ publication[run] # "published"

\* Nothing pending is abandoned: it is settled, while there are tries left.
LegacyIsSettled ==
    \A run \in Runs : <>(publication[run] # "pending" \/ attempts[run] = MaxTries)

(***************************************************************************)
(* What was submitted to the log is in it or parked from then on, though   *)
(* its replay dies between its two transactions or another one runs at the *)
(* same time; and it is in it once.                                        *)
(***************************************************************************)
NoRecordIsLost ==
    /\ [][Logged \cup parked \subseteq Logged' \cup parked']_vars
    /\ [](Cardinality(Logged) = Len(log))
=============================================================================
