--------------------------------- MODULE Inbox ---------------------------------
(***************************************************************************)
(* A request's way in, and the command that starts over: ingest/           *)
(* normalise.py and ingest/cli.py (an arrival), store/intake.py (Intake),  *)
(* cli.py (submit, work, reset) and devloop/reset.py (reset).              *)
(*                                                                         *)
(* Three processes share the database: people at `clawdence submit`, one   *)
(* `clawdence work --limit` and one `clawdence reset`.  A request is its   *)
(* heading and its text; the id minted for an arrival is its number.       *)
(***************************************************************************)
EXTENDS Naturals, Sequences, FiniteSets, FiniteSetsExt

CONSTANTS Refs,           \* references of requests at their source
          Unroutable,     \* those whose text names no repository
          People, Texts, Conversations,
          Limit,          \* of `clawdence work`
          MaxArrivals, MaxRuns, MaxTurns   \* bounds

InboxAssumption == Unroutable \subseteq Refs /\ Limit \in Nat \ {0}

Blank == "blank"
TooLong == "too long"
Self == "clawdence"     \* SELF_ID
NoRun == 0

VARIABLES inbox,     \* the rows of "intake", in the order of seq
          turns,     \* the rows of "intake_turns"
          minted,    \* arrivals that were taken
          runs,      \* the rows of "runs", with what hangs on them
          work,      \* the process of `clawdence work`
          reset      \* the process of `clawdence reset`
vars == <<inbox, turns, minted, runs, work, reset>>

Arrivals == [ref : Refs, conversation : Conversations, submitter : People \cup {Self},
             heading : {Blank, TooLong, "given"}, text : Texts \cup {Blank, TooLong}]

AtRest == [at |-> "rest", batch |-> <<>>, run |-> NoRun]
NoReset == [at |-> "rest", keep |-> FALSE, force |-> FALSE, shown |-> {}, unclean |-> FALSE]

Init ==
    /\ inbox = <<>> /\ turns = <<>> /\ minted = 0 /\ runs = {}
    /\ work = AtRest
    /\ reset = NoReset

-----------------------------------------------------------------------------
(* An arrival *)

\* normalise: the item of an arrival, or none; its first line is the heading
\* of one that has none, and fits.
Normalised(a) ==
    IF a.text = Blank THEN {}
    ELSE {[ref |-> a.ref, id |-> minted + 1, submitter |-> a.submitter,
           conversation |-> a.conversation, text |-> a.text,
           heading |-> IF a.heading = Blank THEN a.text ELSE a.heading]}

\* _screen, and is_self
Screened(item) == item.submitter # Self /\ item.text # TooLong /\ item.heading # TooLong

\* _row, dedupe_key: the source's name for it, never ours
Rows(ref) == {i \in DOMAIN inbox : inbox[i].ref = ref}

\* _content: everything but IDENTITY_FIELDS
Content(item) == <<item.heading, item.text>>

\* _insert
Insert(item) ==
    inbox' = Append(inbox, [ref |-> item.ref, id |-> item.id, submitter |-> item.submitter,
                            conversation |-> item.conversation, heading |-> item.heading,
                            text |-> item.text, state |-> "pending", revision |-> 1, acked |-> 0])

\* _merge
Merge(stored, item) == [stored EXCEPT !.heading = item.heading, !.text = item.text]

\* _revise: back in the queue, a new version if the content is new
Revise(i, item) ==
    LET row == inbox[i]
        newer == IF Content(row) = Content(item) THEN row.revision ELSE row.revision + 1
    IN  inbox' = [inbox EXCEPT ![i] = [Merge(row, item) EXCEPT !.state = "pending",
                                                               !.revision = newer]]

\* Intake.submit; a redelivery, and an arrival that is refused, changes nothing.
Submit(a) ==
    /\ minted < MaxArrivals /\ minted' = minted + 1
    /\ \E item \in Normalised(a) :
          /\ Screened(item)
          /\ \/ Rows(a.ref) = {} /\ Insert(item)
             \/ \E i \in Rows(a.ref) :
                   /\ Content(inbox[i]) # Content(item) \/ inbox[i].state = "withdrawn"
                   /\ Revise(i, item)
    /\ UNCHANGED <<turns, runs, work, reset>>

\* Intake.amend: of a request that is there
Amend(a) == Rows(a.ref) # {} /\ Submit(a)

\* Intake.withdraw
Withdraw(ref) ==
    /\ \E i \in Rows(ref) : /\ inbox[i].state # "withdrawn"
                            /\ inbox' = [inbox EXCEPT ![i].state = "withdrawn"]
    /\ UNCHANGED <<turns, minted, runs, work, reset>>

\* Intake.reply, _conversation_row: to the newest request of the conversation.  The row
\* is read before the transaction that writes the turn, and the two are one step here: a
\* request that arrives in between leaves the turn with the one before it.
Reply(conversation, text) ==
    /\ text \in Texts /\ Len(turns) < MaxTurns
    /\ \E i \in DOMAIN inbox :
          /\ inbox[i].conversation = conversation
          /\ \A j \in DOMAIN inbox : inbox[j].conversation = conversation => j <= i
          /\ turns' = Append(turns, [ref |-> inbox[i].ref, text |-> text])
    /\ UNCHANGED <<inbox, minted, runs, work, reset>>

-----------------------------------------------------------------------------
(* clawdence work: at most Limit of the oldest pending requests *)

Pending == SelectSeq([i \in DOMAIN inbox |-> i], LAMBDA i : inbox[i].state = "pending")

\* Intake.collect, _pending
Collect ==
    /\ work.at = "rest" /\ Pending # <<>>
    /\ LET taken == SubSeq(Pending, 1, Min({Limit, Len(Pending)}))
       IN  work' = [at |-> "started", run |-> NoRun,
                    batch |-> [i \in DOMAIN taken |-> [id |-> inbox[taken[i]].id,
                                                       ref |-> inbox[taken[i]].ref]]]
    /\ UNCHANGED <<inbox, turns, minted, runs, reset>>

NextItem == [work EXCEPT !.batch = Tail(@), !.run = NoRun,
                      !.at = IF Len(work.batch) = 1 THEN "rest" ELSE "started"]

\* Pipeline.start: a request that cannot be routed is an outcome without a run,
\* which acknowledge leaves in the queue.
Refuse ==
    /\ work.at = "started" /\ work.batch[1].ref \in Unroutable
    /\ work' = NextItem
    /\ UNCHANGED <<inbox, turns, minted, runs, reset>>

StartRun ==
    /\ work.at = "started" /\ work.batch[1].ref \notin Unroutable
    /\ Cardinality(runs) < MaxRuns
    /\ LET run == Cardinality(runs) + 1
       IN  /\ runs' = runs \cup {[run |-> run, item |-> work.batch[1].id,
                                  status |-> "running", owed |-> FALSE]}
           /\ work' = [work EXCEPT !.at = "running", !.run = run]
    /\ UNCHANGED <<inbox, turns, minted, reset>>

Mine == {r \in runs : r.run = work.run}

\* The run ends, and may leave a publication to deliver; without its row the
\* process ends, with the request as it is.
FinishRun ==
    /\ work.at = "running"
    /\ \/ Mine = {} /\ work' = AtRest /\ UNCHANGED runs
       \/ \E r \in Mine, owed \in BOOLEAN :
             /\ runs' = (runs \ Mine) \cup {[r EXCEPT !.status = "done", !.owed = owed]}
             /\ work' = [work EXCEPT !.at = "ran"]
    /\ UNCHANGED <<inbox, turns, minted, reset>>

\* Intake.acknowledge: by its id, of what is pending by now
Acknowledge ==
    /\ work.at = "ran"
    /\ inbox' = [i \in DOMAIN inbox |->
                   IF inbox[i].id = work.batch[1].id /\ inbox[i].state = "pending"
                   THEN [inbox[i] EXCEPT !.state = "acknowledged", !.acked = inbox[i].revision]
                   ELSE inbox[i]]
    /\ work' = NextItem
    /\ UNCHANGED <<turns, minted, runs, reset>>

-----------------------------------------------------------------------------
(* clawdence reset *)

Tables == {"intake_turns", "intake", "runs"}
InboxTables == {"intake_turns", "intake"}

\* The tables that have rows; a publication hangs on its run by a cascade.
Held == {t \in Tables : CASE t = "intake" -> inbox # <<>> [] t = "intake_turns" -> turns # <<>>
                          [] OTHER -> runs # {}}
   \cup (IF \E r \in runs : r.owed THEN {"external_effects"} ELSE {})
Emptied(keep) == Tables \ (IF keep THEN InboxTables ELSE {})
Goes(keep) == Held \ (IF keep THEN InboxTables ELSE {})

\* _reset_command: the plan that is shown and agreed to, from a dry run
Plan(keep, force) ==
    /\ reset.at = "rest"
    /\ (\E r \in runs : r.status = "running") => force
    /\ reset' = [reset EXCEPT !.at = "agreed", !.keep = keep, !.force = force,
                              !.shown = Held \cap Emptied(keep)]
    /\ UNCHANGED <<inbox, turns, minted, runs, work>>

\* live_runs: refused while something runs, unless forced
Check ==
    /\ reset.at = "agreed"
    /\ reset' = [reset EXCEPT !.at = IF reset.force \/ \A r \in runs : r.status # "running"
                                     THEN "checked" ELSE "rest"]
    /\ UNCHANGED <<inbox, turns, minted, runs, work>>

\* One transaction; what hangs on the runs goes with them.
Delete ==
    /\ reset.at = "checked"
    /\ runs' = {}
    /\ IF reset.keep THEN UNCHANGED <<inbox, turns>> ELSE inbox' = <<>> /\ turns' = <<>>
    /\ reset' = [reset EXCEPT !.at = IF reset.keep THEN "deleted" ELSE "rest",
                              !.unclean = @ \/ work.run # NoRun]
    /\ UNCHANGED <<minted, work>>

\* Mutant: the requests that are kept stay as they are.
Bug_Unacknowledge ==
    /\ reset.at = "deleted"
    /\ reset' = [reset EXCEPT !.at = "rest"]
    /\ UNCHANGED <<inbox, turns, minted, runs, work>>

\* Intake.unacknowledge, a transaction of its own
Unacknowledge ==
    /\ reset.at = "deleted"
    /\ inbox' = [i \in DOMAIN inbox |->
                   IF inbox[i].state = "acknowledged"
                   THEN [inbox[i] EXCEPT !.state = "pending", !.acked = 0] ELSE inbox[i]]
    /\ reset' = [reset EXCEPT !.at = "rest"]
    /\ UNCHANGED <<turns, minted, runs, work>>

\* The process dies between its transactions.
Crash ==
    /\ reset.at # "rest"
    /\ reset' = [reset EXCEPT !.at = "rest", !.unclean = @ \/ reset.at = "deleted"]
    /\ UNCHANGED <<inbox, turns, minted, runs, work>>

-----------------------------------------------------------------------------
Arrives == \/ \E a \in Arrivals : Submit(a) \/ Amend(a)
           \/ \E ref \in Refs : Withdraw(ref)
           \/ \E c \in Conversations, t \in Texts : Reply(c, t)
Works == Collect \/ Refuse \/ StartRun \/ FinishRun \/ Acknowledge
Resets == \/ \E keep, force \in BOOLEAN : Plan(keep, force)
          \/ Check \/ Delete \/ Unacknowledge \/ Crash

Next == Arrives \/ Works \/ Resets

\* `clawdence work` is run again and again.
Fairness == WF_vars(Works)
Spec == Init /\ [][Next]_vars /\ Fairness

\* Nobody starts over.
QueueSpec == Init /\ [][Arrives \/ Works]_vars /\ Fairness

-----------------------------------------------------------------------------
(* Properties *)

Row == [ref : Refs, id : 1 .. MaxArrivals, submitter : People, conversation : Conversations,
        heading : {"given"} \cup Texts, text : Texts,
        state : {"pending", "acknowledged", "withdrawn"},
        revision : 1 .. MaxArrivals, acked : 0 .. MaxArrivals]
TypeOK ==
    /\ \A i \in DOMAIN inbox : inbox[i] \in Row
    /\ \A i, j \in DOMAIN inbox : inbox[i].ref = inbox[j].ref => i = j

(***************************************************************************)
(* A request is itself for as long as it is there: whatever is delivered   *)
(* under its reference, by whoever, its id, its submitter and its          *)
(* conversation stay; its revision moves exactly with what it says; what   *)
(* was handed over is never more than what there is; and every turn of a   *)
(* conversation is of a request that is there.                             *)
(***************************************************************************)
RequestKeepsItself ==
    [][/\ inbox' # <<>> =>
            /\ Len(inbox) <= Len(inbox')
            /\ \A i \in DOMAIN inbox :
                  LET was == inbox[i]  now == inbox'[i] IN
                  /\ <<now.id, now.ref, now.submitter, now.conversation>>
                       = <<was.id, was.ref, was.submitter, was.conversation>>
                  /\ now.revision = was.revision + (IF Content(now) = Content(was) THEN 0 ELSE 1)
                  /\ now.acked <= now.revision
       /\ \A t \in DOMAIN turns' : \E i \in DOMAIN inbox' : inbox'[i].ref = turns'[t].ref]_vars

\* What a row says of its request.
RequestOf(row) == [is |-> row.state, says |-> Content(row), version |-> row.revision,
                   taken |-> row.acked]

Promised == INSTANCE RequestPromise WITH
    Requests <- Refs,
    Contents <- ({"given"} \cup Texts) \X Texts,
    request <- [ref \in Refs |-> IF Rows(ref) = {} THEN [is |-> "absent"]
                                 ELSE RequestOf(inbox[CHOOSE i \in Rows(ref) : TRUE])]

(***************************************************************************)
(* However people, a process that works and one that starts over take      *)
(* turns at the table, each request is what it promises: found again under *)
(* its reference whatever arrives beside it, a new version exactly when it *)
(* says something new, handed over as it is by then and only while it      *)
(* waits (intake.py:205-357, 388-440).                                     *)
(***************************************************************************)
RequestsKeepTheirPromise == Promised!PromiseSpec

\* A request that is handed over and that no run was ever made for, or whose
\* run is gone, is one that nobody will work on and nothing will re-queue.
Forgotten ==
    {i \in DOMAIN inbox : inbox[i].state = "acknowledged"
                          /\ \A r \in runs : r.item # inbox[i].id}

(***************************************************************************)
(* A reset leaves no request that says the pipeline has it when there is   *)
(* no run of it: unless it died half-way, or deleted the run of a request  *)
(* that was still being worked on, as both are their own hazard below.     *)
(***************************************************************************)
NothingIsForgotten == reset.at = "rest" /\ ~reset.unclean => Forgotten = {}

(***************************************************************************)
(* What devloop/reset.py says of the command: it leaves nothing pointing   *)
(* at something that is gone.                                              *)
(***************************************************************************)
ResetLeavesNothingDangling == reset.at = "rest" => Forgotten = {}

(***************************************************************************)
(* What _reset_command says of the plan: what is agreed to is the actual   *)
(* list of what goes.                                                      *)
(***************************************************************************)
WhatGoesWasShown ==
    [][reset.at = "rest" /\ reset'.at = "agreed" => Goes(reset'.keep) \subseteq reset'.shown]_vars

(***************************************************************************)
(* What Pipeline.start says of a queue: a request that cannot be worked on *)
(* is a result, and the next item is moved to.                             *)
(***************************************************************************)
RoutableIsReached ==
    \A ref \in Refs \ Unroutable :
        (\E i \in Rows(ref) : inbox[i].state = "pending")
          ~> (\A i \in Rows(ref) : inbox[i].state # "pending")
=============================================================================
