------------------------------ MODULE Services ------------------------------
(***************************************************************************)
(* What the control plane does around its runs: the queue of agent runs    *)
(* (Scheduler), the inbox of requests and the reset (Inbox), what an older *)
(* build left behind (Upgrade), a stage that asks a model (ModelStep), the *)
(* messages a port did not take (Outbox), and decisions, which are         *)
(* functions of a case.  The machines share no state, so a behaviour of    *)
(* this module is one of one of them, chosen at the start; the others stay *)
(* where they begin.                                                       *)
(***************************************************************************)
EXTENDS Naturals, Sequences, FiniteSets

\* Of each machine, in its order.
CONSTANTS Keys, Repos, RepoOf, RepoCap, FleetLimit, MaxRemembered, MaxCalls
CONSTANTS Refs, Unroutable, People, Texts, Conversations, BatchLimit,
          MaxArrivals, MaxRuns, MaxTurns
CONSTANTS Processes, NewestSchema, Runs, Unreviewable, Records, Malformed, MaxDrains, MaxFaults
CONSTANTS Stages, Replies, Price, Window, MaxTries, NoCap
CONSTANTS Posts, Senders, Flushers, Capacity, MaxSends
CONSTANTS Cases, MaxFilesRead, MaxMembers

VARIABLES machine

VARIABLES calls, adm, admitted, fleet, repo, disowned
scheduler == <<calls, adm, admitted, fleet, repo, disowned>>

VARIABLES inbox, turns, minted, runs, work, reset
intake == <<inbox, turns, minted, runs, work, reset>>

VARIABLES version, tables, publication, attempts, pulls, log, parked, process, faults
upgrade == <<version, tables, publication, attempts, pulls, log, parked, process, faults>>

VARIABLES stage, at, try, turn, conversation, report, asked, usage, answered, outcome,
          spent, by, said, misread
step == <<stage, at, try, turn, conversation, report, asked, usage, answered, outcome,
          spent, by, said, misread>>

VARIABLES held, letters, delivered, senders, flushers, taken, overlapped, broken, drained
outbox == <<held, letters, delivered, senders, flushers, taken, overlapped, broken, drained>>

\* A case for a decision.
VARIABLE case
NoCase == [of |-> "none"]

Queue == INSTANCE Scheduler WITH Limit <- FleetLimit, runs <- admitted
Requests == INSTANCE Inbox WITH Limit <- BatchLimit
Migration == INSTANCE Upgrade WITH SchemaVersion <- NewestSchema, MaxTries <- MaxDrains,
                             at <- process
Model == INSTANCE ModelStep
Messages == INSTANCE Outbox WITH Keys <- Posts, MaxAttempts <- MaxSends, parked <- letters
Triage == INSTANCE Routing
Survey == INSTANCE Probe

\* A case is what the program is asked to decide about: a request and a deployment as
\* their parsers leave them, a document and the files it points at, a repository.
CasesAssumption ==
    \A c \in Cases :
        /\ c.of = "text" => c.item \in Triage!Requests /\ Triage!IsDeployment(c.profiles)
        /\ c.of = "request" => c.item \in Triage!Requests /\ c.text \in Triage!RequestTexts
        /\ c.of = "file" => c.document.repos \in Seq(STRING) /\ c.name \in Seq(STRING)
        /\ c.of = "repository" => /\ Survey!IsRepository(c.repository)
                                  /\ c.stack = Survey!Detect(c.repository)

ASSUME ServicesAssumption ==
    /\ Queue!SchedulerAssumption /\ Requests!InboxAssumption /\ Migration!UpgradeAssumption
    /\ Model!ModelAssumption /\ Messages!OutboxAssumption
    /\ Survey!ProbeAssumption /\ CasesAssumption

vars == <<machine, scheduler, intake, upgrade, step, outbox, case>>

\* The stage of a model nobody asks.
AnyStage == stage = CHOOSE s \in Stages : TRUE

Init == /\ machine \in {"scheduler", "intake", "upgrade", "model", "outbox", "decisions"}
        /\ Queue!Init /\ Requests!Init /\ Migration!Init /\ Model!Init
        /\ Messages!Init /\ case = NoCase
        /\ machine # "upgrade" => version = 0
        /\ machine # "model" => AnyStage

SchedulerMoves == /\ machine = "scheduler" /\ Queue!Next
                  /\ UNCHANGED <<machine, intake, upgrade, step, outbox, case>>
IntakeMoves == /\ machine = "intake" /\ Requests!Next
               /\ UNCHANGED <<machine, scheduler, upgrade, step, outbox, case>>
UpgradeMoves == /\ machine = "upgrade" /\ Migration!Next
                /\ UNCHANGED <<machine, scheduler, intake, step, outbox, case>>
ModelMoves == /\ machine = "model" /\ Model!Next
              /\ UNCHANGED <<machine, scheduler, intake, upgrade, outbox, case>>
OutboxMoves == /\ machine = "outbox" /\ Messages!Next
               /\ UNCHANGED <<machine, scheduler, intake, upgrade, step, case>>
Decides == /\ machine = "decisions" /\ case = NoCase /\ case' \in Cases
           /\ UNCHANGED <<machine, scheduler, intake, upgrade, step, outbox>>

Next == SchedulerMoves \/ IntakeMoves \/ UpgradeMoves \/ ModelMoves
        \/ OutboxMoves \/ Decides

\* The event loop runs every admission of the scheduler that can run, and the inner port
\* answers; a provider answers or the call times out; `clawdence work` is started again
\* and again after an upgrade; and whoever owns an outbox goes on to flush it.  Elsewhere
\* nobody owes anything.
Fairness ==
    /\ Queue!Fairness
    /\ WF_step(machine = "model" /\ Model!Next)
    /\ \A f \in Flushers : WF_outbox(machine = "outbox" /\ Messages!Flushes(f))
    /\ \A p \in Processes : /\ WF_upgrade(machine = "upgrade" /\ Migration!Opens(p))
                             /\ SF_upgrade(machine = "upgrade" /\ Migration!Drains(p))
                             /\ WF_upgrade(/\ machine = "upgrade"
                                           /\ \/ Migration!Retry(p) \/ Migration!Discard(p)
                                              \/ Migration!ReplayStores(p))

Spec == Init /\ [][Next]_vars /\ Fairness

-----------------------------------------------------------------------------
(* Properties *)

\* Whatever waits for a slot leaves the queue, and what was stopped there is answered and
\* raises nothing; however badly a model answers, its step ends; what an older build
\* left pending is settled while it has tries; and a message that was kept is delivered
\* or given up (Scheduler, ModelStep, Upgrade, Outbox; scheduler.py:162-226,
\* handler.py:129-208, triage/pipeline.py:327-403, outbox.py:141-197).
EveryoneIsServed == /\ Queue!EveryoneIsServed /\ Queue!StoppedIsAnswered
                    /\ machine = "model" => Model!StepEnds
                    /\ machine = "upgrade" => Migration!LegacyIsSettled
                    /\ machine = "outbox" => Messages!WhatIsKeptIsSettled

\* Whoever is cancelled wherever it waits, no slot is lost or made; a run waits only for
\* work that goes on in its own repository or in the whole fleet; what was stopped in the
\* queue never runs; and an attempt that is delivered again joins its admission, unless a
\* caller forgot the next one (Scheduler; scheduler.py:131-226).  Nor is a message lost
\* that a port refused, or delivered again after it took it, except where two tasks gave
\* it to the port at once or a flush from a snapshot it was gone from (Outbox;
\* ports/outbox.py:120-200).
QueueIsKept == /\ Queue!SlotsAreConserved /\ Queue!OnlyWorkBlocks
               /\ Queue!StoppedInTheQueueNeverRuns /\ Queue!AdmittedOnce
               /\ Messages!WhatWasKeptIsThere /\ Messages!QueueIsBounded
               /\ Messages!DeliveredOnce

\* Whatever is delivered under its reference, a request stays itself, and is queued,
\* handed over and taken back as RequestPromise says; and no step of a reset ends it with
\* a request nobody will work on (Inbox; intake.py:205-357, reset.py:131-195).
RequestsAreKept == /\ Requests!RequestKeepsItself /\ Requests!RequestsKeepTheirPromise
                   /\ [][Requests!NothingIsForgotten']_vars

\* Whoever dies while a database of an older build is opened, everyone finds a whole
\* schema, what was to be delivered is delivered once, and a record of the log is in it
\* or parked from then on (Upgrade; schema.py:302-368, pipeline.py:327-403,
\* audit.py:237-305).
UpgradeLosesNothing ==
    /\ [](Migration!EveryoneOpensAWholeSchema /\ Migration!LegacyIsDeliveredOnce)
    /\ Migration!NoRecordIsLost

\* A model's reply that is used is what the stage asked for and says what was done to
\* it; a step overspends by one reply at most, pays no chain it did not check, and cuts
\* no prompt without a mark (ModelStep; handler.py:225-435, repair.py:85-157).
ReplyIsAccountedFor ==
    /\ Model!ResultIsVouchedFor /\ Model!OneReplyOverTheCap /\ Model!NothingIsCutSilently
    /\ Model!NothingIsSpentOnAnUncheckedChain /\ Model!OnlyQuotaMovesDown
    /\ Model!PromptIsBounded /\ Model!CostIsWhatWasSpent

\* What a text selects is one of the deployment's own, in whatever order it lists them;
\* what the envelope says is not for the text to change; and a deployment that loads is
\* closed
\* (Routing; triage/routing.py:219-459, triage/config.py).
TextIsASelector ==
    /\ case.of = "text" => Triage!TextIsASelector(case.item, case.profiles, case.rules)
    /\ case.of = "request" =>
         Triage!EnvelopeOverrides(case.item, case.text, case.profiles, case.rules)
    /\ case.of = "file" => Triage!DeploymentIsClosed(case.document, case.files, case.name)

\* What a probe proposes rests on one file it read, or is left empty; and a daemon is
\* asked for where one is declared and never taken (Probe; probe/stacks.py,
\* probe/signals.py).
NothingIsGuessed ==
    case.of = "repository" =>
        /\ Survey!NothingIsGuessed(case.repository, case.stack)
        /\ Survey!DaemonIsAskedForNeverTaken(case.repository, case.stack)
=============================================================================
