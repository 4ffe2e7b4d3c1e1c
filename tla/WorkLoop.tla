------------------------------ MODULE WorkLoop ------------------------------
(***************************************************************************)
(* `clawdence work`, from a request to a pull request: cli._work_command   *)
(* over triage/pipeline.py and triage/effects.py, run by processes that    *)
(* crash and that may overlap, over the request queue (Intake), the        *)
(* delivery queue (ExternalEffects), the forge (Forge) and the branch and  *)
(* checkout of each work item (vcs/worktrees.py).                          *)
(*                                                                         *)
(* A run of the workflow is one step here (RunLifecycle has it in full):   *)
(* it leaves a new commit on the branch or it does not.  What routes, and  *)
(* what hygiene finds in a diff, is left open.                             *)
(***************************************************************************)
EXTENDS Intake, Forge, SequencesExt

CONSTANTS
    Free, Debris,   \* of a branch: not checked out; in a dead process's directory
    Considerate,    \* does a new text wait until nothing holds the request?
    Slow,           \* may a delivery outlast its lease?
    MaxCloses,      \* bound: pull requests that people merge or close
    MaxRetries,     \* bound: `effects retry`
    MaxCrashes      \* bound: crashes

ASSUME WorkAssumption ==
    /\ Free # Debris /\ {Free, Debris} \cap Workers = {}
    /\ Considerate \in BOOLEAN /\ Slow \in BOOLEAN
    /\ MaxCloses \in Nat /\ MaxRetries \in Nat /\ MaxCrashes \in Nat

VARIABLES
    local,     \* [Items -> 0..MaxHeads]: the branch in the mirror, 0 if unmoved
    checkout,  \* [Items -> who has the branch checked out]
    worked,    \* history: [Items -> the revisions an agent was dispatched for]
    pc,        \* [Workers -> where the process is]
    job,       \* [Workers -> its locals]
    used       \* bounds: how many closes, retries and crashes there were

vars == <<intake, effects, forgeVars, local, checkout, worked, pc, job, used>>
tree == <<local, checkout>>

-----------------------------------------------------------------------------
Calling == {"branch", "create", "exists", "push", "verify", "find", "open", "see"}
Where == {"idle", "drain", "acks", "next", "running", "publish", "claim", "settle",
          "release", "ack"} \cup Calling

Outcomes == {"none", "done", "transient", "permanent"}

NoItem == [item |-> NoOne, revision |-> 0]
Work == [item : Items, revision : 1..MaxRevision]

\* todo: the snapshot of due rows; resumed: the items of the outcomes of the
\* drain, and unacked those still to be acknowledged; queue: the requests
\* collected; work: the one in hand; row: the effect claimed; fresh: by _publish.
Job == [todo : SUBSET (1..MaxEffects), resumed : SUBSET Items, unacked : SUBSET Items,
        queue : Seq(Work), work : Work \cup {NoItem}, row : 0..MaxEffects,
        outcome : Outcomes, fresh : BOOLEAN]

NoJob == [todo |-> {}, resumed |-> {}, unacked |-> {}, queue |-> <<>>,
          work |-> NoItem, row |-> 0, outcome |-> "none", fresh |-> FALSE]

WorkTypeOK ==
    /\ local \in [Items -> 0..MaxHeads]
    /\ checkout \in [Items -> Workers \cup {Free, Debris}]
    /\ worked \in [Items -> SUBSET (1..MaxRevision)]
    /\ pc \in [Workers -> Where]
    /\ job \in [Workers -> Job]
    /\ used \in [closes : 0..MaxCloses, retries : 0..MaxRetries, crashes : 0..MaxCrashes]

TypeOK == IntakeTypeOK /\ EffectsTypeOK /\ ForgeTypeOK /\ WorkTypeOK

Init ==
    /\ IntakeInit /\ EffectsInit /\ ForgeInit
    /\ local = [i \in Items |-> 0]
    /\ checkout = [i \in Items |-> Free]
    /\ worked = [i \in Items |-> {}]
    /\ pc = [w \in Workers |-> "idle"]
    /\ job = [w \in Workers |-> NoJob]
    /\ used = [closes |-> 0, retries |-> 0, crashes |-> 0]

Item(w) == job[w].work.item
Row(w) == effects[job[w].row]

Goto(w, place) == pc' = [pc EXCEPT ![w] = place]

-----------------------------------------------------------------------------
(* The drain: Pipeline.resume_publications *)

\* queue.due(), read once
start_work(w) ==
    /\ pc[w] = "idle"
    /\ Goto(w, "drain")
    /\ job' = [job EXCEPT ![w].todo = due]
    /\ UNCHANGED <<intake, effects, forgeVars, tree, worked, used>>

\* Two racing drainers cannot both win: whoever comes second goes on.
drain_one(w) ==
    /\ pc[w] = "drain"
    /\ \E x \in job[w].todo :
          IF IsDue(x)
          THEN /\ claim(x, w)
               /\ job' = [job EXCEPT ![w].todo = @ \ {x}, ![w].row = x]
               /\ Goto(w, "branch")
          ELSE /\ job' = [job EXCEPT ![w].todo = @ \ {x}]
               /\ UNCHANGED <<effects, pc>>
    /\ UNCHANGED <<intake, forgeVars, tree, worked, used>>

drained(w) ==
    /\ pc[w] = "drain" /\ job[w].todo = {}
    /\ Goto(w, "acks")
    /\ job' = [job EXCEPT ![w].unacked = job[w].resumed]
    /\ UNCHANGED <<intake, effects, forgeVars, tree, worked, used>>

\* triage.acknowledge of one resumed outcome
ack_resumed(w) ==
    /\ pc[w] = "acks"
    /\ \E i \in job[w].unacked :
          /\ acknowledge(i)
          /\ job' = [job EXCEPT ![w].unacked = @ \ {i}]
    /\ UNCHANGED <<effects, forgeVars, tree, worked, pc, used>>

-----------------------------------------------------------------------------
(* Fresh work: Pipeline.start *)

\* collect(): the pending requests, but for the items just resumed.  The code
\* takes them in order of arrival; here any order will do.
collect(w) ==
    /\ pc[w] = "acks" /\ job[w].unacked = {}
    /\ \E order \in SetToSeqs(Pending \ job[w].resumed) :
          job' = [job EXCEPT ![w].resumed = {},
                    ![w].queue = [k \in DOMAIN order |->
                        [item |-> order[k], revision |-> intake[order[k]].revision]]]
    /\ Goto(w, "next")
    /\ UNCHANGED <<intake, effects, forgeVars, tree, worked, used>>

\* Mutant: a request that got no run is acknowledged all the same.
Bug_refuse(w) ==
    /\ pc[w] = "next" /\ job[w].queue # <<>>
    /\ acknowledge(Head(job[w].queue).item)
    /\ job' = [job EXCEPT ![w].queue = Tail(@)]
    /\ UNCHANGED <<effects, forgeVars, tree, worked, pc, used>>

\* Unroutable, refused by policy, no space: no run, and no acknowledgement.
\* Git too refuses a branch that is checked out in another directory.
refuse(w) ==
    /\ pc[w] = "next" /\ job[w].queue # <<>>
    /\ job' = [job EXCEPT ![w].queue = Tail(@)]
    /\ UNCHANGED <<intake, effects, forgeVars, tree, worked, pc, used>>

\* worktrees.acquire, and the agent is dispatched on the text collected.
dispatch(w) ==
    /\ pc[w] = "next" /\ job[w].queue # <<>>
    /\ LET work == Head(job[w].queue) IN
          /\ checkout[work.item] = Free
          /\ checkout' = [checkout EXCEPT ![work.item] = w]
          /\ worked' = [worked EXCEPT ![work.item] = @ \cup {work.revision}]
          /\ job' = [job EXCEPT ![w].queue = Tail(@), ![w].work = work]
    /\ Goto(w, "running")
    /\ UNCHANGED <<intake, effects, forgeVars, local, used>>

\* The agent committed, or it did not.
execute(w) ==
    /\ pc[w] = "running"
    /\ \/ /\ local[Item(w)] < MaxHeads
          /\ local' = [local EXCEPT ![Item(w)] = @ + 1]
       \/ UNCHANGED local
    /\ Goto(w, "publish")
    /\ UNCHANGED <<intake, effects, forgeVars, checkout, worked, job, used>>

\* Nothing to publish, a diff that cannot be read, or one hygiene refuses.
publish_nothing(w) ==
    /\ pc[w] = "publish"
    /\ Goto(w, "release")
    /\ UNCHANGED <<intake, effects, forgeVars, tree, worked, job, used>>

publish(w) ==
    /\ pc[w] = "publish" /\ local[Item(w)] > 0
    /\ Len(effects) < MaxEffects
    /\ enqueue(Item(w), local[Item(w)])
    /\ job' = [job EXCEPT ![w].row = Len(effects) + 1, ![w].fresh = TRUE]
    /\ Goto(w, "claim")
    /\ UNCHANGED <<intake, forgeVars, tree, worked, used>>

\* Another drainer may have it already.
claim_own(w) ==
    /\ pc[w] = "claim"
    /\ IF IsDue(job[w].row)
       THEN claim(job[w].row, w) /\ Goto(w, "branch") /\ UNCHANGED job
       ELSE /\ Goto(w, "release")
            /\ job' = [job EXCEPT ![w].row = 0, ![w].fresh = FALSE]
            /\ UNCHANGED effects
    /\ UNCHANGED <<intake, forgeVars, tree, worked, used>>

\* `finally`: the checkout is given back; a branch that moved is kept.
release(w) ==
    /\ pc[w] = "release"
    /\ checkout' = [checkout EXCEPT ![Item(w)] = Free]
    /\ Goto(w, "ack")
    /\ UNCHANGED <<intake, effects, forgeVars, local, worked, job, used>>

ack(w) ==
    /\ pc[w] = "ack"
    /\ acknowledge(Item(w))
    /\ job' = [job EXCEPT ![w].work = NoItem]
    /\ Goto(w, "next")
    /\ UNCHANGED <<effects, forgeVars, tree, worked, used>>

finish(w) ==
    /\ pc[w] = "next" /\ job[w].queue = <<>>
    /\ Goto(w, "idle")
    /\ UNCHANGED <<intake, effects, forgeVars, tree, worked, job, used>>

-----------------------------------------------------------------------------
(* One delivery: PublicationEffectHandler.deliver over GhVcs *)

Settling(w, outcome) ==
    /\ Goto(w, "settle")
    /\ job' = [job EXCEPT ![w].outcome = outcome]

\* create_branch: ls-remote
create_branch(w) ==
    /\ pc[w] = "branch"
    /\ LET at == remote[Row(w).item] IN
          CASE at = Row(w).head -> Goto(w, "exists") /\ UNCHANGED job
            [] at = Unmoved -> Goto(w, "create") /\ UNCHANGED job
            [] OTHER -> Settling(w, "permanent")
    /\ UNCHANGED <<intake, effects, forgeVars, tree, worked, used>>

\* store.push, never with --force, and then the next call
Pushes(w, next) ==
    IF FastForwards(Row(w).item, Row(w).head)
    THEN land(Row(w).item, Row(w).head) /\ Goto(w, next) /\ UNCHANGED job
    ELSE Settling(w, "permanent") /\ UNCHANGED forgeVars

create_branch_push(w) ==
    /\ pc[w] = "create"
    /\ Pushes(w, "exists")
    /\ UNCHANGED <<intake, effects, tree, worked, used>>

\* push: "create_branch publishes it", so by now it must be there
push_exists(w) ==
    /\ pc[w] = "exists"
    /\ IF remote[Row(w).item] = Unmoved THEN Settling(w, "permanent")
                                        ELSE Goto(w, "push") /\ UNCHANGED job
    /\ UNCHANGED <<intake, effects, forgeVars, tree, worked, used>>

push(w) ==
    /\ pc[w] = "push"
    /\ Pushes(w, "verify")
    /\ UNCHANGED <<intake, effects, tree, worked, used>>

\* push: "the remote's own answer, not ours"
push_verify(w) ==
    /\ pc[w] = "verify"
    /\ IF remote[Row(w).item] = Row(w).head THEN Goto(w, "find") /\ UNCHANGED job
                                            ELSE Settling(w, "permanent")
    /\ UNCHANGED <<intake, effects, forgeVars, tree, worked, used>>

\* open_pull_request: is there one?
find_open(w) ==
    /\ pc[w] = "find"
    /\ IF pull[Row(w).item] THEN Settling(w, "done")
                            ELSE Goto(w, "open") /\ UNCHANGED job
    /\ UNCHANGED <<intake, effects, forgeVars, tree, worked, used>>

\* gh pr create is refused if there is one by now, or no branch any more.
Creatable(i) == ~pull[i] /\ remote[i] # Unmoved

open_pull_request(w) ==
    /\ pc[w] = "open"
    /\ IF Creatable(Row(w).item)
       THEN open(Row(w).item) /\ Goto(w, "see") /\ UNCHANGED job
       ELSE Settling(w, "permanent") /\ UNCHANGED forgeVars
    /\ UNCHANGED <<intake, effects, tree, worked, used>>

\* "pull-request-not-visible" is transient.
see_opened(w) ==
    /\ pc[w] = "see"
    /\ Settling(w, IF pull[Row(w).item] THEN "done" ELSE "transient")
    /\ UNCHANGED <<intake, effects, forgeVars, tree, worked, used>>

\* Any call to git or gh fails.
call_fails(w) ==
    /\ pc[w] \in Calling
    /\ \E outcome \in {"transient", "permanent"} : Settling(w, outcome)
    /\ UNCHANGED <<intake, effects, forgeVars, tree, worked, used>>

\* The push or the create did its work, and its answer was lost.
answer_lost(w) ==
    /\ \/ /\ pc[w] \in {"create", "push"} /\ FastForwards(Row(w).item, Row(w).head)
          /\ land(Row(w).item, Row(w).head)
       \/ /\ pc[w] = "open" /\ Creatable(Row(w).item)
          /\ open(Row(w).item)
    /\ Settling(w, "transient")
    /\ UNCHANGED <<intake, effects, tree, worked, used>>

Settled(w) ==
    /\ Goto(w, IF job[w].fresh THEN "release" ELSE "drain")
    /\ job' = [job EXCEPT ![w].resumed = IF job[w].fresh THEN @ ELSE @ \cup {Row(w).item},
                          ![w].row = 0, ![w].outcome = "none", ![w].fresh = FALSE]

settle(w) ==
    /\ pc[w] = "settle" /\ owned(job[w].row, w)
    /\ IF job[w].outcome = "done" THEN delivered(job[w].row)
       ELSE failed(job[w].row, job[w].outcome = "transient")
    /\ Settled(w)
    /\ UNCHANGED <<intake, forgeVars, tree, worked, used>>

\* What a process leaves behind: `finally` gives its checkout back, and only a
\* process that is killed does not come to it.
Leave(w, place) ==
    /\ Goto(w, "idle")
    /\ job' = [job EXCEPT ![w] = NoJob]
    /\ checkout' = [i \in Items |-> IF checkout[i] = w THEN place ELSE checkout[i]]

\* Somebody else claimed it since: ValueError leaves `clawdence work`.
settle_lost(w) ==
    /\ pc[w] = "settle" /\ ~owned(job[w].row, w)
    /\ Leave(w, Free)
    /\ UNCHANGED <<intake, effects, forgeVars, local, worked, used>>

\* Killed, or an exception that nobody catches.
Crash(w) ==
    /\ pc[w] # "idle" /\ used.crashes < MaxCrashes
    /\ Leave(w, Debris) \/ Leave(w, Free)
    /\ used' = [used EXCEPT !.crashes = @ + 1]
    /\ UNCHANGED <<intake, effects, forgeVars, local, worked>>

-----------------------------------------------------------------------------
(* People, the clock and the reaper *)

\* A request that a process holds, or whose work is still to be delivered.
Held(i) ==
    \/ checkout[i] # Free
    \/ \E x \in DOMAIN effects : effects[x].item = i /\ effects[x].state # "delivered"
    \/ \E w \in Workers : \/ i \in job[w].resumed \cup job[w].unacked \cup {Item(w)}
                          \/ \E k \in DOMAIN job[w].queue : job[w].queue[k].item = i

Submit(i) ==
    /\ \E text \in Texts :
          /\ Considerate /\ text # intake[i].text => ~Held(i)
          /\ submit(i, text)
    /\ UNCHANGED <<effects, forgeVars, tree, worked, pc, job, used>>

Withdraw(i) ==
    /\ withdraw(i)
    /\ UNCHANGED <<effects, forgeVars, tree, worked, pc, job, used>>

EffectsRetry ==
    /\ used.retries < MaxRetries
    /\ \E x \in DOMAIN effects : retry(x)
    /\ used' = [used EXCEPT !.retries = @ + 1]
    /\ UNCHANGED <<intake, forgeVars, tree, worked, pc, job>>

\* Its claim is in use: a process is delivering this row.
InHand(x) == \E w \in Workers : job[w].row = x /\ pc[w] \in Calling \cup {"settle"}

Ripen(x) ==
    /\ x \in DOMAIN effects /\ (InHand(x) => Slow)
    /\ ripen(x)
    /\ UNCHANGED <<intake, forgeVars, tree, worked, pc, job, used>>

Close ==
    /\ used.closes < MaxCloses
    /\ \E i \in Items : close(i)
    /\ used' = [used EXCEPT !.closes = @ + 1]
    /\ UNCHANGED <<intake, effects, tree, worked, pc, job>>

\* `clawdence reap` removes the directory of a run that is no longer live.
Reap(i) ==
    /\ checkout[i] = Debris /\ checkout' = [checkout EXCEPT ![i] = Free]
    /\ UNCHANGED <<intake, effects, forgeVars, local, worked, pc, job, used>>

-----------------------------------------------------------------------------
Deliver(w) ==
    \/ create_branch(w) \/ create_branch_push(w) \/ push_exists(w) \/ push(w)
    \/ push_verify(w) \/ find_open(w) \/ open_pull_request(w) \/ see_opened(w)
    \/ call_fails(w) \/ answer_lost(w) \/ settle(w) \/ settle_lost(w)

Step(w) ==
    \/ start_work(w) \/ drain_one(w) \/ drained(w) \/ ack_resumed(w)
    \/ collect(w) \/ refuse(w) \/ dispatch(w) \/ execute(w)
    \/ publish_nothing(w) \/ publish(w) \/ claim_own(w) \/ release(w)
    \/ ack(w) \/ finish(w)

Next ==
    \/ \E w \in Workers : Step(w) \/ Deliver(w) \/ Crash(w)
    \/ \E i \in Items : Submit(i) \/ Withdraw(i) \/ Reap(i)
    \/ \E x \in 1..MaxEffects : Ripen(x)
    \/ EffectsRetry \/ Close

Spec == Init /\ [][Next]_vars

\* Somebody runs `clawdence work` again and again, and time passes.  People may
\* do nothing, and a directory that is in the way may stay there.
Fairness ==
    /\ \A w \in Workers : WF_vars(Step(w) \/ Deliver(w))
    /\ \A x \in 1..MaxEffects : WF_vars(Ripen(x))

FairSpec == Spec /\ Fairness

-----------------------------------------------------------------------------
(***************************************************************************)
(* A revision that counts as acknowledged is one an agent was dispatched   *)
(* for: no request leaves the queue because another one, or an earlier     *)
(* version of it, was worked on.                                           *)
(***************************************************************************)
AckedRevisionWasWorked ==
    \A i \in Items : intake[i].acked # 0 => intake[i].acked \in worked[i]

Queued == INSTANCE RequestPromise WITH
    Requests <- Items,
    Contents <- Texts,
    request <- [i \in Items |->
                  IF intake[i].state = "absent" THEN [is |-> "absent"]
                  ELSE [is |-> intake[i].state, says |-> intake[i].text,
                        version |-> intake[i].revision, taken |-> intake[i].acked]]

(***************************************************************************)
(* Whoever works on it, crashes with it or acknowledges it late, a request *)
(* is queued, handed over and taken back as RequestPromise says, the same  *)
(* promise that the rows of Inbox keep: no acknowledgement hands over what *)
(* was taken back meanwhile, or a version that does not wait.              *)
(***************************************************************************)
RequestsKeepTheirPromise == Queued!QueueSpec

(***************************************************************************)
(* A request that somebody took back stays back until it is submitted      *)
(* again: the acknowledgement of a run that was under way does not turn it *)
(* into one that was handed on.                                            *)
(***************************************************************************)
WithdrawalStands ==
    [][\A i \in Items :
          intake[i].state = "withdrawn" =>
              intake'[i].state \in {"withdrawn", "pending"}]_vars

(***************************************************************************)
(* "A process that died after the agent committed resumes cheap,           *)
(* idempotent remote operations instead of dispatching the agent again":   *)
(* no agent is dispatched for a version of a request that an agent worked  *)
(* on before, once the publication of what it committed is recorded.       *)
(***************************************************************************)
RecordedWorkIsNotRedone ==
    [][\A w \in Workers :
          dispatch(w) => LET work == Head(job[w].queue) IN
              ~(/\ work.revision \in worked[work.item]
                /\ \E x \in DOMAIN effects : effects[x].item = work.item)]_vars

RowIn(x, states) == x \in DOMAIN effects /\ effects[x].state \in states

(***************************************************************************)
(* Every recorded publication is delivered in the end, or parked for       *)
(* somebody to look at, whatever process dies with it in hand.             *)
(***************************************************************************)
EffectSettles ==
    \A x \in 1..MaxEffects :
        RowIn(x, Outstanding) ~> RowIn(x, {"delivered", "parked"})
-----------------------------------------------------------------------------
PromiseOf(state) ==
    CASE state \in Outstanding -> "owed"
      [] state = "delivered"   -> "done"
      [] state = "parked"      -> "given_up"

Promised == INSTANCE EffectPromise WITH
    Publications <- 1..MaxEffects,
    promise <- [x \in 1..MaxEffects |->
                  IF x \in DOMAIN effects THEN PromiseOf(effects[x].state) ELSE "none"],
    reviewed <- {x \in DOMAIN effects : effects[x].head <= shown[effects[x].item]}

(***************************************************************************)
(* The delivery queue with its racing, crashing drainers keeps what it     *)
(* promises: a publication is reported delivered only if its commit was in *)
(* an open pull request, and no late or lost settlement undoes that.       *)
(***************************************************************************)
DeliveryKeepsItsPromise == Promised!PromiseSpec
=============================================================================
