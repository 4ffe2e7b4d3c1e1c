------------------------------ MODULE Collection ------------------------------
(***************************************************************************)
(* The work of an agent between the checkout it runs in and the result     *)
(* that is reported of it: runners/installed.py, runners/worktree.py,      *)
(* runners/verdict.py, and _prepare, _collect, _reclaim and _tidy of       *)
(* runners/agent.py, over the attempts that share one worktree.            *)
(*                                                                         *)
(* A tree gives each path its text. The repository's own text of a path is *)
(* named after the path; the agent writes "edit". The index is not a state *)
(* of its own: everything here that stages also commits.                   *)
(***************************************************************************)
EXTENDS Outcome, FiniteSets

CONSTANTS Tracked,          \* the paths the base commit has
          Source,           \* profile.agents_md_path
          Evidence,         \* the contract asks for tests
          Deletable,        \* the paths an agent removes
          Endings,          \* the signals of a process that ended
          Reports,          \* what an agent reports
          MaxAttempts

Guide == "AGENTS.md"        \* conventions_filename
Plan == ".clawdence/plan"   \* under WORK_DIR, which is excluded
Paths == {Guide, Plan, "CONVENTIONS.md", "code"}
Absent == "absent"
Texts == Paths \cup {Absent, "edit"}

Verdicts == {"absent", "unreadable", "blocked", "failed", "passed", "passed_with_tests"}

CollectionAssumption == /\ Tracked \subseteq Paths \ {Plan}
                        /\ Source \in Paths \ {Plan}
                        /\ Evidence \in BOOLEAN
                        /\ Deletable \subseteq Paths \ {Plan}
                        /\ \A e \in Endings : e \subseteq Signals
                        /\ Reports \subseteq Verdicts \ {"absent"}
                        /\ MaxAttempts \in Nat \ {0}

Base == [p \in Paths |-> IF p \in Tracked THEN p ELSE Absent]

VARIABLES tree, head,       \* the worktree, and the commit it is on
          excluded,         \* $GIT_DIR/info/exclude
          installed,        \* Installed.records: path -> the text this attempt put there
          commits,          \* rev-list --count base..HEAD, as the agent's and the runner's
          verdict,          \* the file: what it says, and the attempt that wrote it
          attempt, phase,
          seen,             \* the signals of the process
          wrote,            \* the paths an agent has written or removed itself
          left,             \* the paths it wrote in this attempt -> the text it left there
          result            \* of the last attempt
vars == <<tree, head, excluded, installed, commits, verdict, attempt, phase,
          seen, wrote, left, result>>
Git == <<tree, head, excluded, commits>>

Nothing == [p \in {} |-> Absent]
NoVerdict == [says |-> "absent", by |-> 0]
NoResult == [outcome |-> "none", hash |-> FALSE, changed |-> 0, verdict |-> NoVerdict,
             claimed |-> FALSE, dropped |-> FALSE]

Init ==
    /\ tree = Base /\ head = Base /\ excluded = {}
    /\ installed = Nothing
    /\ commits = [agent |-> 0, runner |-> 0]
    /\ verdict = NoVerdict
    /\ attempt = 0 /\ phase = "idle"
    /\ seen = {} /\ wrote = {} /\ left = Nothing
    /\ result = NoResult

-----------------------------------------------------------------------------
(* git *)

\* `git status`: a path no commit has is reported unless it is excluded.
Pending(t, h, x) == {p \in Paths : t[p] # h[p] /\ (h[p] # Absent \/ p \notin x)}

\* `git add --all` and a commit
CommitAll(t, h, x) == [p \in Paths |-> IF p \in Pending(t, h, x) THEN t[p] ELSE h[p]]

Changed(h) == {p \in Paths : h[p] # Base[p]}

-----------------------------------------------------------------------------
(* installed.py *)

\* A tree, or a record of texts, with others written over it.
Over(t, texts) == [p \in DOMAIN t \cup DOMAIN texts |-> IF p \in DOMAIN texts THEN texts[p] ELSE t[p]]

\* a path that was installed, whatever it holds by now
Bug_owns(t, p) == p = Plan \/ p \in DOMAIN installed

owns(t, p) == p = Plan \/ (p \in DOMAIN installed /\ t[p] # Absent /\ t[p] = installed[p])

\* _install_conventions: the source is a path of this worktree.
Conventions(t) == [p \in IF t[Source] = Absent THEN {} ELSE {Guide} |-> t[Source]]

-----------------------------------------------------------------------------
(* One attempt *)

RETRYABLE == {"TESTS_FAILED", "TIMED_OUT", "STARTUP_FAILED", "NETWORK_DENIED"}

\* The engine retries a step that may be, and a stage that follows a success
\* dispatches to the same worktree.
MayStart == result.outcome \in RETRYABLE \cup {"none", "unwound", "SUCCEEDED"}

\* verdict.clear: what is not a file cannot be removed, and stays.
Bug_cleared(v) == v

cleared(v) == IF v.says = "unreadable" THEN v ELSE NoVerdict

\* _prepare
Prepare ==
    /\ phase = "idle" /\ attempt < MaxAttempts /\ MayStart
    /\ LET guide == Conventions(tree)
           new == Over([p \in {Plan} |-> Plan], guide)
       IN /\ installed' = new
          /\ tree' = Over(tree, new)
          /\ excluded' = excluded \cup {Plan} \cup DOMAIN guide
    /\ verdict' = cleared(verdict)
    /\ attempt' = attempt + 1 /\ phase' = "agent"
    /\ seen' = {} /\ left' = Nothing
    /\ UNCHANGED <<head, commits, wrote, result>>

\* _not_runnable: nothing was prepared, so nothing is collected or taken back.
NotRunnable ==
    /\ phase = "idle" /\ attempt < MaxAttempts /\ MayStart
    /\ attempt' = attempt + 1
    /\ seen' = {"startup_error"} /\ left' = Nothing
    /\ result' = [NoResult EXCEPT !.outcome = classify({"startup_error"})]
    /\ UNCHANGED <<Git, installed, verdict, phase, wrote>>

-----------------------------------------------------------------------------
(* The agent *)

Edit(p, text) ==
    /\ phase = "agent" /\ tree[p] # text
    /\ tree' = [tree EXCEPT ![p] = text]
    /\ wrote' = wrote \cup {p}
    /\ left' = Over(left, [q \in {p} |-> text])
    /\ UNCHANGED <<head, excluded, installed, commits, verdict, attempt, phase, seen, result>>

AgentEdits == \E p \in Paths \ {Plan} : Edit(p, "edit")
AgentRemoves == \E p \in Deletable : Edit(p, Absent)

\* `git add --all` (or, forced, of what is excluded too) and a commit
AgentCommits ==
    /\ phase = "agent"
    /\ \E x \in {excluded, {}} :
         /\ Pending(tree, head, x) # {}
         /\ head' = CommitAll(tree, head, x)
    /\ commits' = [commits EXCEPT !.agent = 1]
    /\ UNCHANGED <<tree, excluded, installed, verdict, attempt, phase, seen, wrote, left, result>>

AgentReports ==
    /\ phase = "agent" /\ verdict.by # attempt
    /\ \E v \in Reports : verdict' = [says |-> v, by |-> attempt]
    /\ UNCHANGED <<Git, installed, attempt, phase, seen, wrote, left, result>>

\* The process ended, or was ended.
AgentEnds ==
    /\ phase = "agent"
    /\ seen' \in Endings
    /\ phase' = "collect"
    /\ UNCHANGED <<Git, installed, verdict, attempt, wrote, left, result>>

\* The caller's own timeout: the exception leaves through the finally block.
Unwinds ==
    /\ phase = "agent"
    /\ result' = [NoResult EXCEPT !.outcome = "unwound"]
    /\ phase' = "tidy"
    /\ UNCHANGED <<Git, installed, verdict, attempt, seen, wrote, left>>

-----------------------------------------------------------------------------
(* _collect *)

\* outcome.py: _blocked, _tests_failed, _dropped_commit
Judged(v, ahead, theirs, changed) ==
    (IF v = "blocked" THEN {"verdict_blocked"} ELSE {})
    \cup (IF v = "failed" \/ (Evidence /\ v \in {"absent", "unreadable", "passed", "blocked"})
          THEN {"tests_failed"} ELSE {})
    \cup (IF ahead = 0 /\ theirs # {} THEN {"dropped_commit"} ELSE {})
    \cup (IF changed = {} THEN {"empty_diff"} ELSE {})

\* _reclaim and revert_to: what is still ours goes back to the base commit.
Reclaimed(t) ==
    [p \in Paths |-> IF p \in DOMAIN installed /\ owns(t, p) THEN Base[p] ELSE t[p]]

Ahead == commits.agent + commits.runner

ProducedATree == {"SUCCEEDED", "TESTS_FAILED", "DROPPED_COMMIT"}

Report(v, ahead, theirs, h) ==
    LET outcome == classify(seen \cup Judged(v.says, ahead, theirs, Changed(h)))
    IN [outcome |-> outcome, hash |-> outcome \in ProducedATree,
        changed |-> Cardinality(Changed(h)),
        verdict |-> IF v.says = "unreadable" THEN NoVerdict ELSE v,
        claimed |-> commits.agent > 0, dropped |-> theirs # {}]

Collect ==
    /\ phase = "collect"
    /\ LET pending == Pending(tree, head, excluded)
           theirs == {p \in pending : ~owns(tree, p)}
           back == Reclaimed(tree)
           swept == Pending(back, head, excluded)
           final == CommitAll(back, head, excluded)
       IN /\ tree' = back
          /\ head' = final
          /\ commits' = [commits EXCEPT !.runner = @ + (IF swept # {} THEN 1 ELSE 0)]
          /\ result' = Report(verdict, Ahead, theirs, final)
    /\ phase' = "tidy"
    /\ UNCHANGED <<excluded, installed, verdict, attempt, seen, wrote, left>>

\* git fails: the attempt is reported as one that did not start.
Unreadable ==
    /\ phase = "collect"
    /\ seen' = seen \cup {"startup_error"}
    /\ result' = [NoResult EXCEPT !.outcome = classify(seen \cup {"startup_error"})]
    /\ phase' = "tidy"
    /\ UNCHANGED <<Git, installed, verdict, attempt, wrote, left>>

\* _tidy, after the teardown
Tidy ==
    /\ phase = "tidy"
    /\ tree' = [p \in Paths |-> IF p \in DOMAIN installed /\ owns(tree, p) THEN Absent ELSE tree[p]]
    /\ installed' = Nothing
    /\ phase' = "idle"
    /\ UNCHANGED <<head, excluded, commits, verdict, attempt, seen, wrote, left, result>>

Next == \/ Prepare \/ NotRunnable
        \/ AgentEdits \/ AgentRemoves \/ AgentCommits \/ AgentReports \/ AgentEnds \/ Unwinds
        \/ Collect \/ Unreadable \/ Tidy
Spec == Init /\ [][Next]_vars

-----------------------------------------------------------------------------
(* Properties *)

TypeOK ==
    /\ tree \in [Paths -> Texts] /\ head \in [Paths -> Texts]
    /\ excluded \subseteq Paths
    /\ DOMAIN installed \subseteq {Guide, Plan}
    /\ commits \in [agent : 0 .. 1, runner : 0 .. MaxAttempts]
    /\ verdict \in [says : Verdicts, by : 0 .. MaxAttempts]
    /\ attempt \in 0 .. MaxAttempts
    /\ phase \in {"idle", "agent", "collect", "tidy"}
    /\ wrote \subseteq Paths

Collected == phase = "tidy" /\ result.changed > 0

\* A branch that was collected differs from its base only where an agent of
\* one of its attempts wrote: neither the conventions file nor the plan the
\* runner installs, nor their removal, reaches it, whether the agent committed
\* with `git add --all` or not (agent.py:936-946, worktree.py:153-170).
OnlyTheAgentsWorkIsOnTheBranch == Collected => Changed(head) \subseteq wrote

\* What the agent left in a path that git sees is on the branch when the
\* attempt was collected, committed or not, the conventions file it edited
\* included (agent.py:880-895, _tidy 560-562).
TheAgentsWorkIsOnTheBranch ==
    Collected => \A p \in DOMAIN left :
        (Base[p] # Absent \/ p \notin excluded) => head[p] = left[p]

\* An edit of an earlier attempt stays, unless a later agent changed it.
EarlierEditsStay ==
    [][\A p \in Paths : (head[p] = "edit" /\ p \notin DOMAIN left' /\ phase = "collect")
                          => head'[p] = "edit"]_vars

\* A success is of this attempt: its verdict was written by this attempt, and
\* an agent that left its changes uncommitted and never committed anything has
\* not succeeded, as long as the runner had nothing of an earlier attempt to
\* commit for it (outcome.py:260-274, verdict.py:155-160).
ASuccessIsThisAttempts ==
    (phase = "tidy" /\ result.outcome = "SUCCEEDED") =>
        /\ result.verdict.by \in {0, attempt}
        /\ result.changed > 0 /\ result.hash
        /\ (~result.claimed /\ result.dropped) => commits.runner > 1

\* The same without the reservation: the count of commits is of the agent's
\* (worktree.py:127-134).
DroppedWorkIsNoSuccess ==
    (phase = "tidy" /\ result.outcome = "SUCCEEDED") => (result.claimed \/ ~result.dropped)
=============================================================================
