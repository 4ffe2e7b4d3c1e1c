----------------------------- MODULE Checkouts -----------------------------
(***************************************************************************)
(* The disk that `clawdence work` and `clawdence reap` share: the mirror   *)
(* of a repository and its lock (vcs/store.py), the checkouts hung off it  *)
(* (vcs/worktrees.py), and the reaper (runners/reaper.py) that removes     *)
(* what dead processes left.  WorkLoop has the same checkouts as one step. *)
(*                                                                         *)
(* A run is worked on by a process of its own, which asks for a checkout   *)
(* once: asked again for one it has, acquire() hands out the same, and     *)
(* nothing changes.  Git is external: it                                   *)
(* refuses to check a branch out twice and to delete one that is checked   *)
(* out, by its records, which outlive the directories until they are       *)
(* pruned.  A branch is the set of runs whose commits are on it.           *)
(***************************************************************************)
EXTENDS Naturals, FiniteSets

CONSTANTS Runs,         \* run ids
          Branches,     \* branches, one per work item
          BranchOf,     \* the branch of a run
          Nobody,       \* of the lock, and of a branch that does not exist
          MaxCrashes    \* bound: processes that are killed

CheckoutsAssumption ==
    /\ BranchOf \in [Runs -> Branches] /\ MaxCrashes \in Nat
    /\ Nobody \notin Runs /\ \A commits \in SUBSET Runs : commits # Nobody

VARIABLES
    mirror,    \* "none", "torn" (it has a HEAD and no remote) or "whole"
    lock,      \* the flock: who holds it
    branch,    \* refs/heads: the runs whose commits a branch has, or Nobody
    record,    \* the runs whose checkout git has a record of
    dir,       \* <work root>/<run>: nothing, an empty directory, a checkout
    age,       \* of it and of the run's container: 1 is past the grace, 2 past the retention
    row,       \* the status of the run in the store
    box,       \* the runs that have a container
    process,   \* where the process of a run is
    saw,       \* what release() saw on the branch
    sweep,     \* the reaper, with what it decided to remove
    crashes

vars == <<mirror, lock, branch, record, dir, age, row, box, process, saw, sweep, crashes>>

Locked == {"ensure", "remote", "fetch", "prune", "exists", "add", "sparse"}
Leased == {"leased", "executing", "publishing"}
Releasing == {"look", "remove", "pruneAfter", "delete"}
Where == {"idle", "resolve"} \cup Locked \cup Leased \cup Releasing
            \cup {"released", "refused", "dead"}

Quiet == [on |-> FALSE, boxes |-> {}, dirs |-> {}]

TypeOK ==
    /\ mirror \in {"none", "torn", "whole"}
    /\ lock \in Runs \cup {Nobody}
    /\ \A r \in Runs : lock = r <=> process[r].at \in Locked
    /\ branch \in [Branches -> (SUBSET Runs) \cup {Nobody}]
    /\ record \subseteq Runs /\ box \subseteq Runs
    /\ dir \in [Runs -> {"none", "empty", "checkout"}]
    /\ age \in [Runs -> 0..2]
    /\ row \in [Runs -> {"none", "running", "over"}]
    /\ process \in [Runs -> [at : Where, found : BOOLEAN]]
    /\ saw \in [Runs -> SUBSET Runs]
    /\ sweep \in [on : BOOLEAN, boxes : SUBSET Runs, dirs : SUBSET Runs]
    /\ crashes \in 0..MaxCrashes

Init ==
    /\ mirror = "none" /\ lock = Nobody
    /\ branch = [b \in Branches |-> Nobody]
    /\ record = {} /\ box = {}
    /\ dir = [r \in Runs |-> "none"]
    /\ age = [r \in Runs |-> 0]
    /\ row = [r \in Runs |-> "none"]
    /\ process = [r \in Runs |-> [at |-> "idle", found |-> FALSE]]
    /\ saw = [r \in Runs |-> {}]
    /\ sweep = Quiet
    /\ crashes = 0

At(r) == process[r].at
Goto(r, at) == process' = [process EXCEPT ![r].at = at]
Tip(r) == branch[BranchOf[r]]
CheckedOut(b) == \E r \in record : BranchOf[r] = b

StoreUnchanged == UNCHANGED <<row, box, age, sweep, crashes>>
TreeUnchanged == UNCHANGED <<record, dir, saw>>

-----------------------------------------------------------------------------
(* RepoStore.ensure *)

\* RepoStore.locked.  Waiting has no step; a wait that times out is a refusal.
Takes(r) == lock = Nobody /\ lock' = r
Gives == lock' = Nobody

Ensure(r) ==
    /\ At(r) = "idle" /\ Takes(r) /\ Goto(r, "ensure")
    /\ UNCHANGED <<mirror, branch>> /\ TreeUnchanged /\ StoreUnchanged

\* A mirror is one that has a HEAD; without it, `git init` makes one.
Create(r) ==
    /\ At(r) = "ensure"
    /\ IF mirror = "none" THEN mirror' = "torn" /\ Goto(r, "remote")
       ELSE Goto(r, "fetch") /\ UNCHANGED mirror
    /\ UNCHANGED <<lock, branch>> /\ TreeUnchanged /\ StoreUnchanged

AddRemote(r) ==
    /\ At(r) = "remote"
    /\ mirror' = "whole" /\ Goto(r, "fetch")
    /\ UNCHANGED <<lock, branch>> /\ TreeUnchanged /\ StoreUnchanged

\* The forge's refs are not ours: a fetch, though it prunes, moves no branch.
Fetch(r) ==
    /\ At(r) = "fetch" /\ mirror = "whole"
    /\ Goto(r, "resolve") /\ Gives
    /\ UNCHANGED <<mirror, branch>> /\ TreeUnchanged /\ StoreUnchanged

\* What leads to a PortError: an unreachable forge, no remote, no such ref, no
\* space, git, a lock that is not got in time.  A sparse checkout that fails raises git's
\* own error instead.  Either way there is no lease, and nobody takes back what was made.
Refused(r) ==
    /\ At(r) \in {"idle", "resolve"} \cup Locked
    /\ Goto(r, "refused")
    /\ lock' = IF lock = r THEN Nobody ELSE lock
    /\ UNCHANGED <<mirror, branch>> /\ TreeUnchanged /\ StoreUnchanged

-----------------------------------------------------------------------------
(* WorktreeManager.acquire *)

\* The ref is resolved, the disk has space, and the lock is taken again.
Resolve(r) ==
    /\ At(r) = "resolve" /\ mirror = "whole" /\ Takes(r) /\ Goto(r, "prune")
    /\ UNCHANGED <<mirror, branch>> /\ TreeUnchanged /\ StoreUnchanged

Pruned == {r \in record : dir[r] = "checkout"}

\* Git's records of directories that are gone are discarded.
Prune(r) ==
    /\ At(r) = "prune" /\ record' = Pruned /\ Goto(r, "exists")
    /\ UNCHANGED <<mirror, lock, branch, dir, saw>> /\ StoreUnchanged

\* The run's directory is made, and the branch is looked for.
BranchExists(r) ==
    /\ At(r) = "exists"
    /\ dir' = [dir EXCEPT ![r] = "empty"] /\ age' = [age EXCEPT ![r] = 0]
    /\ process' = [process EXCEPT ![r] = [at |-> "add", found |-> Tip(r) # Nobody]]
    /\ UNCHANGED <<mirror, lock, branch, record, saw, row, box, sweep, crashes>>

\* Git checks a branch out once.
Free(r) == ~CheckedOut(BranchOf[r])

\* `git worktree add`: on the branch that was found, or with a new one.
Add(r) ==
    /\ At(r) = "add" /\ Free(r)
    /\ process[r].found <=> Tip(r) # Nobody
    /\ branch' = [branch EXCEPT ![BranchOf[r]] = IF @ = Nobody THEN {} ELSE @]
    /\ record' = record \cup {r}
    /\ dir' = [dir EXCEPT ![r] = "checkout"]
    /\ Goto(r, "sparse")
    /\ UNCHANGED <<mirror, lock, saw>> /\ StoreUnchanged

\* The checkout is made sparse, where the profile asks for it, and handed out.
Sparse(r) ==
    /\ At(r) = "sparse" /\ Goto(r, "leased") /\ Gives
    /\ UNCHANGED <<mirror, branch>> /\ TreeUnchanged /\ StoreUnchanged

-----------------------------------------------------------------------------
(* What the process does with its checkout *)

\* execute opens the run.
Open(r) ==
    /\ At(r) = "leased" /\ Goto(r, "executing")
    /\ row' = [row EXCEPT ![r] = "running"] /\ box' = box \cup {r}
    /\ UNCHANGED <<mirror, lock, branch, age, sweep, crashes>> /\ TreeUnchanged

Commit(r) ==
    /\ At(r) = "executing" /\ dir[r] = "checkout" /\ Tip(r) # Nobody /\ r \notin Tip(r)
    /\ branch' = [branch EXCEPT ![BranchOf[r]] = @ \cup {r}]
    /\ UNCHANGED <<mirror, lock, process>> /\ TreeUnchanged /\ StoreUnchanged

\* The runner gives its container back and execute closes the run.
Close(r) ==
    /\ At(r) = "executing" /\ Goto(r, "publishing")
    /\ row' = [row EXCEPT ![r] = "over"] /\ box' = box \ {r}
    /\ UNCHANGED <<mirror, lock, branch, age, sweep, crashes>> /\ TreeUnchanged

\* The `finally` of _execute, after whatever happened.
Ends(r) ==
    /\ At(r) \in {"leased", "publishing"} /\ Goto(r, "look")
    /\ UNCHANGED <<mirror, lock, branch>> /\ TreeUnchanged /\ StoreUnchanged

-----------------------------------------------------------------------------
(* WorktreeManager.release, which takes no lock *)

ReleaseUnchanged == UNCHANGED <<mirror, lock>> /\ StoreUnchanged

\* Mutant: the branch is deleted on the way out.
Bug_Look(r) ==
    /\ At(r) = "look"
    /\ saw' = [saw EXCEPT ![r] = IF Tip(r) = Nobody THEN {} ELSE Tip(r)]
    /\ process' = [process EXCEPT ![r] = [at |-> "remove", found |-> FALSE]]
    /\ UNCHANGED <<branch, record, dir>> /\ ReleaseUnchanged

\* _branch_moved: unknown counts as yes.
Look(r) ==
    /\ At(r) = "look"
    /\ saw' = [saw EXCEPT ![r] = IF Tip(r) = Nobody THEN {} ELSE Tip(r)]
    /\ process' = [process EXCEPT ![r] = [at |-> "remove", found |-> Tip(r) # {}]]
    /\ UNCHANGED <<branch, record, dir>> /\ ReleaseUnchanged

\* `git worktree remove`, or, where that fails, the directory alone.
Remove(r) ==
    /\ At(r) = "remove"
    /\ dir' = [dir EXCEPT ![r] = "none"]
    /\ record' \in {record, record \ {r}}
    /\ Goto(r, "pruneAfter")
    /\ UNCHANGED <<branch, saw>> /\ ReleaseUnchanged

\* Only a branch that has not moved goes on to be deleted.
PruneAfter(r) ==
    /\ At(r) = "pruneAfter" /\ record' = Pruned
    /\ Goto(r, IF process[r].found THEN "released" ELSE "delete")
    /\ UNCHANGED <<branch, dir, saw>> /\ ReleaseUnchanged

\* Git refuses to delete a branch that is checked out.
Delete(r) ==
    /\ At(r) = "delete"
    /\ branch' = IF CheckedOut(BranchOf[r]) THEN branch
                 ELSE [branch EXCEPT ![BranchOf[r]] = Nobody]
    /\ Goto(r, "released")
    /\ TreeUnchanged /\ ReleaseUnchanged

-----------------------------------------------------------------------------
(* The reaper, the watchdog, time, and processes that are killed *)

SweepUnchanged == UNCHANGED <<mirror, lock, branch, record, process, saw, row, age, crashes>>

Live == {r \in Runs : row[r] = "running"}

\* Mutant: a container is old enough, whoever runs in it.
Bug_StartSweep ==
    /\ ~sweep.on
    /\ sweep' = [on |-> TRUE, boxes |-> {r \in box : age[r] >= 1},
                 dirs |-> {r \in Runs : dir[r] # "none" /\ age[r] = 2} \ Live]
    /\ SweepUnchanged /\ UNCHANGED <<dir, box>>

\* _reap_command reads the running runs, and sweep() the clock.  What is old
\* enough by then is what may be removed; a directory is worth more than a container.
StartSweep ==
    /\ ~sweep.on
    /\ sweep' = [on |-> TRUE, boxes |-> {r \in box : age[r] >= 1} \ Live,
                 dirs |-> {r \in Runs : dir[r] # "none" /\ age[r] = 2} \ Live]
    /\ SweepUnchanged /\ UNCHANGED <<dir, box>>

\* Containers first, one by one.
SweepBox(r) ==
    /\ r \in sweep.boxes
    /\ box' = box \ {r}
    /\ sweep' = [sweep EXCEPT !.boxes = @ \ {r}]
    /\ SweepUnchanged /\ UNCHANGED dir

SweepDir(r) ==
    /\ sweep.boxes = {} /\ r \in sweep.dirs
    /\ dir' = [dir EXCEPT ![r] = "none"]
    /\ sweep' = [sweep EXCEPT !.dirs = @ \ {r}]
    /\ SweepUnchanged /\ UNCHANGED box

EndSweep ==
    /\ sweep.on /\ sweep.boxes = {} /\ sweep.dirs = {}
    /\ sweep' = Quiet
    /\ SweepUnchanged /\ UNCHANGED <<dir, box>>

\* Hours and days pass for what is left behind, and for a run that is executing,
\* which may take as long as it likes; everything else takes less.
Age(r) ==
    /\ dir[r] # "none" \/ r \in box
    /\ age[r] < 2 /\ At(r) \in {"executing", "dead", "refused"}
    /\ age' = [age EXCEPT ![r] = @ + 1]
    /\ UNCHANGED <<mirror, lock, branch, record, dir, row, box, process, saw, sweep, crashes>>

\* The watchdog halts a run whose process is gone.
Halt(r) ==
    /\ row[r] = "running" /\ At(r) = "dead"
    /\ row' = [row EXCEPT ![r] = "over"]
    /\ UNCHANGED <<mirror, lock, branch, record, dir, age, box, process, saw, sweep, crashes>>

\* The kernel releases the lock with the process.
Crash(r) ==
    /\ crashes < MaxCrashes /\ At(r) \notin {"idle", "released", "refused", "dead"}
    /\ crashes' = crashes + 1
    /\ Goto(r, "dead")
    /\ lock' = IF lock = r THEN Nobody ELSE lock
    /\ UNCHANGED <<mirror, branch, record, dir, age, row, box, saw, sweep>>

Acquire(r) == Ensure(r) \/ Create(r) \/ AddRemote(r) \/ Fetch(r) \/ Resolve(r)
                \/ Prune(r) \/ BranchExists(r) \/ Add(r) \/ Sparse(r)
Release(r) == Look(r) \/ Remove(r) \/ PruneAfter(r) \/ Delete(r)
Sweep == StartSweep \/ EndSweep \/ \E r \in Runs : SweepBox(r) \/ SweepDir(r)

Next ==
    \/ \E r \in Runs : \/ Acquire(r) \/ Refused(r) \/ Open(r) \/ Commit(r) \/ Close(r)
                      \/ Ends(r) \/ Release(r) \/ Age(r) \/ Halt(r) \/ Crash(r)
    \/ Sweep

Spec == Init /\ [][Next]_vars

\* Somebody runs `clawdence runs recover` and `clawdence reap` again and again, and
\* time passes.
Fairness == WF_vars(Sweep) /\ \A r \in Runs : WF_vars(Age(r)) /\ WF_vars(Halt(r))

FairSpec == Spec /\ Fairness

-----------------------------------------------------------------------------
(* Properties *)

\* One mirror is made once, by whoever comes first, and a mirror that has no remote
\* has somebody at work on it, unless a process was killed or refused in between.
MirrorIsMadeOnce ==
    /\ \A r, s \in Runs : At(r) = "remote" /\ At(s) = "remote" => r = s
    /\ \A r \in Runs : At(r) = "remote" => mirror = "torn"

\* A branch is checked out in one directory, so two runs of one item never have each
\* other's commits in their diffs.
OneCheckoutPerBranch ==
    \A r, s \in Runs : BranchOf[r] = BranchOf[s] /\ At(r) \in Leased /\ At(s) \in Leased
                          /\ dir[r] = "checkout" /\ dir[s] = "checkout" => r = s

Has(b, r) == branch[b] # Nobody /\ r \in branch[b]

\* Commits are never lost: neither to a fetch nor to a sweep, and release() deletes
\* nothing that was on the branch when it looked.
SeenCommitsAreKept ==
    [][\A b \in Branches, c \in Runs :
         Has(b, c) /\ ~Has(b, c)' => \E r \in Runs : Delete(r) /\ BranchOf[r] = b /\ saw[r] = {}
      ]_vars

\* A checkout that was given back leaves no directory, and no record that would
\* refuse the branch to the next run.
ReleasedLeavesNothing ==
    \A r \in Runs : At(r) = "released" => dir[r] = "none" /\ r \notin record

\* A run that is executing keeps its directory and its container, however long it
\* takes: the sweep's list of live runs is older than what it removes.
RunningIsSpared ==
    \A r \in Runs : At(r) = "executing" /\ row[r] = "running" => dir[r] = "checkout" /\ r \in box

\* What a killed process left, or one whose checkout failed half-way, is removed in the
\* end, and its branch can be checked out again.
DebrisIsRemoved ==
    \A r \in Runs :
        (At(r) \in {"dead", "refused"} /\ dir[r] # "none") ~> (dir[r] = "none" /\ r \notin box)

\* A branch is removed only if it never moved.
CommitsAreKept == [][\A b \in Branches, c \in Runs : Has(b, c) => Has(b, c)']_vars

\* A mirror that nobody is making has a remote.
MirrorsAreWhole == mirror = "torn" => \E r \in Runs : At(r) = "remote"
=============================================================================
