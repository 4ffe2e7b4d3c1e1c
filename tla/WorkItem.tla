------------------------------ MODULE WorkItem ------------------------------
(***************************************************************************)
(* What the queues and the forge share: a work item has one request, and   *)
(* one branch, named after it (vcs/refs.branch_for) in whatever run works  *)
(* on it.  Each process that runs `clawdence work` has an owner token.     *)
(***************************************************************************)
EXTENDS Integers, FiniteSets

CONSTANTS Items,     \* work items
          Workers,   \* processes running `clawdence work`
          NoOne,     \* no owner
          MaxHeads   \* bound: commits on a branch

ASSUME WorkItemAssumption ==
    IsFiniteSet(Items) /\ NoOne \notin Workers /\ MaxHeads \in Nat

\* A branch grows commit by commit, so a commit is its place on the branch and
\* contains every earlier one.
Heads == 1..MaxHeads

\* A branch that is absent, or at its base.
Unmoved == 0
=============================================================================
