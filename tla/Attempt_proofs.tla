---------------------------- MODULE Attempt_proofs ----------------------------
(***************************************************************************)
(* Proofs about what surrounds an attempt, one machine after the other.    *)
(* Each machine gets an invariant of its own, which no other disturbs.     *)
(***************************************************************************)
EXTENDS Attempt, FiniteSetTheorems, WellFoundedInduction, TLAPS

(***************************************************************************)
(* Checkouts: two runs of an item never share its branch, and no sweep     *)
(* acts on a run that may still need what it has.                          *)
(***************************************************************************)
Place(r) == process[r].at

\* Up to the lease a run's directory and container are new; past its execution nothing
\* of it needs to be spared.
Before == {"idle", "resolve", "leased"} \cup Checkout!Locked
After == {"publishing", "released", "refused", "dead"} \cup Checkout!Releasing

Spared(r) ==
    /\ Place(r) \in Before => age[r] = 0
    /\ Place(r) = "executing" => row[r] = "running" /\ r \in box
    /\ Place(r) \in {"sparse", "leased", "executing"} => dir[r] = "checkout"
    /\ r \in sweep.boxes \cup sweep.dirs => Place(r) \in After

Recorded(r) ==
    /\ dir[r] = "checkout" => r \in record
    /\ Place(r) \in {"pruneAfter", "delete", "released"} => dir[r] = "none"
    /\ Place(r) \in {"delete", "released"} => r \notin record

\* What release() is about to delete was empty when it looked.
Looked(r) ==
    /\ Place(r) \in {"remove", "pruneAfter"} /\ ~process[r].found => saw[r] = {}
    /\ Place(r) = "delete" => saw[r] = {}

\* Whoever holds the lock finishes what it made.
Made(r) == Place(r) = "remote" => mirror = "torn"

OnePerBranch == \A r, s \in record : BranchOf[r] = BranchOf[s] => r = s

DiskInv ==
    /\ Checkout!TypeOK
    /\ \A r \in Runs : /\ Spared(r) /\ Recorded(r) /\ Looked(r)
                       /\ Made(r)
    /\ OnePerBranch

LEMMA DiskInit == Init => DiskInv
<1>1. Init => \A r \in Runs : lock # r
  BY AttemptAssumption DEF Init, Checkout!Init, Checkout!CheckoutsAssumption
<1>2. Init => Checkout!TypeOK
  BY <1>1, AttemptAssumption
  DEF Init, Checkout!Init, Checkout!TypeOK, Checkout!CheckoutsAssumption, Checkout!Quiet,
      Checkout!Where, Checkout!Locked, Checkout!At
<1> QED
  BY <1>2 DEF Init, DiskInv, Checkout!Init, Checkout!Quiet, Checkout!Releasing, Place, Before, After, Spared, Recorded,
              Looked, Made, OnePerBranch

LEMMA DiskConstants ==
    BranchOf \in [Runs -> Branches] /\ Nobody \notin Runs /\ MaxCrashes \in Nat
BY AttemptAssumption DEF Checkout!CheckoutsAssumption

LEMMA DiskStep ==
    ASSUME DiskInv, Checkout!Next
    PROVE  DiskInv'
<1> USE DiskConstants
    DEF DiskInv, Spared, Recorded, Looked, Made, OnePerBranch, Place, Before, After,
        Checkout!TypeOK, Checkout!Goto, Checkout!At, Checkout!Tip,
        Checkout!CheckedOut, Checkout!StoreUnchanged, Checkout!TreeUnchanged, Checkout!Takes,
        Checkout!Gives, Checkout!Pruned, Checkout!Free, Checkout!ReleaseUnchanged,
        Checkout!SweepUnchanged, Checkout!Live, Checkout!Quiet, Checkout!Where, Checkout!Locked,
        Checkout!Leased, Checkout!Releasing
<1>1. ASSUME NEW r \in Runs, Checkout!Ensure(r) PROVE DiskInv'
  <2>1. process' \in [Runs -> [at : Checkout!Where, found : BOOLEAN]]
    BY <1>1, SMTT(40) DEF Checkout!Ensure
  <2>2. \A d \in Runs : lock' = d <=> process'[d].at \in Checkout!Locked
    BY <1>1, SMTT(40) DEF Checkout!Ensure
  <2>3. Checkout!TypeOK'
    BY <1>1, <2>1, <2>2, SMTT(40) DEF Checkout!Ensure
  <2>4. \A d \in Runs : Spared(d)'
    BY <1>1, SMTT(40) DEF Checkout!Ensure
  <2>5. \A d \in Runs : Recorded(d)' /\ Looked(d)' /\ Made(d)'
    BY <1>1, SMTT(40) DEF Checkout!Ensure
  <2>6. OnePerBranch'
    BY <1>1 DEF Checkout!Ensure
  <2> QED
    BY <2>3, <2>4, <2>5, <2>6
<1>2. ASSUME NEW r \in Runs, Checkout!Create(r) PROVE DiskInv'
  <2>1. process' \in [Runs -> [at : Checkout!Where, found : BOOLEAN]]
    BY <1>2, SMTT(40) DEF Checkout!Create
  <2>2. \A d \in Runs : lock' = d <=> process'[d].at \in Checkout!Locked
    BY <1>2, SMTT(40) DEF Checkout!Create
  <2>3. Checkout!TypeOK'
    BY <1>2, <2>1, <2>2, SMTT(40) DEF Checkout!Create
  <2>4. \A d \in Runs : Spared(d)'
    BY <1>2, SMTT(40) DEF Checkout!Create
  <2>5. \A d \in Runs : Recorded(d)' /\ Looked(d)' /\ Made(d)'
    BY <1>2, SMTT(40) DEF Checkout!Create
  <2>6. OnePerBranch'
    BY <1>2 DEF Checkout!Create
  <2> QED
    BY <2>3, <2>4, <2>5, <2>6
<1>3. ASSUME NEW r \in Runs, Checkout!AddRemote(r) PROVE DiskInv'
  <2>1. process' \in [Runs -> [at : Checkout!Where, found : BOOLEAN]]
    BY <1>3, SMTT(40) DEF Checkout!AddRemote
  <2>2. \A d \in Runs : lock' = d <=> process'[d].at \in Checkout!Locked
    BY <1>3, SMTT(40) DEF Checkout!AddRemote
  <2>3. Checkout!TypeOK'
    BY <1>3, <2>1, <2>2, SMTT(40) DEF Checkout!AddRemote
  <2>4. \A d \in Runs : Spared(d)'
    BY <1>3, SMTT(40) DEF Checkout!AddRemote
  <2>5. \A d \in Runs : Recorded(d)' /\ Looked(d)' /\ Made(d)'
    BY <1>3, SMTT(40) DEF Checkout!AddRemote
  <2>6. OnePerBranch'
    BY <1>3 DEF Checkout!AddRemote
  <2> QED
    BY <2>3, <2>4, <2>5, <2>6
<1>4. ASSUME NEW r \in Runs, Checkout!Fetch(r) PROVE DiskInv'
  <2>1. process' \in [Runs -> [at : Checkout!Where, found : BOOLEAN]]
    BY <1>4, SMTT(40) DEF Checkout!Fetch
  <2>2. \A d \in Runs : lock' = d <=> process'[d].at \in Checkout!Locked
    BY <1>4, SMTT(40) DEF Checkout!Fetch
  <2>3. Checkout!TypeOK'
    BY <1>4, <2>1, <2>2, SMTT(40) DEF Checkout!Fetch
  <2>4. \A d \in Runs : Spared(d)'
    BY <1>4, SMTT(40) DEF Checkout!Fetch
  <2>5. \A d \in Runs : Recorded(d)' /\ Looked(d)' /\ Made(d)'
    BY <1>4, SMTT(40) DEF Checkout!Fetch
  <2>6. OnePerBranch'
    BY <1>4 DEF Checkout!Fetch
  <2> QED
    BY <2>3, <2>4, <2>5, <2>6
<1>5. ASSUME NEW r \in Runs, Checkout!Resolve(r) PROVE DiskInv'
  <2>1. process' \in [Runs -> [at : Checkout!Where, found : BOOLEAN]]
    BY <1>5, SMTT(40) DEF Checkout!Resolve
  <2>2. \A d \in Runs : lock' = d <=> process'[d].at \in Checkout!Locked
    BY <1>5, SMTT(40) DEF Checkout!Resolve
  <2>3. Checkout!TypeOK'
    BY <1>5, <2>1, <2>2, SMTT(40) DEF Checkout!Resolve
  <2>4. \A d \in Runs : Spared(d)'
    BY <1>5, SMTT(40) DEF Checkout!Resolve
  <2>5. \A d \in Runs : Recorded(d)' /\ Looked(d)' /\ Made(d)'
    BY <1>5, SMTT(40) DEF Checkout!Resolve
  <2>6. OnePerBranch'
    BY <1>5 DEF Checkout!Resolve
  <2> QED
    BY <2>3, <2>4, <2>5, <2>6
<1>6. ASSUME NEW r \in Runs, Checkout!Prune(r) PROVE DiskInv'
  <2>1. process' \in [Runs -> [at : Checkout!Where, found : BOOLEAN]]
    BY <1>6, SMTT(40) DEF Checkout!Prune
  <2>2. \A d \in Runs : lock' = d <=> process'[d].at \in Checkout!Locked
    BY <1>6, SMTT(40) DEF Checkout!Prune
  <2>3. Checkout!TypeOK'
    BY <1>6, <2>1, <2>2, SMTT(40) DEF Checkout!Prune
  <2>4. \A d \in Runs : Spared(d)'
    BY <1>6, SMTT(40) DEF Checkout!Prune
  <2>5. \A d \in Runs : Recorded(d)' /\ Looked(d)' /\ Made(d)'
    BY <1>6, SMTT(40) DEF Checkout!Prune
  <2>6. OnePerBranch'
    BY <1>6 DEF Checkout!Prune
  <2> QED
    BY <2>3, <2>4, <2>5, <2>6
<1>7. ASSUME NEW r \in Runs, Checkout!BranchExists(r) PROVE DiskInv'
  BY <1>7 DEF Checkout!BranchExists
<1>8. ASSUME NEW r \in Runs, Checkout!Add(r) PROVE DiskInv'
  <2>1. Checkout!TypeOK'
    BY <1>8 DEF Checkout!Add
  <2>2. \A d \in Runs : Spared(d)' /\ Recorded(d)' /\ Looked(d)' /\ Made(d)'
    BY <1>8 DEF Checkout!Add
  <2>3. OnePerBranch'
    BY <1>8 DEF Checkout!Add
  <2> QED
    BY <2>1, <2>2, <2>3
<1>9. ASSUME NEW r \in Runs, Checkout!Refused(r) PROVE DiskInv'
  <2>1. process' \in [Runs -> [at : Checkout!Where, found : BOOLEAN]]
    BY <1>9, SMTT(40) DEF Checkout!Refused
  <2>2. \A d \in Runs : lock' = d <=> process'[d].at \in Checkout!Locked
    BY <1>9, SMTT(40) DEF Checkout!Refused
  <2>3. Checkout!TypeOK'
    BY <1>9, <2>1, <2>2, SMTT(40) DEF Checkout!Refused
  <2>4. \A d \in Runs : Spared(d)'
    BY <1>9, SMTT(40) DEF Checkout!Refused
  <2>5. \A d \in Runs : Recorded(d)' /\ Looked(d)' /\ Made(d)'
    BY <1>9, SMTT(40) DEF Checkout!Refused
  <2>6. OnePerBranch'
    BY <1>9 DEF Checkout!Refused
  <2> QED
    BY <2>3, <2>4, <2>5, <2>6
<1>10. ASSUME NEW r \in Runs, Checkout!Open(r) PROVE DiskInv'
  <2>1. process' \in [Runs -> [at : Checkout!Where, found : BOOLEAN]]
    BY <1>10, SMTT(40) DEF Checkout!Open
  <2>2. \A d \in Runs : lock' = d <=> process'[d].at \in Checkout!Locked
    BY <1>10, SMTT(40) DEF Checkout!Open
  <2>3. Checkout!TypeOK'
    BY <1>10, <2>1, <2>2, SMTT(40) DEF Checkout!Open
  <2>4. \A d \in Runs : Spared(d)'
    BY <1>10, SMTT(40) DEF Checkout!Open
  <2>5. \A d \in Runs : Recorded(d)' /\ Looked(d)' /\ Made(d)'
    BY <1>10, SMTT(40) DEF Checkout!Open
  <2>6. OnePerBranch'
    BY <1>10 DEF Checkout!Open
  <2> QED
    BY <2>3, <2>4, <2>5, <2>6
<1>11. ASSUME NEW r \in Runs, Checkout!Commit(r) PROVE DiskInv'
  BY <1>11 DEF Checkout!Commit
<1>12. ASSUME NEW r \in Runs, Checkout!Close(r) PROVE DiskInv'
  <2>1. process' \in [Runs -> [at : Checkout!Where, found : BOOLEAN]]
    BY <1>12, SMTT(40) DEF Checkout!Close
  <2>2. \A d \in Runs : lock' = d <=> process'[d].at \in Checkout!Locked
    BY <1>12, SMTT(40) DEF Checkout!Close
  <2>3. Checkout!TypeOK'
    BY <1>12, <2>1, <2>2, SMTT(40) DEF Checkout!Close
  <2>4. \A d \in Runs : Spared(d)'
    BY <1>12, SMTT(40) DEF Checkout!Close
  <2>5. \A d \in Runs : Recorded(d)' /\ Looked(d)' /\ Made(d)'
    BY <1>12, SMTT(40) DEF Checkout!Close
  <2>6. OnePerBranch'
    BY <1>12 DEF Checkout!Close
  <2> QED
    BY <2>3, <2>4, <2>5, <2>6
<1>13. ASSUME NEW r \in Runs, Checkout!Ends(r) PROVE DiskInv'
  <2>1. process' \in [Runs -> [at : Checkout!Where, found : BOOLEAN]]
    BY <1>13, SMTT(40) DEF Checkout!Ends
  <2>2. \A d \in Runs : lock' = d <=> process'[d].at \in Checkout!Locked
    BY <1>13, SMTT(40) DEF Checkout!Ends
  <2>3. Checkout!TypeOK'
    BY <1>13, <2>1, <2>2, SMTT(40) DEF Checkout!Ends
  <2>4. \A d \in Runs : Spared(d)'
    BY <1>13, SMTT(40) DEF Checkout!Ends
  <2>5. \A d \in Runs : Recorded(d)' /\ Looked(d)' /\ Made(d)'
    BY <1>13, SMTT(40) DEF Checkout!Ends
  <2>6. OnePerBranch'
    BY <1>13 DEF Checkout!Ends
  <2> QED
    BY <2>3, <2>4, <2>5, <2>6
<1>14. ASSUME NEW r \in Runs, Checkout!Look(r) PROVE DiskInv'
  <2>1. Checkout!TypeOK'
    BY <1>14 DEF Checkout!Look
  <2>2. ASSUME NEW d \in Runs PROVE Spared(d)' /\ Recorded(d)' /\ Looked(d)' /\ Made(d)'
    <3>1. Spared(d)'
      BY <1>14 DEF Checkout!Look
    <3>2. Recorded(d)' /\ Made(d)'
      BY <1>14 DEF Checkout!Look
    <3>3. Looked(d)'
      BY <1>14 DEF Checkout!Look
    <3> QED
      BY <3>1, <3>2, <3>3
  <2>3. OnePerBranch'
    BY <1>14 DEF Checkout!Look
  <2> QED
    BY <2>1, <2>2, <2>3
<1>15. ASSUME NEW r \in Runs, Checkout!Remove(r) PROVE DiskInv'
  BY <1>15 DEF Checkout!Remove
<1>16. ASSUME NEW r \in Runs, Checkout!PruneAfter(r) PROVE DiskInv'
  BY <1>16 DEF Checkout!PruneAfter
<1>17. ASSUME NEW r \in Runs, Checkout!Delete(r) PROVE DiskInv'
  <2>1. Checkout!TypeOK'
    BY <1>17 DEF Checkout!Delete
  <2>2. \A d \in Runs : Spared(d)' /\ Recorded(d)' /\ Looked(d)' /\ Made(d)'
    BY <1>17 DEF Checkout!Delete
  <2>3. OnePerBranch'
    BY <1>17 DEF Checkout!Delete
  <2> QED
    BY <2>1, <2>2, <2>3
<1>18. ASSUME NEW r \in Runs, Checkout!Age(r) PROVE DiskInv'
  BY <1>18 DEF Checkout!Age
<1>19. ASSUME NEW r \in Runs, Checkout!Halt(r) PROVE DiskInv'
  BY <1>19 DEF Checkout!Halt
<1>20. ASSUME NEW r \in Runs, Checkout!Crash(r) PROVE DiskInv'
  BY <1>20 DEF Checkout!Crash
<1>21. ASSUME NEW r \in Runs, Checkout!SweepBox(r) PROVE DiskInv'
  <2>1. Checkout!TypeOK'
    BY <1>21 DEF Checkout!SweepBox
  <2>2. \A d \in Runs : Spared(d)' /\ Recorded(d)' /\ Looked(d)' /\ Made(d)'
    BY <1>21 DEF Checkout!SweepBox
  <2>3. OnePerBranch'
    BY <1>21 DEF Checkout!SweepBox
  <2> QED
    BY <2>1, <2>2, <2>3
<1>22. ASSUME NEW r \in Runs, Checkout!SweepDir(r) PROVE DiskInv'
  <2>1. Checkout!TypeOK'
    BY <1>22 DEF Checkout!SweepDir
  <2>2. \A d \in Runs : Spared(d)' /\ Recorded(d)' /\ Looked(d)' /\ Made(d)'
    BY <1>22 DEF Checkout!SweepDir
  <2>3. OnePerBranch'
    BY <1>22 DEF Checkout!SweepDir
  <2> QED
    BY <2>1, <2>2, <2>3
<1>23. CASE Checkout!StartSweep
  BY <1>23 DEF Checkout!StartSweep
<1>24. CASE Checkout!EndSweep
  BY <1>24 DEF Checkout!EndSweep
<1>25. ASSUME NEW r \in Runs, Checkout!Sparse(r) PROVE DiskInv'
  <2>1. process' \in [Runs -> [at : Checkout!Where, found : BOOLEAN]]
    BY <1>25, SMTT(40) DEF Checkout!Sparse
  <2>2. \A d \in Runs : lock' = d <=> process'[d].at \in Checkout!Locked
    BY <1>25, SMTT(40) DEF Checkout!Sparse
  <2>3. Checkout!TypeOK'
    BY <1>25, <2>1, <2>2, SMTT(40) DEF Checkout!Sparse
  <2>4. \A d \in Runs : Spared(d)'
    BY <1>25, SMTT(40) DEF Checkout!Sparse
  <2>5. \A d \in Runs : Recorded(d)' /\ Looked(d)' /\ Made(d)'
    BY <1>25, SMTT(40) DEF Checkout!Sparse
  <2>6. OnePerBranch'
    BY <1>25 DEF Checkout!Sparse
  <2> QED
    BY <2>3, <2>4, <2>5, <2>6
<1> HIDE DEF DiskInv
<1> QED
  BY <1>1, <1>2, <1>3, <1>4, <1>5, <1>6, <1>7, <1>8, <1>9, <1>10, <1>11, <1>12, <1>13, <1>14, <1>15, <1>16, <1>17, <1>18, <1>19, <1>20, <1>21, <1>22, <1>23, <1>24, <1>25
  DEF Checkout!Next, Checkout!Acquire, Checkout!Release, Checkout!Sweep

LEMMA DiskStays ==
    ASSUME DiskInv, UNCHANGED checkout
    PROVE  DiskInv'
BY DEF DiskInv, Spared, Recorded, Looked, Made, OnePerBranch, Place, Before, After, checkout,
       Checkout!TypeOK, Checkout!At

LEMMA NextDisk == DiskInv /\ [Next]_vars => DiskInv'
BY DiskStep, DiskStays DEF Next, CheckoutMoves, WorkMoves, ContainersMove, OutputMoves, vars

(***************************************************************************)
(* A run that is executing keeps its checkout and its container through    *)
(* any sweep and has its branch to itself, a checkout that was given back  *)
(* is gone, and a mirror is made by one run at a time: for any number of   *)
(* runs and branches, processes killed wherever they are, and sweeps that  *)
(* act on what they read before.                                           *)
(***************************************************************************)
THEOREM CheckoutIsKept == Spec => []CheckoutIsTheRuns
<1>1. ASSUME DiskInv PROVE CheckoutIsTheRuns
  <2>1. Checkout!RunningIsSpared
    BY <1>1 DEF DiskInv, Spared, Place, Checkout!RunningIsSpared, Checkout!At
  <2>2. Checkout!OneCheckoutPerBranch
    BY <1>1 DEF DiskInv, Recorded, OnePerBranch, Checkout!OneCheckoutPerBranch
  <2>3. Checkout!ReleasedLeavesNothing
    BY <1>1 DEF DiskInv, Recorded, Place, Checkout!ReleasedLeavesNothing, Checkout!At
  <2>4. Checkout!MirrorIsMadeOnce
    BY <1>1 DEF DiskInv, Made, Place, Checkout!TypeOK, Checkout!Locked, Checkout!MirrorIsMadeOnce,
                Checkout!At
  <2> QED
    BY <2>1, <2>2, <2>3, <2>4 DEF CheckoutIsTheRuns
<1> QED
  BY <1>1, DiskInit, NextDisk, PTL DEF Spec

(***************************************************************************)
(* Nothing that was on a branch when release() looked is deleted by it,    *)
(* and no fetch, sweep or crash takes a commit from a branch.              *)
(***************************************************************************)
THEOREM SeenCommitsStay == Spec => Checkout!SeenCommitsAreKept
<1>1. ASSUME DiskInv, Next, NEW b \in Branches, NEW c \in Runs,
             Checkout!Has(b, c), ~Checkout!Has(b, c)'
      PROVE  \E r \in Runs : Checkout!Delete(r) /\ BranchOf[r] = b /\ saw[r] = {}
  <2>1. branch' # branch /\ Checkout!Next
    BY <1>1 DEF Next, CheckoutMoves, WorkMoves, ContainersMove, OutputMoves, checkout, Checkout!Has
  <2>2. branch \in [Branches -> (SUBSET Runs) \cup {Nobody}]
    BY <1>1 DEF DiskInv, Checkout!TypeOK
  <2>3. PICK r \in Runs : Checkout!Add(r) \/ Checkout!Commit(r) \/ Checkout!Delete(r)
    BY <2>1
    DEF Checkout!Next, Checkout!Acquire, Checkout!Ensure, Checkout!Create, Checkout!AddRemote,
        Checkout!Fetch, Checkout!Resolve, Checkout!Prune, Checkout!BranchExists, Checkout!Refused,
        Checkout!Sparse, Checkout!Open, Checkout!Close, Checkout!Ends, Checkout!Release, Checkout!Look,
        Checkout!Remove, Checkout!PruneAfter, Checkout!Age, Checkout!Halt, Checkout!Crash,
        Checkout!Sweep, Checkout!StartSweep, Checkout!EndSweep, Checkout!SweepBox,
        Checkout!SweepDir, Checkout!SweepUnchanged
  <2>4. ~Checkout!Add(r)
    BY <1>1, <2>2 DEF Checkout!Add, Checkout!Has
  <2>5. ~Checkout!Commit(r)
    BY <1>1, <2>2, AttemptAssumption DEF Checkout!Commit, Checkout!Has, Checkout!CheckoutsAssumption
  <2>6. saw[r] = {} /\ BranchOf[r] = b
    BY <1>1, <2>2, <2>3, <2>4, <2>5
    DEF DiskInv, Looked, Place, Checkout!Delete, Checkout!At, Checkout!Has
  <2> QED
    BY <2>3, <2>4, <2>5, <2>6
<1> DEFINE Kept == \A b \in Branches, c \in Runs :
                     Checkout!Has(b, c) /\ ~Checkout!Has(b, c)'
                       => \E r \in Runs : Checkout!Delete(r) /\ BranchOf[r] = b /\ saw[r] = {}
<1>2. DiskInv /\ [Next]_vars => [Kept]_(Checkout!vars)
  BY <1>1 DEF vars, checkout, Checkout!vars
<1> QED
  BY <1>2, DiskInit, NextDisk, PTL DEF Spec, Checkout!SeenCommitsAreKept

-----------------------------------------------------------------------------
(***************************************************************************)
(* Collection: what the runner installs in a worktree leaves it again.     *)
(***************************************************************************)
Guide == Work!Guide
Plan == Work!Plan
Absent == Work!Absent

WorkTypes ==
    /\ tree \in [Work!Paths -> Work!Texts] /\ head \in [Work!Paths -> Work!Texts]
    /\ excluded \subseteq {Guide, Plan}
    /\ commits \in [agent : 0..1, runner : Nat]
    /\ verdict.by \in Nat /\ attempt \in Nat
    /\ phase \in {"idle", "agent", "collect", "tidy"}
    /\ wrote \subseteq Work!Paths \ {Plan} /\ DOMAIN left \subseteq wrote
    /\ seen \subseteq Work!Signals

\* What is installed while an attempt lasts: the plan, and the guide with a text.
Guided == Guide \in DOMAIN installed

InstalledIsKnown ==
    IF phase = "idle" THEN DOMAIN installed = {}
    ELSE /\ Plan \in DOMAIN installed /\ DOMAIN installed \subseteq excluded
         /\ installed[Plan] = Plan
         /\ Guided => installed[Guide] \in Work!Texts \ {Absent}

AtWork == phase \in {"agent", "collect"}

\* Nobody but an agent writes a path that is not installed.
UntouchedStays ==
    \A p \in Work!Paths \ {Guide, Plan} :
        p \notin wrote => tree[p] = Work!Base[p] /\ head[p] = Work!Base[p]

\* What the agent left is there until it is collected.
LeftIsThere == AtWork => \A p \in DOMAIN left : tree[p] = left[p]

\* Where no agent wrote the guide it is what was installed, or what the repository has,
\* or it is gone with an attempt that unwound, and will be installed again.
GuideIsOurs ==
    Guide \notin wrote =>
        /\ AtWork => tree[Guide] = IF Guided THEN installed[Guide] ELSE Work!Base[Guide]
        /\ phase = "tidy" => \/ tree[Guide] = Work!Base[Guide]
                             \/ Guided /\ tree[Guide] = installed[Guide]
        /\ phase = "idle" => \/ tree[Guide] = Work!Base[Guide]
                             \/ tree[Guide] = Absent /\ tree[Source] # Absent

\* A tracked guide is in every commit, and one that is installed has its source.
TrackedGuideStays ==
    Guide \in Tracked =>
        /\ head[Guide] # Absent
        /\ phase # "idle" => tree[Guide] # Absent
        /\ tree[Guide] # Absent \/ tree[Source] # Absent
        /\ Guided => tree[Source] # Absent

\* An agent's text of the guide is not the one that was installed.
EditIsNotOurs ==
    AtWork /\ Guide \in Tracked /\ Guided =>
        IF Guide \in DOMAIN left THEN left[Guide] = "edit" /\ installed[Guide] # "edit"
        ELSE tree[Guide] = installed[Guide]

VerdictIsThisAttempts ==
    AtWork => verdict.by \in {0, attempt} \/ verdict.says = "unreadable"

WorkInv ==
    /\ WorkTypes /\ InstalledIsKnown /\ VerdictIsThisAttempts
    /\ ASuccessIsThisAttempts

\* Where the repository tracks the guide, it is installed from another path, and agents
\* remove neither.
GuideIsSafe == Guide \in Tracked => Guide \notin Deletable /\ Source \notin Deletable \cup {Guide}

BranchInv ==
    /\ WorkInv /\ UntouchedStays /\ LeftIsThere
    /\ GuideIsOurs /\ TrackedGuideStays /\ EditIsNotOurs
    /\ BranchIsTheAgentsWork

LEMMA WorkConstants ==
    /\ Tracked \subseteq Work!Paths \ {Plan} /\ Source \in Work!Paths \ {Plan}
    /\ Deletable \subseteq Work!Paths \ {Plan}
    /\ \A e \in Endings : e \subseteq Work!Signals
BY AttemptAssumption DEF Work!CollectionAssumption, Plan

LEMMA KnownSignals ==
    {"startup_error", "verdict_blocked", "tests_failed", "dropped_commit", "empty_diff"}
        \subseteq Work!Signals
<1>1. /\ {2, 12, 13, 14, 15} \subseteq DOMAIN Work!Rank
      /\ Work!Rank[2].signal = "startup_error" /\ Work!Rank[12].signal = "verdict_blocked"
      /\ Work!Rank[13].signal = "tests_failed" /\ Work!Rank[14].signal = "dropped_commit"
      /\ Work!Rank[15].signal = "empty_diff"
  BY DEF Work!Rank
<1> QED
  BY <1>1 DEF Work!Signals

\* An attempt that has any signal is not called a success.
LEMMA SucceededHasNoSignal ==
    ASSUME NEW signals \in SUBSET Work!Signals, Work!classify(signals) = "SUCCEEDED"
    PROVE  signals = {}
<1> SUFFICES ASSUME signals # {} PROVE FALSE
  OBVIOUS
<1> DEFINE ranks == {i \in DOMAIN Work!Rank : Work!Rank[i].signal \in signals}
           Top(i) == /\ Work!Rank[i].signal \in signals
                     /\ \A j \in 1..(i - 1) : Work!Rank[j].signal \notin signals
<1>1. DOMAIN Work!Rank = 1..15 /\ \A i \in DOMAIN Work!Rank : Work!Rank[i].outcome # "SUCCEEDED"
  BY DEF Work!Rank
<1>2. ranks # {} /\ ranks \subseteq Nat
  BY <1>1 DEF Work!Signals
<1>3. PICK i \in ranks : \A j \in ranks : i <= j
  <2>1. OpToRel(<, Nat) = {p \in Nat \X Nat : p[1] < p[2]}
    BY Zenon DEF OpToRel
  <2>2. IsWellFoundedOn({p \in Nat \X Nat : p[1] < p[2]}, Nat)
    BY <2>1, NatLessThanWellFounded, Zenon
  <2>3. PICK i \in ranks : \A j \in ranks : ~ (<<j, i>> \in {p \in Nat \X Nat : p[1] < p[2]})
    BY <1>2, <2>2, WFMin
  <2>4. ASSUME NEW j \in ranks PROVE i <= j
    <3>1. i \in Nat /\ j \in Nat /\ ~ (j < i)
      BY <1>2, <2>3
    <3> QED
      BY <3>1
  <2> QED
    BY <2>4
<1>4. i \in DOMAIN Work!Rank /\ Top(i)
  BY <1>1, <1>3
<1>5. (CHOOSE n \in DOMAIN Work!Rank : Top(n)) \in DOMAIN Work!Rank
  BY <1>4
<1>6. Work!classify(signals) = Work!Rank[CHOOSE n \in DOMAIN Work!Rank : Top(n)].outcome
  BY DEF Work!classify
<1> QED
  BY <1>1, <1>5, <1>6

LEMMA SameCardinality == \A S : Work!Cardinality(S) = Cardinality(S)
BY Zenon DEF Work!Cardinality, Cardinality

LEMMA JudgedKnown ==
    ASSUME NEW v, NEW ahead, NEW theirs, NEW changed
    PROVE  /\ Work!Judged(v, ahead, theirs, changed)
                 \subseteq {"verdict_blocked", "tests_failed", "dropped_commit", "empty_diff"}
           /\ Work!Judged(v, ahead, theirs, changed) = {} =>
                 changed # {} /\ (ahead = 0 => theirs = {})
BY DEF Work!Judged

\* What a collected attempt that is called a success has to show.
LEMMA CollectSucceeds ==
    ASSUME WorkInv, Work!Collect, result'.outcome = "SUCCEEDED"
    PROVE  /\ result'.verdict.by \in {0, attempt}
           /\ result'.changed > 0 /\ result'.hash
           /\ ~result'.claimed /\ result'.dropped => commits'.runner > 1
<1> DEFINE theirs == {p \in Work!Pending(tree, head, excluded) : ~Work!owns(tree, p)}
           back == Work!Reclaimed(tree)
           swept == Work!Pending(back, head, excluded)
           final == Work!CommitAll(back, head, excluded)
           judged == Work!Judged(verdict.says, Work!Ahead, theirs, Work!Changed(final))
           says == IF verdict.says = "unreadable" THEN Work!NoVerdict ELSE verdict
<1>1. /\ result' = Work!Report(verdict, Work!Ahead, theirs, final)
      /\ commits' = [commits EXCEPT !.runner = @ + (IF swept # {} THEN 1 ELSE 0)]
      /\ phase = "collect"
  BY DEF Work!Collect
<1> HIDE DEF theirs, swept, final, judged, says
<1>2. result'.outcome = Work!classify(seen \cup judged)
  BY <1>1 DEF Work!Report, judged
<1>3. result'.verdict = says /\ result'.changed = Work!Cardinality(Work!Changed(final))
  BY <1>1 DEF Work!Report, says
<1>4. /\ result'.hash <=> result'.outcome \in Work!ProducedATree
      /\ result'.claimed <=> commits.agent > 0
      /\ result'.dropped <=> theirs # {}
  BY <1>1 DEF Work!Report
<1>5. seen \cup judged = {}
  <2>1. judged \subseteq {"verdict_blocked", "tests_failed", "dropped_commit", "empty_diff"}
    BY JudgedKnown DEF judged
  <2>2. seen \cup judged \in SUBSET Work!Signals
    BY <2>1, KnownSignals DEF WorkInv, WorkTypes
  <2>3. Work!classify(seen \cup judged) = "SUCCEEDED"
    BY <1>2
  <2> QED
    BY <2>2, <2>3, SucceededHasNoSignal
<1>6. Work!Changed(final) # {} /\ (Work!Ahead = 0 => theirs = {})
  BY <1>5, JudgedKnown DEF judged
<1>7. result'.changed > 0 /\ result'.hash
  <2>1. IsFiniteSet(Work!Paths)
    <3>1. Work!Paths = {Work!Guide} \cup ({Work!Plan} \cup ({"CONVENTIONS.md"} \cup {"code"}))
      BY DEF Work!Paths
    <3> QED
      BY <3>1, FS_Singleton, FS_Union
  <2>2. IsFiniteSet(Work!Changed(final))
    BY <2>1, FS_Subset DEF Work!Changed
  <2>3. \A S : IsFiniteSet(S) /\ S # {} => Cardinality(S) \in Nat /\ Cardinality(S) # 0
    BY FS_CardinalityType, FS_EmptySet
  <2>4. result'.changed \in Nat /\ result'.changed # 0
    BY <1>3, <1>6, <2>2, <2>3, SameCardinality
  <2> QED
    BY <1>4, <2>4 DEF Work!ProducedATree
<1>8. result'.verdict.by \in {0, attempt}
  BY <1>1, <1>3 DEF WorkInv, VerdictIsThisAttempts, AtWork, Work!NoVerdict, says
<1>9. ASSUME ~result'.claimed, result'.dropped PROVE commits'.runner > 1
  <2>1. theirs # {} => swept # {}
    BY DEF Work!Pending, Work!Reclaimed, theirs, swept
  <2>2. commits.agent = 0 /\ theirs # {} /\ commits.agent + commits.runner # 0
    BY <1>4, <1>6, <1>9 DEF WorkInv, WorkTypes, Work!Ahead
  <2> QED
    BY <1>1, <2>1, <2>2 DEF WorkInv, WorkTypes
<1> QED
  BY <1>7, <1>8, <1>9

LEMMA WorkInit == Init => WorkInv
BY DEF Init, Work!Init, WorkInv, WorkTypes, InstalledIsKnown, VerdictIsThisAttempts, AtWork,
       ASuccessIsThisAttempts, Work!ASuccessIsThisAttempts, Work!Base, Work!Texts, Work!Nothing,
       Work!NoVerdict, Guided, Guide, Plan

LEMMA WorkStep ==
    ASSUME WorkInv, Work!Next
    PROVE  WorkInv'
<1> USE WorkConstants, KnownSignals
    DEF WorkInv, WorkTypes, InstalledIsKnown, VerdictIsThisAttempts, AtWork, Guided, Guide, Plan,
        Absent, ASuccessIsThisAttempts, Work!ASuccessIsThisAttempts, Work!Git, Work!Nothing,
        Work!NoVerdict, Work!NoResult, Work!Over, Work!Pending, Work!CommitAll, Work!Base,
        Work!Texts, Work!Paths, Work!Guide, Work!Plan, Work!Absent
<1>1. CASE Work!Prepare
  BY <1>1 DEF Work!Prepare, Work!Conventions, Work!cleared
<1>2. CASE Work!NotRunnable
  BY <1>2 DEF Work!NotRunnable
<1>3. CASE Work!AgentEdits \/ Work!AgentRemoves
  <2>1. PICK p \in Work!Paths \ {Plan}, text \in Work!Texts : Work!Edit(p, text)
    BY <1>3 DEF Work!AgentEdits, Work!AgentRemoves
  <2> QED
    BY <2>1 DEF Work!Edit
<1>4. CASE Work!AgentCommits
  BY <1>4 DEF Work!AgentCommits
<1>5. CASE Work!AgentReports
  BY <1>5 DEF Work!AgentReports
<1>6. CASE Work!AgentEnds
  BY <1>6 DEF Work!AgentEnds
<1>7. CASE Work!Unwinds
  BY <1>7 DEF Work!Unwinds
<1>8. CASE Work!Collect
  <2>1. WorkTypes'
    <3>1. Work!Reclaimed(tree) \in [Work!Paths -> Work!Texts]
      BY DEF Work!Reclaimed
    <3> HIDE DEF WorkInv
    <3> QED
      BY <1>8, <3>1 DEF WorkInv, Work!Collect
  <2>4. InstalledIsKnown' /\ VerdictIsThisAttempts'
    BY <1>8 DEF Work!Collect
  <2>2. attempt' = attempt
    BY <1>8 DEF Work!Collect
  <2> HIDE DEF WorkInv, Work!NoResult
  <2>3. ASuccessIsThisAttempts'
    BY <1>8, <2>2, CollectSucceeds
  <2> QED
    BY <2>1, <2>3, <2>4 DEF WorkInv
<1>9. CASE Work!Unreadable
  <2>1. seen \cup {"startup_error"} \in SUBSET Work!Signals
    OBVIOUS
  <2>2. Work!classify(seen \cup {"startup_error"}) # "SUCCEEDED"
    BY <2>1, SucceededHasNoSignal
  <2>3. (WorkTypes /\ InstalledIsKnown /\ VerdictIsThisAttempts)'
    BY <1>9, <2>1 DEF Work!Unreadable
  <2>4. ASuccessIsThisAttempts'
    BY <1>9, <2>2 DEF Work!Unreadable
  <2> QED
    BY <2>3, <2>4
<1>10. CASE Work!Tidy
  BY <1>10 DEF Work!Tidy
<1> QED
  BY <1>1, <1>2, <1>3, <1>4, <1>5, <1>6, <1>7, <1>8, <1>9, <1>10 DEF Work!Next

\* Where nobody wrote, what is collected is the base.
LEMMA CollectKeepsTheBase ==
    ASSUME BranchInv, GuideIsSafe, Work!Collect, NEW p \in Work!Paths, p \notin wrote
    PROVE  head'[p] = Work!Base[p]
<1> DEFINE back == Work!Reclaimed(tree)
<1>1. head' = Work!CommitAll(back, head, excluded) /\ phase = "collect"
  BY DEF Work!Collect
<1>2. head'[p] = IF back[p] # head[p] /\ (head[p] # Absent \/ p \notin excluded) THEN back[p] ELSE head[p]
  BY <1>1 DEF Work!CommitAll, Work!Pending, Absent
<1>3. back[p] = IF p \in DOMAIN installed /\ Work!owns(tree, p) THEN Work!Base[p] ELSE tree[p]
  BY DEF Work!Reclaimed
<1>4. CASE p \notin {Guide, Plan}
  BY <1>1, <1>2, <1>3, <1>4 DEF BranchInv, WorkInv, InstalledIsKnown, WorkTypes, UntouchedStays
<1>5. CASE p = Plan
  <2>1. Work!Base[p] = Absent
    BY <1>5, WorkConstants DEF Work!Base, Absent
  <2>2. back[p] = Absent
    BY <1>1, <1>3, <1>5, <2>1 DEF BranchInv, WorkInv, InstalledIsKnown, Work!owns, Plan
  <2> QED
    BY <1>2, <2>1, <2>2
<1>6. CASE p = Guide
  <2>1. back[p] = Work!Base[p]
    BY <1>1, <1>3, <1>6
    DEF BranchInv, WorkInv, InstalledIsKnown, GuideIsOurs, AtWork, Guided, Work!owns, Absent
  <2>2. Guide \in Tracked => head[p] # Absent
    BY <1>6 DEF BranchInv, TrackedGuideStays
  <2>3. Guide \notin Tracked => Work!Base[p] = Absent
    BY <1>6 DEF Work!Base, Absent
  <2> QED
    BY <1>2, <2>1, <2>2, <2>3
<1> QED
  BY <1>4, <1>5, <1>6

\* What the agent left, and git sees, is collected as it is.
LEMMA CollectTakesTheWork ==
    ASSUME BranchInv, GuideIsSafe, Work!Collect,
           NEW p \in DOMAIN left, Work!Base[p] # Absent \/ p \notin excluded
    PROVE  head'[p] = left[p]
<1> DEFINE back == Work!Reclaimed(tree)
<1>1. head' = Work!CommitAll(back, head, excluded) /\ phase = "collect"
  BY DEF Work!Collect
<1>2. p \in Work!Paths \ {Plan} /\ tree[p] = left[p]
  BY <1>1 DEF BranchInv, WorkInv, WorkTypes, LeftIsThere, AtWork
<1>3. head'[p] = IF back[p] # head[p] /\ (head[p] # Absent \/ p \notin excluded) THEN back[p] ELSE head[p]
  BY <1>1, <1>2 DEF Work!CommitAll, Work!Pending, Absent
<1>4. back[p] = IF p \in DOMAIN installed /\ Work!owns(tree, p) THEN Work!Base[p] ELSE tree[p]
  BY <1>2 DEF Work!Reclaimed
<1>5. Work!Base[p] # Absent => p \in Tracked
  BY <1>2 DEF Work!Base, Absent
<1>6. p \in excluded => p = Guide
  BY <1>2 DEF BranchInv, WorkInv, WorkTypes
<1>7. back[p] = tree[p]
  BY <1>1, <1>2, <1>4, <1>5, <1>6
  DEF BranchInv, WorkInv, InstalledIsKnown, EditIsNotOurs, AtWork, Guided, Work!owns, Plan
<1>8. p \in excluded => head[p] # Absent
  BY <1>5, <1>6 DEF BranchInv, TrackedGuideStays
<1> QED
  BY <1>2, <1>3, <1>7, <1>8

LEMMA BranchInit == Init => BranchInv
<1>1. Init => UntouchedStays /\ LeftIsThere /\ GuideIsOurs /\ EditIsNotOurs
  BY DEF Init, Work!Init, UntouchedStays, LeftIsThere, GuideIsOurs, EditIsNotOurs, AtWork
<1>2. Init => TrackedGuideStays
  BY DEF Init, Work!Init, TrackedGuideStays, Guided, Work!Nothing, Work!Base, Work!Paths, Guide, Absent,
         Work!Guide, Work!Absent
<1>3. Init => BranchIsTheAgentsWork
  BY DEF Init, Work!Init, BranchIsTheAgentsWork, Work!OnlyTheAgentsWorkIsOnTheBranch,
         Work!TheAgentsWorkIsOnTheBranch, Work!Collected
<1> QED
  BY <1>1, <1>2, <1>3, WorkInit DEF BranchInv

LEMMA BranchStep ==
    ASSUME BranchInv, GuideIsSafe, Work!Next
    PROVE  BranchInv'
<1>1. WorkInv'
  BY WorkStep DEF BranchInv
<1> USE WorkConstants
    DEF BranchInv, WorkInv, WorkTypes, InstalledIsKnown, AtWork, Guided, Guide, Plan, Absent,
        GuideIsSafe, UntouchedStays, LeftIsThere, GuideIsOurs, TrackedGuideStays, EditIsNotOurs,
        BranchIsTheAgentsWork, Work!OnlyTheAgentsWorkIsOnTheBranch,
        Work!TheAgentsWorkIsOnTheBranch, Work!Collected, Work!Git, Work!Nothing, Work!NoResult,
        Work!Over, Work!Pending, Work!CommitAll, Work!Base, Work!Texts, Work!Paths, Work!Guide,
        Work!Plan, Work!Absent, Work!owns
<1>2. CASE Work!Prepare
  <2>1. BranchIsTheAgentsWork'
    BY <1>2 DEF Work!Prepare
  <2>2. UntouchedStays' /\ LeftIsThere'
    BY <1>2 DEF Work!Prepare, Work!Conventions
  <2>3. GuideIsOurs' /\ EditIsNotOurs'
    BY <1>2 DEF Work!Prepare, Work!Conventions
  <2>4. TrackedGuideStays'
    BY <1>2 DEF Work!Prepare, Work!Conventions
  <2> QED
    BY <1>1, <2>1, <2>2, <2>3, <2>4
<1>3. CASE Work!NotRunnable
  BY <1>1, <1>3 DEF Work!NotRunnable
<1>4. CASE Work!AgentEdits \/ Work!AgentRemoves
  <2>1. PICK p \in Work!Paths \ {Plan}, text \in {"edit", Absent} :
             Work!Edit(p, text) /\ (text = "edit" \/ p \in Deletable)
    BY <1>4 DEF Work!AgentEdits, Work!AgentRemoves
  <2>2. BranchIsTheAgentsWork'
    BY <2>1 DEF Work!Edit
  <2>3. UntouchedStays' /\ LeftIsThere' /\ GuideIsOurs'
    BY <2>1 DEF Work!Edit
  <2>4. TrackedGuideStays' /\ EditIsNotOurs'
    BY <2>1 DEF Work!Edit
  <2> QED
    BY <1>1, <2>2, <2>3, <2>4
<1>5. CASE Work!AgentCommits
  BY <1>1, <1>5 DEF Work!AgentCommits
<1>6. CASE Work!AgentReports
  BY <1>1, <1>6 DEF Work!AgentReports
<1>7. CASE Work!AgentEnds
  BY <1>1, <1>7 DEF Work!AgentEnds
<1>8. CASE Work!Unwinds
  BY <1>1, <1>8 DEF Work!Unwinds
<1>9. CASE Work!Collect
  <2>1. UntouchedStays' /\ LeftIsThere'
    BY <1>9 DEF Work!Collect, Work!Reclaimed
  <2>2. GuideIsOurs' /\ EditIsNotOurs'
    BY <1>9 DEF Work!Collect, Work!Reclaimed
  <2>3. TrackedGuideStays'
    BY <1>9 DEF Work!Collect, Work!Reclaimed
  <2>4. wrote' = wrote /\ left' = left /\ excluded' = excluded
    BY <1>9 DEF Work!Collect
  <2>5. BranchIsTheAgentsWork'
    <3>1. \A p \in Work!Paths : p \notin wrote => head'[p] = Work!Base[p]
      BY <1>9, CollectKeepsTheBase
    <3>2. \A p \in DOMAIN left : Work!Base[p] # Absent \/ p \notin excluded => head'[p] = left[p]
      BY <1>9, CollectTakesTheWork
    <3> HIDE DEF BranchInv
    <3> QED
      BY <2>4, <3>1, <3>2 DEF Work!Changed
  <2> QED
    BY <1>1, <2>1, <2>2, <2>3, <2>5
<1>10. CASE Work!Unreadable
  BY <1>1, <1>10 DEF Work!Unreadable
<1>11. CASE Work!Tidy
  <2>1. BranchIsTheAgentsWork'
    BY <1>11 DEF Work!Tidy
  <2>2. UntouchedStays' /\ LeftIsThere' /\ EditIsNotOurs'
    BY <1>11 DEF Work!Tidy
  <2>3. GuideIsOurs' /\ TrackedGuideStays'
    BY <1>11 DEF Work!Tidy
  <2> QED
    BY <1>1, <2>1, <2>2, <2>3
<1> QED
  BY <1>2, <1>3, <1>4, <1>5, <1>6, <1>7, <1>8, <1>9, <1>10, <1>11 DEF Work!Next

LEMMA WorkStays ==
    ASSUME WorkInv, UNCHANGED work
    PROVE  WorkInv'
BY DEF WorkInv, WorkTypes, InstalledIsKnown, VerdictIsThisAttempts, ASuccessIsThisAttempts, AtWork,
       Guided, work, Work!ASuccessIsThisAttempts

LEMMA BranchStays ==
    ASSUME BranchInv, UNCHANGED work
    PROVE  BranchInv'
<1>1. WorkInv'
  BY WorkStays DEF BranchInv
<1> QED
  BY <1>1
  DEF BranchInv, UntouchedStays, LeftIsThere, GuideIsOurs, TrackedGuideStays, EditIsNotOurs, AtWork,
      Guided, BranchIsTheAgentsWork, Work!OnlyTheAgentsWorkIsOnTheBranch,
      Work!TheAgentsWorkIsOnTheBranch, Work!Collected, Work!Changed, work

(***************************************************************************)
(* A success rests on this attempt: no verdict of an earlier one, no empty *)
(* branch, and no work that was dropped and never committed makes one,     *)
(* whatever is tracked, installed, deleted, and however many attempts      *)
(* share the worktree.                                                     *)
(***************************************************************************)
THEOREM SuccessIsEarned == Spec => []ASuccessIsThisAttempts
<1>1. WorkInv /\ [Next]_vars => WorkInv'
  BY WorkStep, WorkStays DEF Next, CheckoutMoves, WorkMoves, ContainersMove, OutputMoves, vars
<1>2. WorkInv => ASuccessIsThisAttempts
  BY DEF WorkInv
<1> QED
  BY <1>1, <1>2, WorkInit, PTL DEF Spec

(***************************************************************************)
(* The branch of a collected attempt is what agents wrote and nothing      *)
(* else: what the runner installs reaches no commit that is handed on,     *)
(* however often agents commit it and attempts unwind, and what the agent  *)
(* left is all there.  It needs GuideIsSafe; the run guide_removed shows   *)
(* what is lost where the guide is its own source.                         *)
(***************************************************************************)
THEOREM BranchIsTheirs ==
    ASSUME GuideIsSafe
    PROVE  Spec => []BranchIsTheAgentsWork
<1>1. BranchInv /\ [Next]_vars => BranchInv'
  BY BranchStep, BranchStays DEF Next, CheckoutMoves, WorkMoves, ContainersMove, OutputMoves, vars
<1>2. BranchInv => BranchIsTheAgentsWork
  BY DEF BranchInv
<1> QED
  BY <1>1, <1>2, BranchInit, PTL DEF Spec

-----------------------------------------------------------------------------
(***************************************************************************)
(* Siblings: a sweep takes no container that another attempt tests with.   *)
(***************************************************************************)
In(phaseOf) == [in |-> phaseOf]
Started == DOMAIN by

\* An attempt goes through its phases once; these are the ones after its agent's.
Ended == {"ended", "asking", "answered", "removing", "over"}

Tasks == {In(p) : p \in {"idle", "listing", "refused", "agent", "ended", "over"}}
            \cup [in : {"listed"}, found : SUBSET Started]
            \cup [in : {"asking"}, before : SUBSET Started]
            \cup [in : {"answered"}, before : SUBSET Started, found : SUBSET Started]
            \cup [in : {"removing"}, claimed : SUBSET Started]

SocketTypes ==
    /\ \E n \in 0 .. MaxSessions : Started = 1 .. n
    /\ DOMAIN during = Started /\ live \subseteq Started
    /\ at \in [Attempts -> Tasks]
    /\ \A a \in DOMAIN snapshots : snapshots[a] \subseteq Started
    /\ failed \in BOOLEAN

\* A session was started while its attempt's agent ran, after the attempt's snapshot.
OwnedSession(s) ==
    by[s] # Containers!Developer =>
        /\ by[s] \in Attempts /\ at[by[s]].in \in {"agent"} \cup Ended
        /\ by[s] \in DOMAIN snapshots => s \notin snapshots[by[s]]

\* What an attempt finds was there before it, or appeared while it watched.
FoundOrWatched(a, found, before) == \A s \in found : s \in before \/ a \in during[s].snapshot

Watches(a) ==
    /\ at[a].in = "listed" => FoundOrWatched(a, live, at[a].found)
    /\ at[a].in \in {"agent", "ended"} => FoundOrWatched(a, live, snapshots[a])
    /\ at[a].in = "asking" => FoundOrWatched(a, live, at[a].before)
    /\ at[a].in = "answered" => FoundOrWatched(a, at[a].found, at[a].before)
    /\ at[a].in = "removing" => FoundOrWatched(a, at[a].claimed, {})

\* Nobody tests with what was claimed, nor will again.
Unused(s) == by[s] # Containers!Developer => at[by[s]].in \in Ended

SnapshotsAreKept == \A a \in Attempts : at[a].in \in {"agent", "ended"} => a \in DOMAIN snapshots
SessionsAreOwned == \A s \in Started : OwnedSession(s)
FoundIsNew == ~failed => \A a \in Attempts : Watches(a)
ClaimedIsUnused == \A a \in Attempts : at[a].in = "removing" => \A s \in at[a].claimed : Unused(s)

SocketInv == SocketTypes /\ SnapshotsAreKept /\ SessionsAreOwned /\ FoundIsNew /\ ClaimedIsUnused

LEMMA NewSession ==
    ASSUME SocketTypes, NEW s, s = Containers!Cardinality(Containers!Started) + 1,
           Containers!Cardinality(Containers!Started) < MaxSessions
    PROVE  s \notin Started /\ \E n \in 0 .. MaxSessions : Started \cup {s} = 1 .. n
<1>1. PICK n \in 0 .. MaxSessions : Started = 1 .. n
  BY DEF SocketTypes
<1>2. MaxSessions \in Nat
  BY AttemptAssumption DEF Containers!SiblingsAssumption
<1>3. Cardinality(1 .. n) = n
  BY <1>2, FS_Interval
<1>4. Containers!Cardinality(Containers!Started) = Cardinality(Started)
  BY Zenon DEF Containers!Cardinality, Cardinality, Containers!Started, Started
<1>5. s = n + 1 /\ n + 1 \in 0 .. MaxSessions
  BY <1>1, <1>2, <1>3, <1>4
<1>6. Started \cup {s} = 1 .. n + 1
  BY <1>1, <1>2, <1>5
<1> QED
  BY <1>1, <1>2, <1>5, <1>6

LEMMA SocketInit == Init => SocketInv
<1> SUFFICES ASSUME Containers!Init PROVE SocketInv
  BY DEF Init
<1>1. Started = {} /\ Started = 1 .. 0 /\ DOMAIN during = {} /\ DOMAIN snapshots = {}
  BY DEF Containers!Init, Containers!Empty, Started
<1>2. 0 \in 0 .. MaxSessions
  BY AttemptAssumption DEF Containers!SiblingsAssumption
<1>3. SocketTypes
  BY <1>1, <1>2 DEF SocketTypes, Containers!Init, Containers!In, Tasks, In
<1> QED
  BY <1>1, <1>3
  DEF SocketInv, SnapshotsAreKept, SessionsAreOwned, FoundIsNew, ClaimedIsUnused, Watches,
      Containers!Init, Containers!In

\* Whoever starts it, a session is new.
LEMMA SessionStarts ==
    ASSUME SocketInv, NEW who, Containers!StartsSession(who),
           who # Containers!Developer => who \in Attempts /\ at[who].in = "agent"
    PROVE  SocketInv'
<1> DEFINE s == Containers!Cardinality(Containers!Started) + 1
<1>1. s \notin Started /\ \E n \in 0 .. MaxSessions : Started \cup {s} = 1 .. n
  BY NewSession DEF SocketInv, Containers!StartsSession
<1>2. /\ by' = [x \in Started \cup {s} |-> IF x = s THEN who ELSE by[x]]
      /\ DOMAIN during' = DOMAIN during \cup {s}
      /\ \A x \in DOMAIN during : x # s => during'[x] = during[x]
      /\ during'[s].snapshot = {a \in Attempts : at[a].in \in Containers!Watching}
      /\ live' = live \cup {s} /\ UNCHANGED <<snapshots, at, failed>>
  BY DEF Containers!StartsSession, Containers!With, Started
<1>3. Started' = Started \cup {s}
  BY <1>2 DEF Started
<1> HIDE DEF s
<1>4. SocketTypes'
  <2>1. \A task \in Tasks : task \in Tasks'
    BY <1>3 DEF Tasks
  <2>2. at' \in [Attempts -> Tasks']
    BY <1>2, <2>1 DEF SocketInv, SocketTypes
  <2>3. /\ (\E n \in 0 .. MaxSessions : Started = 1 .. n)' /\ DOMAIN during' = Started'
        /\ live' \subseteq Started' /\ \A a \in DOMAIN snapshots' : snapshots'[a] \subseteq Started'
        /\ failed' \in BOOLEAN
    BY <1>1, <1>2, <1>3 DEF SocketInv, SocketTypes
  <2> QED
    BY <2>2, <2>3 DEF SocketTypes
<1>5. SessionsAreOwned'
  BY <1>1, <1>2, <1>3 DEF SocketInv, SocketTypes, SessionsAreOwned, OwnedSession
<1>6. ASSUME ~failed, NEW a \in Attempts PROVE Watches(a)'
  <2>1. Watches(a) /\ at'[a] = at[a] /\ snapshots' = snapshots
    BY <1>2, <1>6 DEF SocketInv, FoundIsNew
  <2>2. \A x \in Started : during'[x] = during[x]
    BY <1>1, <1>2 DEF SocketInv, SocketTypes
  <2>3. at[a].in \in Containers!Watching => a \in during'[s].snapshot
    BY <1>2
  <2>5. /\ at[a].in = "answered" => at[a].found \subseteq Started
        /\ at[a].in = "removing" => at[a].claimed \subseteq Started
    BY DEF SocketInv, SocketTypes, Tasks, In
  <2>6. live \subseteq Started
    BY DEF SocketInv, SocketTypes
  <2>7. at'[a].in \in {"listed", "asking", "agent", "ended"} =>
          \A x \in live : \/ a \in during'[x].snapshot
                          \/ x \in CASE at[a].in = "listed" -> at[a].found
                                      [] at[a].in = "asking" -> at[a].before
                                      [] OTHER -> snapshots[a]
    BY <2>1, <2>2, <2>6 DEF Watches, FoundOrWatched
  <2>8. CASE at[a].in \in {"listed", "asking"}
    BY <1>2, <2>1, <2>3, <2>7, <2>8 DEF Watches, FoundOrWatched, Containers!Watching
  <2>9. CASE at[a].in \in {"agent", "ended"}
    BY <1>2, <2>1, <2>3, <2>7, <2>9 DEF Watches, FoundOrWatched, Containers!Watching
  <2>10. CASE at[a].in \in {"answered", "removing"}
    BY <2>1, <2>2, <2>5, <2>10 DEF Watches, FoundOrWatched
  <2>11. CASE at[a].in \notin Containers!Watching \cup {"answered", "removing"}
    BY <2>1, <2>11 DEF Watches, Containers!Watching
  <2> QED
    BY <2>8, <2>9, <2>10, <2>11 DEF Containers!Watching
<1>7. ClaimedIsUnused'
  <2>1. \A a \in Attempts : at[a].in = "removing" => at[a].claimed \subseteq Started
    BY DEF SocketInv, SocketTypes, Tasks, In
  <2> QED
    BY <1>1, <1>2, <2>1 DEF SocketInv, ClaimedIsUnused, Unused
<1> QED
  BY <1>2, <1>4, <1>5, <1>6, <1>7 DEF SocketInv, SnapshotsAreKept, FoundIsNew

LEMMA SocketStep ==
    ASSUME SocketInv, Containers!Next
    PROVE  SocketInv'
<1> USE DEF SocketInv, SocketTypes, SnapshotsAreKept, SessionsAreOwned, FoundIsNew, ClaimedIsUnused,
            Tasks, OwnedSession, Watches, FoundOrWatched, Unused, Started, Ended, In,
            Containers!In, Containers!At, Containers!Goes
<1>1. ASSUME NEW a \in Attempts, Containers!ResolveGroup(a) PROVE SocketInv'
  BY <1>1 DEF Containers!ResolveGroup
<1>2. ASSUME NEW a \in Attempts, Containers!Lists(a) PROVE SocketInv'
  <2>1. SocketTypes'
    <3>1. PICK found \in SUBSET Started :
             at' = [at EXCEPT ![a] = [in |-> "listed", found |-> found]]
      BY <1>2 DEF Containers!Lists, Containers!Answers
    <3>2. [in |-> "listed", found |-> found] \in Tasks
      BY <1>2 DEF Containers!Lists
    <3>3. failed' \in BOOLEAN
      BY <1>2 DEF Containers!Lists, Containers!Answers, Containers!SaysNo
    <3>4. UNCHANGED <<by, during, live, snapshots>>
      BY <1>2 DEF Containers!Lists
    <3>5. at' \in [Attempts -> Tasks]
      BY <3>1, <3>2
    <3> QED
      BY <3>3, <3>4, <3>5
  <2>2. SnapshotsAreKept' /\ SessionsAreOwned'
    BY <1>2 DEF Containers!Lists
  <2>3. FoundIsNew'
    BY <1>2 DEF Containers!Lists, Containers!Answers, Containers!SaysNo
  <2>4. ClaimedIsUnused'
    BY <1>2 DEF Containers!Lists
  <2> QED
    BY <2>1, <2>2, <2>3, <2>4
<1>3. ASSUME NEW a \in Attempts, Containers!Snapshot(a) PROVE SocketInv'
  <2>1. SocketTypes'
    BY <1>3 DEF Containers!Snapshot, Containers!With
  <2>2. SnapshotsAreKept' /\ SessionsAreOwned'
    BY <1>3 DEF Containers!Snapshot, Containers!With
  <2>3. FoundIsNew' /\ ClaimedIsUnused'
    BY <1>3 DEF Containers!Snapshot, Containers!With
  <2> QED
    BY <2>1, <2>2, <2>3
<1>4. ASSUME NEW a \in Attempts, Containers!Ends(a) PROVE SocketInv'
  BY <1>4 DEF Containers!Ends
<1>5. ASSUME NEW a \in Attempts, Containers!Abandons(a) PROVE SocketInv'
  BY <1>5 DEF Containers!Abandons
<1>6. ASSUME NEW a \in Attempts, Containers!Pops(a) PROVE SocketInv'
  <2>1. SocketTypes'
    BY <1>6 DEF Containers!Pops, Containers!Without
  <2>2. SnapshotsAreKept' /\ SessionsAreOwned'
    BY <1>6 DEF Containers!Pops, Containers!Without
  <2>3. FoundIsNew' /\ ClaimedIsUnused'
    BY <1>6 DEF Containers!Pops, Containers!Without
  <2> QED
    BY <2>1, <2>2, <2>3
<1>7. ASSUME NEW a \in Attempts, Containers!Asks(a) PROVE SocketInv'
  <2>1. SocketTypes'
    <3>1. PICK found \in SUBSET Started :
             at' = [at EXCEPT ![a] = [in |-> "answered", before |-> at[a].before, found |-> found]]
      BY <1>7 DEF Containers!Asks, Containers!Answers
    <3>2. [in |-> "answered", before |-> at[a].before, found |-> found] \in Tasks
      BY <1>7 DEF Containers!Asks
    <3>3. failed' \in BOOLEAN
      BY <1>7 DEF Containers!Asks, Containers!Answers, Containers!SaysNo
    <3>4. UNCHANGED <<by, during, live, snapshots>>
      BY <1>7 DEF Containers!Asks
    <3>5. at' \in [Attempts -> Tasks]
      BY <3>1, <3>2
    <3> QED
      BY <3>3, <3>4, <3>5
  <2>2. SnapshotsAreKept' /\ SessionsAreOwned'
    BY <1>7 DEF Containers!Asks
  <2>3. FoundIsNew'
    BY <1>7 DEF Containers!Asks, Containers!Answers, Containers!SaysNo
  <2>4. ClaimedIsUnused'
    BY <1>7 DEF Containers!Asks
  <2> QED
    BY <2>1, <2>2, <2>3, <2>4
<1>8. ASSUME NEW a \in Attempts, Containers!Claims(a) PROVE SocketInv'
  <2>1. SocketTypes'
    BY <1>8 DEF Containers!Claims
  <2>2. SnapshotsAreKept' /\ SessionsAreOwned'
    BY <1>8 DEF Containers!Claims
  <2>3. FoundIsNew'
    BY <1>8 DEF Containers!Claims
  <2>4. \A s \in at'[a].claimed : \A other \in DOMAIN snapshots : s \in snapshots[other]
    BY <1>8 DEF Containers!Claims, Containers!Disowns, Containers!InFlight
  <2>5. ClaimedIsUnused'
    BY <1>8, <2>4 DEF Containers!Claims
  <2> QED
    BY <2>1, <2>2, <2>3, <2>5
<1>9. ASSUME NEW a \in Attempts, Containers!Removes(a) PROVE SocketInv'
  <2>1. SocketTypes'
    BY <1>9 DEF Containers!Removes
  <2>2. SnapshotsAreKept' /\ SessionsAreOwned'
    BY <1>9 DEF Containers!Removes
  <2>3. FoundIsNew' /\ ClaimedIsUnused'
    BY <1>9 DEF Containers!Removes
  <2> QED
    BY <2>1, <2>2, <2>3
<1>10. ASSUME NEW a \in Attempts, Containers!AgentTests(a) PROVE SocketInv'
  BY <1>10, SessionStarts DEF Containers!AgentTests
<1>11. CASE Containers!DeveloperTests
  BY <1>11, SessionStarts DEF Containers!DeveloperTests
<1>12. ASSUME NEW t \in live, Containers!Ryuk(t) PROVE SocketInv'
  BY <1>12 DEF Containers!Ryuk
<1> QED
  BY <1>1, <1>2, <1>3, <1>4, <1>5, <1>6, <1>7, <1>8, <1>9, <1>10, <1>11, <1>12 DEF Containers!Next

LEMMA SocketStays ==
    ASSUME SocketInv, UNCHANGED containers
    PROVE  SocketInv'
BY DEF SocketInv, SocketTypes, SnapshotsAreKept, SessionsAreOwned, FoundIsNew, ClaimedIsUnused, Tasks,
       OwnedSession, Watches, FoundOrWatched, Unused, Started, containers

(***************************************************************************)
(* No sweep takes down what the agent of another attempt is testing with,  *)
(* however many attempts overlap, whatever sessions they and a developer   *)
(* start, and whatever the daemon answers.                                 *)
(***************************************************************************)
THEOREM SiblingsAreSpared == Spec => []SiblingsInUseAreSpared
<1>1. SocketInv /\ [Next]_vars => SocketInv'
  BY SocketStep, SocketStays DEF Next, CheckoutMoves, WorkMoves, ContainersMove, OutputMoves, vars
<1>2. SocketInv => SiblingsInUseAreSpared
  BY DEF SocketInv, SocketTypes, FoundIsNew, ClaimedIsUnused, Watches, FoundOrWatched, Unused,
         Ended, Started, SiblingsInUseAreSpared, Containers!SiblingsInUseAreSpared,
         Containers!Uses, Containers!At
<1> QED
  BY <1>1, <1>2, SocketInit, PTL DEF Spec
=============================================================================
