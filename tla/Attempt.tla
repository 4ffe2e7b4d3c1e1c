------------------------------- MODULE Attempt -------------------------------
(***************************************************************************)
(* What surrounds one attempt of an agent: its checkout (Checkouts), what  *)
(* is collected of it (Collection), the containers its tests start         *)
(* (Siblings) and its output (Stream).  The machines share no state, so a  *)
(* behaviour of this module is one of one of them, chosen at the start;    *)
(* the others stay where they begin.                                       *)
(***************************************************************************)
EXTENDS Naturals, Sequences, FiniteSets

\* Of each machine, in its order.
CONSTANTS Runs, Branches, BranchOf, Nobody, MaxCrashes
CONSTANTS Tracked, Source, Evidence, Deletable, Endings, Reports, MaxAttempts
CONSTANTS Attempts, ImageOf, Opaque, Flaky, MaxSessions
CONSTANTS Lines, Counts, Cumulative, MaxLine, Clocks, Caps, None, MaxWrites

VARIABLES machine

VARIABLES mirror, lock, branch, record, dir, age, row, box, process, saw, sweep, crashes
checkout == <<mirror, lock, branch, record, dir, age, row, box, process, saw, sweep, crashes>>

VARIABLES tree, head, excluded, installed, commits, verdict, attempt, phase, seen, wrote,
          left, result
work == <<tree, head, excluded, installed, commits, verdict, attempt, phase, seen, wrote,
          left, result>>

VARIABLES groups, snapshots, disowned, at, live, by, during, failed
containers == <<groups, snapshots, disowned, at, live, by, during, failed>>

VARIABLES clock, cap, part, now, began, proc, written, taken, buffer, closed, watch,
          printed, lines, stops, timedOut, answer
output == <<clock, cap, part, now, began, proc, written, taken, buffer, closed, watch,
            printed, lines, stops, timedOut, answer>>

Checkout == INSTANCE Checkouts
Work == INSTANCE Collection
Containers == INSTANCE Siblings
Output == INSTANCE Stream WITH phase <- part

ASSUME AttemptAssumption ==
    /\ Checkout!CheckoutsAssumption /\ Work!CollectionAssumption
    /\ Containers!SiblingsAssumption /\ Output!StreamAssumption

vars == <<machine, checkout, work, containers, output>>

\* The limits of an output nobody looks at.
AnyLimits == clock = (CHOOSE c \in Clocks : TRUE) /\ cap = (CHOOSE c \in Caps : TRUE)

Init == /\ machine \in {"checkout", "work", "containers", "output"}
        /\ Checkout!Init /\ Work!Init /\ Containers!Init /\ Output!Init
        /\ machine # "output" => AnyLimits

CheckoutMoves == /\ machine = "checkout" /\ Checkout!Next
                 /\ UNCHANGED <<machine, work, containers, output>>
WorkMoves == /\ machine = "work" /\ Work!Next
             /\ UNCHANGED <<machine, checkout, containers, output>>
ContainersMove == /\ machine = "containers" /\ Containers!Next
                  /\ UNCHANGED <<machine, checkout, work, output>>
OutputMoves == /\ machine = "output" /\ Output!Next
               /\ UNCHANGED <<machine, checkout, work, containers>>

Next == CheckoutMoves \/ WorkMoves \/ ContainersMove \/ OutputMoves

\* Somebody reaps and recovers again and again, and time passes (Checkouts); nobody else
\* owes anything.
Fairness ==
    /\ WF_checkout(machine = "checkout" /\ Checkout!Sweep)
    /\ \A r \in Runs : /\ WF_checkout(machine = "checkout" /\ Checkout!Age(r))
                           /\ WF_checkout(machine = "checkout" /\ Checkout!Halt(r))

Spec == Init /\ [][Next]_vars /\ Fairness

-----------------------------------------------------------------------------
(* Properties *)

\* Nothing that was on a branch when release() looked is deleted, and no fetch and no
\* sweep loses a commit; and what a killed process left, or one whose checkout failed
\* half-way, is removed in the end (Checkouts; worktrees.py:161-253, reaper.py:124-237).
NothingIsLostOrLeft == Checkout!SeenCommitsAreKept /\ Checkout!DebrisIsRemoved

\* A run that is executing keeps its checkout and its container through any sweep, and
\* has its branch to itself; a checkout that was given back is gone; and a mirror is made
\* by one run at a time (Checkouts; worktrees.py:62-196, reaper.py:124-237).
CheckoutIsTheRuns == /\ Checkout!RunningIsSpared /\ Checkout!OneCheckoutPerBranch
                     /\ Checkout!ReleasedLeavesNothing /\ Checkout!MirrorIsMadeOnce

\* The branch has what the agent left and nothing else (Collection; agent.py:858-946,
\* worktree.py:143-213).
BranchIsTheAgentsWork ==
    Work!OnlyTheAgentsWorkIsOnTheBranch /\ Work!TheAgentsWorkIsOnTheBranch

\* A success rests on this attempt's verdict and commits (Collection; outcome.py:260-296,
\* verdict.py:155-170).
ASuccessIsThisAttempts == Work!ASuccessIsThisAttempts

\* No sweep takes a container another attempt is testing with (Siblings;
\* dockerd.py:387-422).
SiblingsInUseAreSpared == Containers!SiblingsInUseAreSpared

\* The lines delivered are those of the output, and the answer follows from it, in
\* whatever chunks it is read (Stream; stream.py:243-296, turns.py:127-158).
OutputIsReadAsWritten == Output!LinesAreOfTheOutput /\ Output!AnswerIsOfTheOutput

\* A budget stops its agent on the line that crosses it, once, and both phases fit one
\* wall clock (Stream; agent.py:1263-1289, 1309-1368).
AttemptKeepsItsLimits == Output!OverspendIsNoticed /\ Output!AttemptFitsItsClock

\* What turns.py:10-27 says of a run that recovered (Stream).
RecoveredRunIsNoFailure == Output!RecoveredRunIsNoFailure

\* What agent.py:557-563 says of the clean-up: only what this run wrote goes
\* (Collection).
OnlyTheAgentsWorkIsOnTheBranch == Work!OnlyTheAgentsWorkIsOnTheBranch
=============================================================================
