------------------------------- MODULE Siblings -------------------------------
(***************************************************************************)
(* runners/dockerd.py, DockerSocketRunner: the containers an agent starts  *)
(* on the host's daemon, and the sweep that takes back what is left of     *)
(* them.  One runner serves every attempt of a process.                    *)
(*                                                                         *)
(* A session is what testcontainers calls the containers of one test       *)
(* process.  Nothing on it says which attempt started it.                  *)
(***************************************************************************)
EXTENDS Naturals, FiniteSets, FiniteSetsExt

CONSTANTS Attempts,
          ImageOf,          \* the image of an attempt
          Opaque,           \* images with no way to ask for the socket's group
          Flaky,            \* the daemon may fail to answer once
          MaxSessions       \* bound

SiblingsAssumption == MaxSessions \in Nat /\ Flaky \in BOOLEAN

Images == {ImageOf[a] : a \in Attempts}
Developer == "developer"    \* somebody else's test suite on this machine
Sessions == 1 .. MaxSessions

VARIABLES groups,     \* _groups: the images whose group is known
          snapshots,  \* _sessions: attempt -> what was there before it
          disowned,   \* _disowned
          at,         \* each attempt's task
          live,       \* the sessions the daemon has
          by, during, \* history: who started a session, and the attempts it appeared
                      \* in: after their snapshot, and while their agents ran
          failed      \* a call of the daemon went unanswered
vars == <<groups, snapshots, disowned, at, live, by, during, failed>>

Started == DOMAIN by
At(a, phase) == at[a].in = phase
Goes(a, to) == at' = [at EXCEPT ![a] = to]
In(phase) == [in |-> phase]
InFlight == DOMAIN snapshots
Uses(s) == by[s] # Developer /\ At(by[s], "agent")

Without(f, x) == [y \in DOMAIN f \ {x} |-> f[y]]
With(f, x, v) == [y \in DOMAIN f \cup {x} |-> IF y = x THEN v ELSE f[y]]
Empty == [x \in {} |-> {}]

Init ==
    /\ groups = {} /\ snapshots = Empty /\ disowned = {}
    /\ at = [a \in Attempts |-> In("idle")]
    /\ live = {} /\ by = Empty /\ during = Empty
    /\ failed = FALSE

-----------------------------------------------------------------------------
(* _prepare: the group of the socket, and what is there already *)

\* owning_group: a container of the image asks the daemon, once for each image.
Readable(image) == image \in groups \/ image \notin Opaque

\* _resolve_group: without an answer nothing is started.
ResolveGroup(a) ==
    /\ At(a, "idle")
    /\ IF Readable(ImageOf[a])
       THEN groups' = groups \cup {ImageOf[a]} /\ Goes(a, In("listing"))
       ELSE Goes(a, In("refused")) /\ UNCHANGED groups
    /\ UNCHANGED <<snapshots, disowned, live, by, during, failed>>

\* _call: the engine says no, or not in time.
SaysNo == Flaky /\ ~failed /\ failed' = TRUE

\* labelled: what cannot be asked is answered with nothing.
Answers(found) ==
    \/ found = live /\ UNCHANGED failed
    \/ found = {} /\ SaysNo

Lists(a) ==
    /\ At(a, "listing")
    /\ \E found \in {live, {}} : Answers(found) /\ Goes(a, [in |-> "listed", found |-> found])
    /\ UNCHANGED <<groups, snapshots, disowned, live, by, during>>

\* The snapshot is kept, and the agent is started in its container.
Snapshot(a) ==
    /\ At(a, "listed")
    /\ snapshots' = With(snapshots, a, at[a].found)
    /\ Goes(a, In("agent"))
    /\ UNCHANGED <<groups, disowned, live, by, during, failed>>

-----------------------------------------------------------------------------
(* What happens on the daemon *)

Watching == {"listed", "agent", "ended", "asking"}

\* An agent's tests, or somebody else's, start a session.
StartsSession(who) ==
    /\ Cardinality(Started) < MaxSessions
    /\ LET s == Cardinality(Started) + 1
       IN  /\ live' = live \cup {s}
           /\ by' = With(by, s, who)
           /\ during' = With(during, s, [snapshot |-> {a \in Attempts : at[a].in \in Watching},
                                       agent |-> {a \in Attempts : At(a, "agent")}])
    /\ UNCHANGED <<groups, snapshots, disowned, at, failed>>

AgentTests(a) == At(a, "agent") /\ StartsSession(a)
DeveloperTests == StartsSession(Developer)

\* Ryuk: when the process that holds the connection is gone.
Ryuk(s) ==
    /\ s \in live /\ ~Uses(s)
    /\ live' = live \ {s}
    /\ UNCHANGED <<groups, snapshots, disowned, at, by, during, failed>>

-----------------------------------------------------------------------------
(* _teardown and _sweep *)

\* ContainerRunner._teardown: the attempt's own containers
Ends(a) ==
    /\ At(a, "agent")
    /\ Goes(a, In("ended"))
    /\ UNCHANGED <<groups, snapshots, disowned, live, by, during, failed>>

\* The task is cancelled in the teardown: its snapshot stays.
Abandons(a) ==
    /\ At(a, "ended")
    /\ Goes(a, In("over"))
    /\ UNCHANGED <<groups, snapshots, disowned, live, by, during, failed>>

\* The snapshot is taken out, and the daemon is asked.
Pops(a) ==
    /\ At(a, "ended")
    /\ snapshots' = Without(snapshots, a)
    /\ Goes(a, [in |-> "asking", before |-> snapshots[a]])
    /\ UNCHANGED <<groups, disowned, live, by, during, failed>>

Asks(a) ==
    /\ At(a, "asking")
    /\ \E found \in {live, {}} :
         /\ Answers(found)
         /\ Goes(a, [in |-> "answered", before |-> at[a].before, found |-> found])
    /\ UNCHANGED <<groups, snapshots, disowned, live, by, during>>

\* Whoever is in flight keeps what appeared after its snapshot, and what was
\* disowned stays so for as long as the daemon has it.
Bug_Disowns(now) == disowned \cap now

Disowns(now) == (disowned \cap now) \cup UNION {now \ snapshots[other] : other \in InFlight}

Claims(a) ==
    /\ At(a, "answered")
    /\ LET now == at[a].found
       IN  /\ disowned' = Disowns(now)
           /\ Goes(a, [in |-> "removing", claimed |-> (now \ at[a].before) \ Disowns(now)])
    /\ UNCHANGED <<groups, snapshots, live, by, during, failed>>

\* One container after another.
Removes(a) ==
    /\ At(a, "removing")
    /\ \/ \E s \in at[a].claimed :
             /\ live' = live \ {s}
             /\ Goes(a, [at[a] EXCEPT !.claimed = @ \ {s}])
       \/ at[a].claimed = {} /\ Goes(a, In("over")) /\ UNCHANGED live
    /\ UNCHANGED <<groups, snapshots, disowned, by, during, failed>>

Next ==
    \/ \E a \in Attempts :
         \/ ResolveGroup(a) \/ Lists(a) \/ Snapshot(a) \/ AgentTests(a)
         \/ Ends(a) \/ Abandons(a) \/ Pops(a) \/ Asks(a) \/ Claims(a) \/ Removes(a)
    \/ DeveloperTests
    \/ \E s \in live : Ryuk(s)
Spec == Init /\ [][Next]_vars

-----------------------------------------------------------------------------
(* Properties *)

TypeOK ==
    /\ groups \subseteq Images \ Opaque
    /\ InFlight \subseteq Attempts /\ \A a \in InFlight : snapshots[a] \subseteq Sessions
    /\ disowned \subseteq Sessions /\ live \subseteq Started
    /\ Started \subseteq Sessions /\ \A s \in Started : by[s] \in Attempts \cup {Developer}

(***************************************************************************)
(* No sweep takes down what the agent of another attempt is testing with,  *)
(* whatever runs overlap and whatever the daemon answers; and, where it    *)
(* answers, a sweep removes only what appeared after the attempt's own     *)
(* snapshot (dockerd.py:87-98, 387-422).                                   *)
(***************************************************************************)
SiblingsInUseAreSpared ==
    \A a \in Attempts : At(a, "removing") =>
        \A s \in at[a].claimed : /\ s \in live => ~Uses(s)
                                 /\ ~failed => a \in during[s].snapshot

(***************************************************************************)
(* What dockerd.py:395-405 says of a session two attempts could have       *)
(* started: neither claims it, because that was so when it appeared.       *)
(***************************************************************************)
AmbiguousIsLeft ==
    \A a \in Attempts : At(a, "removing") => \A s \in at[a].claimed : during[s].agent \subseteq {a}

(***************************************************************************)
(* What dockerd.py:427-431 says of an unanswered question: no sweep        *)
(* removes somebody else's containers because of it.                       *)
(***************************************************************************)
WhatWasThereIsLeft ==
    \A a \in Attempts : At(a, "removing") => \A s \in at[a].claimed : a \in during[s].snapshot
=============================================================================
