------------------------------- MODULE Forge -------------------------------
(***************************************************************************)
(* What the forge holds for the branch of each work item, and what         *)
(* vcs/gh.py finds there.  The forge itself is external: a push without    *)
(* --force is refused unless it fast-forwards, and a second pull request   *)
(* for a branch that has an open one is refused.                           *)
(*                                                                         *)
(* "shown" is a history variable: the newest commit of the branch that was *)
(* in an open pull request.                                                *)
(***************************************************************************)
EXTENDS ExternalEffects

VARIABLES remote,   \* [Items -> 0..MaxHeads]: the branch on the forge
          pull,     \* [Items -> BOOLEAN]: is a pull request open for it?
          shown
forgeVars == <<remote, pull, shown>>

ForgeTypeOK ==
    /\ remote \in [Items -> 0..MaxHeads]
    /\ pull \in [Items -> BOOLEAN]
    /\ shown \in [Items -> 0..MaxHeads]

ForgeInit ==
    /\ remote = [i \in Items |-> 0]
    /\ pull = [i \in Items |-> FALSE]
    /\ shown = [i \in Items |-> 0]

\* A push lands if it creates the branch or moves it forward.
FastForwards(i, head) == remote[i] <= head

Newest(a, b) == IF a < b THEN b ELSE a

land(i, head) ==
    /\ remote' = [remote EXCEPT ![i] = head]
    /\ shown' = IF pull[i] THEN [shown EXCEPT ![i] = Newest(@, head)] ELSE shown
    /\ UNCHANGED pull

open(i) ==
    /\ pull' = [pull EXCEPT ![i] = TRUE]
    /\ shown' = [shown EXCEPT ![i] = Newest(@, remote[i])]
    /\ UNCHANGED remote

\* A person merges or closes the pull request, and may delete its branch.
close(i) ==
    /\ pull[i]
    /\ pull' = [pull EXCEPT ![i] = FALSE]
    /\ remote' \in {remote, [remote EXCEPT ![i] = 0]}
    /\ UNCHANGED shown
=============================================================================
