--------------------------- MODULE EffectPromise ---------------------------
(***************************************************************************)
(* What the queue of external effects promises of a publication, without   *)
(* claims, leases, attempts or processes: once recorded it is owed; it is  *)
(* done only if its commit was there to review in an open pull request;    *)
(* done is for ever; and what was given up is owed again when an operator  *)
(* says so.                                                                *)
(***************************************************************************)
CONSTANT Publications

VARIABLES promise,   \* [Publications -> ...]
          reviewed   \* the publications that were in an open pull request

PromiseTypeOK ==
    /\ promise \in [Publications -> {"none", "owed", "done", "given_up"}]
    /\ reviewed \subseteq Publications

PromiseInit ==
    /\ promise = [p \in Publications |-> "none"]
    /\ reviewed = {}

Becomes(p, from, to) == promise[p] = from /\ promise' = [promise EXCEPT ![p] = to]

\* The commit of a new publication may have been reviewed with an earlier one.
Record(p) == Becomes(p, "none", "owed") /\ reviewed' \in {reviewed, reviewed \cup {p}}

Show == reviewed \subseteq reviewed' /\ reviewed' \subseteq Publications /\ UNCHANGED promise

Keep(p) == p \in reviewed /\ Becomes(p, "owed", "done") /\ UNCHANGED reviewed

GiveUp(p) == Becomes(p, "owed", "given_up") /\ UNCHANGED reviewed

TakeUp(p) == Becomes(p, "given_up", "owed") /\ UNCHANGED reviewed

PromiseNext ==
    \/ \E p \in Publications : Record(p) \/ Keep(p) \/ GiveUp(p) \/ TakeUp(p)
    \/ Show

PromiseSpec == PromiseInit /\ [][PromiseNext]_<<promise, reviewed>>
=============================================================================
