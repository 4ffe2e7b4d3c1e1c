--------------------------- MODULE RequestPromise ---------------------------
(***************************************************************************)
(* What the intake promises of a request, without rows, references, runs,  *)
(* batches or processes.  It waits from its first arrival on.  What it     *)
(* says only an arrival changes, and every change is a new version, which  *)
(* waits again, whatever became of the one before.  What is handed over is *)
(* the version that there is, and only of a request that waits.  One that  *)
(* was taken back waits again only if it arrives again.                    *)
(***************************************************************************)
EXTENDS Naturals

CONSTANTS Requests,   \* what makes two arrivals the same request
          Contents    \* what a request may say

VARIABLE request   \* [Requests -> Absent, or where it is, what it says and the versions]

Absent == [is |-> "absent"]

PromiseInit == request = [r \in Requests |-> Absent]

Becomes(r, now) == request' = [request EXCEPT ![r] = now]

First(r, content) ==
    /\ request[r].is = "absent"
    /\ Becomes(r, [is |-> "pending", says |-> content, version |-> 1, taken |-> 0])

Amended(r, content) ==
    /\ request[r].is # "absent" /\ request[r].says # content
    /\ Becomes(r, [is |-> "pending", says |-> content, version |-> request[r].version + 1,
                   taken |-> request[r].taken])

Reopened(r) == request[r].is = "withdrawn" /\ Becomes(r, [request[r] EXCEPT !.is = "pending"])

TakenBack(r) == request[r].is # "absent" /\ Becomes(r, [request[r] EXCEPT !.is = "withdrawn"])

HandedOver(r) ==
    /\ request[r].is = "pending"
    /\ Becomes(r, [request[r] EXCEPT !.is = "acknowledged", !.taken = request[r].version])

QueueNext == \E r \in Requests : \/ \E content \in Contents : First(r, content) \/ Amended(r, content)
                                 \/ Reopened(r) \/ TakenBack(r) \/ HandedOver(r)

\* A reset forgets every request, or has all that were handed over wait again.
Forget == request' = [r \in Requests |-> Absent]

TakeUp == request' = [r \in Requests |-> IF request[r].is = "acknowledged"
                                         THEN [request[r] EXCEPT !.is = "pending", !.taken = 0]
                                         ELSE request[r]]

\* With a reset, and without.
PromiseSpec == PromiseInit /\ [][QueueNext \/ Forget \/ TakeUp]_request
QueueSpec == PromiseInit /\ [][QueueNext]_request
=============================================================================
