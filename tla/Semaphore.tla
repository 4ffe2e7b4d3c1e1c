----------------------------- MODULE Semaphore -----------------------------
(***************************************************************************)
(* asyncio.Semaphore as runners/scheduler.py uses it: a slot is handed to  *)
(* the first waiter by whoever gives it back, and the waiter takes it when *)
(* its task is next run, or returns it if it is cancelled by then.         *)
(***************************************************************************)
EXTENDS Naturals, Sequences, FiniteSets, SequencesExt

\* A waiter is the task it belongs to and what its future says.
Waiters(tasks) == [task : tasks, is : {"waiting", "granted", "cancelled"}]
Semaphores(tasks, cap) == [value : 0..cap, waiters : BoundedSeq(Waiters(tasks), Cardinality(tasks))]

NewSemaphore(cap) == [value |-> cap, waiters |-> <<>>]

\* New arrivals stand behind whoever waits, also behind one that was handed a slot.
Locked(s) == s.value = 0 \/ \E i \in DOMAIN s.waiters : s.waiters[i].is # "cancelled"

Held(s) == [s EXCEPT !.value = @ - 1]
Joined(s, e) == [s EXCEPT !.waiters = Append(@, [task |-> e, is |-> "waiting"])]

\* Who waits, in which place, and who was handed a slot.
Waiting(s) == {i \in DOMAIN s.waiters : s.waiters[i].is = "waiting"}
Granted(s) == {s.waiters[i].task : i \in {j \in DOMAIN s.waiters : s.waiters[j].is = "granted"}}

\* The first waiters get what is free, at most n of them.
Wake(s, n) ==
    LET first == {i \in Waiting(s) : Cardinality({j \in Waiting(s) : j < i}) < n /\
                                     Cardinality({j \in Waiting(s) : j < i}) < s.value}
    IN  [value |-> s.value - Cardinality(first),
         waiters |-> [i \in DOMAIN s.waiters |->
                        IF i \in first THEN [s.waiters[i] EXCEPT !.is = "granted"]
                        ELSE s.waiters[i]]]

Released(s) == Wake([s EXCEPT !.value = @ + 1], 1)

\* A cancelled task's future is cancelled with it, unless it has its slot already.
CancelWaiter(s, e) ==
    [s EXCEPT !.waiters = [i \in DOMAIN s.waiters |->
        IF s.waiters[i] = [task |-> e, is |-> "waiting"] THEN [task |-> e, is |-> "cancelled"]
        ELSE s.waiters[i]]]

Seat(s, e) == CHOOSE i \in DOMAIN s.waiters : s.waiters[i].task = e

\* acquire() after its wait: with the slot, or giving it back.
Left(s, e, keeps) ==
    LET rest == [value |-> IF e \in Granted(s) /\ ~keeps THEN s.value + 1 ELSE s.value,
                 waiters |-> RemoveAt(s.waiters, Seat(s, e))]
    IN  Wake(rest, rest.value)
=============================================================================
