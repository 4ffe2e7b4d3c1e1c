----------------------------- MODULE Queue_proofs -----------------------------
(***************************************************************************)
(* Proofs about the two queues of Services: agent runs that wait for slots *)
(* (Scheduler over two kinds of Semaphore), and messages that wait for a   *)
(* port (Outbox).                                                          *)
(***************************************************************************)
EXTENDS Services, FiniteSetTheorems, WellFoundedInduction, TLAPS

LEMMA CountIsCardinality ==
    /\ \A S : Queue!Cardinality(S) = Cardinality(S)
    /\ \A S : Messages!Cardinality(S) = Cardinality(S)
BY Zenon DEF Queue!Cardinality, Messages!Cardinality, Cardinality

\* A sequence without one of its places.
Shorter(s, p) == [i \in 1 .. Len(s) - 1 |-> IF i < p THEN s[i] ELSE s[i + 1]]

LEMMA WithoutAPlace ==
    ASSUME NEW S, NEW s \in Seq(S), NEW p \in 1 .. Len(s)
    PROVE  /\ Queue!RemoveAt(s, p) = Shorter(s, p)
           /\ Messages!RemoveAt(s, p) = Shorter(s, p)
           /\ Shorter(s, p) \in Seq(S) /\ Len(Shorter(s, p)) = Len(s) - 1
<1> DEFINE head == SubSeq(s, 1, p - 1)
           tail == SubSeq(s, p + 1, Len(s))
<1>1. /\ head \in Seq(S) /\ Len(head) = p - 1
      /\ \A i \in 1 .. p - 1 : head[i] = s[i]
  OBVIOUS
<1>2. /\ tail \in Seq(S) /\ Len(tail) = Len(s) - p
      /\ \A i \in 1 .. Len(s) - p : tail[i] = s[p + i]
  OBVIOUS
<1>3. /\ Queue!RemoveAt(s, p) = head \o tail
      /\ Messages!RemoveAt(s, p) = head \o tail
  BY DEF Queue!RemoveAt, Messages!RemoveAt
<1> HIDE DEF head, tail
<1>4. /\ head \o tail \in Seq(S) /\ Len(head \o tail) = Len(s) - 1
      /\ \A i \in 1 .. Len(s) - 1 : (head \o tail)[i] = IF i < p THEN s[i] ELSE s[i + 1]
  BY <1>1, <1>2
<1>5. Shorter(s, p) \in Seq(S) /\ Len(Shorter(s, p)) = Len(s) - 1
  BY DEF Shorter
<1>6. head \o tail = Shorter(s, p)
  <2> DEFINE joined == head \o tail
  <2>1. /\ joined \in Seq(S) /\ Len(joined) = Len(s) - 1
        /\ Shorter(s, p) \in Seq(S) /\ Len(Shorter(s, p)) = Len(s) - 1
    BY <1>4, <1>5
  <2>2. \A i \in 1 .. Len(s) - 1 : joined[i] = Shorter(s, p)[i]
    BY <1>4 DEF Shorter
  <2> HIDE DEF joined
  <2>3. joined = Shorter(s, p)
    BY <2>1, <2>2
  <2> QED
    BY <2>3 DEF joined
<1> QED
  BY <1>3, <1>5, <1>6

LEMMA Least == \A T \in SUBSET Nat : T # {} => \E n \in T : \A m \in T : n <= m
<1>1. SUFFICES ASSUME NEW T \in SUBSET Nat, T # {} PROVE \E n \in T : \A m \in T : n <= m
  OBVIOUS
<1>2. PICK n \in T : \A m \in T : <<m, n>> \notin OpToRel(<, Nat)
  BY <1>1, NatLessThanWellFounded, WFMin, Zenon
<1>3. \A m \in T : ~(m < n)
  BY <1>1, <1>2, Zenon DEF OpToRel
<1> QED
  BY <1>1, <1>3

-----------------------------------------------------------------------------
(***************************************************************************)
(* Semaphores, as who waits, who was handed a slot and who was cancelled.  *)
(***************************************************************************)
QCalls == Queue!Calls

Says == {"waiting", "granted", "cancelled"}

\* The tasks of a semaphore's waiters, by what their futures say.
Tasks(s, is) == {e \in QCalls : \E i \in DOMAIN s.waiters :
                                   s.waiters[i].task = e /\ s.waiters[i].is = is}

Waiter == [task : QCalls, is : Says]

\* A task waits once.
Shape(s) ==
    /\ s \in [value : Nat, waiters : Seq(Waiter)]
    /\ \A i, j \in DOMAIN s.waiters : s.waiters[i].task = s.waiters[j].task => i = j

Anywhere(s) == Tasks(s, "waiting") \cup Tasks(s, "granted") \cup Tasks(s, "cancelled")

\* What is free or handed over.
Free(s) == s.value + Cardinality(Tasks(s, "granted"))

LEMMA WaiterAt ==
    ASSUME NEW s, Shape(s)
    PROVE  /\ s.waiters \in Seq(Waiter) /\ Len(s.waiters) \in Nat /\ s.value \in Nat
           /\ DOMAIN s.waiters = 1 .. Len(s.waiters)
           /\ \A i \in DOMAIN s.waiters : /\ s.waiters[i].task \in QCalls
                                         /\ s.waiters[i].is \in Says
                                         /\ s.waiters[i] \in Waiter
<1>1. s.waiters \in Seq(Waiter) /\ s.value \in Nat
  BY DEF Shape
<1>2. \A i \in 1 .. Len(s.waiters) : s.waiters[i] \in Waiter
  BY <1>1
<1> QED
  BY <1>1, <1>2 DEF Waiter

LEMMA TasksAre ==
    ASSUME NEW s, Shape(s)
    PROVE  /\ Queue!Granted(s) = Tasks(s, "granted")
           /\ \A is \in Says : IsFiniteSet(Tasks(s, is)) /\ Tasks(s, is) \subseteq QCalls
           /\ \A is, other \in Says : is # other => Tasks(s, is) \cap Tasks(s, other) = {}
           /\ Cardinality(Tasks(s, "granted")) \in Nat /\ Free(s) \in Nat
<1>1. Queue!Granted(s) = Tasks(s, "granted")
  <2>1. \A i \in DOMAIN s.waiters : s.waiters[i].task \in QCalls
    BY WaiterAt
  <2>2. \A e : e \in Queue!Granted(s) <=> e \in Tasks(s, "granted")
    BY <2>1 DEF Queue!Granted, Tasks
  <2> QED
    BY <2>2
<1>2. IsFiniteSet(QCalls)
  <2>1. MaxCalls \in Nat
    BY ServicesAssumption DEF Queue!SchedulerAssumption
  <2> QED
    BY <2>1, FS_Interval DEF QCalls, Queue!Calls
<1>3. \A is : Tasks(s, is) \subseteq QCalls
  BY DEF Tasks
<1>4. \A is \in Says : IsFiniteSet(Tasks(s, is)) /\ Tasks(s, is) \subseteq QCalls
  BY <1>2, <1>3, FS_Subset
<1>5. \A is, other \in Says : is # other => Tasks(s, is) \cap Tasks(s, other) = {}
  BY DEF Tasks, Shape
<1>6. Cardinality(Tasks(s, "granted")) \in Nat
  BY <1>4, FS_CardinalityType DEF Says
<1> QED
  BY <1>1, <1>4, <1>5, <1>6 DEF Free, Shape


\* Nobody is left waiting with a slot free, unless one is handed over already, whose
\* taker will look again.
NobodyIsPassed(s) == Tasks(s, "waiting") # {} => s.value = 0 \/ Tasks(s, "granted") # {}

LEMMA SlotIsTaken ==
    ASSUME NEW s, Shape(s), ~Queue!Locked(s)
    PROVE  /\ Shape(Queue!Held(s)) /\ NobodyIsPassed(Queue!Held(s))
           /\ Tasks(s, "waiting") = {} /\ Tasks(s, "granted") = {}
           /\ \A is \in Says : Tasks(Queue!Held(s), is) = Tasks(s, is)
           /\ Free(Queue!Held(s)) = Free(s) - 1
<1> DEFINE t == Queue!Held(s)
<1>1. /\ DOMAIN s = {"value", "waiters"} /\ s.value \in Nat \ {0}
      /\ \A i \in DOMAIN s.waiters : s.waiters[i].is = "cancelled"
  BY WaiterAt DEF Queue!Locked, Shape
<1>2. t.value = s.value - 1 /\ t.waiters = s.waiters /\ t \in [value : Nat, waiters : Seq(Waiter)]
  BY <1>1 DEF Queue!Held, Shape
<1> HIDE DEF t
<1>3. Shape(t)
  BY <1>2 DEF Shape
<1>4. \A is \in Says : Tasks(t, is) = Tasks(s, is)
  BY <1>2 DEF Tasks
<1>5. Tasks(s, "waiting") = {} /\ Tasks(s, "granted") = {}
  BY <1>1 DEF Tasks
<1>6. NobodyIsPassed(t)
  BY <1>4, <1>5 DEF NobodyIsPassed, Says
<1>7. Free(t) = Free(s) - 1
  BY <1>1, <1>2, <1>4, TasksAre DEF Free, Says
<1> QED
  BY <1>3, <1>4, <1>5, <1>6, <1>7 DEF t

LEMMA WaiterJoins ==
    ASSUME NEW s, Shape(s), NobodyIsPassed(s), Queue!Locked(s), NEW e \in QCalls,
           e \notin Anywhere(s)
    PROVE  /\ Shape(Queue!Joined(s, e)) /\ NobodyIsPassed(Queue!Joined(s, e))
           /\ Tasks(Queue!Joined(s, e), "waiting") = Tasks(s, "waiting") \cup {e}
           /\ Tasks(Queue!Joined(s, e), "granted") = Tasks(s, "granted")
           /\ Tasks(Queue!Joined(s, e), "cancelled") = Tasks(s, "cancelled")
           /\ Free(Queue!Joined(s, e)) = Free(s)
<1> DEFINE t == Queue!Joined(s, e)
           n == Len(s.waiters)
           new == [task |-> e, is |-> "waiting"]
<1>1. s.value \in Nat /\ n \in Nat /\ s.waiters \in Seq(Waiter) /\ new \in Waiter
  BY WaiterAt DEF Waiter, Says
<1>2. t.value = s.value /\ t.waiters = Append(s.waiters, new) /\ DOMAIN t = {"value", "waiters"}
  BY DEF Queue!Joined, Shape
<1>3. t \in [value : Nat, waiters : Seq(Waiter)]
  BY <1>1 DEF Queue!Joined, Shape
<1> HIDE DEF t
<1>4. /\ DOMAIN t.waiters = 1 .. n + 1 /\ t.waiters[n + 1] = new /\ DOMAIN s.waiters = 1 .. n
      /\ \A i \in 1 .. n : t.waiters[i] = s.waiters[i]
  BY <1>1, <1>2
<1>5. \A i \in 1 .. n : s.waiters[i].task # e
  BY <1>4, WaiterAt DEF Anywhere, Tasks, Says
<1> HIDE DEF n
<1>6. Shape(t)
  BY <1>1, <1>3, <1>4, <1>5 DEF Shape
<1>7. /\ Tasks(t, "waiting") = Tasks(s, "waiting") \cup {e}
      /\ Tasks(t, "granted") = Tasks(s, "granted")
      /\ Tasks(t, "cancelled") = Tasks(s, "cancelled")
  BY <1>1, <1>4 DEF Tasks
<1>8. Free(t) = Free(s)
  BY <1>2, <1>7 DEF Free
<1>9. s.value = 0 \/ Tasks(s, "waiting") # {} \/ Tasks(s, "granted") # {}
  BY WaiterAt DEF Queue!Locked, Tasks, Says
<1>10. NobodyIsPassed(t)
  BY <1>2, <1>7, <1>9 DEF NobodyIsPassed
<1> QED
  BY <1>6, <1>7, <1>8, <1>10 DEF t

LEMMA WaiterIsCancelled ==
    ASSUME NEW s, Shape(s), NobodyIsPassed(s), NEW e \in QCalls
    PROVE  /\ Shape(Queue!CancelWaiter(s, e)) /\ NobodyIsPassed(Queue!CancelWaiter(s, e))
           /\ Tasks(Queue!CancelWaiter(s, e), "waiting") = Tasks(s, "waiting") \ {e}
           /\ Tasks(Queue!CancelWaiter(s, e), "granted") = Tasks(s, "granted")
           /\ Tasks(Queue!CancelWaiter(s, e), "cancelled")
                = Tasks(s, "cancelled") \cup (Tasks(s, "waiting") \cap {e})
           /\ Free(Queue!CancelWaiter(s, e)) = Free(s)
<1> DEFINE t == Queue!CancelWaiter(s, e)
           Hit(i) == s.waiters[i] = [task |-> e, is |-> "waiting"]
           gone == [task |-> e, is |-> "cancelled"]
           line == [i \in DOMAIN s.waiters |-> IF Hit(i) THEN gone ELSE s.waiters[i]]
<1>1. /\ s.value \in Nat /\ s.waiters \in Seq(Waiter) /\ gone \in Waiter
      /\ \A i \in DOMAIN s.waiters : s.waiters[i] \in Waiter
  BY WaiterAt DEF Waiter, Says
<1>2. line \in Seq(Waiter)
  BY <1>1, WaiterAt
<1>3. t.value = s.value /\ t.waiters = line
  BY DEF Queue!CancelWaiter, Shape
<1>4. t \in [value : Nat, waiters : Seq(Waiter)]
  BY <1>1, <1>2 DEF Queue!CancelWaiter, Shape
<1>5. \A i \in DOMAIN s.waiters :
         Hit(i) <=> s.waiters[i].task = e /\ s.waiters[i].is = "waiting"
  BY <1>1 DEF Waiter
<1> HIDE DEF t, Hit
<1>6. /\ DOMAIN t.waiters = DOMAIN s.waiters
      /\ \A i \in DOMAIN s.waiters :
            /\ t.waiters[i].task = s.waiters[i].task
            /\ t.waiters[i].is = IF Hit(i) THEN "cancelled" ELSE s.waiters[i].is
  BY <1>3, <1>5
<1>7. Shape(t)
  BY <1>4, <1>6 DEF Shape
<1>8. Tasks(t, "waiting") = Tasks(s, "waiting") \ {e}
  BY <1>5, <1>6 DEF Tasks, Shape
<1>9. Tasks(t, "granted") = Tasks(s, "granted")
  BY <1>5, <1>6 DEF Tasks
<1>10. Tasks(t, "cancelled") = Tasks(s, "cancelled") \cup (Tasks(s, "waiting") \cap {e})
  BY <1>5, <1>6 DEF Tasks
<1>11. Free(t) = Free(s) /\ NobodyIsPassed(t)
  BY <1>3, <1>8, <1>9 DEF Free, NobodyIsPassed
<1> QED
  BY <1>7, <1>8, <1>9, <1>10, <1>11 DEF t

\* The rank of a place among those that wait.
Before(s, i) == {j \in Queue!Waiting(s) : j < i}
Rank(s, i) == Queue!Cardinality(Before(s, i))

LEMMA RanksAreDistinct ==
    ASSUME NEW s, Shape(s)
    PROVE  /\ IsFiniteSet(Queue!Waiting(s)) /\ Queue!Waiting(s) \subseteq 1 .. Len(s.waiters)
           /\ \A i \in Queue!Waiting(s) : Rank(s, i) \in Nat
           /\ \A i, j \in Queue!Waiting(s) : i < j => Rank(s, i) < Rank(s, j)
<1>1. /\ Queue!Waiting(s) \subseteq 1 .. Len(s.waiters) /\ Len(s.waiters) \in Nat
  BY WaiterAt DEF Queue!Waiting
<1>2. IsFiniteSet(Queue!Waiting(s))
  <2>1. IsFiniteSet(1 .. Len(s.waiters))
    BY <1>1, FS_Interval
  <2> QED
    BY <1>1, <2>1, FS_Subset
<1>3. ASSUME NEW i \in Queue!Waiting(s)
      PROVE  /\ IsFiniteSet(Before(s, i)) /\ Rank(s, i) \in Nat
             /\ Rank(s, i) = Cardinality(Before(s, i))
  BY <1>2, FS_Subset, FS_CardinalityType, CountIsCardinality DEF Before, Rank
<1>4. ASSUME NEW i \in Queue!Waiting(s), NEW j \in Queue!Waiting(s), i < j
      PROVE  Rank(s, i) < Rank(s, j)
  <2>1. i \in Int /\ j \in Int
    BY <1>1
  <2>2. Before(s, i) \subseteq Before(s, j) /\ i \in Before(s, j) /\ i \notin Before(s, i)
    BY <1>1, <1>4, <2>1 DEF Before
  <2>3. Before(s, i) # Before(s, j)
    BY <2>2
  <2> QED
    BY <1>3, <2>2, <2>3, FS_Subset
<1> QED
  BY <1>2, <1>1, <1>3, <1>4

LEMMA WakeHandsOver ==
    ASSUME NEW s, Shape(s), NEW n \in Nat, n # 0 \/ s.value = 0
    PROVE  /\ Shape(Queue!Wake(s, n)) /\ NobodyIsPassed(Queue!Wake(s, n))
           /\ Free(Queue!Wake(s, n)) = Free(s)
           /\ \E some \in SUBSET Tasks(s, "waiting") :
               /\ Tasks(Queue!Wake(s, n), "waiting") = Tasks(s, "waiting") \ some
               /\ Tasks(Queue!Wake(s, n), "granted") = Tasks(s, "granted") \cup some
               /\ Tasks(Queue!Wake(s, n), "cancelled") = Tasks(s, "cancelled")
<1> DEFINE t == Queue!Wake(s, n)
           first == {i \in Queue!Waiting(s) : Rank(s, i) < n /\ Rank(s, i) < s.value}
           line == [i \in DOMAIN s.waiters |->
                       IF i \in first THEN [s.waiters[i] EXCEPT !.is = "granted"] ELSE s.waiters[i]]
           some == {s.waiters[i].task : i \in first}
<1>1. /\ s.value \in Nat /\ s.waiters \in Seq(Waiter) /\ DOMAIN s.waiters = 1 .. Len(s.waiters)
      /\ \A i \in DOMAIN s.waiters : s.waiters[i] \in Waiter
      /\ Queue!Waiting(s) \subseteq DOMAIN s.waiters
  BY WaiterAt DEF Queue!Waiting
<1>2. /\ IsFiniteSet(first) /\ Cardinality(first) \in Nat
      /\ Queue!Cardinality(first) = Cardinality(first)
  BY RanksAreDistinct, FS_Subset, FS_CardinalityType, CountIsCardinality
<1>3. Cardinality(first) <= s.value
  <2> DEFINE rank == [i \in first |-> Rank(s, i)]
  <2>1. rank \in [first -> 0 .. s.value - 1]
    BY <1>1, RanksAreDistinct
  <2>2. \A i, j \in first : rank[i] = rank[j] => i = j
    <3>1. \A i \in first : i \in Int /\ i \in Queue!Waiting(s) /\ Rank(s, i) \in Nat
      BY RanksAreDistinct
    <3> QED
      BY <3>1, RanksAreDistinct
  <2>3. rank \in Injection(first, 0 .. s.value - 1)
    BY <2>1, <2>2 DEF Injection, IsInjective
  <2>4. IsFiniteSet(0 .. s.value - 1) /\ Cardinality(0 .. s.value - 1) = s.value
    <3>1. \A m \in Nat : IsFiniteSet(0 .. m - 1) /\ Cardinality(0 .. m - 1) = m
      BY FS_Interval
    <3> QED
      BY <1>1, <3>1
  <2> HIDE DEF rank, first
  <2> QED
    BY <2>3, <2>4, FS_Injection
<1>4. t.value = s.value - Cardinality(first) /\ t.waiters = line /\ DOMAIN t = {"value", "waiters"}
  BY <1>2 DEF Queue!Wake, Rank, Before
<1>5. line \in Seq(Waiter)
  <2>1. \A i \in DOMAIN s.waiters : line[i] \in Waiter
    BY <1>1 DEF Waiter, Says
  <2>2. line \in [1 .. Len(s.waiters) -> Waiter]
    BY <1>1, <2>1
  <2>3. Len(s.waiters) \in Nat
    BY WaiterAt
  <2> HIDE DEF first, line
  <2> QED
    BY <2>2, <2>3
<1>6. t \in [value : Nat, waiters : Seq(Waiter)]
  <2>1. t = [value |-> s.value - Cardinality(first), waiters |-> line]
    BY <1>2 DEF Queue!Wake, Rank, Before
  <2>2. s.value - Cardinality(first) \in Nat
    BY <1>1, <1>2, <1>3
  <2> HIDE DEF t, first, line
  <2> QED
    BY <2>1, <2>2, <1>5
<1>7. \A i \in DOMAIN s.waiters : /\ line[i].task = s.waiters[i].task
                                  /\ line[i].is = IF i \in first THEN "granted" ELSE s.waiters[i].is
  BY <1>1 DEF Waiter
<1>8. \A i \in first : i \in DOMAIN s.waiters /\ s.waiters[i].is = "waiting"
  BY DEF Queue!Waiting
<1>9. /\ IsFiniteSet(some) /\ Cardinality(some) = Cardinality(first)
  <2> DEFINE task == [i \in first |-> s.waiters[i].task]
  <2>1. task \in Bijection(first, some)
    <3>1. \A i, j \in first : task[i] = task[j] => i = j
      BY <1>8 DEF Shape
    <3>2. task \in [first -> some] /\ \A e \in some : \E i \in first : task[i] = e
      OBVIOUS
    <3> HIDE DEF task, some, first
    <3> QED
      BY <3>1, <3>2 DEF Bijection, Injection, IsInjective, Surjection
  <2> HIDE DEF task, some, first
  <2> QED
    BY <1>2, <2>1, FS_Bijection DEF ExistsBijection
<1>10. some \subseteq Tasks(s, "waiting")
  BY <1>8, WaiterAt DEF Tasks
<1> HIDE DEF t, line
<1>11. Shape(t)
  BY <1>4, <1>5, <1>6, <1>7 DEF Shape, line
<1> HIDE DEF first
<1>12. Tasks(t, "waiting") = Tasks(s, "waiting") \ some
  BY <1>4, <1>7, <1>8, SMTT(30) DEF Tasks, Shape, line
<1>13. Tasks(t, "granted") = Tasks(s, "granted") \cup some
  BY <1>4, <1>7, <1>8, WaiterAt, SMTT(30) DEF Tasks, line
<1>14. Tasks(t, "cancelled") = Tasks(s, "cancelled")
  BY <1>4, <1>7, <1>8 DEF Tasks, line
<1> HIDE DEF some
<1>15. Free(t) = Free(s)
  <2>1. Tasks(s, "granted") \cap some = {}
    BY <1>10, TasksAre DEF Says
  <2>2. Cardinality(Tasks(s, "granted") \cup some)
        = Cardinality(Tasks(s, "granted")) + Cardinality(some)
    <3>1. IsFiniteSet(Tasks(s, "granted")) /\ IsFiniteSet(some)
      BY <1>9, TasksAre DEF Says
    <3>2. Cardinality({}) = 0
      BY FS_EmptySet
    <3>3. Cardinality(Tasks(s, "granted")) \in Nat /\ Cardinality(some) \in Nat
      BY <3>1, FS_CardinalityType
    <3>4. Cardinality(Tasks(s, "granted") \cup some)
            = Cardinality(Tasks(s, "granted")) + Cardinality(some)
                - Cardinality(Tasks(s, "granted") \cap some)
      BY <3>1, FS_Union
    <3>5. Cardinality(Tasks(s, "granted") \cap some) = 0
      BY <2>1, <3>2, Zenon
    <3> QED
      BY <3>3, <3>4, <3>5
  <2>3. Cardinality(Tasks(s, "granted")) \in Nat /\ Cardinality(some) \in Nat
    BY <1>2, <1>9, TasksAre
  <2>4. Cardinality(Tasks(t, "granted")) = Cardinality(Tasks(s, "granted")) + Cardinality(some)
    BY <1>13, <2>2
  <2>5. t.value = s.value - Cardinality(some) /\ s.value \in Nat
    BY <1>1, <1>4, <1>9
  <2> QED
    BY <2>3, <2>4, <2>5 DEF Free
<1>16. NobodyIsPassed(t)
  <2>1. SUFFICES ASSUME Tasks(t, "waiting") # {}, s.value # 0
                 PROVE  Tasks(t, "granted") # {}
    BY <1>1, <1>2, <1>3, <1>4 DEF NobodyIsPassed
  <2>2. Queue!Waiting(s) # {}
    BY <1>12, <2>1 DEF Tasks, Queue!Waiting
  <2>3. PICK i \in Queue!Waiting(s) : \A j \in Queue!Waiting(s) : i <= j
    <3>1. Queue!Waiting(s) \in SUBSET Nat
      BY RanksAreDistinct
    <3> QED
      BY <2>2, <3>1, Least
  <2>4. Before(s, i) = {}
    BY <2>3, RanksAreDistinct DEF Before
  <2>5. Rank(s, i) = 0
    BY <2>4, CountIsCardinality, FS_EmptySet DEF Rank
  <2>6. i \in first
    BY <1>1, <2>1, <2>5 DEF first
  <2> QED
    BY <1>13, <2>6 DEF some
<1> QED
  BY <1>10, <1>11, <1>12, <1>13, <1>14, <1>15, <1>16 DEF t

\* A slot is given back.
LEMMA SlotIsReleased ==
    ASSUME NEW s, Shape(s)
    PROVE  /\ Shape(Queue!Released(s)) /\ NobodyIsPassed(Queue!Released(s))
           /\ Free(Queue!Released(s)) = Free(s) + 1
           /\ \E some \in SUBSET Tasks(s, "waiting") :
                 /\ Tasks(Queue!Released(s), "waiting") = Tasks(s, "waiting") \ some
                 /\ Tasks(Queue!Released(s), "granted") = Tasks(s, "granted") \cup some
                 /\ Tasks(Queue!Released(s), "cancelled") = Tasks(s, "cancelled")
<1> DEFINE more == [s EXCEPT !.value = @ + 1]
<1>1. /\ more.value = s.value + 1 /\ more.waiters = s.waiters /\ s.value \in Nat
      /\ more \in [value : Nat, waiters : Seq(Waiter)]
  BY DEF Shape
<1>2. Queue!Released(s) = Queue!Wake(more, 1)
  BY DEF Queue!Released
<1> HIDE DEF more
<1>3. Shape(more) /\ \A is : Tasks(more, is) = Tasks(s, is)
  BY <1>1 DEF Shape, Tasks
<1>4. Free(more) = Free(s) + 1
  BY <1>1, <1>3, TasksAre DEF Free
<1>5. /\ Shape(Queue!Wake(more, 1)) /\ NobodyIsPassed(Queue!Wake(more, 1))
      /\ Free(Queue!Wake(more, 1)) = Free(more)
      /\ \E some \in SUBSET Tasks(more, "waiting") :
               /\ Tasks(Queue!Wake(more, 1), "waiting") = Tasks(more, "waiting") \ some
               /\ Tasks(Queue!Wake(more, 1), "granted") = Tasks(more, "granted") \cup some
               /\ Tasks(Queue!Wake(more, 1), "cancelled") = Tasks(more, "cancelled")
  <2>1. 1 \in Nat /\ 1 # 0
    OBVIOUS
  <2> QED
    BY <1>3, <2>1, WakeHandsOver
<1> QED
  BY <1>2, <1>3, <1>4, <1>5

\* A task stops waiting, with its slot or without.
LEMMA WaiterLeaves ==
    ASSUME NEW s, Shape(s), NEW e \in Anywhere(s), NEW keeps \in BOOLEAN
    PROVE  /\ Shape(Queue!Left(s, e, keeps)) /\ NobodyIsPassed(Queue!Left(s, e, keeps))
           /\ Free(Queue!Left(s, e, keeps))
                = IF keeps /\ e \in Tasks(s, "granted") THEN Free(s) - 1 ELSE Free(s)
           /\ \E some \in SUBSET (Tasks(s, "waiting") \ {e}) :
               /\ Tasks(Queue!Left(s, e, keeps), "waiting") = Tasks(s, "waiting") \ ({e} \cup some)
               /\ Tasks(Queue!Left(s, e, keeps), "granted") = (Tasks(s, "granted") \ {e}) \cup some
               /\ Tasks(Queue!Left(s, e, keeps), "cancelled") = Tasks(s, "cancelled") \ {e}
<1> DEFINE p == Queue!Seat(s, e)
           n == Len(s.waiters)
           back == IF e \in Queue!Granted(s) /\ ~keeps THEN s.value + 1 ELSE s.value
           rest == [value |-> back, waiters |-> Queue!RemoveAt(s.waiters, p)]
<1>1. /\ s.value \in Nat /\ s.waiters \in Seq(Waiter) /\ n \in Nat /\ DOMAIN s.waiters = 1 .. n
      /\ e \in QCalls
  BY WaiterAt DEF Anywhere, Tasks
<1>2. p \in 1 .. n /\ s.waiters[p].task = e
  <2>1. \E i \in DOMAIN s.waiters : s.waiters[i].task = e
    BY DEF Anywhere, Tasks
  <2> QED
    BY <1>1, <2>1 DEF Queue!Seat
<1>3. Queue!Left(s, e, keeps) = Queue!Wake(rest, rest.value)
  BY DEF Queue!Left
<1> HIDE DEF p
<1>4. rest.waiters = Shorter(s.waiters, p) /\ Shorter(s.waiters, p) \in Seq(Waiter)
  BY <1>1, <1>2, WithoutAPlace
<1>5. rest.value = back /\ back \in Nat /\ rest \in [value : Nat, waiters : Seq(Waiter)]
  BY <1>1, <1>4
<1> HIDE DEF rest
<1>6. /\ DOMAIN rest.waiters = 1 .. n - 1
      /\ \A i \in 1 .. n - 1 : rest.waiters[i] = s.waiters[IF i < p THEN i ELSE i + 1]
  BY <1>1, <1>2, <1>4 DEF Shorter
<1> HIDE DEF n
<1>7. \A i, j \in 1 .. n : s.waiters[i].task = s.waiters[j].task => i = j
  BY <1>1 DEF Shape
<1>8. Shape(rest)
  <2>1. ASSUME NEW i \in 1 .. n - 1, NEW j \in 1 .. n - 1,
               rest.waiters[i].task = rest.waiters[j].task
        PROVE  i = j
    <3> DEFINE from(x) == IF x < p THEN x ELSE x + 1
    <3>1. /\ from(i) \in 1 .. n /\ from(j) \in 1 .. n
          /\ from(i) = from(j) => i = j
      BY <1>1, <1>2
    <3>2. s.waiters[from(i)].task = s.waiters[from(j)].task
      BY <1>6, <2>1
    <3> HIDE DEF from
    <3> QED
      BY <1>7, <3>1, <3>2
  <2> QED
    BY <1>5, <1>6, <2>1 DEF Shape
<1>9. \A is \in Says : Tasks(rest, is) = Tasks(s, is) \ {e}
  <2>1. ASSUME NEW is \in Says, NEW d \in Tasks(rest, is) PROVE d \in Tasks(s, is) \ {e}
    <3>1. PICK i \in 1 .. n - 1 : rest.waiters[i].task = d /\ rest.waiters[i].is = is
      BY <1>6 DEF Tasks
    <3> DEFINE from == IF i < p THEN i ELSE i + 1
    <3>2. from \in 1 .. n /\ from # p
      BY <1>1, <1>2
    <3>3. s.waiters[from].task = d /\ s.waiters[from].is = is
      BY <1>6, <3>1
    <3> HIDE DEF from
    <3>4. d # e
      BY <1>2, <1>7, <3>2, <3>3
    <3> QED
      BY <1>1, <3>2, <3>3, <3>4, <2>1 DEF Tasks
  <2>2. ASSUME NEW is \in Says, NEW d \in Tasks(s, is) \ {e} PROVE d \in Tasks(rest, is)
    <3>1. PICK j \in 1 .. n : s.waiters[j].task = d /\ s.waiters[j].is = is
      BY <1>1 DEF Tasks
    <3>2. j # p
      BY <1>2, <3>1
    <3> DEFINE to == IF j < p THEN j ELSE j - 1
    <3>3. to \in 1 .. n - 1 /\ (IF to < p THEN to ELSE to + 1) = j
      BY <1>1, <1>2, <3>2
    <3>4. rest.waiters[to] = s.waiters[j]
      BY <1>6, <3>3
    <3> HIDE DEF to
    <3> QED
      BY <1>6, <3>1, <3>3, <3>4 DEF Tasks
  <2> QED
    BY <2>1, <2>2
<1>10. Free(rest) = IF keeps /\ e \in Tasks(s, "granted") THEN Free(s) - 1 ELSE Free(s)
  <2> DEFINE granted == Tasks(s, "granted")
  <2>1. IsFiniteSet(granted) /\ Cardinality(granted) \in Nat /\ Queue!Granted(s) = granted
    BY TasksAre DEF Says
  <2>2. Cardinality(granted \ {e}) = IF e \in granted THEN Cardinality(granted) - 1
                                     ELSE Cardinality(granted)
    BY <2>1, FS_RemoveElement
  <2>3. Tasks(rest, "granted") = granted \ {e}
    BY <1>9 DEF Says
  <2>4. Free(rest) = back + Cardinality(granted \ {e}) /\ Free(s) = s.value + Cardinality(granted)
    BY <1>5, <2>3 DEF Free
  <2> HIDE DEF granted
  <2>5. back = IF e \in granted /\ ~keeps THEN s.value + 1 ELSE s.value
    BY <2>1
  <2>6. s.value \in Nat
    BY <1>1
  <2> HIDE DEF back
  <2>7. CASE e \notin granted
    <3>1. Free(rest) = Free(s)
      BY <2>2, <2>4, <2>5, <2>7
    <3> QED
      BY <2>7, <3>1, Zenon DEF granted
  <2>8. CASE e \in granted /\ keeps
    <3>1. Free(rest) = Free(s) - 1
      BY <2>1, <2>2, <2>4, <2>5, <2>6, <2>8
    <3> QED
      BY <2>8, <3>1, Zenon DEF granted
  <2>9. CASE e \in granted /\ ~keeps
    <3>1. Free(rest) = Free(s)
      BY <2>1, <2>2, <2>4, <2>5, <2>6, <2>9
    <3> QED
      BY <2>9, <3>1, Zenon DEF granted
  <2> QED
    BY <2>7, <2>8, <2>9, Zenon
<1>11. rest.value \in Nat /\ (rest.value # 0 \/ rest.value = 0)
  BY <1>5
<1> HIDE DEF back
<1>12. \A is \in Says : Tasks(rest, is) = Tasks(s, is) \ {e}
  BY <1>9
<1>13. /\ Shape(Queue!Wake(rest, rest.value)) /\ NobodyIsPassed(Queue!Wake(rest, rest.value))
       /\ Free(Queue!Wake(rest, rest.value)) = Free(rest)
  BY <1>8, <1>11, WakeHandsOver
<1>14. PICK some \in SUBSET Tasks(rest, "waiting") :
               /\ Tasks(Queue!Wake(rest, rest.value), "waiting") = Tasks(rest, "waiting") \ some
               /\ Tasks(Queue!Wake(rest, rest.value), "granted") = Tasks(rest, "granted") \cup some
               /\ Tasks(Queue!Wake(rest, rest.value), "cancelled") = Tasks(rest, "cancelled")
  BY <1>8, <1>11, WakeHandsOver
<1>15. /\ Tasks(rest, "waiting") = Tasks(s, "waiting") \ {e}
       /\ Tasks(rest, "granted") = Tasks(s, "granted") \ {e}
       /\ Tasks(rest, "cancelled") = Tasks(s, "cancelled") \ {e}
  BY <1>9 DEF Says
<1>16. \E more \in SUBSET (Tasks(s, "waiting") \ {e}) :
               /\ Tasks(Queue!Left(s, e, keeps), "waiting") = Tasks(s, "waiting") \ ({e} \cup more)
               /\ Tasks(Queue!Left(s, e, keeps), "granted") = (Tasks(s, "granted") \ {e}) \cup more
               /\ Tasks(Queue!Left(s, e, keeps), "cancelled") = Tasks(s, "cancelled") \ {e}
  <2>1. some \in SUBSET (Tasks(s, "waiting") \ {e})
    BY <1>14, <1>15
  <2>2. (Tasks(s, "waiting") \ {e}) \ some = Tasks(s, "waiting") \ ({e} \cup some)
    OBVIOUS
  <2> QED
    BY <1>3, <1>14, <1>15, <2>1, <2>2
<1> QED
  BY <1>3, <1>10, <1>13, <1>16

(***************************************************************************)
(* A semaphore with the tasks that wait for it, those that hold a slot,    *)
(* and those that have been hit by a cancellation.                         *)
(***************************************************************************)
SemInv(s, those, holders, cap, hits) ==
    /\ Shape(s) /\ NobodyIsPassed(s)
    /\ those = Anywhere(s)
    /\ holders \subseteq QCalls /\ cap \in Nat
    /\ Free(s) + Cardinality(holders) = cap
    /\ Tasks(s, "waiting") \cap hits = {}
    /\ Tasks(s, "cancelled") \subseteq hits

LEMMA CallsAreFinite ==
    ASSUME NEW S, S \subseteq QCalls
    PROVE  /\ IsFiniteSet(S) /\ Cardinality(S) \in Nat
           /\ \A e : e \notin S => Cardinality(S \cup {e}) = Cardinality(S) + 1
           /\ \A e \in S : Cardinality(S \ {e}) = Cardinality(S) - 1
<1>1. IsFiniteSet(QCalls)
  <2>1. MaxCalls \in Nat
    BY ServicesAssumption DEF Queue!SchedulerAssumption
  <2> QED
    BY <2>1, FS_Interval DEF QCalls, Queue!Calls
<1>2. IsFiniteSet(S)
  BY <1>1, FS_Subset
<1> QED
  BY <1>2, FS_CardinalityType, FS_AddElement, FS_RemoveElement

LEMMA SemMembers ==
    ASSUME NEW s, NEW those, NEW holders, NEW cap, NEW hits, SemInv(s, those, holders, cap, hits)
    PROVE  /\ Free(s) \in Nat /\ those \subseteq QCalls
           /\ Cardinality(holders) \in Nat
           /\ Queue!Granted(s) = Tasks(s, "granted")
           /\ \A e \in those : e \in Tasks(s, "waiting") \cup Tasks(s, "granted")
                                   \cup Tasks(s, "cancelled")
           /\ \A e \in those : e \notin hits => e \notin Tasks(s, "cancelled")
BY TasksAre, CallsAreFinite DEF SemInv, Anywhere, Says

\* Who has nothing to do with a semaphore may be hit or forget that it was.
LEMMA HitElsewhere ==
    ASSUME NEW s, NEW those, NEW holders, NEW cap, NEW hits, NEW others,
           SemInv(s, those, holders, cap, hits), others \cap those = hits \cap those
    PROVE  SemInv(s, those, holders, cap, others)
BY DEF SemInv, Anywhere

LEMMA SemJoined ==
    ASSUME NEW s, NEW those, NEW holders, NEW cap, NEW hits, NEW e \in QCalls,
           SemInv(s, those, holders, cap, hits), Queue!Locked(s), e \notin those, e \notin hits
    PROVE  SemInv(Queue!Joined(s, e), those \cup {e}, holders, cap, hits)
<1>1. Shape(s) /\ NobodyIsPassed(s) /\ e \notin Anywhere(s)
  BY DEF SemInv
<1>2. /\ Shape(Queue!Joined(s, e)) /\ NobodyIsPassed(Queue!Joined(s, e))
      /\ Tasks(Queue!Joined(s, e), "waiting") = Tasks(s, "waiting") \cup {e}
      /\ Tasks(Queue!Joined(s, e), "granted") = Tasks(s, "granted")
      /\ Tasks(Queue!Joined(s, e), "cancelled") = Tasks(s, "cancelled")
      /\ Free(Queue!Joined(s, e)) = Free(s)
  BY <1>1, WaiterJoins
<1> QED
  BY <1>2 DEF SemInv, Anywhere

LEMMA SemTaken ==
    ASSUME NEW s, NEW those, NEW holders, NEW cap, NEW hits, NEW e \in QCalls,
           SemInv(s, those, holders, cap, hits), ~Queue!Locked(s), e \notin holders
    PROVE  SemInv(Queue!Held(s), those, holders \cup {e}, cap, hits)
<1>1. Shape(s)
  BY DEF SemInv
<1>2. /\ Shape(Queue!Held(s)) /\ NobodyIsPassed(Queue!Held(s))
      /\ \A is \in Says : Tasks(Queue!Held(s), is) = Tasks(s, is)
      /\ Free(Queue!Held(s)) = Free(s) - 1
  BY <1>1, SlotIsTaken
<1>3. Free(s) \in Nat /\ Cardinality(holders) \in Nat
      /\ Cardinality(holders \cup {e}) = Cardinality(holders) + 1
  BY SemMembers, CallsAreFinite DEF SemInv
<1>4. Free(Queue!Held(s)) + Cardinality(holders \cup {e}) = cap
  BY <1>2, <1>3 DEF SemInv
<1> QED
  BY <1>2, <1>4 DEF SemInv, Anywhere, Says

LEMMA SemReleased ==
    ASSUME NEW s, NEW those, NEW holders, NEW cap, NEW hits, NEW e \in holders,
           SemInv(s, those, holders, cap, hits)
    PROVE  SemInv(Queue!Released(s), those, holders \ {e}, cap, hits)
<1>1. Shape(s)
  BY DEF SemInv
<1>2. /\ Shape(Queue!Released(s)) /\ NobodyIsPassed(Queue!Released(s))
      /\ Free(Queue!Released(s)) = Free(s) + 1
  BY <1>1, SlotIsReleased
<1>3. PICK some \in SUBSET Tasks(s, "waiting") :
                 /\ Tasks(Queue!Released(s), "waiting") = Tasks(s, "waiting") \ some
                 /\ Tasks(Queue!Released(s), "granted") = Tasks(s, "granted") \cup some
                 /\ Tasks(Queue!Released(s), "cancelled") = Tasks(s, "cancelled")
  BY <1>1, SlotIsReleased
<1>4. Free(s) \in Nat /\ Cardinality(holders) \in Nat
      /\ Cardinality(holders \ {e}) = Cardinality(holders) - 1
  BY SemMembers, CallsAreFinite DEF SemInv
<1>5. Free(Queue!Released(s)) + Cardinality(holders \ {e}) = cap
  BY <1>2, <1>4 DEF SemInv
<1>6. Anywhere(Queue!Released(s)) = those
  BY <1>3 DEF SemInv, Anywhere
<1> QED
  BY <1>2, <1>3, <1>5, <1>6 DEF SemInv

LEMMA SemCancelled ==
    ASSUME NEW s, NEW those, NEW holders, NEW cap, NEW hits, NEW e \in QCalls,
           SemInv(s, those, holders, cap, hits)
    PROVE  SemInv(Queue!CancelWaiter(s, e), those, holders, cap, hits \cup {e})
<1>1. Shape(s) /\ NobodyIsPassed(s)
  BY DEF SemInv
<1>2. /\ Shape(Queue!CancelWaiter(s, e)) /\ NobodyIsPassed(Queue!CancelWaiter(s, e))
      /\ Tasks(Queue!CancelWaiter(s, e), "waiting") = Tasks(s, "waiting") \ {e}
      /\ Tasks(Queue!CancelWaiter(s, e), "granted") = Tasks(s, "granted")
      /\ Tasks(Queue!CancelWaiter(s, e), "cancelled")
           = Tasks(s, "cancelled") \cup (Tasks(s, "waiting") \cap {e})
      /\ Free(Queue!CancelWaiter(s, e)) = Free(s)
  BY <1>1, WaiterIsCancelled
<1>3. Anywhere(Queue!CancelWaiter(s, e)) = those
  BY <1>2 DEF SemInv, Anywhere
<1> QED
  BY <1>2, <1>3 DEF SemInv

\* Who was handed a slot and was not cancelled keeps it.
LEMMA SemLeft ==
    ASSUME NEW s, NEW those, NEW holders, NEW cap, NEW hits, NEW e \in those, NEW keeps \in BOOLEAN,
           SemInv(s, those, holders, cap, hits), keeps => e \in Queue!Granted(s) /\ e \notin holders
    PROVE  SemInv(Queue!Left(s, e, keeps), those \ {e},
                  IF keeps THEN holders \cup {e} ELSE holders, cap, hits)
<1>1. Shape(s) /\ e \in Anywhere(s)
  BY DEF SemInv
<1>2. /\ Shape(Queue!Left(s, e, keeps)) /\ NobodyIsPassed(Queue!Left(s, e, keeps))
      /\ Free(Queue!Left(s, e, keeps))
           = IF keeps /\ e \in Tasks(s, "granted") THEN Free(s) - 1 ELSE Free(s)
  BY <1>1, WaiterLeaves
<1>3. PICK some \in SUBSET (Tasks(s, "waiting") \ {e}) :
               /\ Tasks(Queue!Left(s, e, keeps), "waiting") = Tasks(s, "waiting") \ ({e} \cup some)
               /\ Tasks(Queue!Left(s, e, keeps), "granted") = (Tasks(s, "granted") \ {e}) \cup some
               /\ Tasks(Queue!Left(s, e, keeps), "cancelled") = Tasks(s, "cancelled") \ {e}
  BY <1>1, WaiterLeaves
<1>4. Anywhere(Queue!Left(s, e, keeps)) = those \ {e}
  BY <1>3 DEF SemInv, Anywhere
<1>5. /\ Free(s) \in Nat /\ Cardinality(holders) \in Nat
      /\ keeps => Cardinality(holders \cup {e}) = Cardinality(holders) + 1
      /\ Queue!Granted(s) = Tasks(s, "granted") /\ e \in QCalls
  BY SemMembers, CallsAreFinite DEF SemInv
<1>6. /\ Free(Queue!Left(s, e, keeps))
           + Cardinality(IF keeps THEN holders \cup {e} ELSE holders) = cap
  BY <1>2, <1>5 DEF SemInv
<1> QED
  BY <1>2, <1>3, <1>4, <1>5, <1>6 DEF SemInv

-----------------------------------------------------------------------------
(***************************************************************************)
(* Scheduler: calls, the admissions they create, and what is remembered.   *)
(***************************************************************************)
In(place) == {e \in QCalls : adm[e].at = place}
WaitsFor(r) == {e \in QCalls : adm[e].at = "repo" /\ Queue!RepoKey(e) = r}
Hits == {e \in QCalls : adm[e].hit}

Admission == [at : Queue!Live \cup Queue!Ended \cup {"none"}, hit : BOOLEAN, record : QCalls,
              started : BOOLEAN, stopped : BOOLEAN, early : BOOLEAN]

AdmissionTypes ==
    /\ calls \in [QCalls -> [key : Keys, task : QCalls \cup {0},
                             at : {"idle", "waiting", "unwinding", "gone"}]]
    /\ adm \in [QCalls -> Admission]
    /\ admitted \in Seq(QCalls) /\ disowned \subseteq Keys
    /\ DOMAIN repo = Repos

FleetSem == SemInv(fleet, In("fleet"), In("inside"), FleetLimit, Hits)
RepoSem(r) == SemInv(repo[r], WaitsFor(r), Queue!Holders(r), RepoCap[r], Hits)

SlotsAreTaken ==
    /\ FleetSem
    /\ \A r \in Repos : RepoSem(r)

\* An admission has its creator, who waits for it or is gone.
Created ==
    /\ \A c \in QCalls : calls[c].at = "idle" => calls[c].task = 0
    /\ \A e \in QCalls : adm[e].at # "none" <=> Queue!Mine(e)
    /\ \A e \in QCalls : adm[e].at = "none" => ~adm[e].hit /\ ~adm[e].stopped

\* What is remembered is one admission of each key, and every live one whose key nobody
\* has disowned.
Remembered ==
    /\ \A i \in DOMAIN admitted : Queue!Mine(admitted[i])
    /\ \A i, j \in DOMAIN admitted :
          Queue!Key(admitted[i]) = Queue!Key(admitted[j]) => i = j
    /\ \A e \in QCalls : adm[e].at \in Queue!Live /\ Queue!Key(e) \notin disowned =>
          \E i \in DOMAIN admitted : admitted[i] = e

\* cancel() of what is remembered finds out whether it started, and what it stops is hit.
StopsAreHits ==
    /\ \A i \in DOMAIN admitted :
         LET e == admitted[i] IN
         /\ adm[e].at \in {"repo", "fleet"} => adm[e].record = e
         /\ adm[e].at = "inside" => adm[e].started
    /\ \A e \in QCalls :
         /\ adm[e].stopped /\ adm[e].at \in Queue!Live => adm[e].hit
         /\ adm[e].at = "inside" => ~adm[e].stopped

SchedulerInv == AdmissionTypes /\ SlotsAreTaken /\ Created /\ Remembered /\ StopsAreHits

LEMMA SchedulerConstants ==
    /\ Keys # {} /\ RepoOf \in [Keys -> Repos] /\ RepoCap \in [Repos -> Nat \ {0}]
    /\ FleetLimit \in Nat \ {0} /\ MaxRemembered \in Nat \ {0} /\ MaxCalls \in Nat
    /\ 0 \notin QCalls
BY ServicesAssumption DEF Queue!SchedulerAssumption, QCalls, Queue!Calls

LEMMA NewSemInv ==
    ASSUME NEW cap \in Nat
    PROVE  SemInv(Queue!NewSemaphore(cap), {}, {}, cap, {})
<1> DEFINE s == Queue!NewSemaphore(cap)
<1>1. s.value = cap /\ s.waiters = <<>> /\ s \in [value : Nat, waiters : Seq(Waiter)]
  BY DEF Queue!NewSemaphore
<1> HIDE DEF s
<1>2. Shape(s)
  BY <1>1 DEF Shape
<1>3. \A is \in Says : Tasks(s, is) = {}
  BY <1>1 DEF Tasks
<1>4. Free(s) + Cardinality({}) = cap
  <2>1. Tasks(s, "granted") = {} /\ Cardinality({}) = 0
    BY <1>3, FS_EmptySet DEF Says
  <2>2. Cardinality(Tasks(s, "granted")) = 0
    BY <2>1
  <2> QED
    BY <1>1, <2>1, <2>2 DEF Free
<1> QED
  BY <1>2, <1>3, <1>4 DEF SemInv, NobodyIsPassed, Anywhere, s, Says

LEMMA SchedulerInit == Init => SchedulerInv
<1> SUFFICES ASSUME Queue!Init PROVE SchedulerInv
  BY DEF Init
<1> USE SchedulerConstants
<1>1. /\ calls = [c \in QCalls |-> Queue!Nobody] /\ Queue!Nobody.task = 0
      /\ Queue!Nobody \in [key : Keys, task : QCalls \cup {0},
                           at : {"idle", "waiting", "unwinding", "gone"}]
  BY DEF Queue!Init, Queue!Nobody, QCalls
<1>2. \A c \in QCalls : adm[c].at = "none" /\ ~adm[c].hit /\ ~adm[c].stopped /\ adm[c] \in Admission
  BY DEF Queue!Init, Queue!NoAdmission, QCalls, Admission
<1>3. AdmissionTypes
  BY <1>1, <1>2 DEF Queue!Init, AdmissionTypes, QCalls
<1>4. SlotsAreTaken
  <2>1. /\ \A place \in {"fleet", "inside"} : In(place) = {}
        /\ \A r \in Repos : WaitsFor(r) = {} /\ Queue!Holders(r) = {}
        /\ Hits = {}
    BY <1>2 DEF In, WaitsFor, Queue!Holders, Hits, QCalls
  <2>2. /\ fleet = Queue!NewSemaphore(FleetLimit)
        /\ \A r \in Repos : repo[r] = Queue!NewSemaphore(RepoCap[r]) /\ RepoCap[r] \in Nat
    BY DEF Queue!Init
  <2> QED
    BY <2>1, <2>2, NewSemInv DEF SlotsAreTaken, FleetSem, RepoSem
<1>5. Created
  BY <1>1, <1>2 DEF Created, Queue!Mine
<1>6. admitted = <<>>
  BY DEF Queue!Init
<1>7. Remembered
  BY <1>2, <1>6 DEF Remembered, Queue!Live
<1>8. StopsAreHits
  BY <1>2, <1>6 DEF StopsAreHits
<1> QED
  BY <1>3, <1>4, <1>5, <1>7, <1>8 DEF SchedulerInv

\* The entry of a key, if there is one, is the only one.
LEMMA EntryIsRemembered ==
    ASSUME AdmissionTypes, NEW k, Queue!Entries(k) # {}
    PROVE  /\ Queue!Entry(k) \in QCalls /\ Queue!Key(Queue!Entry(k)) = k
           /\ \E i \in DOMAIN admitted : admitted[i] = Queue!Entry(k)
<1>1. Queue!Entry(k) \in Queue!Entries(k)
  BY DEF Queue!Entry
<1>2. Queue!Entry(k) \in Queue!ToSet(admitted) /\ Queue!Key(Queue!Entry(k)) = k
  BY <1>1 DEF Queue!Entries
<1>3. PICK i \in DOMAIN admitted : admitted[i] = Queue!Entry(k)
  BY <1>2 DEF Queue!ToSet
<1> QED
  BY <1>2, <1>3 DEF AdmissionTypes

\* A step of an admission, as the others see it.
OwnStep(e) ==
    /\ UNCHANGED <<calls, admitted, disowned>>
    /\ adm[e].at \in Queue!Live
    /\ adm' \in [QCalls -> Admission]
    /\ \A d \in QCalls \ {e} : /\ adm'[d].at = adm[d].at /\ adm'[d].record = adm[d].record
                               /\ adm'[d].hit <=> adm[d].hit
                               /\ adm'[d].stopped <=> adm[d].stopped
                               /\ adm[d].started => adm'[d].started
    /\ \/ adm'[e].at \in Queue!Ended /\ ~adm'[e].hit /\ ~adm'[e].stopped
       \/ /\ adm'[e].at \in {"repo", "fleet", "inside"} /\ adm[e].at # "inside"
          /\ ~adm[e].hit /\ ~adm'[e].hit
          /\ adm'[e].stopped <=> adm[e].stopped
          /\ adm'[e].record = IF adm[e].at = "created" THEN Queue!Entry(Queue!Key(e))
                              ELSE adm[e].record
          /\ adm'[e].at = "inside" => adm'[adm'[e].record].started

LEMMA EndsIsOwnStep ==
    ASSUME AdmissionTypes, NEW e \in QCalls, NEW place \in Queue!Ended, Queue!Ends(e, place),
           adm[e].at \in Queue!Live, UNCHANGED <<calls, admitted, disowned>>
    PROVE  OwnStep(e) /\ adm'[e].at = place
<1>1. adm' = [adm EXCEPT ![e] = [Queue!NoAdmission(e) EXCEPT !.at = place]]
  BY DEF Queue!Ends
<1>2. /\ [Queue!NoAdmission(e) EXCEPT !.at = place] \in Admission
      /\ [Queue!NoAdmission(e) EXCEPT !.at = place].at = place
      /\ ~[Queue!NoAdmission(e) EXCEPT !.at = place].hit
      /\ ~[Queue!NoAdmission(e) EXCEPT !.at = place].stopped
  BY DEF Queue!NoAdmission, Admission
<1> DEFINE new == [Queue!NoAdmission(e) EXCEPT !.at = place]
<1> HIDE DEF new
<1>3. /\ adm' \in [QCalls -> Admission] /\ adm'[e] = new
      /\ \A d \in QCalls \ {e} : adm'[d] = adm[d]
  BY <1>1, <1>2 DEF AdmissionTypes, new
<1> QED
  BY <1>2, <1>3 DEF OwnStep, new

LEMMA EntersIsOwnStep ==
    ASSUME AdmissionTypes, NEW e \in QCalls, NEW record \in QCalls, adm[e].at \in Queue!Live,
           adm[e].at # "inside", ~adm[e].hit, UNCHANGED <<calls, admitted, disowned>>,
           record = IF adm[e].at = "created" THEN Queue!Entry(Queue!Key(e)) ELSE adm[e].record,
           \/ \E place \in {"repo", "fleet"} :
                 adm' = [adm EXCEPT ![e].at = place, ![e].record = record]
           \/ adm' = [[adm EXCEPT ![e].at = "inside", ![e].record = record]
                        EXCEPT ![record].started = TRUE]
    PROVE  OwnStep(e)
<1>1. \A d \in QCalls : adm[d] \in Admission
  BY DEF AdmissionTypes
<1>2. DOMAIN adm = QCalls
  BY DEF AdmissionTypes
<1>3. ASSUME NEW place \in {"repo", "fleet"},
             adm' = [adm EXCEPT ![e].at = place, ![e].record = record]
      PROVE  OwnStep(e)
  <2>1. /\ \A d \in QCalls \ {e} : adm'[d] = adm[d]
        /\ adm'[e] = [adm[e] EXCEPT !.at = place, !.record = record]
        /\ DOMAIN adm' = QCalls /\ adm' = [d \in QCalls |-> adm'[d]]
    BY <1>2, <1>3
  <2>2. adm[e] \in Admission /\ place \in Queue!Live
    BY <1>1 DEF Queue!Live
  <2>3. /\ adm'[e] \in Admission /\ adm'[e].at = place /\ adm'[e].record = record
        /\ adm'[e].hit <=> adm[e].hit
        /\ adm'[e].stopped <=> adm[e].stopped
    BY <2>1, <2>2 DEF Admission
  <2>4. adm' \in [QCalls -> Admission]
    BY <1>1, <2>1, <2>3
  <2> QED
    BY <2>1, <2>3, <2>4 DEF OwnStep
<1>4. ASSUME adm' = [[adm EXCEPT ![e].at = "inside", ![e].record = record]
                        EXCEPT ![record].started = TRUE]
      PROVE  OwnStep(e)
  <2> DEFINE mid == [adm EXCEPT ![e].at = "inside", ![e].record = record]
  <2>1. /\ \A d \in QCalls \ {e} : mid[d] = adm[d]
        /\ mid[e] = [adm[e] EXCEPT !.at = "inside", !.record = record]
        /\ DOMAIN mid = QCalls
    BY <1>2
  <2> HIDE DEF mid
  <2>2. adm[e] \in Admission /\ "inside" \in Queue!Live
    BY <1>1 DEF Queue!Live
  <2>3. /\ mid[e] \in Admission /\ mid[e].at = "inside" /\ mid[e].record = record
        /\ mid[e].hit <=> adm[e].hit
        /\ mid[e].stopped <=> adm[e].stopped
    BY <2>1, <2>2 DEF Admission
  <2>4. \A d \in QCalls : mid[d] \in Admission
    BY <1>1, <2>1, <2>3
  <2>5. adm' = [mid EXCEPT ![record].started = TRUE]
    BY <1>4 DEF mid
  <2>6. /\ \A d \in QCalls \ {record} : adm'[d] = mid[d]
        /\ adm'[record] = [mid[record] EXCEPT !.started = TRUE]
        /\ DOMAIN adm' = QCalls /\ adm' = [d \in QCalls |-> adm'[d]]
    BY <2>1, <2>5
  <2>7. mid[record] \in Admission
    BY <2>4
  <2>8. /\ adm'[record] \in Admission /\ adm'[record].started
        /\ adm'[record].at = mid[record].at /\ adm'[record].record = mid[record].record
        /\ adm'[record].hit <=> mid[record].hit
        /\ adm'[record].stopped <=> mid[record].stopped
    BY <2>6, <2>7 DEF Admission
  <2>9. adm' \in [QCalls -> Admission]
    BY <2>4, <2>6, <2>8
  <2>10. /\ adm'[e].at = "inside" /\ adm'[e].record = record
         /\ adm'[e].hit <=> adm[e].hit
         /\ adm'[e].stopped <=> adm[e].stopped
    <3>1. CASE e = record
      BY <2>3, <2>8, <3>1
    <3>2. CASE e # record
      BY <2>3, <2>6, <3>2
    <3> QED
      BY <3>1, <3>2
  <2>11. ASSUME NEW d \in QCalls \ {e}
         PROVE  /\ adm'[d].at = adm[d].at /\ adm'[d].record = adm[d].record
                /\ adm'[d].hit <=> adm[d].hit
                /\ adm'[d].stopped <=> adm[d].stopped
                /\ adm[d].started => adm'[d].started
    <3>1. CASE d = record
      BY <2>1, <2>8, <3>1
    <3>2. CASE d # record
      BY <2>1, <2>6, <3>2
    <3> QED
      BY <3>1, <3>2
  <2> QED
    BY <2>8, <2>9, <2>10, <2>11 DEF OwnStep
<1> QED
  BY <1>3, <1>4

LEMMA KeyHasARepo ==
    ASSUME AdmissionTypes, NEW e \in QCalls
    PROVE  Queue!Key(e) \in Keys /\ Queue!RepoKey(e) \in Repos
BY SchedulerConstants DEF AdmissionTypes, Queue!Key, Queue!RepoKey

\* What an admission's step does to the sets of those that wait, hold and are hit.
LEMMA OwnStepMoves ==
    ASSUME AdmissionTypes, NEW e \in QCalls, OwnStep(e)
    PROVE  /\ Hits' = Hits \ {e}
           /\ \A place : In(place)' = (In(place) \ {e})
                                        \cup (IF adm'[e].at = place THEN {e} ELSE {})
           /\ \A r : WaitsFor(r)' = (WaitsFor(r) \ {e})
                        \cup (IF adm'[e].at = "repo" /\ Queue!RepoKey(e) = r THEN {e} ELSE {})
           /\ \A r : Queue!Holders(r)' = (Queue!Holders(r) \ {e})
                        \cup (IF adm'[e].at \in {"fleet", "inside"} /\ Queue!RepoKey(e) = r
                              THEN {e} ELSE {})
<1>1. \A d \in QCalls : Queue!RepoKey(d)' = Queue!RepoKey(d)
  BY DEF OwnStep, Queue!RepoKey, Queue!Key
<1>2. /\ \A d \in QCalls \ {e} : adm'[d].at = adm[d].at /\ (adm'[d].hit <=> adm[d].hit)
      /\ ~adm'[e].hit
  BY DEF OwnStep
<1>3. Hits' = Hits \ {e}
  BY <1>2 DEF Hits
<1>4. \A place : In(place)' = (In(place) \ {e}) \cup (IF adm'[e].at = place THEN {e} ELSE {})
  BY <1>2 DEF In
<1>5. \A r : WaitsFor(r)' = (WaitsFor(r) \ {e})
                  \cup (IF adm'[e].at = "repo" /\ Queue!RepoKey(e) = r THEN {e} ELSE {})
  BY <1>1, <1>2 DEF WaitsFor
<1>6. \A r : Queue!Holders(r)' = (Queue!Holders(r) \ {e})
                  \cup (IF adm'[e].at \in {"fleet", "inside"} /\ Queue!RepoKey(e) = r
                        THEN {e} ELSE {})
  BY <1>1, <1>2 DEF Queue!Holders, QCalls
<1> QED
  BY <1>3, <1>4, <1>5, <1>6

LEMMA OwnStepKeeps ==
    ASSUME SchedulerInv, NEW e \in QCalls, OwnStep(e), DOMAIN repo' = Repos
    PROVE  AdmissionTypes' /\ Created' /\ Remembered' /\ StopsAreHits'
<1> USE DEF SchedulerInv
<1>1. AdmissionTypes'
  BY DEF AdmissionTypes, OwnStep
<1>2. \A d \in QCalls : /\ Queue!Key(d)' = Queue!Key(d)
                        /\ Queue!Mine(d)' <=> Queue!Mine(d)
                        /\ adm'[d].at \in Queue!Live => adm[d].at \in Queue!Live
                        /\ adm'[d].at # "none" <=> adm[d].at # "none"
  <2>1. "none" \notin Queue!Live /\ "none" \notin Queue!Ended
        /\ "none" \notin {"repo", "fleet", "inside"}
    BY DEF Queue!Live, Queue!Ended
  <2> QED
    BY <2>1 DEF OwnStep, Queue!Key, Queue!Mine
<1>3. Created'
  <2>1. ASSUME NEW d \in QCalls, adm'[d].at = "none" PROVE ~adm'[d].hit /\ ~adm'[d].stopped
    <3>1. d # e /\ adm[d].at = "none"
      BY <1>2, <2>1 DEF OwnStep, Queue!Live
    <3> QED
      BY <3>1 DEF OwnStep, Created
  <2> QED
    BY <1>2, <2>1 DEF Created, OwnStep
<1>4. /\ admitted' = admitted /\ disowned' = disowned
      /\ \A i \in DOMAIN admitted : admitted[i] \in QCalls
  BY DEF OwnStep, AdmissionTypes
<1>5. Remembered'
  BY <1>2, <1>4 DEF Remembered
<1>6. ASSUME NEW i \in DOMAIN admitted, NEW d, d = admitted[i]
      PROVE  /\ adm'[d].at \in {"repo", "fleet"} => adm'[d].record = d
             /\ adm'[d].at = "inside" => adm'[d].started
  <2>1. d \in QCalls
    BY <1>4, <1>6
  <2>2. CASE d # e
    BY <1>6, <2>1, <2>2 DEF StopsAreHits, OwnStep
  <2>3. CASE d = e /\ adm'[e].at \in {"repo", "fleet", "inside"}
    <3>1. adm[e].at \in {"created", "repo", "fleet"}
      BY <2>3 DEF OwnStep, Queue!Live, Queue!Ended
    <3>2. adm'[e].record = IF adm[e].at = "created" THEN Queue!Entry(Queue!Key(e))
                           ELSE adm[e].record
      BY <2>3 DEF OwnStep, Queue!Ended
    <3>3. Queue!Entry(Queue!Key(e)) = e
      <4>1. e \in Queue!Entries(Queue!Key(e))
        BY <1>6, <2>3 DEF Queue!Entries, Queue!ToSet
      <4>2. Queue!Entry(Queue!Key(e)) \in Queue!Entries(Queue!Key(e))
        BY <4>1 DEF Queue!Entry
      <4>3. PICK j \in DOMAIN admitted : admitted[j] = Queue!Entry(Queue!Key(e))
        BY <4>2 DEF Queue!Entries, Queue!ToSet
      <4>4. Queue!Key(admitted[j]) = Queue!Key(admitted[i])
        BY <1>6, <2>3, <4>2, <4>3 DEF Queue!Entries
      <4> QED
        BY <1>6, <2>3, <4>3, <4>4 DEF Remembered
    <3>4. adm'[e].record = e
      <4>1. adm[e].at # "created" => adm[e].record = e
        BY <1>6, <2>3, <3>1 DEF StopsAreHits
      <4> QED
        BY <3>2, <3>3, <4>1
    <3>5. adm'[e].at = "inside" => adm'[adm'[e].record].started
      BY <2>3 DEF OwnStep, Queue!Ended
    <3> QED
      BY <2>3, <3>4, <3>5
  <2> QED
    BY <2>2, <2>3
<1>7. ASSUME NEW d \in QCalls
      PROVE  /\ adm'[d].stopped /\ adm'[d].at \in Queue!Live => adm'[d].hit
             /\ adm'[d].at = "inside" => ~adm'[d].stopped
  <2>1. CASE d # e
    BY <2>1 DEF StopsAreHits, OwnStep
  <2>2. CASE d = e
    BY <2>2 DEF StopsAreHits, OwnStep, Queue!Ended, Queue!Live
  <2> QED
    BY <2>1, <2>2
<1>8. StopsAreHits'
  BY <1>4, <1>6, <1>7 DEF StopsAreHits
<1> QED
  BY <1>1, <1>3, <1>5, <1>8

\* The semaphores of other repositories see nothing of it.
LEMMA OtherReposStand ==
    ASSUME SchedulerInv, NEW e \in QCalls, OwnStep(e), NEW s, NEW own \in Repos,
           own = Queue!RepoKey(e),
           repo' = [repo EXCEPT ![own] = s] \/ (repo' = repo /\ s = repo[own]),
           SemInv(s, WaitsFor(own)', Queue!Holders(own)', RepoCap[own], Hits')
    PROVE  DOMAIN repo' = Repos /\ \A r \in Repos : RepoSem(r)'
<1>1. DOMAIN repo = Repos /\ AdmissionTypes
  BY DEF SchedulerInv, AdmissionTypes
<1>2. DOMAIN repo' = Repos /\ repo'[own] = s /\ \A r \in Repos \ {own} : repo'[r] = repo[r]
  BY <1>1
<1>3. ASSUME NEW r \in Repos \ {own} PROVE RepoSem(r)'
  <2>1. SemInv(repo[r], WaitsFor(r), Queue!Holders(r), RepoCap[r], Hits)
    BY DEF SchedulerInv, SlotsAreTaken, RepoSem
  <2>2. e \notin WaitsFor(r) /\ e \notin Queue!Holders(r) /\ Queue!RepoKey(e) # r
    BY DEF WaitsFor, Queue!Holders
  <2>3. WaitsFor(r)' = WaitsFor(r)
    <3>1. WaitsFor(r)' = (WaitsFor(r) \ {e})
                  \cup (IF adm'[e].at = "repo" /\ Queue!RepoKey(e) = r THEN {e} ELSE {})
      BY <1>1, OwnStepMoves
    <3> QED
      BY <2>2, <3>1
  <2>4. Queue!Holders(r)' = Queue!Holders(r)
    <3>1. Queue!Holders(r)' = (Queue!Holders(r) \ {e})
                  \cup (IF adm'[e].at \in {"fleet", "inside"} /\ Queue!RepoKey(e) = r
                        THEN {e} ELSE {})
      BY <1>1, OwnStepMoves
    <3> QED
      BY <2>2, <3>1
  <2>5. Hits' \cap WaitsFor(r) = Hits \cap WaitsFor(r)
    <3>1. Hits' = Hits \ {e}
      BY <1>1, OwnStepMoves
    <3> QED
      BY <2>2, <3>1
  <2>6. SemInv(repo[r], WaitsFor(r), Queue!Holders(r), RepoCap[r], Hits')
    BY <2>1, <2>5, HitElsewhere
  <2> QED
    BY <1>2, <2>3, <2>4, <2>6 DEF RepoSem
<1>4. RepoSem(own)'
  BY <1>2 DEF RepoSem
<1> QED
  BY <1>2, <1>3, <1>4

LEMMA OwnStepMovesOne ==
    ASSUME AdmissionTypes, NEW e \in QCalls, OwnStep(e), NEW own, own = Queue!RepoKey(e)
    PROVE  /\ adm[e].at # "repo" /\ adm'[e].at # "repo" => WaitsFor(own)' = WaitsFor(own)
           /\ adm'[e].at = "repo" => WaitsFor(own)' = WaitsFor(own) \cup {e}
           /\ adm'[e].at # "repo" => WaitsFor(own)' = WaitsFor(own) \ {e}
           /\ adm[e].at \notin {"fleet", "inside"} /\ adm'[e].at \notin {"fleet", "inside"} =>
                 Queue!Holders(own)' = Queue!Holders(own)
           /\ adm'[e].at \in {"fleet", "inside"} =>
                 Queue!Holders(own)' = Queue!Holders(own) \cup {e}
           /\ adm'[e].at \notin {"fleet", "inside"} =>
                 Queue!Holders(own)' = Queue!Holders(own) \ {e}
           /\ Hits' = Hits \ {e}
           /\ e \notin Hits => Hits' = Hits
           /\ e \in WaitsFor(own) <=> adm[e].at = "repo"
           /\ e \in Queue!Holders(own) <=> adm[e].at \in {"fleet", "inside"}
           /\ \A place : e \in In(place) <=> adm[e].at = place
           /\ e \in Hits <=> adm[e].hit
<1>1. WaitsFor(own)' = (WaitsFor(own) \ {e})
                  \cup (IF adm'[e].at = "repo" /\ Queue!RepoKey(e) = own THEN {e} ELSE {})
  BY OwnStepMoves
<1>2. Queue!Holders(own)' = (Queue!Holders(own) \ {e})
                  \cup (IF adm'[e].at \in {"fleet", "inside"} /\ Queue!RepoKey(e) = own
                        THEN {e} ELSE {})
  BY OwnStepMoves
<1>3. Hits' = Hits \ {e}
  BY OwnStepMoves
<1>4. /\ e \in WaitsFor(own) <=> adm[e].at = "repo"
      /\ e \in Queue!Holders(own) <=> adm[e].at \in {"fleet", "inside"}
      /\ \A place : e \in In(place) <=> adm[e].at = place
      /\ e \in Hits <=> adm[e].hit
  BY DEF WaitsFor, Queue!Holders, In, Hits, QCalls
<1>5. /\ adm[e].at # "repo" /\ adm'[e].at # "repo" => WaitsFor(own)' = WaitsFor(own)
      /\ adm'[e].at = "repo" => WaitsFor(own)' = WaitsFor(own) \cup {e}
      /\ adm'[e].at # "repo" => WaitsFor(own)' = WaitsFor(own) \ {e}
  BY <1>1, <1>4
<1>6. /\ adm[e].at \notin {"fleet", "inside"} /\ adm'[e].at \notin {"fleet", "inside"} =>
            Queue!Holders(own)' = Queue!Holders(own)
      /\ adm'[e].at \in {"fleet", "inside"} =>
            Queue!Holders(own)' = Queue!Holders(own) \cup {e}
      /\ adm'[e].at \notin {"fleet", "inside"} =>
            Queue!Holders(own)' = Queue!Holders(own) \ {e}
  BY <1>2, <1>4
<1>7. e \notin Hits => Hits' = Hits
  BY <1>3
<1> QED
  BY <1>3, <1>4, <1>5, <1>6, <1>7

\* Having its repository's slot, an admission waits for the fleet or takes its slot.
LEMMA FleetIsAsked ==
    ASSUME SchedulerInv, NEW e \in QCalls, NEW record, OwnStep(e),
           adm[e].at \in {"created", "repo"}, ~adm[e].hit, Queue!AsksFleet(e, record)
    PROVE  FleetSem' /\ adm'[e].at \in {"fleet", "inside"}
<1>1. AdmissionTypes /\ SemInv(fleet, In("fleet"), In("inside"), FleetLimit, Hits)
  BY DEF SchedulerInv, SlotsAreTaken, FleetSem
<1>2. e \notin In("fleet") /\ e \notin In("inside") /\ e \notin Hits
  BY DEF In, Hits
<1>3. /\ Hits' = Hits \ {e}
      /\ \A place : In(place)' = (In(place) \ {e})
                                   \cup (IF adm'[e].at = place THEN {e} ELSE {})
  BY <1>1, OwnStepMoves
<1>4. adm \in [QCalls -> Admission]
  BY <1>1 DEF AdmissionTypes
<1>5. CASE Queue!Locked(fleet)
  <2>1. fleet' = Queue!Joined(fleet, e)
    BY <1>5 DEF Queue!AsksFleet
  <2>2. adm'[e].at = "fleet"
    <3>1. adm' = [adm EXCEPT ![e].at = "fleet", ![e].record = record]
      BY <1>5 DEF Queue!AsksFleet
    <3> QED
      BY <1>4, <3>1 DEF Admission
  <2>3. SemInv(Queue!Joined(fleet, e), In("fleet") \cup {e}, In("inside"), FleetLimit, Hits)
    BY <1>1, <1>2, <1>5, SemJoined
  <2>4. In("fleet")' = In("fleet") \cup {e} /\ In("inside")' = In("inside") /\ Hits' = Hits
    <3>1. /\ In("fleet")' = (In("fleet") \ {e}) \cup (IF adm'[e].at = "fleet" THEN {e} ELSE {})
          /\ In("inside")' = (In("inside") \ {e}) \cup (IF adm'[e].at = "inside" THEN {e} ELSE {})
      BY <1>3
    <3> QED
      BY <1>2, <1>3, <2>2, <3>1
  <2> QED
    BY <2>1, <2>2, <2>3, <2>4 DEF FleetSem
<1>6. CASE ~Queue!Locked(fleet)
  <2>1. fleet' = Queue!Held(fleet)
    BY <1>6 DEF Queue!AsksFleet
  <2>2. adm'[e].at = "inside"
    <3>1. adm' = [[adm EXCEPT ![e].at = "inside", ![e].record = record]
                      EXCEPT ![record].started = TRUE]
      BY <1>6 DEF Queue!AsksFleet
    <3> DEFINE mid == [adm EXCEPT ![e].at = "inside", ![e].record = record]
    <3>2. DOMAIN mid = QCalls /\ mid[e].at = "inside" /\ DOMAIN mid[e] = DOMAIN adm[e]
      BY <1>4 DEF Admission
    <3>3. adm' = [mid EXCEPT ![record].started = TRUE]
      BY <3>1
    <3> HIDE DEF mid
    <3> QED
      BY <1>4, <3>2, <3>3 DEF Admission
  <2>3. SemInv(Queue!Held(fleet), In("fleet"), In("inside") \cup {e}, FleetLimit, Hits)
    BY <1>1, <1>2, <1>6, SemTaken
  <2>4. In("fleet")' = In("fleet") /\ In("inside")' = In("inside") \cup {e} /\ Hits' = Hits
    <3>1. /\ In("fleet")' = (In("fleet") \ {e}) \cup (IF adm'[e].at = "fleet" THEN {e} ELSE {})
          /\ In("inside")' = (In("inside") \ {e}) \cup (IF adm'[e].at = "inside" THEN {e} ELSE {})
      BY <1>3
    <3> QED
      BY <1>2, <1>3, <2>2, <3>1
  <2> QED
    BY <2>1, <2>2, <2>3, <2>4 DEF FleetSem
<1> QED
  BY <1>5, <1>6

\* An admission that had nothing of the fleet and asks for nothing.
LEMMA FleetStands ==
    ASSUME SchedulerInv, NEW e \in QCalls, OwnStep(e), UNCHANGED fleet,
           adm[e].at \notin {"fleet", "inside"}, adm'[e].at \notin {"fleet", "inside"}
    PROVE  FleetSem'
<1>1. AdmissionTypes /\ SemInv(fleet, In("fleet"), In("inside"), FleetLimit, Hits)
  BY DEF SchedulerInv, SlotsAreTaken, FleetSem
<1>2. e \notin In("fleet") /\ e \notin In("inside")
  BY DEF In
<1>3. /\ Hits' = Hits \ {e}
      /\ In("fleet")' = (In("fleet") \ {e}) \cup (IF adm'[e].at = "fleet" THEN {e} ELSE {})
      /\ In("inside")' = (In("inside") \ {e}) \cup (IF adm'[e].at = "inside" THEN {e} ELSE {})
  BY <1>1, OwnStepMoves
<1>4. In("fleet")' = In("fleet") /\ In("inside")' = In("inside")
  BY <1>2, <1>3
<1>5. Hits' \cap In("fleet") = Hits \cap In("fleet")
  BY <1>2, <1>3
<1>6. SemInv(fleet, In("fleet"), In("inside"), FleetLimit, Hits')
  BY <1>1, <1>5, HitElsewhere
<1> QED
  BY <1>4, <1>6 DEF FleetSem

LEMMA OwnStepIsSafe ==
    ASSUME SchedulerInv, NEW e \in QCalls, OwnStep(e), NEW s, NEW own \in Repos,
           own = Queue!RepoKey(e),
           repo' = [repo EXCEPT ![own] = s] \/ (repo' = repo /\ s = repo[own]),
           SemInv(s, WaitsFor(own)', Queue!Holders(own)', RepoCap[own], Hits'),
           FleetSem'
    PROVE  SchedulerInv'
<1>1. DOMAIN repo' = Repos /\ \A r \in Repos : RepoSem(r)'
  BY OtherReposStand
<1>2. SlotsAreTaken'
  BY <1>1 DEF SlotsAreTaken
<1>3. AdmissionTypes' /\ Created' /\ Remembered' /\ StopsAreHits'
  BY <1>1, OwnStepKeeps
<1> QED
  BY <1>2, <1>3 DEF SchedulerInv

LEMMA StartsIsSafe ==
    ASSUME SchedulerInv, NEW e \in QCalls, Queue!Starts(e)
    PROVE  SchedulerInv'
<1>1. AdmissionTypes /\ adm \in [QCalls -> Admission] /\ DOMAIN repo = Repos
  BY DEF SchedulerInv, AdmissionTypes
<1>2. PICK own \in Repos : own = Queue!RepoKey(e)
  BY <1>1, KeyHasARepo
<1>3. SemInv(repo[own], WaitsFor(own), Queue!Holders(own), RepoCap[own], Hits)
  BY DEF SchedulerInv, SlotsAreTaken, RepoSem
<1>4. UNCHANGED <<calls, admitted, disowned>> /\ adm[e].at = "created" /\ adm[e].at \in Queue!Live
  BY DEF Queue!Starts, Queue!AdmitUnchanged, Queue!Live
<1>5. CASE adm[e].hit \/ Queue!Entries(Queue!Key(e)) = {}
  <2>1. PICK place \in Queue!Ended : Queue!Ends(e, place)
    BY <1>5 DEF Queue!Starts, Queue!Ended
  <2>2. OwnStep(e) /\ adm'[e].at = place
    BY <1>1, <1>4, <2>1, EndsIsOwnStep
  <2>3. /\ adm'[e].at # "repo" /\ adm'[e].at \notin {"fleet", "inside"}
        /\ adm[e].at # "repo" /\ adm[e].at \notin {"fleet", "inside"}
    BY <1>4, <2>2 DEF Queue!Ended
  <2>4. UNCHANGED fleet /\ repo' = repo
    BY <1>5 DEF Queue!Starts
  <2>5. FleetSem'
    BY <2>2, <2>3, <2>4, FleetStands
  <2>6. SemInv(repo[own], WaitsFor(own)', Queue!Holders(own)', RepoCap[own], Hits')
    <3>1. WaitsFor(own)' = WaitsFor(own) /\ Queue!Holders(own)' = Queue!Holders(own)
          /\ e \notin WaitsFor(own)
      BY <1>1, <1>2, <2>2, <2>3, OwnStepMovesOne
    <3>2. Hits' \cap WaitsFor(own) = Hits \cap WaitsFor(own)
      <4>1. Hits' = Hits \ {e}
        BY <1>1, <2>2, OwnStepMoves
      <4> QED
        BY <3>1, <4>1
    <3>3. SemInv(repo[own], WaitsFor(own), Queue!Holders(own), RepoCap[own], Hits')
      BY <1>3, <3>2, HitElsewhere
    <3> QED
      BY <3>1, <3>3
  <2> QED
    BY <1>2, <2>2, <2>4, <2>5, <2>6, OwnStepIsSafe
<1>6. ASSUME ~adm[e].hit, Queue!Entries(Queue!Key(e)) # {} PROVE SchedulerInv'
  <2> DEFINE record == Queue!Entry(Queue!Key(e))
  <2>1. record \in QCalls
    BY <1>1, <1>6, EntryIsRemembered
  <2>2. e \notin WaitsFor(own) /\ e \notin Queue!Holders(own) /\ e \notin Hits
    BY <1>4, <1>6 DEF WaitsFor, Queue!Holders, Hits
  <2>3. CASE Queue!Locked(repo[own])
    <3>1. /\ repo' = [repo EXCEPT ![own] = Queue!Joined(repo[own], e)] /\ UNCHANGED fleet
          /\ adm' = [adm EXCEPT ![e].at = "repo", ![e].record = record]
      BY <1>2, <1>6, <2>3 DEF Queue!Starts
    <3>2. OwnStep(e)
      <4>1. \E place \in {"repo", "fleet"} :
               adm' = [adm EXCEPT ![e].at = place, ![e].record = record]
        BY <3>1
      <4> HIDE DEF record
      <4>2. record = IF adm[e].at = "created" THEN Queue!Entry(Queue!Key(e)) ELSE adm[e].record
        BY <1>4 DEF record
      <4> QED
        BY <1>1, <1>4, <1>6, <2>1, <4>1, <4>2, EntersIsOwnStep
    <3>3. adm'[e].at = "repo"
      BY <1>1, <3>1 DEF Admission
    <3>4. FleetSem'
      BY <1>4, <3>1, <3>2, <3>3, FleetStands
    <3>5. SemInv(Queue!Joined(repo[own], e), WaitsFor(own) \cup {e}, Queue!Holders(own),
                 RepoCap[own], Hits)
      BY <1>3, <2>2, <2>3, SemJoined
    <3>6. WaitsFor(own)' = WaitsFor(own) \cup {e} /\ Queue!Holders(own)' = Queue!Holders(own)
      <4>1. adm'[e].at \notin {"fleet", "inside"} /\ adm[e].at \notin {"fleet", "inside"}
        BY <1>4, <3>3
      <4> QED
        BY <1>1, <1>2, <3>2, <3>3, <4>1, OwnStepMovesOne
    <3>7. Hits' = Hits
      BY <1>1, <1>2, <2>2, <3>2, OwnStepMovesOne
    <3> QED
      BY <1>2, <3>1, <3>2, <3>4, <3>5, <3>6, <3>7, OwnStepIsSafe
  <2>4. CASE ~Queue!Locked(repo[own])
    <3>1. /\ repo' = [repo EXCEPT ![own] = Queue!Held(repo[own])]
          /\ Queue!AsksFleet(e, record)
      BY <1>2, <1>6, <2>4 DEF Queue!Starts
    <3> HIDE DEF record
    <3>2. OwnStep(e)
      <4>1. \/ \E place \in {"repo", "fleet"} :
                 adm' = [adm EXCEPT ![e].at = place, ![e].record = record]
            \/ adm' = [[adm EXCEPT ![e].at = "inside", ![e].record = record]
                        EXCEPT ![record].started = TRUE]
        BY <3>1 DEF Queue!AsksFleet
      <4>2. record = IF adm[e].at = "created" THEN Queue!Entry(Queue!Key(e)) ELSE adm[e].record
        BY <1>4 DEF record
      <4> QED
        BY <1>1, <1>4, <1>6, <2>1, <4>1, <4>2, EntersIsOwnStep
    <3>3. FleetSem' /\ adm'[e].at \in {"fleet", "inside"}
      BY <1>4, <1>6, <3>1, <3>2, FleetIsAsked
    <3>4. SemInv(Queue!Held(repo[own]), WaitsFor(own), Queue!Holders(own) \cup {e},
                 RepoCap[own], Hits)
      BY <1>3, <2>2, <2>4, SemTaken
    <3>5. WaitsFor(own)' = WaitsFor(own) /\ Queue!Holders(own)' = Queue!Holders(own) \cup {e}
      <4>1. adm'[e].at # "repo" /\ adm[e].at # "repo"
        BY <1>4, <3>3
      <4> QED
        BY <1>1, <1>2, <3>2, <3>3, <4>1, OwnStepMovesOne
    <3>6. Hits' = Hits
      BY <1>1, <1>2, <2>2, <3>2, OwnStepMovesOne
    <3> QED
      BY <1>2, <3>1, <3>2, <3>3, <3>4, <3>5, <3>6, OwnStepIsSafe
  <2> QED
    BY <2>3, <2>4
<1> QED
  BY <1>5, <1>6

\* An admission whose task ends with a CancelledError ends, whatever it tells.
LEMMA InterruptedEnds ==
    ASSUME SchedulerInv, NEW e \in QCalls
    PROVE  Queue!Interrupted(e) \in Queue!Ended
BY DEF Queue!Interrupted, Queue!Ended

LEMMA GetsRepoIsSafe ==
    ASSUME SchedulerInv, NEW e \in QCalls, Queue!GetsRepo(e)
    PROVE  SchedulerInv'
<1>1. AdmissionTypes /\ adm \in [QCalls -> Admission] /\ DOMAIN repo = Repos
  BY DEF SchedulerInv, AdmissionTypes
<1>2. PICK own \in Repos : own = Queue!RepoKey(e)
  BY <1>1, KeyHasARepo
<1>3. SemInv(repo[own], WaitsFor(own), Queue!Holders(own), RepoCap[own], Hits)
  BY DEF SchedulerInv, SlotsAreTaken, RepoSem
<1>4. UNCHANGED <<calls, admitted, disowned>> /\ adm[e].at = "repo" /\ adm[e].at \in Queue!Live
  BY DEF Queue!GetsRepo, Queue!AdmitUnchanged, Queue!Live
<1>5. e \in WaitsFor(own) /\ e \notin Queue!Holders(own)
  BY <1>2, <1>4 DEF WaitsFor, Queue!Holders
<1>6. ASSUME adm[e].hit PROVE SchedulerInv'
  <2>1. PICK place \in Queue!Ended : Queue!Ends(e, place)
    BY <1>6, InterruptedEnds DEF Queue!GetsRepo
  <2>2. OwnStep(e) /\ adm'[e].at = place
    BY <1>1, <1>4, <2>1, EndsIsOwnStep
  <2>3. /\ adm'[e].at # "repo" /\ adm'[e].at \notin {"fleet", "inside"}
        /\ adm[e].at \notin {"fleet", "inside"}
    BY <1>4, <2>2 DEF Queue!Ended
  <2>4. UNCHANGED fleet /\ repo' = [repo EXCEPT ![own] = Queue!Left(repo[own], e, FALSE)]
    <3>1. ~adm[e].hit <=> FALSE
      BY <1>6
    <3>2. ~adm[e].hit = FALSE
      BY <3>1, Zenon
    <3> QED
      BY <1>2, <1>6, <3>2 DEF Queue!GetsRepo
  <2>5. FleetSem'
    BY <2>2, <2>3, <2>4, FleetStands
  <2>6. SemInv(Queue!Left(repo[own], e, FALSE), WaitsFor(own) \ {e}, Queue!Holders(own),
               RepoCap[own], Hits)
    BY <1>3, <1>5, SemLeft
  <2>7. Hits' \cap (WaitsFor(own) \ {e}) = Hits \cap (WaitsFor(own) \ {e})
    <3>1. Hits' = Hits \ {e}
      BY <1>1, <2>2, OwnStepMoves
    <3> QED
      BY <3>1
  <2>8. SemInv(Queue!Left(repo[own], e, FALSE), WaitsFor(own) \ {e}, Queue!Holders(own),
               RepoCap[own], Hits')
    BY <2>6, <2>7, HitElsewhere
  <2>9. WaitsFor(own)' = WaitsFor(own) \ {e} /\ Queue!Holders(own)' = Queue!Holders(own)
    BY <1>1, <1>2, <2>2, <2>3, OwnStepMovesOne
  <2> QED
    BY <1>2, <2>2, <2>4, <2>5, <2>8, <2>9, OwnStepIsSafe
<1>7. ASSUME ~adm[e].hit PROVE SchedulerInv'
  <2> DEFINE record == adm[e].record
  <2>1. record \in QCalls
    BY <1>1 DEF Admission
  <2>2. /\ repo' = [repo EXCEPT ![own] = Queue!Left(repo[own], e, TRUE)]
        /\ Queue!AsksFleet(e, record) /\ e \in Queue!Granted(repo[own])
    <3>1. ~adm[e].hit <=> TRUE
      BY <1>7
    <3>2. ~adm[e].hit = TRUE
      BY <3>1, Zenon
    <3> QED
      BY <1>2, <1>7, <3>2 DEF Queue!GetsRepo
  <2>3. e \notin Hits
    BY <1>7 DEF Hits
  <2> HIDE DEF record
  <2>4. OwnStep(e)
    <3>1. \/ \E place \in {"repo", "fleet"} :
               adm' = [adm EXCEPT ![e].at = place, ![e].record = record]
          \/ adm' = [[adm EXCEPT ![e].at = "inside", ![e].record = record]
                      EXCEPT ![record].started = TRUE]
      BY <2>2 DEF Queue!AsksFleet
    <3>2. record = IF adm[e].at = "created" THEN Queue!Entry(Queue!Key(e)) ELSE adm[e].record
      BY <1>4 DEF record
    <3> QED
      BY <1>1, <1>4, <1>7, <2>1, <3>1, <3>2, EntersIsOwnStep
  <2>5. FleetSem' /\ adm'[e].at \in {"fleet", "inside"}
    BY <1>4, <1>7, <2>2, <2>4, FleetIsAsked
  <2>6. SemInv(Queue!Left(repo[own], e, TRUE), WaitsFor(own) \ {e}, Queue!Holders(own) \cup {e},
               RepoCap[own], Hits)
    BY <1>3, <1>5, <2>2, SemLeft
  <2>7. WaitsFor(own)' = WaitsFor(own) \ {e} /\ Queue!Holders(own)' = Queue!Holders(own) \cup {e}
    <3>1. adm'[e].at # "repo"
      BY <2>5
    <3> QED
      BY <1>1, <1>2, <2>4, <2>5, <3>1, OwnStepMovesOne
  <2>8. Hits' = Hits
    <3>1. Hits' = Hits \ {e}
      BY <1>1, <2>4, OwnStepMoves
    <3> QED
      BY <2>3, <3>1
  <2>9. SemInv(Queue!Left(repo[own], e, TRUE), WaitsFor(own)', Queue!Holders(own)',
               RepoCap[own], Hits')
    BY <2>6, <2>7, <2>8
  <2> QED
    BY <1>2, <2>2, <2>4, <2>5, <2>9, OwnStepIsSafe
<1> QED
  BY <1>6, <1>7

\* An admission gives back its repository's slot.
LEMMA RepoIsReleased ==
    ASSUME SchedulerInv, NEW e \in QCalls, OwnStep(e), adm[e].at \in {"fleet", "inside"},
           adm'[e].at \in Queue!Ended, NEW own \in Repos, own = Queue!RepoKey(e)
    PROVE  SemInv(Queue!Released(repo[own]), WaitsFor(own)', Queue!Holders(own)',
                  RepoCap[own], Hits')
<1>1. AdmissionTypes
  BY DEF SchedulerInv
<1>2. SemInv(repo[own], WaitsFor(own), Queue!Holders(own), RepoCap[own], Hits)
  BY DEF SchedulerInv, SlotsAreTaken, RepoSem
<1>3. e \in Queue!Holders(own) /\ e \notin WaitsFor(own)
  BY DEF WaitsFor, Queue!Holders, QCalls
<1>4. SemInv(Queue!Released(repo[own]), WaitsFor(own), Queue!Holders(own) \ {e}, RepoCap[own], Hits)
  BY <1>2, <1>3, SemReleased
<1>5. /\ adm[e].at # "repo" /\ adm'[e].at # "repo"
      /\ adm'[e].at \notin {"fleet", "inside"}
  BY DEF Queue!Ended
<1>6. WaitsFor(own)' = WaitsFor(own) /\ Queue!Holders(own)' = Queue!Holders(own) \ {e}
  BY <1>1, <1>5, OwnStepMovesOne
<1>7. Hits' \cap WaitsFor(own) = Hits \cap WaitsFor(own)
  <2>1. Hits' = Hits \ {e}
    BY <1>1, OwnStepMoves
  <2> QED
    BY <1>3, <2>1
<1>8. SemInv(Queue!Released(repo[own]), WaitsFor(own), Queue!Holders(own) \ {e}, RepoCap[own],
             Hits')
  BY <1>4, <1>7, HitElsewhere
<1> QED
  BY <1>6, <1>8

LEMMA GetsFleetIsSafe ==
    ASSUME SchedulerInv, NEW e \in QCalls, Queue!GetsFleet(e)
    PROVE  SchedulerInv'
<1>1. AdmissionTypes /\ adm \in [QCalls -> Admission] /\ DOMAIN repo = Repos
  BY DEF SchedulerInv, AdmissionTypes
<1>2. PICK own \in Repos : own = Queue!RepoKey(e)
  BY <1>1, KeyHasARepo
<1>3. /\ SemInv(fleet, In("fleet"), In("inside"), FleetLimit, Hits)
      /\ SemInv(repo[own], WaitsFor(own), Queue!Holders(own), RepoCap[own], Hits)
  BY DEF SchedulerInv, SlotsAreTaken, RepoSem, FleetSem
<1>4. UNCHANGED <<calls, admitted, disowned>> /\ adm[e].at = "fleet" /\ adm[e].at \in Queue!Live
  BY DEF Queue!GetsFleet, Queue!AdmitUnchanged, Queue!Live
<1>5. e \in In("fleet") /\ e \notin In("inside") /\ e \in Queue!Holders(own)
      /\ e \notin WaitsFor(own)
  BY <1>2, <1>4 DEF In, WaitsFor, Queue!Holders, QCalls
<1>6. ASSUME adm[e].hit PROVE SchedulerInv'
  <2>1. PICK place \in Queue!Ended : Queue!Ends(e, place)
    BY <1>6, InterruptedEnds DEF Queue!GetsFleet
  <2>2. OwnStep(e) /\ adm'[e].at = place
    BY <1>1, <1>4, <2>1, EndsIsOwnStep
  <2>3. adm'[e].at # "fleet" /\ adm'[e].at # "inside" /\ adm'[e].at \in Queue!Ended
    BY <2>2 DEF Queue!Ended
  <2>4. /\ fleet' = Queue!Left(fleet, e, FALSE)
        /\ repo' = [repo EXCEPT ![own] = Queue!Released(repo[own])]
    <3>1. ~adm[e].hit <=> FALSE
      BY <1>6
    <3>2. ~adm[e].hit = FALSE
      BY <3>1, Zenon
    <3> QED
      BY <1>2, <1>6, <3>2 DEF Queue!GetsFleet
  <2>5. SemInv(Queue!Left(fleet, e, FALSE), In("fleet") \ {e}, In("inside"), FleetLimit, Hits)
    BY <1>3, <1>5, SemLeft
  <2>6. /\ In("fleet")' = In("fleet") \ {e} /\ In("inside")' = In("inside")
        /\ Hits' \cap (In("fleet") \ {e}) = Hits \cap (In("fleet") \ {e})
    <3>1. /\ In("fleet")' = (In("fleet") \ {e}) \cup (IF adm'[e].at = "fleet" THEN {e} ELSE {})
          /\ In("inside")' = (In("inside") \ {e}) \cup (IF adm'[e].at = "inside" THEN {e} ELSE {})
          /\ Hits' = Hits \ {e}
      BY <1>1, <2>2, OwnStepMoves
    <3> QED
      BY <1>5, <2>3, <3>1
  <2>7. FleetSem'
    <3>1. SemInv(Queue!Left(fleet, e, FALSE), In("fleet") \ {e}, In("inside"), FleetLimit, Hits')
      BY <2>5, <2>6, HitElsewhere
    <3> QED
      BY <2>4, <2>6, <3>1 DEF FleetSem
  <2>8. SemInv(Queue!Released(repo[own]), WaitsFor(own)', Queue!Holders(own)', RepoCap[own], Hits')
    BY <1>2, <1>4, <2>2, <2>3, RepoIsReleased
  <2> QED
    BY <1>2, <2>2, <2>4, <2>7, <2>8, OwnStepIsSafe
<1>7. ASSUME ~adm[e].hit PROVE SchedulerInv'
  <2> DEFINE record == adm[e].record
  <2>1. record \in QCalls
    BY <1>1 DEF Admission
  <2>2. /\ fleet' = Queue!Left(fleet, e, TRUE) /\ e \in Queue!Granted(fleet) /\ repo' = repo
        /\ adm' = [[adm EXCEPT ![e].at = "inside"] EXCEPT ![record].started = TRUE]
    <3>1. ~adm[e].hit <=> TRUE
      BY <1>7
    <3>2. ~adm[e].hit = TRUE
      BY <3>1, Zenon
    <3> QED
      BY <1>2, <1>7, <3>2 DEF Queue!GetsFleet
  <2>3. e \notin Hits
    BY <1>7 DEF Hits
  <2>4. [adm EXCEPT ![e].at = "inside"] = [adm EXCEPT ![e].at = "inside", ![e].record = record]
    <3> DEFINE plain == [adm EXCEPT ![e].at = "inside"]
               full == [adm EXCEPT ![e].at = "inside", ![e].record = record]
    <3>1. \A d \in QCalls \ {e} : plain[d] = full[d]
      BY <1>1
    <3>2. plain[e] = [adm[e] EXCEPT !.at = "inside"]
          /\ full[e] = [adm[e] EXCEPT !.at = "inside", !.record = record]
      BY <1>1
    <3>3. [adm[e] EXCEPT !.at = "inside"] = [adm[e] EXCEPT !.at = "inside", !.record = record]
      BY <1>1 DEF Admission
    <3>4. plain = [d \in QCalls |-> plain[d]] /\ full = [d \in QCalls |-> full[d]]
      BY <1>1
    <3> HIDE DEF plain, full
    <3>5. \A d \in QCalls : plain[d] = full[d]
      BY <3>1, <3>2, <3>3
    <3>6. plain = full
      BY <3>4, <3>5
    <3> QED
      BY <3>6 DEF plain, full
  <2> HIDE DEF record
  <2>5. adm' = [[adm EXCEPT ![e].at = "inside", ![e].record = record]
                  EXCEPT ![record].started = TRUE]
    BY <2>2, <2>4
  <2>6. OwnStep(e)
    <3>1. record = IF adm[e].at = "created" THEN Queue!Entry(Queue!Key(e)) ELSE adm[e].record
      BY <1>4 DEF record
    <3> QED
      BY <1>1, <1>4, <1>7, <2>1, <2>5, <3>1, EntersIsOwnStep
  <2>7. adm'[e].at = "inside"
    <3> DEFINE mid == [adm EXCEPT ![e].at = "inside", ![e].record = record]
    <3>1. DOMAIN mid = QCalls /\ mid[e].at = "inside" /\ DOMAIN mid[e] = DOMAIN adm[e]
      BY <1>1 DEF Admission
    <3>2. adm' = [mid EXCEPT ![record].started = TRUE]
      BY <2>5
    <3> HIDE DEF mid
    <3> QED
      BY <1>1, <3>1, <3>2 DEF Admission
  <2>8. SemInv(Queue!Left(fleet, e, TRUE), In("fleet") \ {e}, In("inside") \cup {e},
               FleetLimit, Hits)
    BY <1>3, <1>5, <2>2, SemLeft
  <2>9. In("fleet")' = In("fleet") \ {e} /\ In("inside")' = In("inside") \cup {e} /\ Hits' = Hits
    <3>1. /\ In("fleet")' = (In("fleet") \ {e}) \cup (IF adm'[e].at = "fleet" THEN {e} ELSE {})
          /\ In("inside")' = (In("inside") \ {e}) \cup (IF adm'[e].at = "inside" THEN {e} ELSE {})
          /\ Hits' = Hits \ {e}
      BY <1>1, <2>6, OwnStepMoves
    <3> QED
      BY <1>5, <2>3, <2>7, <3>1
  <2>10. FleetSem'
    BY <2>2, <2>8, <2>9 DEF FleetSem
  <2>11. WaitsFor(own)' = WaitsFor(own) /\ Queue!Holders(own)' = Queue!Holders(own)
    <3>1. adm'[e].at # "repo" /\ adm[e].at # "repo" /\ adm'[e].at \in {"fleet", "inside"}
      BY <1>4, <2>7
    <3>2. /\ WaitsFor(own)' = WaitsFor(own)
          /\ Queue!Holders(own)' = Queue!Holders(own) \cup {e}
      BY <1>1, <1>2, <2>6, <3>1, OwnStepMovesOne
    <3> QED
      BY <1>5, <3>2
  <2>12. SemInv(repo[own], WaitsFor(own)', Queue!Holders(own)', RepoCap[own], Hits')
    BY <1>3, <2>9, <2>11
  <2> QED
    BY <1>2, <2>2, <2>6, <2>10, <2>12, OwnStepIsSafe
<1> QED
  BY <1>6, <1>7

LEMMA InnerEndsIsSafe ==
    ASSUME SchedulerInv, NEW e \in QCalls, Queue!InnerEnds(e)
    PROVE  SchedulerInv'
<1>1. AdmissionTypes /\ adm \in [QCalls -> Admission] /\ DOMAIN repo = Repos
  BY DEF SchedulerInv, AdmissionTypes
<1>2. PICK own \in Repos : own = Queue!RepoKey(e)
  BY <1>1, KeyHasARepo
<1>3. SemInv(fleet, In("fleet"), In("inside"), FleetLimit, Hits)
  BY DEF SchedulerInv, SlotsAreTaken, FleetSem
<1>4. /\ UNCHANGED <<calls, admitted, disowned>> /\ adm[e].at = "inside" /\ adm[e].at \in Queue!Live
      /\ fleet' = Queue!Released(fleet)
      /\ repo' = [repo EXCEPT ![own] = Queue!Released(repo[own])]
  BY <1>2 DEF Queue!InnerEnds, Queue!AdmitUnchanged, Queue!Live
<1>5. PICK place \in Queue!Ended : Queue!Ends(e, place)
  <2>1. "failed" \in Queue!Ended /\ "answered" \in Queue!Ended
    BY DEF Queue!Ended
  <2> QED
    BY <2>1, InterruptedEnds DEF Queue!InnerEnds
<1>6. OwnStep(e) /\ adm'[e].at = place
  BY <1>1, <1>4, <1>5, EndsIsOwnStep
<1>7. adm'[e].at # "fleet" /\ adm'[e].at # "inside" /\ adm'[e].at \in Queue!Ended
  BY <1>6 DEF Queue!Ended
<1>8. e \in In("inside") /\ e \notin In("fleet")
  BY <1>4 DEF In
<1>9. SemInv(Queue!Released(fleet), In("fleet"), In("inside") \ {e}, FleetLimit, Hits)
  BY <1>3, <1>8, SemReleased
<1>10. /\ In("fleet")' = In("fleet") /\ In("inside")' = In("inside") \ {e}
       /\ Hits' \cap In("fleet") = Hits \cap In("fleet")
  <2>1. /\ In("fleet")' = (In("fleet") \ {e}) \cup (IF adm'[e].at = "fleet" THEN {e} ELSE {})
        /\ In("inside")' = (In("inside") \ {e}) \cup (IF adm'[e].at = "inside" THEN {e} ELSE {})
        /\ Hits' = Hits \ {e}
    BY <1>1, <1>6, OwnStepMoves
  <2> QED
    BY <1>7, <1>8, <2>1
<1>11. FleetSem'
  <2>1. SemInv(Queue!Released(fleet), In("fleet"), In("inside") \ {e}, FleetLimit, Hits')
    BY <1>9, <1>10, HitElsewhere
  <2> QED
    BY <1>4, <1>10, <2>1 DEF FleetSem
<1>12. SemInv(Queue!Released(repo[own]), WaitsFor(own)', Queue!Holders(own)', RepoCap[own], Hits')
  BY <1>2, <1>4, <1>6, <1>7, RepoIsReleased
<1> QED
  BY <1>2, <1>4, <1>6, <1>11, <1>12, OwnStepIsSafe

\* A step of a caller, as the admissions see it: nobody waits, holds or is hit who did not.
NobodyMoves ==
    /\ UNCHANGED <<fleet, repo>>
    /\ \A d \in QCalls : /\ \A place \in {"repo", "fleet", "inside"} :
                               adm'[d].at = place <=> adm[d].at = place
                         /\ adm'[d].hit <=> adm[d].hit
                         /\ adm[d].at # "none" => Queue!Key(d)' = Queue!Key(d)

LEMMA SlotsStand ==
    ASSUME SchedulerInv, NobodyMoves
    PROVE  SlotsAreTaken'
<1>1. Hits' = Hits /\ In("fleet")' = In("fleet") /\ In("inside")' = In("inside")
  BY DEF NobodyMoves, Hits, In
<1>2. \A d \in QCalls : adm[d].at # "none" => Queue!RepoKey(d)' = Queue!RepoKey(d)
  BY DEF NobodyMoves, Queue!RepoKey
<1>3. \A r \in Repos : WaitsFor(r)' = WaitsFor(r)
  BY <1>2 DEF NobodyMoves, WaitsFor
<1>4. \A r \in Repos : Queue!Holders(r)' = Queue!Holders(r)
  BY <1>2 DEF NobodyMoves, Queue!Holders, QCalls
<1>5. FleetSem'
  BY <1>1 DEF SchedulerInv, SlotsAreTaken, NobodyMoves, FleetSem
<1>6. \A r \in Repos : RepoSem(r)'
  BY <1>1, <1>3, <1>4 DEF SchedulerInv, SlotsAreTaken, NobodyMoves, RepoSem
<1> QED
  BY <1>5, <1>6 DEF SlotsAreTaken

LEMMA LeavesKeepsKeys ==
    ASSUME SchedulerInv, NEW c \in QCalls, Queue!Leaves(c), calls[c].at # "idle"
    PROVE  /\ calls' \in [QCalls -> [key : Keys, task : QCalls \cup {0},
                                     at : {"idle", "waiting", "unwinding", "gone"}]]
           /\ \A d \in QCalls : calls'[d].at = "idle" => calls'[d].task = 0
           /\ \A d \in QCalls : Queue!Mine(d)' <=> Queue!Mine(d)
           /\ \A d \in QCalls : adm[d].at # "none" => Queue!Key(d)' = Queue!Key(d)
<1> DEFINE Call == [key : Keys, task : QCalls \cup {0},
                    at : {"idle", "waiting", "unwinding", "gone"}]
           new == IF Queue!Mine(c) THEN [calls[c] EXCEPT !.at = "gone"] ELSE Queue!Nobody
<1>1. calls \in [QCalls -> Call] /\ calls' = [calls EXCEPT ![c] = new]
  BY DEF SchedulerInv, AdmissionTypes, Queue!Leaves
<1>2. calls[c] \in Call /\ c # 0
  BY <1>1, SchedulerConstants
<1>3. Queue!Nobody \in Call /\ Queue!Nobody.task = 0 /\ Queue!Nobody.at = "idle"
  BY SchedulerConstants DEF Queue!Nobody
<1>4. CASE Queue!Mine(c)
  <2>1. new = [calls[c] EXCEPT !.at = "gone"]
    BY <1>4
  <2>2. new \in Call /\ new.at = "gone" /\ new.key = calls[c].key /\ new.task = calls[c].task
    BY <1>2, <2>1
  <2> HIDE DEF new
  <2>3. /\ calls' \in [QCalls -> Call] /\ calls'[c] = new
        /\ \A d \in QCalls \ {c} : calls'[d] = calls[d]
    BY <1>1, <2>2
  <2> QED
    BY <2>2, <2>3 DEF SchedulerInv, Created, Queue!Mine, Queue!Key
<1>5. CASE ~Queue!Mine(c)
  <2>1. new = Queue!Nobody /\ adm[c].at = "none"
    BY <1>5 DEF SchedulerInv, Created
  <2> HIDE DEF new
  <2>2. calls' \in [QCalls -> Call] /\ calls'[c] = Queue!Nobody
        /\ \A d \in QCalls \ {c} : calls'[d] = calls[d]
    BY <1>1, <1>3, <2>1
  <2>3. \A d \in QCalls : Queue!Mine(d)' <=> Queue!Mine(d)
    <3>1. Queue!Mine(c)' <=> Queue!Mine(c)
      BY <1>2, <1>3, <1>5, <2>2 DEF Queue!Mine
    <3> QED
      BY <2>2, <3>1 DEF Queue!Mine
  <2> QED
    BY <1>3, <2>1, <2>2, <2>3 DEF SchedulerInv, Created, Queue!Key
<1> QED
  BY <1>4, <1>5

\* Somebody forgets the admission he waited for, or the one that is remembered now.
LEMMA PopForgetsNoLiveOne ==
    ASSUME SchedulerInv, NEW c \in QCalls, Queue!Pop(c), UNCHANGED adm,
           adm[calls[c].task].at \notin Queue!Live,
           \A d \in QCalls : Queue!Mine(d)' <=> Queue!Mine(d),
           \A d \in QCalls : adm[d].at # "none" => Queue!Key(d)' = Queue!Key(d)
    PROVE  /\ admitted' \in Seq(QCalls) /\ disowned' \subseteq Keys
           /\ \A i \in DOMAIN admitted' : \E j \in DOMAIN admitted : admitted'[i] = admitted[j]
           /\ Remembered'
<1> DEFINE k == Queue!Key(c)
           p == CHOOSE i \in DOMAIN admitted : admitted[i] = Queue!Entry(k)
<1>1. admitted \in Seq(QCalls) /\ DOMAIN admitted = 1 .. Len(admitted) /\ Len(admitted) \in Nat
      /\ k \in Keys /\ disowned \subseteq Keys
  BY KeyHasARepo DEF SchedulerInv, AdmissionTypes
<1>2. \A i \in DOMAIN admitted : admitted[i] \in QCalls /\ Queue!Mine(admitted[i])
                                 /\ adm[admitted[i]].at # "none"
  BY <1>1 DEF SchedulerInv, Remembered, Created
<1>3. disowned' \subseteq Keys /\ disowned \subseteq disowned'
  BY <1>1 DEF Queue!Pop
<1>4. CASE Queue!Entries(k) = {}
  <2>1. admitted' = admitted
    BY <1>4 DEF Queue!Pop
  <2>2. Remembered'
    BY <1>2, <1>3, <2>1 DEF SchedulerInv, Remembered, Queue!Live
  <2> QED
    BY <1>1, <1>3, <2>1, <2>2
<1>5. CASE Queue!Entries(k) # {}
  <2>1. /\ Queue!Entry(k) \in QCalls /\ Queue!Key(Queue!Entry(k)) = k
        /\ Queue!Entry(k) \in Queue!Entries(k)
        /\ \E i \in DOMAIN admitted : admitted[i] = Queue!Entry(k)
    BY <1>5, EntryIsRemembered DEF SchedulerInv, Queue!Entry
  <2>2. p \in DOMAIN admitted /\ admitted[p] = Queue!Entry(k)
    BY <2>1
  <2>3. admitted' = Queue!RemoveAt(admitted, p)
    BY <1>5 DEF Queue!Pop
  <2> HIDE DEF p
  <2>4. admitted' = Shorter(admitted, p) /\ admitted' \in Seq(QCalls)
        /\ Len(admitted') = Len(admitted) - 1
    BY <1>1, <2>2, <2>3, WithoutAPlace
  <2> DEFINE from(i) == IF i < p THEN i ELSE i + 1
  <2>5. /\ DOMAIN admitted' = 1 .. Len(admitted) - 1
        /\ \A i \in DOMAIN admitted' :
              admitted'[i] = admitted[from(i)] /\ from(i) \in DOMAIN admitted
    BY <1>1, <2>2, <2>4 DEF Shorter
  <2>6. \A i, j \in DOMAIN admitted' : from(i) = from(j) => i = j
    BY <1>1, <2>2, <2>5
  <2>7. \A j \in DOMAIN admitted : j # p => \E i \in DOMAIN admitted' : admitted'[i] = admitted[j]
    <3>1. ASSUME NEW j \in DOMAIN admitted, j # p
          PROVE  \E i \in DOMAIN admitted' : admitted'[i] = admitted[j]
      <4> DEFINE to == IF j < p THEN j ELSE j - 1
      <4>1. to \in DOMAIN admitted' /\ from(to) = j
        BY <1>1, <2>2, <2>5, <3>1
      <4> QED
        BY <2>5, <4>1
    <3> QED
      BY <3>1
  <2> HIDE DEF from
  <2>8. ASSUME NEW i \in DOMAIN admitted', NEW d, d = admitted'[i]
        PROVE  d \in QCalls /\ Queue!Mine(d)' /\ Queue!Key(d)' = Queue!Key(d)
    BY <1>2, <2>5, <2>8
  <2>9. ASSUME NEW i \in DOMAIN admitted', NEW j \in DOMAIN admitted',
               NEW d, NEW g, d = admitted'[i], g = admitted'[j], Queue!Key(d)' = Queue!Key(g)'
        PROVE  i = j
    <3>1. Queue!Key(d) = Queue!Key(g)
      BY <2>8, <2>9
    <3>2. d = admitted[from(i)] /\ g = admitted[from(j)]
      BY <2>5, <2>9
    <3>3. from(i) = from(j)
      BY <2>5, <3>1, <3>2 DEF SchedulerInv, Remembered
    <3> QED
      BY <2>6, <3>3
  <2>10. ASSUME NEW e \in QCalls, adm[e].at \in Queue!Live, Queue!Key(e)' \notin disowned'
         PROVE  \E i \in DOMAIN admitted' : admitted'[i] = e
    <3>1. Queue!Key(e)' = Queue!Key(e)
      BY <2>10 DEF Queue!Live
    <3>2. PICK j \in DOMAIN admitted : admitted[j] = e
      BY <1>3, <2>10, <3>1 DEF SchedulerInv, Remembered
    <3>3. j # p
      <4>1. SUFFICES ASSUME e = Queue!Entry(k) PROVE FALSE
        BY <2>2, <3>2
      <4>2. k \notin disowned'
        BY <2>1, <2>10, <3>1, <4>1
      <4>3. Queue!Entries(k) \subseteq {calls[c].task}
        BY <4>2 DEF Queue!Pop
      <4> QED
        BY <2>1, <2>10, <4>1, <4>3
    <3> QED
      BY <2>7, <3>2, <3>3
  <2>11. Remembered'
    <3>1. \A d \in QCalls : adm'[d] = adm[d]
      OBVIOUS
    <3>2. \A i \in DOMAIN admitted' : calls'[admitted'[i]].task = admitted'[i]
      BY <2>8 DEF Queue!Mine
    <3>3. \A i, j \in DOMAIN admitted' :
            calls'[admitted'[i]].key = calls'[admitted'[j]].key => i = j
      BY <2>9 DEF Queue!Key
    <3>4. \A e \in QCalls : adm'[e].at \in Queue!Live /\ calls'[e].key \notin disowned' =>
             \E i \in DOMAIN admitted' : admitted'[i] = e
      BY <2>10, <3>1 DEF Queue!Key
    <3> QED
      BY <3>2, <3>3, <3>4 DEF Remembered, Queue!Mine, Queue!Key
  <2> QED
    BY <1>3, <2>4, <2>5, <2>11
<1> QED
  BY <1>4, <1>5

\* A caller that leaves, whether it forgets anything or not.
LEMMA LeavingIsSafe ==
    ASSUME SchedulerInv, NEW c \in QCalls, Queue!Leaves(c), calls[c].at # "idle",
           UNCHANGED <<adm, fleet, repo>>,
           Queue!Keep \/ (Queue!Pop(c) /\ Queue!Done(calls[c].task))
    PROVE  SchedulerInv'
<1>1. /\ calls' \in [QCalls -> [key : Keys, task : QCalls \cup {0},
                                at : {"idle", "waiting", "unwinding", "gone"}]]
      /\ \A d \in QCalls : calls'[d].at = "idle" => calls'[d].task = 0
      /\ \A d \in QCalls : Queue!Mine(d)' <=> Queue!Mine(d)
      /\ \A d \in QCalls : adm[d].at # "none" => Queue!Key(d)' = Queue!Key(d)
  BY LeavesKeepsKeys
<1>2. SlotsAreTaken'
  <2>1. NobodyMoves
    BY <1>1 DEF NobodyMoves
  <2> QED
    BY <2>1, SlotsStand
<1>3. /\ admitted' \in Seq(QCalls) /\ disowned' \subseteq Keys
      /\ \A i \in DOMAIN admitted' : \E j \in DOMAIN admitted : admitted'[i] = admitted[j]
      /\ Remembered'
  <2>1. CASE Queue!Keep
    <3>1. admitted' = admitted /\ disowned' = disowned /\ admitted \in Seq(QCalls)
          /\ disowned \subseteq Keys
      BY <2>1 DEF Queue!Keep, SchedulerInv, AdmissionTypes
    <3>2. \A i \in DOMAIN admitted : /\ admitted[i] \in QCalls /\ Queue!Mine(admitted[i])
                                     /\ adm[admitted[i]].at # "none"
      BY <3>1 DEF SchedulerInv, Remembered, Created
    <3>3. \A i \in DOMAIN admitted : /\ calls'[admitted[i]].task = admitted[i]
                                     /\ calls'[admitted[i]].key = calls[admitted[i]].key
      BY <1>1, <3>2 DEF Queue!Mine, Queue!Key
    <3>4. \A e \in QCalls : adm[e].at \in Queue!Live => calls'[e].key = calls[e].key
      BY <1>1 DEF Queue!Live, Queue!Key
    <3>5. Remembered'
      BY <3>1, <3>3, <3>4 DEF SchedulerInv, Remembered, Queue!Mine, Queue!Key
    <3> QED
      BY <3>1, <3>5
  <2>2. CASE Queue!Pop(c) /\ Queue!Done(calls[c].task)
    <3>1. adm[calls[c].task].at \notin Queue!Live
      BY <2>2 DEF Queue!Done, Queue!Ended, Queue!Live
    <3> QED
      BY <1>1, <2>2, <3>1, PopForgetsNoLiveOne
  <2> QED
    BY <2>1, <2>2
<1>4. AdmissionTypes'
  BY <1>1, <1>3 DEF SchedulerInv, AdmissionTypes
<1>5. Created'
  <2>1. \A d \in QCalls : calls'[d].task = d <=> calls[d].task = d
    BY <1>1 DEF Queue!Mine
  <2> QED
    BY <1>1, <2>1 DEF SchedulerInv, Created, Queue!Mine
<1>6. StopsAreHits'
  BY <1>3 DEF SchedulerInv, StopsAreHits
<1> QED
  BY <1>2, <1>3, <1>4, <1>5, <1>6 DEF SchedulerInv

\* What a cancellation of a task does: it is hit, wherever it waits.
IsHit(e) ==
    /\ Queue!Hit(e) /\ adm[e].at \in Queue!Live
    /\ adm' \in [QCalls -> Admission]
    /\ \A d \in QCalls : /\ adm'[d].at = adm[d].at /\ adm'[d].record = adm[d].record
                         /\ adm'[d].started <=> adm[d].started
                         /\ adm'[d].hit <=> adm[d].hit \/ d = e
    /\ \A d \in QCalls : /\ Queue!Key(d)' = Queue!Key(d)
                         /\ Queue!Mine(d)' <=> Queue!Mine(d)

LEMMA HitKeepsSlots ==
    ASSUME SchedulerInv, NEW e \in QCalls, IsHit(e)
    PROVE  SlotsAreTaken' /\ DOMAIN repo' = Repos
<1>1. AdmissionTypes /\ DOMAIN repo = Repos
  BY DEF SchedulerInv, AdmissionTypes
<1>2. PICK own \in Repos : own = Queue!RepoKey(e)
  BY <1>1, KeyHasARepo
<1>3. Hits' = Hits \cup {e} /\ In("fleet")' = In("fleet") /\ In("inside")' = In("inside")
  BY DEF IsHit, Hits, In
<1>4. \A d \in QCalls : Queue!RepoKey(d)' = Queue!RepoKey(d)
  BY DEF IsHit, Queue!RepoKey
<1>5. \A r \in Repos : WaitsFor(r)' = WaitsFor(r) /\ Queue!Holders(r)' = Queue!Holders(r)
  BY <1>4 DEF IsHit, WaitsFor, Queue!Holders, QCalls
<1>6. FleetSem'
  <2>1. SemInv(fleet, In("fleet"), In("inside"), FleetLimit, Hits)
    BY DEF SchedulerInv, SlotsAreTaken, FleetSem
  <2>2. CASE adm[e].at = "fleet"
    <3>1. SemInv(Queue!CancelWaiter(fleet, e), In("fleet"), In("inside"), FleetLimit, Hits \cup {e})
      BY <2>1, SemCancelled
    <3>2. fleet' = Queue!CancelWaiter(fleet, e)
      BY <2>2 DEF IsHit, Queue!Hit
    <3> QED
      BY <1>3, <3>1, <3>2 DEF FleetSem
  <2>3. CASE adm[e].at # "fleet"
    <3>1. fleet' = fleet /\ e \notin In("fleet")
      BY <2>3 DEF IsHit, Queue!Hit, In
    <3>2. (Hits \cup {e}) \cap In("fleet") = Hits \cap In("fleet")
      BY <3>1
    <3>3. SemInv(fleet, In("fleet"), In("inside"), FleetLimit, Hits \cup {e})
      BY <2>1, <3>2, HitElsewhere
    <3> QED
      BY <1>3, <3>1, <3>3 DEF FleetSem
  <2> QED
    BY <2>2, <2>3
<1>7. ASSUME NEW r \in Repos, r # own \/ adm[e].at # "repo" PROVE repo'[r] = repo[r] /\ RepoSem(r)'
  <2>1. SemInv(repo[r], WaitsFor(r), Queue!Holders(r), RepoCap[r], Hits)
    BY DEF SchedulerInv, SlotsAreTaken, RepoSem
  <2>2. repo'[r] = repo[r] /\ e \notin WaitsFor(r)
    BY <1>1, <1>2, <1>7 DEF IsHit, Queue!Hit, WaitsFor
  <2>3. (Hits \cup {e}) \cap WaitsFor(r) = Hits \cap WaitsFor(r)
    BY <2>2
  <2>4. SemInv(repo[r], WaitsFor(r), Queue!Holders(r), RepoCap[r], Hits \cup {e})
    BY <2>1, <2>3, HitElsewhere
  <2> QED
    BY <1>3, <1>5, <2>2, <2>4 DEF RepoSem
<1>8. ASSUME adm[e].at = "repo" PROVE RepoSem(own)'
  <2>1. SemInv(repo[own], WaitsFor(own), Queue!Holders(own), RepoCap[own], Hits)
    BY DEF SchedulerInv, SlotsAreTaken, RepoSem
  <2>2. repo'[own] = Queue!CancelWaiter(repo[own], e)
    BY <1>1, <1>2, <1>8 DEF IsHit, Queue!Hit
  <2>3. SemInv(Queue!CancelWaiter(repo[own], e), WaitsFor(own), Queue!Holders(own), RepoCap[own],
               Hits \cup {e})
    BY <2>1, SemCancelled
  <2> QED
    BY <1>3, <1>5, <2>2, <2>3 DEF RepoSem
<1>9. DOMAIN repo' = Repos
  BY <1>1 DEF IsHit, Queue!Hit
<1> QED
  BY <1>6, <1>7, <1>8, <1>9 DEF SlotsAreTaken

LEMMA HitIsSafe ==
    ASSUME SchedulerInv, NEW e \in QCalls, IsHit(e), NEW stops \in BOOLEAN,
           UNCHANGED <<admitted, disowned>>,
           calls' \in [QCalls -> [key : Keys, task : QCalls \cup {0},
                                  at : {"idle", "waiting", "unwinding", "gone"}]],
           \A d \in QCalls : calls'[d].at = "idle" => calls'[d].task = 0,
           \A d \in QCalls : adm'[d].stopped <=> adm[d].stopped \/ (d = e /\ stops),
           stops => adm[e].at # "inside"
    PROVE  SchedulerInv'
<1>1. SlotsAreTaken' /\ DOMAIN repo' = Repos
  BY HitKeepsSlots
<1>2. AdmissionTypes'
  BY <1>1 DEF SchedulerInv, AdmissionTypes, IsHit
<1>3. \A d \in QCalls : /\ calls'[d].key = calls[d].key
                        /\ calls'[d].task = d <=> calls[d].task = d
                        /\ adm'[d].at = adm[d].at
                        /\ adm'[d].record = adm[d].record
                        /\ adm'[d].started <=> adm[d].started
                        /\ adm'[d].hit <=> adm[d].hit \/ d = e
  BY DEF IsHit, Queue!Key, Queue!Mine
<1>4. adm[e].at \in Queue!Live /\ adm[e].at # "none"
  BY DEF IsHit, Queue!Live
<1>5. Created'
  <2>1. \A d \in QCalls : adm'[d].at = "none" => ~adm'[d].hit /\ ~adm'[d].stopped
    BY <1>3, <1>4 DEF SchedulerInv, Created
  <2>2. \A d \in QCalls : adm'[d].at # "none" <=> calls'[d].task = d
    BY <1>3 DEF SchedulerInv, Created, Queue!Mine
  <2> QED
    BY <2>1, <2>2 DEF Created, Queue!Mine
<1>6. \A i \in DOMAIN admitted : admitted[i] \in QCalls
  BY DEF SchedulerInv, AdmissionTypes
<1>7. Remembered'
  BY <1>3, <1>6 DEF SchedulerInv, Remembered, Queue!Mine, Queue!Key
<1>8. StopsAreHits'
  BY <1>3, <1>6 DEF SchedulerInv, StopsAreHits
<1> QED
  BY <1>1, <1>2, <1>5, <1>7, <1>8 DEF SchedulerInv

LEMMA NotDoneIsLive ==
    ASSUME SchedulerInv, NEW e \in QCalls, Queue!Mine(e), ~Queue!Done(e)
    PROVE  adm[e].at \in Queue!Live
<1>1. adm[e] \in Admission /\ adm[e].at # "none"
  BY DEF SchedulerInv, AdmissionTypes, Created
<1> QED
  BY <1>1 DEF Admission, Queue!Done

LEMMA GivesUpIsSafe ==
    ASSUME SchedulerInv, NEW c \in QCalls, Queue!GivesUp(c)
    PROVE  SchedulerInv'
<1> DEFINE Call == [key : Keys, task : QCalls \cup {0},
                    at : {"idle", "waiting", "unwinding", "gone"}]
<1>1. calls[c].at = "waiting" /\ Queue!Keep /\ calls \in [QCalls -> Call]
      /\ adm \in [QCalls -> Admission]
  BY DEF Queue!GivesUp, SchedulerInv, AdmissionTypes
<1>2. CASE Queue!Mine(c) /\ ~Queue!Done(c)
  <2>1. /\ adm' = [adm EXCEPT ![c].hit = TRUE] /\ Queue!Hit(c)
        /\ calls' = [calls EXCEPT ![c].at = "unwinding"]
    BY <1>2 DEF Queue!GivesUp
  <2>2. adm[c].at \in Queue!Live
    BY <1>2, NotDoneIsLive
  <2>3. /\ DOMAIN adm' = QCalls /\ \A d \in QCalls \ {c} : adm'[d] = adm[d]
        /\ adm'[c] = [adm[c] EXCEPT !.hit = TRUE] /\ adm' = [d \in QCalls |-> adm'[d]]
    BY <1>1, <2>1
  <2>4. /\ adm'[c] \in Admission /\ adm'[c].hit /\ adm'[c].at = adm[c].at
        /\ adm'[c].record = adm[c].record
        /\ adm'[c].started <=> adm[c].started
        /\ adm'[c].stopped <=> adm[c].stopped
    <3>1. adm[c] \in Admission
      BY <1>1
    <3> QED
      BY <2>3, <3>1 DEF Admission
  <2>5. adm' \in [QCalls -> Admission]
    BY <1>1, <2>3, <2>4
  <2>6. /\ calls' \in [QCalls -> Call] /\ \A d \in QCalls \ {c} : calls'[d] = calls[d]
        /\ calls'[c].key = calls[c].key /\ calls'[c].task = calls[c].task
        /\ calls'[c].at = "unwinding"
    BY <1>1, <2>1
  <2>7. IsHit(c)
    <3>1. \A d \in QCalls : /\ adm'[d].at = adm[d].at /\ adm'[d].record = adm[d].record
                            /\ adm'[d].started <=> adm[d].started
                            /\ adm'[d].hit <=> adm[d].hit \/ d = c
      BY <2>3, <2>4
    <3>2. \A d \in QCalls : calls'[d].key = calls[d].key /\ calls'[d].task = calls[d].task
      BY <2>6
    <3> QED
      BY <2>1, <2>2, <2>5, <3>1, <3>2 DEF IsHit, Queue!Key, Queue!Mine
  <2>8. \A d \in QCalls : adm'[d].stopped <=> adm[d].stopped \/ (d = c /\ FALSE)
    BY <2>3, <2>4
  <2>9. \A d \in QCalls : calls'[d].at = "idle" => calls'[d].task = 0
    BY <2>6 DEF SchedulerInv, Created
  <2>10. UNCHANGED <<admitted, disowned>>
    BY <1>1 DEF Queue!Keep
  <2> QED
    BY <2>6, <2>7, <2>8, <2>9, <2>10, HitIsSafe
<1>3. CASE ~(Queue!Mine(c) /\ ~Queue!Done(c))
  <2>1. Queue!Leaves(c) /\ UNCHANGED <<adm, fleet, repo>> /\ calls[c].at # "idle"
    BY <1>1, <1>3 DEF Queue!GivesUp
  <2> QED
    BY <1>1, <2>1, LeavingIsSafe
<1> QED
  BY <1>2, <1>3

LEMMA cancelIsSafe ==
    ASSUME SchedulerInv, NEW k \in Keys, Queue!cancel(k)
    PROVE  SchedulerInv'
<1>1. AdmissionTypes /\ adm \in [QCalls -> Admission]
  BY DEF SchedulerInv, AdmissionTypes
<1>2. PICK e \in QCalls : e = Queue!Entry(k) /\ \E i \in DOMAIN admitted : admitted[i] = e
  BY <1>1, EntryIsRemembered DEF Queue!cancel
<1>3. /\ ~Queue!Done(e) /\ ~adm[e].started
      /\ adm' = [adm EXCEPT ![e].stopped = TRUE, ![e].hit = TRUE,
                            ![e].early = adm[e].at = "created"]
      /\ Queue!Hit(e) /\ UNCHANGED <<calls, admitted, disowned>>
  BY <1>2 DEF Queue!cancel, Queue!Keep
<1>4. Queue!Mine(e) /\ adm[e].at \in Queue!Live
  BY <1>2, <1>3, NotDoneIsLive DEF SchedulerInv, Remembered
<1>5. adm[e].at # "inside"
  BY <1>2, <1>3 DEF SchedulerInv, StopsAreHits
<1>6. /\ DOMAIN adm' = QCalls /\ \A d \in QCalls \ {e} : adm'[d] = adm[d]
      /\ adm'[e] = [adm[e] EXCEPT !.stopped = TRUE, !.hit = TRUE, !.early = adm[e].at = "created"]
      /\ adm' = [d \in QCalls |-> adm'[d]]
  BY <1>1, <1>3
<1>7. /\ adm'[e] \in Admission /\ adm'[e].hit /\ adm'[e].stopped /\ adm'[e].at = adm[e].at
      /\ adm'[e].record = adm[e].record
      /\ adm'[e].started <=> adm[e].started
  <2>1. adm[e] \in Admission
    BY <1>1
  <2>2. (adm[e].at = "created") \in BOOLEAN
    OBVIOUS
  <2>3. adm'[e] \in Admission
    BY <1>6, <2>1, <2>2 DEF Admission
  <2> QED
    BY <1>6, <2>1 DEF Admission
<1>8. adm' \in [QCalls -> Admission]
  BY <1>1, <1>6, <1>7
<1>9. IsHit(e)
  <2>1. \A d \in QCalls : /\ adm'[d].at = adm[d].at /\ adm'[d].record = adm[d].record
                          /\ adm'[d].started <=> adm[d].started
                          /\ adm'[d].hit <=> adm[d].hit \/ d = e
    BY <1>6, <1>7
  <2> QED
    BY <1>3, <1>4, <1>8, <2>1 DEF IsHit, Queue!Key, Queue!Mine
<1>10. \A d \in QCalls : adm'[d].stopped <=> adm[d].stopped \/ (d = e /\ TRUE)
  BY <1>6, <1>7
<1>11. /\ calls' \in [QCalls -> [key : Keys, task : QCalls \cup {0},
                                 at : {"idle", "waiting", "unwinding", "gone"}]]
       /\ \A d \in QCalls : calls'[d].at = "idle" => calls'[d].task = 0
  BY <1>3 DEF SchedulerInv, AdmissionTypes, Created
<1> QED
  BY <1>3, <1>5, <1>9, <1>10, <1>11, HitIsSafe

\* A new call: whoever remembered an admission of its key joins it, and otherwise there
\* is a new one, which is the last.
LEMMA JoinIsSafe ==
    ASSUME SchedulerInv, NEW c \in QCalls, NEW k \in Keys, NEW e \in QCalls \ {c},
           calls[c].at = "idle", UNCHANGED <<adm, admitted, disowned, fleet, repo>>,
           calls' = [calls EXCEPT ![c] = [key |-> k, task |-> e, at |-> "waiting"]]
    PROVE  SchedulerInv'
<1> DEFINE Call == [key : Keys, task : QCalls \cup {0},
                    at : {"idle", "waiting", "unwinding", "gone"}]
<1>1. calls \in [QCalls -> Call] /\ adm[c].at = "none" /\ ~Queue!Mine(c)
  BY SchedulerConstants DEF SchedulerInv, AdmissionTypes, Created, Queue!Mine
<1>2. /\ calls' \in [QCalls -> Call] /\ \A d \in QCalls \ {c} : calls'[d] = calls[d]
      /\ calls'[c].key = k /\ calls'[c].task = e /\ calls'[c].at = "waiting"
  BY <1>1
<1>3. SlotsAreTaken'
  <2>1. NobodyMoves
    BY <1>1, <1>2 DEF NobodyMoves, Queue!Key
  <2> QED
    BY <2>1, SlotsStand
<1>4. AdmissionTypes'
  BY <1>2 DEF SchedulerInv, AdmissionTypes
<1>5. Created'
  BY <1>1, <1>2 DEF SchedulerInv, Created, Queue!Mine
<1>6. \A i \in DOMAIN admitted : admitted[i] \in QCalls /\ admitted[i] # c
  BY <1>1 DEF SchedulerInv, Remembered, AdmissionTypes
<1>7. Remembered'
  <2>1. \A d \in QCalls : adm[d].at \in Queue!Live => d # c
    BY <1>1 DEF Queue!Live
  <2> QED
    BY <1>2, <1>6, <2>1 DEF SchedulerInv, Remembered, Queue!Mine, Queue!Key
<1>8. StopsAreHits'
  BY DEF SchedulerInv, StopsAreHits
<1> QED
  BY <1>3, <1>4, <1>5, <1>7, <1>8 DEF SchedulerInv

LEMMA RestOfIt ==
    ASSUME NEW S, NEW s \in Seq(S), NEW p \in 0 .. Len(s)
    PROVE  /\ SubSeq(s, p + 1, Len(s)) \in Seq(S)
           /\ DOMAIN SubSeq(s, p + 1, Len(s)) = 1 .. Len(s) - p
           /\ \A i \in 1 .. Len(s) - p : SubSeq(s, p + 1, Len(s))[i] = s[p + i]
OBVIOUS

LEMMA CreateIsSafe ==
    ASSUME SchedulerInv, NEW c \in QCalls, NEW k \in Keys,
           calls[c].at = "idle", UNCHANGED <<disowned, fleet, repo>>, Queue!Entries(k) = {},
           calls' = [calls EXCEPT ![c] = [key |-> k, task |-> c, at |-> "waiting"]],
           adm' = [adm EXCEPT ![c].at = "created"], Queue!Remember(c)
    PROVE  SchedulerInv'
<1> DEFINE Call == [key : Keys, task : QCalls \cup {0},
                    at : {"idle", "waiting", "unwinding", "gone"}]
           all == Append(admitted, c)
           old == Len(admitted)
<1>1. /\ calls \in [QCalls -> Call] /\ adm[c].at = "none" /\ ~Queue!Mine(c)
      /\ adm \in [QCalls -> Admission] /\ admitted \in Seq(QCalls) /\ ~adm[c].stopped
      /\ adm[c] \in Admission
  BY SchedulerConstants DEF SchedulerInv, AdmissionTypes, Created, Queue!Mine
<1>2. /\ calls' \in [QCalls -> Call] /\ \A d \in QCalls \ {c} : calls'[d] = calls[d]
      /\ calls'[c].key = k /\ calls'[c].task = c /\ calls'[c].at = "waiting"
  BY <1>1
<1>3. /\ \A d \in QCalls \ {c} : adm'[d] = adm[d]
      /\ adm'[c] = [adm[c] EXCEPT !.at = "created"]
      /\ adm' = [d \in QCalls |-> adm'[d]]
  BY <1>1
<1>4. /\ adm'[c].at = "created" /\ ~adm'[c].stopped /\ adm'[c] \in Admission
      /\ adm'[c].hit <=> adm[c].hit
  BY <1>1, <1>3 DEF Admission, Queue!Live
<1>5. adm' \in [QCalls -> Admission]
  BY <1>1, <1>3, <1>4
<1>6. SlotsAreTaken'
  <2>1. NobodyMoves
    BY <1>1, <1>2, <1>3, <1>4 DEF NobodyMoves, Queue!Key
  <2> QED
    BY <2>1, SlotsStand
<1>7. Created'
  BY <1>1, <1>2, <1>3, <1>4 DEF SchedulerInv, Created, Queue!Mine
<1>8. \A i \in 1 .. old : /\ admitted[i] \in QCalls /\ admitted[i] # c
                          /\ calls[admitted[i]].key # k
  <2>1. \A i \in 1 .. old : admitted[i] \in QCalls /\ admitted[i] # c
    BY <1>1 DEF SchedulerInv, Remembered
  <2>2. \A i \in 1 .. old : admitted[i] \notin Queue!Entries(k)
    OBVIOUS
  <2>3. \A i \in 1 .. old : admitted[i] \in Queue!ToSet(admitted)
    BY <1>1 DEF Queue!ToSet
  <2> QED
    BY <2>1, <2>2, <2>3 DEF Queue!Entries, Queue!Key
<1>9. PICK n \in 0 .. old : /\ \A i \in 1 .. n : Queue!Done(all[i])
                            /\ admitted' = SubSeq(all, n + 1, Len(all))
  <2>1. Len(all) = old + 1 /\ old \in Nat /\ MaxRemembered \in Nat \ {0}
    BY <1>1, SchedulerConstants
  <2> DEFINE surplus == IF Len(all) > MaxRemembered THEN Len(all) - MaxRemembered ELSE 0
  <2>2. PICK n \in 0 .. surplus : /\ \A i \in 1 .. n : Queue!Done(all[i])
                                  /\ admitted' = SubSeq(all, n + 1, Len(all))
    BY DEF Queue!Remember
  <2>3. n \in 0 .. old
    BY <2>1
  <2> HIDE DEF all, surplus
  <2> QED
    BY <2>2, <2>3
<1>10. /\ all \in Seq(QCalls) /\ Len(all) = old + 1 /\ old \in Nat /\ all[old + 1] = c
       /\ \A i \in 1 .. old : all[i] = admitted[i]
  BY <1>1
<1> HIDE DEF all, old
<1>11. /\ admitted' \in Seq(QCalls) /\ DOMAIN admitted' = 1 .. old + 1 - n
       /\ \A i \in DOMAIN admitted' : admitted'[i] = all[n + i] /\ n + i \in 1 .. old + 1
       /\ admitted'[old + 1 - n] = c /\ old + 1 - n \in DOMAIN admitted'
  <2> DEFINE rest == SubSeq(all, n + 1, Len(all))
  <2>1. n \in 0 .. Len(all)
    BY <1>10
  <2>2. /\ rest \in Seq(QCalls) /\ DOMAIN rest = 1 .. Len(all) - n
        /\ \A i \in 1 .. Len(all) - n : rest[i] = all[n + i]
    BY <1>10, <2>1, RestOfIt
  <2>3. admitted' = rest
    BY <1>9
  <2> HIDE DEF rest
  <2>4. Len(all) - n = old + 1 - n
    BY <1>10
  <2>5. \A i \in 1 .. old + 1 - n : n + i \in 1 .. old + 1
    BY <1>10
  <2>6. old + 1 - n \in 1 .. old + 1 - n /\ n + (old + 1 - n) = old + 1
    BY <1>10
  <2>7. rest[old + 1 - n] = c
    BY <1>10, <2>2, <2>4, <2>6
  <2> QED
    BY <2>2, <2>3, <2>4, <2>5, <2>6, <2>7
<1>12. AdmissionTypes'
  BY <1>2, <1>5, <1>11 DEF SchedulerInv, AdmissionTypes
<1>13. \A i \in 1 .. old + 1 : all[i] \in QCalls /\ calls'[all[i]].task = all[i]
  <2>1. \A i \in 1 .. old : calls'[all[i]].task = all[i]
    BY <1>1, <1>2, <1>8, <1>10 DEF SchedulerInv, Remembered, Queue!Mine, old
  <2> QED
    BY <1>2, <1>10, <2>1
<1>14. \A i, j \in 1 .. old + 1 : calls'[all[i]].key = calls'[all[j]].key => i = j
  <2>1. \A i \in 1 .. old : calls'[all[i]].key = calls[admitted[i]].key
    BY <1>2, <1>8, <1>10
  <2>2. \A i, j \in 1 .. old : calls[admitted[i]].key = calls[admitted[j]].key => i = j
    BY <1>1 DEF SchedulerInv, Remembered, Queue!Key, old
  <2>3. calls'[all[old + 1]].key = k
    BY <1>2, <1>10
  <2> QED
    BY <1>8, <1>10, <2>1, <2>2, <2>3
<1>15. ASSUME NEW e \in QCalls, adm'[e].at \in Queue!Live, calls'[e].key \notin disowned
       PROVE  \E i \in DOMAIN admitted' : admitted'[i] = e
  <2>1. CASE e = c
    BY <1>11, <2>1
  <2>2. CASE e # c
    <3>1. PICK j \in 1 .. old : admitted[j] = e
      <4>1. adm[e].at \in Queue!Live /\ calls[e].key \notin disowned
        BY <1>2, <1>3, <1>15, <2>2
      <4>2. DOMAIN admitted = 1 .. old
        BY <1>1 DEF old
      <4>3. \E i \in DOMAIN admitted : admitted[i] = e
        BY <4>1 DEF SchedulerInv, Remembered, Queue!Key
      <4> QED
        BY <4>2, <4>3
    <3>2. ~Queue!Done(all[j])
      BY <1>3, <1>10, <1>15, <2>2, <3>1 DEF Queue!Done, Queue!Ended, Queue!Live
    <3>3. j > n
      BY <1>9, <3>1, <3>2
    <3>4. j - n \in DOMAIN admitted' /\ n + (j - n) = j
      <4>1. j - n \in 1 .. old + 1 - n /\ n + (j - n) = j
        BY <1>10, <3>1, <3>3
      <4> QED
        BY <1>11, <4>1
    <3>5. admitted'[j - n] = all[j]
      BY <1>11, <3>4
    <3> QED
      BY <1>10, <3>1, <3>4, <3>5
  <2> QED
    BY <2>1, <2>2
<1>16. Remembered'
  <2>1. \A i \in DOMAIN admitted' : calls'[admitted'[i]].task = admitted'[i]
    BY <1>11, <1>13
  <2>2. \A i, j \in DOMAIN admitted' :
           calls'[admitted'[i]].key = calls'[admitted'[j]].key => i = j
    <3>1. \A i, j \in 1 .. old + 1 - n : n + i = n + j => i = j
      BY <1>10
    <3> QED
      BY <1>11, <1>14, <3>1, SMTT(30)
  <2> QED
    BY <1>15, <2>1, <2>2 DEF Remembered, Queue!Mine, Queue!Key
<1>17. StopsAreHits'
  <2>1. ASSUME NEW i \in DOMAIN admitted', NEW d, d = admitted'[i]
        PROVE  /\ adm'[d].at \in {"repo", "fleet"} => adm'[d].record = d
               /\ adm'[d].at = "inside" => adm'[d].started
    <3>1. CASE d = c
      BY <1>4, <3>1
    <3>2. CASE d # c
      <4>0. n + i \in 1 .. old + 1 /\ d = all[n + i] /\ n + i # old + 1
        BY <1>10, <1>11, <2>1, <3>2
      <4>1. n + i \in 1 .. old /\ d = admitted[n + i]
        BY <1>10, <4>0
      <4>2. n + i \in DOMAIN admitted /\ d \in QCalls
        BY <1>1, <4>1 DEF old
      <4> QED
        BY <1>3, <3>2, <4>1, <4>2 DEF SchedulerInv, StopsAreHits
    <3> QED
      BY <3>1, <3>2
  <2>2. \A d \in QCalls : /\ adm'[d].stopped /\ adm'[d].at \in Queue!Live => adm'[d].hit
                          /\ adm'[d].at = "inside" => ~adm'[d].stopped
    BY <1>3, <1>4 DEF SchedulerInv, StopsAreHits
  <2> QED
    BY <2>1, <2>2 DEF StopsAreHits
<1> QED
  BY <1>6, <1>7, <1>12, <1>16, <1>17 DEF SchedulerInv

LEMMA dispatchIsSafe ==
    ASSUME SchedulerInv, NEW c \in QCalls, NEW k \in Keys, Queue!dispatch(c, k)
    PROVE  SchedulerInv'
<1>1. calls[c].at = "idle" /\ UNCHANGED <<fleet, repo, disowned>> /\ AdmissionTypes
  BY DEF Queue!dispatch, Queue!Idle, SchedulerInv
<1>2. CASE Queue!Entries(k) # {}
  <2>1. PICK e \in QCalls : e = Queue!Entry(k) /\ \E i \in DOMAIN admitted : admitted[i] = e
    BY <1>1, <1>2, EntryIsRemembered
  <2>2. e # c
    BY <1>1, <2>1, SchedulerConstants DEF SchedulerInv, Remembered, Created, Queue!Mine
  <2>3. /\ calls' = [calls EXCEPT ![c] = [key |-> k, task |-> e, at |-> "waiting"]]
        /\ UNCHANGED <<adm, admitted>>
    BY <1>2, <2>1 DEF Queue!dispatch
  <2> QED
    BY <1>1, <2>2, <2>3, JoinIsSafe
<1>3. CASE Queue!Entries(k) = {}
  <2>1. /\ calls' = [calls EXCEPT ![c] = [key |-> k, task |-> c, at |-> "waiting"]]
        /\ adm' = [adm EXCEPT ![c].at = "created"]
        /\ Queue!Remember(c)
    BY <1>3 DEF Queue!dispatch
  <2> QED
    BY <1>1, <1>3, <2>1, CreateIsSafe
<1> QED
  BY <1>2, <1>3

LEMMA SchedulerNext == SchedulerInv /\ Queue!Next => SchedulerInv'
<1> SUFFICES ASSUME SchedulerInv, Queue!Next PROVE SchedulerInv'
  OBVIOUS
<1>1. CASE \E k \in Keys : Queue!cancel(k)
  BY <1>1, cancelIsSafe
<1>2. ASSUME NEW c \in QCalls, NEW k \in Keys, Queue!dispatch(c, k) PROVE SchedulerInv'
  BY <1>2, dispatchIsSafe
<1>3. ASSUME NEW c \in QCalls, Queue!Woken(c) PROVE SchedulerInv'
  <2>1. /\ Queue!Leaves(c) /\ calls[c].at # "idle" /\ UNCHANGED <<adm, fleet, repo>>
        /\ Queue!Keep \/ (Queue!Pop(c) /\ Queue!Done(calls[c].task))
    BY <1>3 DEF Queue!Woken
  <2> QED
    BY <2>1, LeavingIsSafe
<1>4. ASSUME NEW c \in QCalls, Queue!GivesUp(c) PROVE SchedulerInv'
  BY <1>4, GivesUpIsSafe
<1>5. ASSUME NEW c \in QCalls, Queue!Unwound(c) PROVE SchedulerInv'
  <2>1. /\ Queue!Leaves(c) /\ calls[c].at # "idle" /\ UNCHANGED <<adm, fleet, repo>>
        /\ Queue!Keep \/ (Queue!Pop(c) /\ Queue!Done(calls[c].task))
    BY <1>5 DEF Queue!Unwound
  <2> QED
    BY <2>1, LeavingIsSafe
<1>6. ASSUME NEW c \in QCalls, Queue!Admit(c) PROVE SchedulerInv'
  BY <1>6, StartsIsSafe, GetsRepoIsSafe, GetsFleetIsSafe, InnerEndsIsSafe DEF Queue!Admit
<1> QED
  BY <1>1, <1>2, <1>3, <1>4, <1>5, <1>6 DEF Queue!Next, QCalls

LEMMA SchedulerStays == SchedulerInv /\ UNCHANGED scheduler => SchedulerInv'
<1> SUFFICES ASSUME SchedulerInv, UNCHANGED scheduler PROVE SchedulerInv'
  OBVIOUS
<1>1. NobodyMoves
  BY DEF NobodyMoves, scheduler, Queue!Key
<1>2. SlotsAreTaken'
  BY <1>1, SlotsStand
<1>3. AdmissionTypes' /\ Created'
  BY DEF scheduler, SchedulerInv, AdmissionTypes, Created, Queue!Mine
<1>4. Remembered' /\ StopsAreHits'
  BY DEF scheduler, SchedulerInv, Remembered, StopsAreHits, Queue!Mine, Queue!Key
<1> QED
  BY <1>2, <1>3, <1>4 DEF SchedulerInv

LEMMA FullUnlessHandingOver ==
    ASSUME NEW s, NEW those, NEW holders, NEW cap, NEW hits, NEW e \in those,
           SemInv(s, those, holders, cap, hits), e \notin hits, Queue!Granted(s) = {}
    PROVE  Cardinality(holders) = cap
<1>1. /\ Cardinality(holders) \in Nat
      /\ Tasks(s, "granted") = {} /\ e \notin Tasks(s, "cancelled")
      /\ e \in Tasks(s, "waiting") \cup Tasks(s, "granted") \cup Tasks(s, "cancelled")
  BY SemMembers
<1>2. s.value = 0
  BY <1>1 DEF SemInv, NobodyIsPassed
<1>3. Cardinality(Tasks(s, "granted")) = 0
  BY <1>1, FS_EmptySet
<1> QED
  BY <1>1, <1>2, <1>3 DEF SemInv, Free

LEMMA SchedulerIsSafe ==
    SchedulerInv => /\ Queue!SlotsAreConserved /\ Queue!OnlyWorkBlocks
                    /\ Queue!StoppedInTheQueueNeverRuns /\ Queue!AdmittedOnce
<1> SUFFICES ASSUME SchedulerInv
             PROVE  /\ Queue!SlotsAreConserved /\ Queue!OnlyWorkBlocks
                    /\ Queue!StoppedInTheQueueNeverRuns /\ Queue!AdmittedOnce
  OBVIOUS
<1>1. SemInv(fleet, In("fleet"), In("inside"), FleetLimit, Hits)
  BY DEF SchedulerInv, SlotsAreTaken, FleetSem
<1>2. \A r \in Repos : SemInv(repo[r], WaitsFor(r), Queue!Holders(r), RepoCap[r], Hits)
  BY DEF SchedulerInv, SlotsAreTaken, RepoSem
<1>3. Queue!Inside = In("inside")
  BY DEF Queue!Inside, In, QCalls
<1>4. Queue!SlotsAreConserved
  <2>1. ASSUME NEW s, NEW those, NEW holders, NEW cap, SemInv(s, those, holders, cap, Hits)
        PROVE  s.value + Queue!Cardinality(Queue!Granted(s)) + Queue!Cardinality(holders) = cap
    <3>1. Queue!Granted(s) = Tasks(s, "granted")
      BY <2>1, SemMembers
    <3>2. Queue!Cardinality(Queue!Granted(s)) = Cardinality(Tasks(s, "granted"))
          /\ Queue!Cardinality(holders) = Cardinality(holders)
      BY <3>1, CountIsCardinality
    <3> QED
      BY <2>1, <3>2 DEF SemInv, Free
  <2> QED
    BY <1>1, <1>2, <1>3, <2>1 DEF Queue!SlotsAreConserved
<1>5. Queue!OnlyWorkBlocks
  <2>1. SUFFICES ASSUME NEW e \in QCalls, adm[e].at \in {"repo", "fleet"}, ~adm[e].hit,
                        ~Queue!HandingOver
                 PROVE  \/ Queue!Cardinality(Queue!Inside) = FleetLimit
                        \/ Queue!Cardinality(Queue!Inside \cap Queue!Holders(Queue!RepoKey(e)))
                             = RepoCap[Queue!RepoKey(e)]
    BY DEF Queue!OnlyWorkBlocks, QCalls
  <2>2. PICK own \in Repos : own = Queue!RepoKey(e)
    BY KeyHasARepo DEF SchedulerInv
  <2>3. /\ Queue!Granted(fleet) = {} /\ Queue!Granted(repo[own]) = {}
        /\ \A d \in QCalls : adm[d].at \in Queue!Live => ~adm[d].hit
    BY <2>1 DEF Queue!HandingOver, QCalls
  <2>4. ASSUME NEW d \in QCalls, adm[d].at = "fleet" PROVE Cardinality(In("inside")) = FleetLimit
    <3>1. d \in In("fleet") /\ d \notin Hits
      BY <2>3, <2>4 DEF In, Hits, Queue!Live
    <3> QED
      BY <1>1, <2>3, <3>1, FullUnlessHandingOver
  <2>5. CASE \E d \in QCalls : adm[d].at = "fleet"
    BY <1>3, <2>4, <2>5, CountIsCardinality
  <2>6. CASE \A d \in QCalls : adm[d].at # "fleet"
    <3>1. e \in WaitsFor(own) /\ e \notin Hits
      BY <2>1, <2>2, <2>6 DEF WaitsFor, Hits
    <3>2. Cardinality(Queue!Holders(own)) = RepoCap[own]
      BY <1>2, <2>3, <3>1, FullUnlessHandingOver
    <3>3. Queue!Inside \cap Queue!Holders(own) = Queue!Holders(own)
      BY <2>6 DEF Queue!Holders, Queue!Inside, QCalls
    <3> QED
      BY <2>2, <3>2, <3>3, CountIsCardinality
  <2> QED
    BY <2>5, <2>6
<1>6. Queue!StoppedInTheQueueNeverRuns
  BY DEF SchedulerInv, StopsAreHits, Queue!StoppedInTheQueueNeverRuns, Queue!Inside, QCalls
<1>7. Queue!AdmittedOnce
  BY DEF SchedulerInv, Remembered, Queue!AdmittedOnce, QCalls
<1> QED
  BY <1>4, <1>5, <1>6, <1>7

-----------------------------------------------------------------------------
(***************************************************************************)
(* Outbox: what is held, and each message that was not given to the port   *)
(* by two tasks at a time, nor by a flush from what it had seen held.      *)
(***************************************************************************)
HeldRecord == [key : Posts, tries : Nat]

OutboxTypes ==
    /\ held \in Seq(HeldRecord) /\ letters \in Seq(Posts)
    /\ senders \in [Senders -> [at : {"idle", "port", "sent", "kept"}, key : Posts \cup {"none"}]]
    /\ \A s \in Senders : senders[s].at = "port" => senders[s].key \in Posts
    /\ flushers \in [Flushers -> Seq(Posts)]
    /\ taken \in [Posts -> Nat]

HeldOnce(queue) ==
    /\ \A i, j \in DOMAIN queue : queue[i].key = queue[j].key => i = j
    /\ Len(queue) <= Capacity
    /\ \A i \in DOMAIN queue : queue[i].tries < MaxSends

Kept(k) == \E i \in DOMAIN held : held[i].key = k
AtPort(s, k) == senders[s].at = "port" /\ senders[s].key = k
AtWork(f, k) == flushers[f] # << >> /\ Head(flushers[f]) = k

\* A message that nobody gave to the port twice at a time.
Single(k) ==
    /\ taken[k] = IF k \in delivered THEN 1 ELSE 0
    /\ k \in delivered => ~Kept(k)
    /\ k \notin broken
    /\ \A s \in Senders : AtPort(s, k) => k \notin delivered /\ ~Kept(k)
    /\ \A f \in Flushers : AtWork(f, k) => Kept(k)
    /\ \A s, t \in Senders : AtPort(s, k) /\ AtPort(t, k) => s = t
    /\ \A f, g \in Flushers : AtWork(f, k) /\ AtWork(g, k) => f = g

OutboxInv == /\ OutboxTypes /\ HeldOnce(held) /\ Messages!WhatWasKeptIsThere
             /\ \A k \in Posts \ overlapped : Single(k)

LEMMA OutboxConstants == Capacity \in Nat \ {0} /\ MaxSends \in Nat \ {0}
BY ServicesAssumption DEF Messages!OutboxAssumption

LEMMA KeysAreKept == \A k : k \in Messages!KeysOf(held) <=> Kept(k)
BY DEF Messages!KeysOf, Kept

LEMMA HeldAt ==
    ASSUME OutboxTypes
    PROVE  /\ Len(held) \in Nat /\ DOMAIN held = 1 .. Len(held)
           /\ \A i \in DOMAIN held : /\ held[i] \in HeldRecord /\ held[i].key \in Posts
                                     /\ held[i].tries \in Nat
<1>1. held \in Seq(HeldRecord)
  BY DEF OutboxTypes
<1>2. \A i \in 1 .. Len(held) : held[i] \in HeldRecord
  BY <1>1
<1> QED
  BY <1>1, <1>2 DEF HeldRecord

LEMMA OutboxInit == Init => OutboxInv
<1> SUFFICES ASSUME Messages!Init PROVE OutboxInv
  BY DEF Init
<1>1. held = << >> /\ DOMAIN held = {} /\ Len(held) = 0
  BY DEF Messages!Init
<1>2. \A s \in Senders : senders[s].at = "idle" /\ senders[s].key = "none"
                         /\ senders[s] \in [at : {"idle", "port", "sent", "kept"},
                                            key : Posts \cup {"none"}]
  BY DEF Messages!Init, Messages!Idle
<1>3. OutboxTypes
  BY <1>1, <1>2 DEF Messages!Init, OutboxTypes
<1>4. HeldOnce(held)
  BY <1>1, OutboxConstants DEF HeldOnce
<1>5. Messages!WhatWasKeptIsThere
  BY <1>2 DEF Messages!WhatWasKeptIsThere
<1>6. \A k \in Posts : Single(k)
  BY <1>1, <1>2 DEF Messages!Init, Single, Kept, AtPort, AtWork
<1> QED
  BY <1>3, <1>4, <1>5, <1>6 DEF OutboxInv

\* The queue without a key.
LEMMA WithoutAKey ==
    ASSUME OutboxTypes, HeldOnce(held), NEW k
    PROVE  /\ Messages!Without(k) \in Seq(HeldRecord) /\ HeldOnce(Messages!Without(k))
           /\ \A j : (\E i \in DOMAIN Messages!Without(k) : Messages!Without(k)[i].key = j)
                        <=> Kept(j) /\ j # k
<1>1. CASE ~Kept(k)
  BY <1>1, KeysAreKept DEF Messages!Without, OutboxTypes, Kept
<1>2. CASE Kept(k)
  <2> DEFINE p == Messages!PlaceOf(k)
             rest == Messages!Without(k)
  <2>1. held \in Seq(HeldRecord) /\ DOMAIN held = 1 .. Len(held) /\ Len(held) \in Nat
    BY HeldAt DEF OutboxTypes
  <2>2. p \in DOMAIN held /\ held[p].key = k
    BY <1>2 DEF Kept, Messages!PlaceOf
  <2>3. rest = Messages!RemoveAt(held, p)
    BY <1>2, KeysAreKept DEF Messages!Without
  <2> HIDE DEF p, rest
  <2>4. rest = Shorter(held, p) /\ rest \in Seq(HeldRecord) /\ Len(rest) = Len(held) - 1
    BY <2>1, <2>2, <2>3, WithoutAPlace
  <2> DEFINE from(i) == IF i < p THEN i ELSE i + 1
  <2>5. /\ DOMAIN rest = 1 .. Len(held) - 1
        /\ \A i \in DOMAIN rest : rest[i] = held[from(i)] /\ from(i) \in DOMAIN held /\ from(i) # p
    BY <2>1, <2>2, <2>4 DEF Shorter
  <2>6. \A i, j \in DOMAIN rest : from(i) = from(j) => i = j
    BY <2>1, <2>2, <2>5
  <2>7. ASSUME NEW j \in DOMAIN held, j # p PROVE \E i \in DOMAIN rest : rest[i] = held[j]
    <3> DEFINE to == IF j < p THEN j ELSE j - 1
    <3>1. to \in DOMAIN rest /\ from(to) = j
      BY <2>1, <2>2, <2>5, <2>7
    <3> QED
      BY <2>5, <3>1
  <2> HIDE DEF from
  <2>8. HeldOnce(rest)
    BY <2>1, <2>4, <2>5, <2>6, OutboxConstants DEF HeldOnce
  <2>9. \A j : (\E i \in DOMAIN rest : rest[i].key = j) <=> Kept(j) /\ j # k
    <3>1. \A i \in DOMAIN rest : Kept(rest[i].key) /\ rest[i].key # k
      BY <2>2, <2>5 DEF Kept, HeldOnce
    <3>2. ASSUME NEW j, Kept(j), j # k PROVE \E i \in DOMAIN rest : rest[i].key = j
      BY <2>2, <2>7, <3>2 DEF Kept
    <3> QED
      BY <3>1, <3>2
  <2> QED
    BY <2>4, <2>8, <2>9 DEF rest
<1> QED
  BY <1>1, <1>2

InLetters(k) == \E i \in DOMAIN letters : letters[i] = k

\* A refused message stays in its place, joins the queue, or goes to the dead letters.
LEMMA HoldKeeps ==
    ASSUME OutboxTypes, HeldOnce(held), NEW k \in Posts, NEW retry \in BOOLEAN,
           Messages!Hold(k, retry)
    PROVE  /\ held' \in Seq(HeldRecord) /\ HeldOnce(held)' /\ letters' \in Seq(Posts)
           /\ \A j \in Posts \ {k} : Kept(j)' <=> Kept(j)
           /\ Kept(k)' \/ InLetters(k)'
           /\ \A j : InLetters(j) => InLetters(j)'
           /\ UNCHANGED <<delivered, taken, broken>>
<1>1. held \in Seq(HeldRecord) /\ DOMAIN held = 1 .. Len(held) /\ Len(held) \in Nat
      /\ letters \in Seq(Posts)
  BY HeldAt DEF OutboxTypes
<1>2. \A i \in DOMAIN held : held[i] \in HeldRecord /\ held[i].tries \in Nat
  BY HeldAt
<1>3. UNCHANGED <<delivered, taken, broken>>
  BY DEF Messages!Hold
<1>4. CASE Messages!Park(k)
  <2>1. held' = Messages!Without(k) /\ letters' = Append(letters, k)
    BY <1>4 DEF Messages!Park
  <2>2. /\ Messages!Without(k) \in Seq(HeldRecord) /\ HeldOnce(Messages!Without(k))
        /\ \A j : (\E i \in DOMAIN Messages!Without(k) : Messages!Without(k)[i].key = j)
                     <=> Kept(j) /\ j # k
    BY WithoutAKey
  <2>3. held' \in Seq(HeldRecord) /\ HeldOnce(held)' /\ \A j : Kept(j)' <=> Kept(j) /\ j # k
    BY <2>1, <2>2 DEF Kept, HeldOnce
  <2>4. letters' \in Seq(Posts) /\ InLetters(k)' /\ \A j : InLetters(j) => InLetters(j)'
    <3>1. /\ letters' \in Seq(Posts) /\ Len(letters') = Len(letters) + 1
          /\ letters'[Len(letters) + 1] = k /\ Len(letters) \in Nat
          /\ \A i \in 1 .. Len(letters) : letters'[i] = letters[i]
          /\ DOMAIN letters = 1 .. Len(letters) /\ DOMAIN letters' = 1 .. Len(letters) + 1
      BY <1>1, <2>1
    <3> QED
      BY <3>1 DEF InLetters
  <2> QED
    BY <1>3, <2>3, <2>4
<1>5. CASE ~Messages!Park(k) /\ Kept(k)
  <2> DEFINE p == Messages!PlaceOf(k)
  <2>1. p \in DOMAIN held /\ held[p].key = k
    BY <1>5 DEF Kept, Messages!PlaceOf
  <2>2. held' = [held EXCEPT ![p].tries = @ + 1] /\ letters' = letters
    BY <1>5, KeysAreKept DEF Messages!Hold
  <2>3. held[p].tries + 1 < MaxSends
    <3>1. ~(Messages!Tries(k) >= MaxSends)
      BY <1>5 DEF Messages!Hold
    <3>2. Messages!Tries(k) = held[p].tries + 1
      BY <1>5, KeysAreKept DEF Messages!Tries
    <3> QED
      BY <1>2, <2>1, <3>1, <3>2, OutboxConstants
  <2> HIDE DEF p
  <2>4. /\ DOMAIN held' = DOMAIN held /\ Len(held') = Len(held)
        /\ \A i \in DOMAIN held \ {p} : held'[i] = held[i]
        /\ held'[p] = [held[p] EXCEPT !.tries = @ + 1]
    BY <1>1, <2>1, <2>2
  <2>5. held'[p].key = k /\ held'[p].tries = held[p].tries + 1 /\ held'[p] \in HeldRecord
    BY <1>2, <2>1, <2>4 DEF HeldRecord
  <2>6. held' \in Seq(HeldRecord)
    BY <1>1, <1>2, <2>1, <2>2, <2>4, <2>5
  <2>7. \A i \in DOMAIN held : held'[i].key = held[i].key /\ held'[i].tries < MaxSends
    BY <2>1, <2>3, <2>4, <2>5 DEF HeldOnce
  <2>8. HeldOnce(held)' /\ \A j : Kept(j)' <=> Kept(j)
    BY <2>4, <2>7 DEF HeldOnce, Kept
  <2> QED
    BY <1>1, <1>3, <1>5, <2>2, <2>6, <2>8 DEF InLetters
<1>6. CASE ~Messages!Park(k) /\ ~Kept(k)
  <2> DEFINE new == [key |-> k, tries |-> 1]
             n == Len(held)
  <2>1. /\ held' = Append(held, new) /\ letters' = letters
        /\ ~(Messages!Tries(k) >= MaxSends) /\ ~(Len(held) >= Capacity)
    BY <1>6, KeysAreKept DEF Messages!Hold
  <2>2. Messages!Tries(k) = 1
    BY <1>6, KeysAreKept DEF Messages!Tries
  <2>3. new \in HeldRecord /\ new.key = k /\ new.tries = 1
    BY DEF HeldRecord
  <2> HIDE DEF new
  <2>4. /\ held' \in Seq(HeldRecord) /\ Len(held') = n + 1 /\ DOMAIN held' = 1 .. n + 1
        /\ \A i \in 1 .. n : held'[i] = held[i]
        /\ held'[n + 1] = new /\ n \in Nat
    BY <1>1, <2>1, <2>3
  <2>5. n + 1 <= Capacity /\ 1 < MaxSends
    BY <1>1, <2>1, <2>2, OutboxConstants
  <2>6. DOMAIN held = 1 .. n
    BY <1>1
  <2> HIDE DEF n
  <2>7. HeldOnce(held)'
    <3>1. \A i \in 1 .. n : held[i].key # k
      BY <1>6, <2>6 DEF Kept
    <3>2. \A i, j \in 1 .. n + 1 : held'[i].key = held'[j].key => i = j
      BY <2>3, <2>4, <2>6, <3>1 DEF HeldOnce
    <3>3. \A i \in 1 .. n + 1 : held'[i].tries < MaxSends
      BY <2>3, <2>4, <2>5, <2>6 DEF HeldOnce
    <3> QED
      BY <2>4, <2>5, <3>2, <3>3 DEF HeldOnce
  <2>8. Kept(k)' /\ \A j \in Posts \ {k} : Kept(j)' <=> Kept(j)
    BY <2>3, <2>4, <2>6 DEF Kept
  <2> QED
    BY <1>1, <1>3, <2>1, <2>4, <2>7, <2>8 DEF InLetters
<1> QED
  BY <1>4, <1>5, <1>6

LEMMA AwaitedIs ==
    ASSUME OutboxTypes, NEW k
    PROVE  Messages!Awaited(k) <=> \/ \E s \in Senders : AtPort(s, k)
                                   \/ \E f \in Flushers : AtWork(f, k)
<1>1. \A s \in Senders : senders[s] = [at |-> "port", key |-> k] <=> AtPort(s, k)
  BY DEF OutboxTypes, AtPort
<1> QED
  BY <1>1 DEF Messages!Awaited, AtWork

\* What a flush goes on with is held, and nobody else has given it to the port.
LEMMA FlushGoesOn ==
    ASSUME OutboxTypes, NEW f \in Flushers, NEW rest \in Seq(Posts), Messages!Continue(f, rest)
    PROVE  /\ flushers' \in [Flushers -> Seq(Posts)] /\ overlapped \subseteq overlapped'
           /\ \A g \in Flushers \ {f} : \A k : AtWork(g, k)' <=> AtWork(g, k)
           /\ \A k : AtWork(f, k)' /\ k \notin overlapped' =>
                 /\ Kept(k)
                 /\ \A s \in Senders : ~AtPort(s, k)
                 /\ \A g \in Flushers : ~AtWork(g, k)
<1>1. flushers' = [flushers EXCEPT ![f] = rest] /\ flushers \in [Flushers -> Seq(Posts)]
  BY DEF Messages!Continue, OutboxTypes
<1>2. /\ flushers' \in [Flushers -> Seq(Posts)] /\ flushers'[f] = rest
      /\ \A g \in Flushers \ {f} : flushers'[g] = flushers[g]
  BY <1>1
<1>3. overlapped \subseteq overlapped'
  BY DEF Messages!Continue, Messages!Note
<1>4. ASSUME NEW k, AtWork(f, k)', k \notin overlapped'
      PROVE  Kept(k) /\ ~Messages!Awaited(k)
  <2>1. rest # << >> /\ Head(rest) = k
    BY <1>2, <1>4 DEF AtWork
  <2>2. Messages!Note(k, k \notin Messages!KeysOf(held))
    BY <2>1 DEF Messages!Continue
  <2>3. k \in Messages!KeysOf(held) /\ ~Messages!Awaited(k)
    BY <1>4, <2>2 DEF Messages!Note
  <2> QED
    BY <2>3, KeysAreKept
<1> QED
  BY <1>2, <1>3, <1>4, AwaitedIs DEF AtWork

Accounted(k) == Kept(k) \/ InLetters(k) \/ k \in drained \/ k \in delivered

AllIsAccounted == \A s \in Senders : senders[s].at = "kept" => Accounted(senders[s].key)

LEMMA KeptIsAccounted == Messages!WhatWasKeptIsThere <=> AllIsAccounted
<1>1. \A k : k \in Messages!ToSet(letters) <=> InLetters(k)
  BY DEF Messages!ToSet, InLetters
<1> QED
  BY <1>1, KeysAreKept DEF Messages!WhatWasKeptIsThere, Accounted, AllIsAccounted

\* What else may be of a message when a sender that had given it to the port is answered.
LEMMA SenderMoves ==
    ASSUME OutboxTypes, NEW s \in Senders, NEW to \in {"port", "sent", "kept"},
           NEW k \in Posts,
           \/ senders' = [senders EXCEPT ![s] = [key |-> k, at |-> to]]
           \/ senders' = [senders EXCEPT ![s].at = to] /\ senders[s].key = k
    PROVE  /\ senders' \in [Senders -> [at : {"idle", "port", "sent", "kept"},
                                        key : Posts \cup {"none"}]]
           /\ senders'[s].at = to /\ senders'[s].key = k
           /\ \A t \in Senders \ {s} : senders'[t] = senders[t]
           /\ \A t \in Senders : senders'[t].at = "port" => senders'[t].key \in Posts
<1>1. senders \in [Senders -> [at : {"idle", "port", "sent", "kept"}, key : Posts \cup {"none"}]]
      /\ \A t \in Senders : senders[t].at = "port" => senders[t].key \in Posts
  BY DEF OutboxTypes
<1>2. senders[s] \in [at : {"idle", "port", "sent", "kept"}, key : Posts \cup {"none"}]
  BY <1>1
<1>3. /\ senders'[s].at = to /\ senders'[s].key = k
      /\ senders'[s] \in [at : {"idle", "port", "sent", "kept"}, key : Posts \cup {"none"}]
      /\ \A t \in Senders \ {s} : senders'[t] = senders[t]
      /\ senders' = [t \in Senders |-> senders'[t]]
  BY <1>1, <1>2
<1>4. senders' \in [Senders -> [at : {"idle", "port", "sent", "kept"}, key : Posts \cup {"none"}]]
  BY <1>1, <1>3
<1> QED
  BY <1>1, <1>3, <1>4

LEMMA SendIsSafe ==
    ASSUME OutboxInv, NEW s \in Senders, NEW k \in Posts, Messages!Send(s, k)
    PROVE  OutboxInv'
<1>1. OutboxTypes /\ HeldOnce(held) /\ Messages!WhatWasKeptIsThere
      /\ \A j \in Posts \ overlapped : Single(j)
  BY DEF OutboxInv
<1>2. senders[s].at = "idle"
      /\ UNCHANGED <<held, letters, delivered, flushers, taken, broken, drained>>
  BY DEF Messages!Send, Messages!queue
<1>3. PICK to \in {"port", "sent", "kept"} :
         /\ senders' = [senders EXCEPT ![s] = [key |-> k, at |-> to]]
         /\ to = "kept" => Kept(k)
         /\ to = "port" => k \notin delivered /\ ~Kept(k)
  <2> DEFINE place == CASE k \in delivered -> "sent"
                        [] k \in Messages!KeysOf(held) -> "kept"
                        [] OTHER -> "port"
  <2>1. senders' = [senders EXCEPT ![s] = [key |-> k, at |-> place]]
    BY DEF Messages!Send
  <2>2. /\ place \in {"port", "sent", "kept"}
        /\ place = "kept" => k \in Messages!KeysOf(held)
        /\ place = "port" => k \notin delivered /\ k \notin Messages!KeysOf(held)
    OBVIOUS
  <2> HIDE DEF place
  <2> QED
    BY <2>1, <2>2, KeysAreKept
<1>4. /\ senders' \in [Senders -> [at : {"idle", "port", "sent", "kept"},
                                   key : Posts \cup {"none"}]]
      /\ senders'[s].at = to /\ senders'[s].key = k
      /\ \A t \in Senders \ {s} : senders'[t] = senders[t]
      /\ \A t \in Senders : senders'[t].at = "port" => senders'[t].key \in Posts
  BY <1>1, <1>3, SenderMoves
<1>5. /\ overlapped \subseteq overlapped'
      /\ to = "port" /\ k \notin overlapped' => ~Messages!Awaited(k)
  BY <1>4 DEF Messages!Send, Messages!Note
<1>6. OutboxTypes' /\ HeldOnce(held)'
  BY <1>1, <1>2, <1>4 DEF OutboxTypes, HeldOnce
<1>7. Messages!WhatWasKeptIsThere'
  <2>1. \A t \in Senders : senders'[t].at = "kept" => Accounted(senders'[t].key)
    BY <1>1, <1>3, <1>4, KeptIsAccounted DEF Accounted, AllIsAccounted
  <2>2. \A j : Messages!KeysOf(held)' = Messages!KeysOf(held)
               /\ Messages!ToSet(letters)' = Messages!ToSet(letters)
    BY <1>2
  <2>3. \A j : Accounted(j) => j \in Messages!KeysOf(held) \cup Messages!ToSet(letters)
                                     \cup drained \cup delivered
    BY KeysAreKept DEF Accounted, InLetters, Messages!ToSet
  <2> QED
    BY <1>2, <2>1, <2>2, <2>3 DEF Messages!WhatWasKeptIsThere
<1>8. ASSUME NEW j \in Posts \ overlapped' PROVE Single(j)'
  <2>1. Single(j)
    BY <1>1, <1>5
  <2>2. \A t \in Senders \ {s} : AtPort(t, j)' <=> AtPort(t, j)
    BY <1>4 DEF AtPort
  <2>3. (Kept(j)' <=> Kept(j)) /\ \A f \in Flushers : AtWork(f, j)' <=> AtWork(f, j)
    BY <1>2 DEF Kept, AtWork
  <2>4. CASE AtPort(s, j)'
    <3>1. to = "port" /\ j = k
      BY <1>4, <2>4 DEF AtPort
    <3>2. \A t \in Senders : ~AtPort(t, j)
      BY <1>1, <1>5, <3>1, AwaitedIs
    <3> QED
      BY <1>2, <1>3, <2>1, <2>2, <2>3, <3>1, <3>2 DEF Single
  <2>5. CASE ~AtPort(s, j)'
    BY <1>2, <2>1, <2>2, <2>3, <2>5 DEF Single
  <2> QED
    BY <2>4, <2>5
<1> QED
  BY <1>6, <1>7, <1>8 DEF OutboxInv

LEMMA SendSucceedsIsSafe ==
    ASSUME OutboxInv, NEW s \in Senders, Messages!SendSucceeds(s)
    PROVE  OutboxInv'
<1>1. OutboxTypes /\ HeldOnce(held) /\ Messages!WhatWasKeptIsThere
      /\ \A j \in Posts \ overlapped : Single(j)
  BY DEF OutboxInv
<1>2. /\ senders[s].at = "port" /\ senders' = [senders EXCEPT ![s].at = "sent"]
      /\ UNCHANGED <<held, letters, flushers, overlapped, broken, drained>>
  BY DEF Messages!SendSucceeds
<1>3. PICK k \in Posts : k = senders[s].key
  BY <1>1, <1>2 DEF OutboxTypes
<1>4. /\ delivered' = delivered \cup {k}
      /\ taken' = [taken EXCEPT ![k] = @ + 1]
  BY <1>3 DEF Messages!SendSucceeds
<1>5. /\ senders' \in [Senders -> [at : {"idle", "port", "sent", "kept"},
                                   key : Posts \cup {"none"}]]
      /\ senders'[s].at = "sent"
      /\ \A t \in Senders \ {s} : senders'[t] = senders[t]
      /\ \A t \in Senders : senders'[t].at = "port" => senders'[t].key \in Posts
  BY <1>1, <1>2, <1>3, SenderMoves
<1>6. taken' \in [Posts -> Nat] /\ taken'[k] = taken[k] + 1
      /\ \A j \in Posts \ {k} : taken'[j] = taken[j]
  BY <1>1, <1>4 DEF OutboxTypes
<1>7. OutboxTypes' /\ HeldOnce(held)'
  BY <1>1, <1>2, <1>5, <1>6 DEF OutboxTypes, HeldOnce
<1>8. Messages!WhatWasKeptIsThere'
  <2>1. \A t \in Senders : senders'[t].at = "kept" =>
           senders'[t] = senders[t] /\ senders[t].at = "kept"
    BY <1>5
  <2>2. Messages!KeysOf(held)' = Messages!KeysOf(held)
        /\ Messages!ToSet(letters)' = Messages!ToSet(letters)
    BY <1>2
  <2> QED
    BY <1>1, <1>2, <1>4, <2>1, <2>2 DEF Messages!WhatWasKeptIsThere
<1>9. ASSUME NEW j \in Posts \ overlapped' PROVE Single(j)'
  <2>1. Single(j)
    BY <1>1, <1>2
  <2>2. /\ \A t \in Senders \ {s} : AtPort(t, j)' <=> AtPort(t, j)
        /\ ~AtPort(s, j)'
    BY <1>5 DEF AtPort
  <2>3. (Kept(j)' <=> Kept(j)) /\ \A f \in Flushers : AtWork(f, j)' <=> AtWork(f, j)
    BY <1>2 DEF Kept, AtWork
  <2>4. CASE j = k
    <3>1. AtPort(s, j)
      BY <1>2, <1>3, <2>4 DEF AtPort
    <3>2. j \notin delivered /\ ~Kept(j) /\ \A t \in Senders \ {s} : ~AtPort(t, j)
      BY <2>1, <3>1 DEF Single
    <3>3. taken'[j] = 1
      BY <1>6, <2>1, <2>4, <3>2 DEF Single
    <3> QED
      BY <1>2, <1>4, <2>1, <2>2, <2>3, <2>4, <3>2, <3>3 DEF Single
  <2>5. CASE j # k
    <3>1. taken'[j] = taken[j] /\ (j \in delivered' <=> j \in delivered)
      BY <1>4, <1>6, <2>5
    <3> QED
      BY <1>2, <2>1, <2>2, <2>3, <3>1 DEF Single
  <2> QED
    BY <2>4, <2>5
<1> QED
  BY <1>7, <1>8, <1>9 DEF OutboxInv

LEMMA SendFailsIsSafe ==
    ASSUME OutboxInv, NEW s \in Senders, NEW retry \in BOOLEAN, Messages!SendFails(s, retry)
    PROVE  OutboxInv'
<1>1. OutboxTypes /\ HeldOnce(held) /\ Messages!WhatWasKeptIsThere
      /\ \A j \in Posts \ overlapped : Single(j)
  BY DEF OutboxInv
<1>2. /\ senders[s].at = "port" /\ senders' = [senders EXCEPT ![s].at = "kept"]
      /\ UNCHANGED <<flushers, overlapped, drained>>
  BY DEF Messages!SendFails
<1>3. PICK k \in Posts : k = senders[s].key
  BY <1>1, <1>2 DEF OutboxTypes
<1>4. Messages!Hold(k, retry)
  BY <1>3 DEF Messages!SendFails
<1>5. /\ senders' \in [Senders -> [at : {"idle", "port", "sent", "kept"},
                                   key : Posts \cup {"none"}]]
      /\ senders'[s].at = "kept" /\ senders'[s].key = k
      /\ \A t \in Senders \ {s} : senders'[t] = senders[t]
      /\ \A t \in Senders : senders'[t].at = "port" => senders'[t].key \in Posts
  BY <1>1, <1>2, <1>3, SenderMoves
<1>6. /\ held' \in Seq(HeldRecord) /\ HeldOnce(held)' /\ letters' \in Seq(Posts)
      /\ \A j \in Posts \ {k} : Kept(j)' <=> Kept(j)
      /\ Kept(k)' \/ InLetters(k)'
      /\ \A j : InLetters(j) => InLetters(j)'
      /\ UNCHANGED <<delivered, taken, broken>>
  BY <1>1, <1>4, HoldKeeps
<1>7. OutboxTypes'
  BY <1>1, <1>2, <1>5, <1>6 DEF OutboxTypes
<1>8. Messages!WhatWasKeptIsThere'
  <2>1. ASSUME NEW t \in Senders, senders'[t].at = "kept" PROVE Accounted(senders[t].key)'
    <3>1. CASE t = s \/ senders[t].key = k
      <4>1. senders'[t].key = k
        BY <1>5, <3>1
      <4> QED
        BY <1>6, <4>1 DEF Accounted
    <3>2. CASE t # s /\ senders[t].key # k
      <4> DEFINE j == senders[t].key
      <4>1. Accounted(j) /\ senders'[t].key = j
        BY <1>1, <1>5, <2>1, <3>2, KeptIsAccounted DEF AllIsAccounted
      <4>2. Kept(j) => j \in Posts \ {k}
        BY <1>1, <3>2, HeldAt DEF Kept
      <4> HIDE DEF j
      <4>3. PICK q : q = j
        OBVIOUS
      <4>4. Accounted(q)'
        BY <1>2, <1>6, <4>1, <4>2, <4>3 DEF Accounted
      <4> QED
        BY <4>1, <4>3, <4>4 DEF Accounted, Kept, InLetters
    <3> QED
      BY <3>1, <3>2
  <2>2. AllIsAccounted'
    BY <2>1 DEF AllIsAccounted
  <2> QED
    BY <2>2, KeptIsAccounted, PTL
<1>9. ASSUME NEW j \in Posts \ overlapped' PROVE Single(j)'
  <2>1. Single(j)
    BY <1>1, <1>2
  <2>2. /\ \A t \in Senders \ {s} : AtPort(t, j)' <=> AtPort(t, j)
        /\ ~AtPort(s, j)'
    BY <1>5 DEF AtPort
  <2>3. \A f \in Flushers : AtWork(f, j)' <=> AtWork(f, j)
    BY <1>2 DEF AtWork
  <2>4. CASE j = k
    <3>1. AtPort(s, j)
      BY <1>2, <1>3, <2>4 DEF AtPort
    <3>2. j \notin delivered /\ ~Kept(j) /\ \A t \in Senders \ {s} : ~AtPort(t, j)
      BY <2>1, <3>1 DEF Single
    <3>3. \A f \in Flushers : ~AtWork(f, j)
      BY <2>1, <3>2 DEF Single
    <3> QED
      BY <1>6, <2>1, <2>2, <2>3, <3>2, <3>3 DEF Single
  <2>5. CASE j # k
    <3>1. Kept(j)' <=> Kept(j)
      BY <1>6, <2>5
    <3> QED
      BY <1>6, <2>1, <2>2, <2>3, <3>1 DEF Single
  <2> QED
    BY <2>4, <2>5
<1> QED
  BY <1>6, <1>7, <1>8, <1>9 DEF OutboxInv

LEMMA FlushIsSafe ==
    ASSUME OutboxInv, NEW f \in Flushers, Messages!Flush(f)
    PROVE  OutboxInv'
<1>1. OutboxTypes /\ HeldOnce(held) /\ Messages!WhatWasKeptIsThere
      /\ \A j \in Posts \ overlapped : Single(j)
  BY DEF OutboxInv
<1>2. UNCHANGED <<held, letters, delivered, senders, taken, broken, drained>>
  BY DEF Messages!Flush, Messages!queue
<1>3. PICK rest \in Seq(Posts) : Messages!Continue(f, rest)
  <2> DEFINE all == [i \in DOMAIN held |-> held[i].key]
  <2>1. Messages!Continue(f, all)
    BY DEF Messages!Flush
  <2>2. all \in Seq(Posts)
    BY <1>1, HeldAt
  <2> HIDE DEF all
  <2> QED
    BY <2>1, <2>2
<1>4. /\ flushers' \in [Flushers -> Seq(Posts)] /\ overlapped \subseteq overlapped'
      /\ \A g \in Flushers \ {f} : \A k : AtWork(g, k)' <=> AtWork(g, k)
      /\ \A k : AtWork(f, k)' /\ k \notin overlapped' =>
            /\ Kept(k)
            /\ \A s \in Senders : ~AtPort(s, k)
            /\ \A g \in Flushers : ~AtWork(g, k)
  BY <1>1, <1>3, FlushGoesOn
<1>5. OutboxTypes' /\ HeldOnce(held)'
  BY <1>1, <1>2, <1>4 DEF OutboxTypes, HeldOnce
<1>6. Messages!WhatWasKeptIsThere'
  <2>1. Messages!KeysOf(held)' = Messages!KeysOf(held)
        /\ Messages!ToSet(letters)' = Messages!ToSet(letters)
    BY <1>2
  <2> QED
    BY <1>1, <1>2, <2>1 DEF Messages!WhatWasKeptIsThere
<1>7. ASSUME NEW j \in Posts \ overlapped' PROVE Single(j)'
  <2>1. Single(j)
    BY <1>1, <1>4
  <2>2. (Kept(j)' <=> Kept(j)) /\ \A s \in Senders : AtPort(s, j)' <=> AtPort(s, j)
    BY <1>2 DEF Kept, AtPort
  <2>3. \A g \in Flushers \ {f} : AtWork(g, j)' <=> AtWork(g, j)
    BY <1>4
  <2>4. AtWork(f, j)' => Kept(j) /\ \A g \in Flushers : ~AtWork(g, j)
    BY <1>4
  <2> QED
    BY <1>2, <2>1, <2>2, <2>3, <2>4 DEF Single
<1> QED
  BY <1>5, <1>6, <1>7 DEF OutboxInv

LEMMA TailsAre ==
    ASSUME OutboxTypes, NEW f \in Flushers, flushers[f] # << >>
    PROVE  Head(flushers[f]) \in Posts /\ Tail(flushers[f]) \in Seq(Posts)
<1>1. flushers[f] \in Seq(Posts)
  BY DEF OutboxTypes
<1> QED
  BY <1>1

LEMMA FlushDeliversIsSafe ==
    ASSUME OutboxInv, NEW f \in Flushers, Messages!FlushDelivers(f)
    PROVE  OutboxInv'
<1>1. OutboxTypes /\ HeldOnce(held) /\ Messages!WhatWasKeptIsThere
      /\ \A j \in Posts \ overlapped : Single(j)
  BY DEF OutboxInv
<1>2. flushers[f] # << >> /\ UNCHANGED <<letters, senders, drained>>
  BY DEF Messages!FlushDelivers
<1>3. PICK k \in Posts : k = Head(flushers[f])
  BY <1>1, <1>2, TailsAre
<1>4. /\ taken' = [taken EXCEPT ![k] = @ + 1]
      /\ IF Kept(k)
         THEN /\ held' = Messages!Without(k) /\ delivered' = delivered \cup {k}
              /\ UNCHANGED broken
         ELSE broken' = broken \cup {k} /\ UNCHANGED <<held, delivered>>
  BY <1>3, KeysAreKept DEF Messages!FlushDelivers
<1>5. PICK rest \in Seq(Posts) : Messages!Continue(f, rest)
  <2>1. Tail(flushers[f]) \in Seq(Posts) /\ << >> \in Seq(Posts)
    BY <1>1, <1>2, TailsAre
  <2>2. Messages!Continue(f, Tail(flushers[f])) \/ Messages!Continue(f, << >>)
    BY DEF Messages!FlushDelivers
  <2> QED
    BY <2>1, <2>2
<1>6. /\ flushers' \in [Flushers -> Seq(Posts)] /\ overlapped \subseteq overlapped'
      /\ \A g \in Flushers \ {f} : \A j : AtWork(g, j)' <=> AtWork(g, j)
      /\ \A j : AtWork(f, j)' /\ j \notin overlapped' =>
            /\ Kept(j)
            /\ \A s \in Senders : ~AtPort(s, j)
            /\ \A g \in Flushers : ~AtWork(g, j)
  BY <1>1, <1>5, FlushGoesOn
<1>7. taken' \in [Posts -> Nat] /\ taken'[k] = taken[k] + 1
      /\ \A j \in Posts \ {k} : taken'[j] = taken[j]
  BY <1>1, <1>4 DEF OutboxTypes
<1>8. /\ held' \in Seq(HeldRecord) /\ HeldOnce(held)'
      /\ \A j : Kept(j)' <=> Kept(j) /\ j # k
  <2>1. CASE Kept(k)
    <3>1. held' = Messages!Without(k)
      BY <1>4, <2>1
    <3>2. /\ Messages!Without(k) \in Seq(HeldRecord) /\ HeldOnce(Messages!Without(k))
          /\ \A j : (\E i \in DOMAIN Messages!Without(k) : Messages!Without(k)[i].key = j)
                       <=> Kept(j) /\ j # k
      BY <1>1, WithoutAKey
    <3> QED
      BY <3>1, <3>2 DEF Kept, HeldOnce
  <2>2. CASE ~Kept(k)
    <3>1. held' = held
      BY <1>4, <2>2
    <3> QED
      BY <1>1, <2>2, <3>1 DEF OutboxTypes, HeldOnce, Kept
  <2> QED
    BY <2>1, <2>2
<1>9. OutboxTypes'
  BY <1>1, <1>2, <1>6, <1>7, <1>8 DEF OutboxTypes
<1>10. Messages!WhatWasKeptIsThere'
  <2>1. ASSUME NEW t \in Senders, senders[t].at = "kept" PROVE Accounted(senders[t].key)'
    <3>1. PICK q : q = senders[t].key
      OBVIOUS
    <3>2. Accounted(q)
      BY <1>1, <2>1, <3>1, KeptIsAccounted DEF AllIsAccounted
    <3>3. Kept(q)' \/ InLetters(q)' \/ q \in drained' \/ q \in delivered'
      BY <1>2, <1>4, <1>8, <3>2 DEF Accounted, InLetters
    <3> QED
      BY <1>2, <3>1, <3>3 DEF Accounted, Kept, InLetters
  <2>2. AllIsAccounted'
    BY <1>2, <2>1 DEF AllIsAccounted
  <2> QED
    BY <2>2, KeptIsAccounted, PTL
<1>11. ASSUME NEW j \in Posts \ overlapped' PROVE Single(j)'
  <2>1. Single(j)
    BY <1>1, <1>6
  <2>2. \A s \in Senders : AtPort(s, j)' <=> AtPort(s, j)
    BY <1>2 DEF AtPort
  <2>3. \A g \in Flushers \ {f} : AtWork(g, j)' <=> AtWork(g, j)
    BY <1>6
  <2>4. AtWork(f, j)' => Kept(j) /\ \A g \in Flushers : ~AtWork(g, j)
    BY <1>6
  <2>5. CASE j = k
    <3>1. AtWork(f, j)
      BY <1>2, <1>3, <2>5 DEF AtWork
    <3>2. Kept(j) /\ j \notin delivered /\ \A g \in Flushers \ {f} : ~AtWork(g, j)
      BY <2>1, <3>1 DEF Single
    <3>3. /\ taken'[j] = 1 /\ j \in delivered' /\ ~Kept(j)' /\ j \notin broken'
      BY <1>4, <1>7, <1>8, <2>1, <2>5, <3>2 DEF Single
    <3>4. \A g \in Flushers : ~AtWork(g, j)'
      BY <2>3, <2>4, <3>1, <3>2
    <3>5. \A s \in Senders : ~AtPort(s, j)'
      BY <2>1, <2>2, <3>2 DEF Single
    <3> QED
      BY <3>3, <3>4, <3>5 DEF Single
  <2>6. CASE j # k
    <3>1. /\ taken'[j] = taken[j] /\ (Kept(j)' <=> Kept(j))
          /\ j \in delivered' <=> j \in delivered
          /\ j \in broken' <=> j \in broken
      BY <1>4, <1>7, <1>8, <2>6
    <3> QED
      BY <2>1, <2>2, <2>3, <2>4, <3>1 DEF Single
  <2> QED
    BY <2>5, <2>6
<1> QED
  BY <1>8, <1>9, <1>10, <1>11 DEF OutboxInv

LEMMA FlushFailsIsSafe ==
    ASSUME OutboxInv, NEW f \in Flushers, NEW retry \in BOOLEAN, Messages!FlushFails(f, retry)
    PROVE  OutboxInv'
<1>1. OutboxTypes /\ HeldOnce(held) /\ Messages!WhatWasKeptIsThere
      /\ \A j \in Posts \ overlapped : Single(j)
  BY DEF OutboxInv
<1>2. flushers[f] # << >> /\ UNCHANGED <<senders, drained>>
  BY DEF Messages!FlushFails
<1>3. PICK k \in Posts : k = Head(flushers[f])
  BY <1>1, <1>2, TailsAre
<1>4. Messages!Hold(k, retry)
  BY <1>3 DEF Messages!FlushFails
<1>5. PICK rest \in Seq(Posts) : Messages!Continue(f, rest)
  BY <1>1, <1>2, TailsAre DEF Messages!FlushFails
<1>6. /\ flushers' \in [Flushers -> Seq(Posts)] /\ overlapped \subseteq overlapped'
      /\ \A g \in Flushers \ {f} : \A j : AtWork(g, j)' <=> AtWork(g, j)
      /\ \A j : AtWork(f, j)' /\ j \notin overlapped' =>
            /\ Kept(j)
            /\ \A s \in Senders : ~AtPort(s, j)
            /\ \A g \in Flushers : ~AtWork(g, j)
  BY <1>1, <1>5, FlushGoesOn
<1>7. /\ held' \in Seq(HeldRecord) /\ HeldOnce(held)' /\ letters' \in Seq(Posts)
      /\ \A j \in Posts \ {k} : Kept(j)' <=> Kept(j)
      /\ Kept(k)' \/ InLetters(k)'
      /\ \A j : InLetters(j) => InLetters(j)'
      /\ UNCHANGED <<delivered, taken, broken>>
  BY <1>1, <1>4, HoldKeeps
<1>8. OutboxTypes'
  BY <1>1, <1>2, <1>6, <1>7 DEF OutboxTypes
<1>9. Messages!WhatWasKeptIsThere'
  <2>1. ASSUME NEW t \in Senders, senders[t].at = "kept" PROVE Accounted(senders[t].key)'
    <3>1. PICK q : q = senders[t].key
      OBVIOUS
    <3>2. Accounted(q)
      BY <1>1, <2>1, <3>1, KeptIsAccounted DEF AllIsAccounted
    <3>3. Kept(q) => q \in Posts
      BY <1>1, HeldAt DEF Kept
    <3>4. Kept(q)' \/ InLetters(q)' \/ q \in drained' \/ q \in delivered'
      BY <1>2, <1>7, <3>2, <3>3 DEF Accounted
    <3> QED
      BY <1>2, <3>1, <3>4 DEF Accounted, Kept, InLetters
  <2>2. AllIsAccounted'
    BY <1>2, <2>1 DEF AllIsAccounted
  <2> QED
    BY <2>2, KeptIsAccounted, PTL
<1>10. ASSUME NEW j \in Posts \ overlapped' PROVE Single(j)'
  <2>1. Single(j)
    BY <1>1, <1>6
  <2>2. \A s \in Senders : AtPort(s, j)' <=> AtPort(s, j)
    BY <1>2 DEF AtPort
  <2>3. \A g \in Flushers \ {f} : AtWork(g, j)' <=> AtWork(g, j)
    BY <1>6
  <2>4. AtWork(f, j)' => Kept(j) /\ \A g \in Flushers : ~AtWork(g, j)
    BY <1>6
  <2>5. CASE j = k
    <3>1. AtWork(f, j)
      BY <1>2, <1>3, <2>5 DEF AtWork
    <3>2. Kept(j) /\ j \notin delivered /\ \A g \in Flushers \ {f} : ~AtWork(g, j)
      BY <2>1, <3>1 DEF Single
    <3>3. \A g \in Flushers : ~AtWork(g, j)'
      BY <2>3, <2>4, <3>1, <3>2
    <3>4. \A s \in Senders : ~AtPort(s, j)'
      BY <2>1, <2>2, <3>2 DEF Single
    <3> QED
      BY <1>7, <2>1, <3>2, <3>3, <3>4 DEF Single
  <2>6. CASE j # k
    <3>1. Kept(j)' <=> Kept(j)
      BY <1>7, <2>6
    <3> QED
      BY <1>7, <2>1, <2>2, <2>3, <2>4, <3>1 DEF Single
  <2> QED
    BY <2>5, <2>6
<1> QED
  BY <1>7, <1>8, <1>9, <1>10 DEF OutboxInv

LEMMA DrainIsSafe ==
    ASSUME OutboxInv, Messages!Drain
    PROVE  OutboxInv'
<1>1. /\ UNCHANGED <<held, delivered, senders, flushers, taken, overlapped, broken>>
      /\ drained' = drained \cup Messages!ToSet(letters) /\ letters' = << >>
  BY DEF Messages!Drain
<1>2. OutboxTypes' /\ HeldOnce(held)'
  BY <1>1 DEF OutboxInv, OutboxTypes, HeldOnce
<1>3. Messages!WhatWasKeptIsThere'
  <2>1. Messages!KeysOf(held)' = Messages!KeysOf(held)
    BY <1>1
  <2> QED
    BY <1>1, <2>1 DEF OutboxInv, Messages!WhatWasKeptIsThere
<1>4. \A k \in Posts \ overlapped' : Single(k)'
  BY <1>1 DEF OutboxInv, Single, Kept, AtPort, AtWork
<1> QED
  BY <1>2, <1>3, <1>4 DEF OutboxInv

LEMMA OutboxNext == OutboxInv /\ Messages!Next => OutboxInv'
<1> SUFFICES ASSUME OutboxInv, Messages!Next PROVE OutboxInv'
  OBVIOUS
<1>1. ASSUME NEW s \in Senders, NEW k \in Posts, Messages!Send(s, k) PROVE OutboxInv'
  BY <1>1, SendIsSafe
<1>2. ASSUME NEW s \in Senders, Messages!SendSucceeds(s) PROVE OutboxInv'
  BY <1>2, SendSucceedsIsSafe
<1>3. ASSUME NEW s \in Senders, NEW retry \in BOOLEAN, Messages!SendFails(s, retry) PROVE OutboxInv'
  BY <1>3, SendFailsIsSafe
<1>4. ASSUME NEW f \in Flushers, Messages!Flushes(f) PROVE OutboxInv'
  BY <1>4, FlushIsSafe, FlushDeliversIsSafe, FlushFailsIsSafe DEF Messages!Flushes
<1>5. CASE Messages!Drain
  BY <1>5, DrainIsSafe
<1> QED
  BY <1>1, <1>2, <1>3, <1>4, <1>5 DEF Messages!Next

LEMMA OutboxStays == OutboxInv /\ UNCHANGED outbox => OutboxInv'
<1> SUFFICES ASSUME OutboxInv, UNCHANGED outbox PROVE OutboxInv'
  OBVIOUS
<1>1. OutboxTypes' /\ HeldOnce(held)'
  BY DEF outbox, OutboxInv, OutboxTypes, HeldOnce
<1>2. Messages!WhatWasKeptIsThere'
  <2>1. Messages!KeysOf(held)' = Messages!KeysOf(held)
        /\ Messages!ToSet(letters)' = Messages!ToSet(letters)
    BY DEF outbox
  <2> QED
    BY <2>1 DEF outbox, OutboxInv, Messages!WhatWasKeptIsThere
<1>3. \A k \in Posts \ overlapped' : Single(k)'
  BY DEF outbox, OutboxInv, Single, Kept, AtPort, AtWork
<1> QED
  BY <1>1, <1>2, <1>3 DEF OutboxInv

LEMMA OutboxIsSafe ==
    OutboxInv => /\ Messages!WhatWasKeptIsThere /\ Messages!QueueIsBounded
                 /\ Messages!DeliveredOnce
<1> SUFFICES ASSUME OutboxInv
             PROVE  Messages!WhatWasKeptIsThere /\ Messages!QueueIsBounded /\ Messages!DeliveredOnce
  OBVIOUS
<1>1. OutboxTypes /\ HeldOnce(held)
  BY DEF OutboxInv
<1>2. Messages!QueueIsBounded
  <2>1. Len(held) \in Nat /\ DOMAIN held = 1 .. Len(held)
    BY <1>1, HeldAt
  <2> DEFINE key == [i \in 1 .. Len(held) |-> held[i].key]
             keys == Messages!KeysOf(held)
  <2>2. key \in Bijection(1 .. Len(held), keys)
    <3>1. \A i, j \in 1 .. Len(held) : key[i] = key[j] => i = j
      BY <1>1, <2>1 DEF HeldOnce
    <3>2. key \in [1 .. Len(held) -> keys] /\ \A k \in keys : \E i \in 1 .. Len(held) : key[i] = k
      BY <2>1 DEF Messages!KeysOf
    <3> HIDE DEF key, keys
    <3> QED
      BY <3>1, <3>2 DEF Bijection, Injection, IsInjective, Surjection
  <2>3. IsFiniteSet(1 .. Len(held)) /\ Cardinality(1 .. Len(held)) = Len(held)
    <3>1. \A m \in Nat : IsFiniteSet(1 .. m) /\ Cardinality(1 .. m) = m
      BY FS_Interval
    <3> QED
      BY <2>1, <3>1
  <2>4. Cardinality(keys) = Len(held)
    <3> HIDE DEF key, keys
    <3> QED
      BY <2>2, <2>3, FS_Bijection DEF ExistsBijection
  <2>5. Messages!Cardinality(Messages!KeysOf(held)) = Len(held)
    BY <2>4, CountIsCardinality
  <2> QED
    BY <1>1, <2>5 DEF Messages!QueueIsBounded, HeldOnce
<1>3. Messages!DeliveredOnce
  <2>1. \A k \in Posts \ overlapped : Single(k)
    BY DEF OutboxInv
  <2> QED
    BY <2>1, KeysAreKept DEF Messages!DeliveredOnce, Single
<1> QED
  BY <1>2, <1>3 DEF OutboxInv

-----------------------------------------------------------------------------
\* Whoever is cancelled wherever it waits, no slot is lost or made, a run waits only for
\* work that goes on, what was stopped in the queue never runs and an attempt is admitted
\* once; and no message that a port refused is lost or delivered again, except where it
\* was given to the port at once by two tasks or from a stale snapshot.
THEOREM QueueStaysKept == Spec => []QueueIsKept
<1>1. Init => SchedulerInv /\ OutboxInv
  BY SchedulerInit, OutboxInit
<1>2. SchedulerInv /\ OutboxInv /\ [Next]_vars => (SchedulerInv /\ OutboxInv)'
  <2> SUFFICES ASSUME SchedulerInv, OutboxInv, [Next]_vars PROVE (SchedulerInv /\ OutboxInv)'
    OBVIOUS
  <2>1. CASE SchedulerMoves
    BY <2>1, SchedulerNext, OutboxStays DEF SchedulerMoves
  <2>2. CASE OutboxMoves
    BY <2>2, SchedulerStays, OutboxNext DEF OutboxMoves
  <2>3. CASE IntakeMoves \/ UpgradeMoves \/ ModelMoves \/ Decides \/ UNCHANGED vars
    <3>1. UNCHANGED scheduler /\ UNCHANGED outbox
      BY <2>3 DEF IntakeMoves, UpgradeMoves, ModelMoves, Decides, vars
    <3> QED
      BY <3>1, SchedulerStays, OutboxStays
  <2> QED
    BY <2>1, <2>2, <2>3 DEF Next
<1>3. SchedulerInv /\ OutboxInv => QueueIsKept
  BY SchedulerIsSafe, OutboxIsSafe DEF QueueIsKept
<1> QED
  BY <1>1, <1>2, <1>3, PTL DEF Spec

=============================================================================
