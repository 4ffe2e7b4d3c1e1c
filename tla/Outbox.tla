-------------------------------- MODULE Outbox --------------------------------
(***************************************************************************)
(* ports/outbox.py: a queue in front of a port whose failures must not     *)
(* fail a run.  send() tries once and keeps what failed, flush() tries     *)
(* everything kept, and both await the port: a step is what a task does    *)
(* between two awaits.                                                     *)
(*                                                                         *)
(* The port is external; it takes a message or raises an error that is     *)
(* worth a retry or not.  A message is its key.                            *)
(***************************************************************************)
EXTENDS Naturals, Sequences, FiniteSets, SequencesExt

CONSTANTS Keys,
          Senders,       \* the calls of send(): each has one key in its life
          Flushers,      \* tasks that flush, one flush after the other
          Capacity, MaxAttempts

OutboxAssumption == Capacity \in Nat \ {0} /\ MaxAttempts \in Nat \ {0}

VARIABLES held,          \* _pending: records [key, tries], oldest first
          parked,        \* _parked
          delivered,     \* _delivered
          senders,       \* a call of send(): where it is, its key
          flushers,      \* a flush: the keys of its snapshot that are left
          taken,         \* how often the port took a message
          overlapped,    \* history: keys that two tasks gave to the port at a time, or
                         \* a flush from a snapshot that was not true any more
          broken,        \* history: keys over which a flush raised KeyError
          drained        \* history: the dead letters an operator took

queue == <<held, parked, delivered>>
vars == <<held, parked, delivered, senders, flushers, taken, overlapped, broken, drained>>

Idle == [at |-> "idle", key |-> "none"]
Init ==
    /\ held = << >> /\ parked = << >> /\ delivered = {}
    /\ senders = [s \in Senders |-> Idle]
    /\ flushers = [f \in Flushers |-> << >>]
    /\ taken = [k \in Keys |-> 0]
    /\ overlapped = {} /\ broken = {} /\ drained = {}

KeysOf(records) == {records[i].key : i \in DOMAIN records}
PlaceOf(k) == CHOOSE i \in DOMAIN held : held[i].key = k
Without(k) == IF k \in KeysOf(held) THEN RemoveAt(held, PlaceOf(k)) ELSE held

\* Somebody has given the port a message of this key and waits for it.
Awaited(k) == \/ \E s \in Senders : senders[s] = [at |-> "port", key |-> k]
              \/ \E f \in Flushers : flushers[f] # << >> /\ Head(flushers[f]) = k

TypeOK ==
    /\ held \in Seq([key : Keys, tries : 1 .. MaxAttempts]) /\ parked \in Seq(Keys)
    /\ delivered \subseteq Keys /\ drained \subseteq Keys
    /\ \A s \in Senders : senders[s].at \in {"idle", "port", "sent", "kept"}
    /\ \A f \in Flushers : flushers[f] \in Seq(Keys)
    /\ taken \in [Keys -> Nat]

-----------------------------------------------------------------------------
(* What becomes of a message the port refused *)

Tries(k) == IF k \in KeysOf(held) THEN held[PlaceOf(k)].tries + 1 ELSE 1

Park(k) == held' = Without(k) /\ parked' = Append(parked, k)

\* _hold: a permanent error, too many tries, no room; and otherwise it stays in its
\* place, or goes to the end.
Hold(k, retryable) ==
    /\ IF \/ ~retryable
          \/ Tries(k) >= MaxAttempts
          \/ k \notin KeysOf(held) /\ Len(held) >= Capacity
       THEN Park(k)
       ELSE /\ held' = IF k \in KeysOf(held) THEN [held EXCEPT ![PlaceOf(k)].tries = @ + 1]
                       ELSE Append(held, [key |-> k, tries |-> 1])
            /\ UNCHANGED parked
    /\ UNCHANGED <<delivered, taken, broken>>

-----------------------------------------------------------------------------
(* send *)

Note(k, stale) == overlapped' = IF stale \/ Awaited(k) THEN overlapped \cup {k} ELSE overlapped

\* A key that was delivered is an answer, and so is one that is kept.
Send(s, k) ==
    /\ senders[s].at = "idle"
    /\ senders' = [senders EXCEPT ![s] = [key |-> k, at |-> CASE k \in delivered -> "sent"
                                                             [] k \in KeysOf(held) -> "kept"
                                                             [] OTHER -> "port"]]
    /\ IF senders'[s].at = "port" THEN Note(k, FALSE) ELSE UNCHANGED overlapped
    /\ UNCHANGED <<queue, flushers, taken, broken, drained>>

SendSucceeds(s) ==
    /\ senders[s].at = "port"
    /\ senders' = [senders EXCEPT ![s].at = "sent"]
    /\ delivered' = delivered \cup {senders[s].key}
    /\ taken' = [taken EXCEPT ![senders[s].key] = @ + 1]
    /\ UNCHANGED <<held, parked, flushers, overlapped, broken, drained>>

SendFails(s, retryable) ==
    /\ senders[s].at = "port"
    /\ Hold(senders[s].key, retryable)
    /\ senders' = [senders EXCEPT ![s].at = "kept"]
    /\ UNCHANGED <<flushers, overlapped, drained>>

-----------------------------------------------------------------------------
(* flush *)

\* What is left of a snapshot; its first one goes to the port at once.
Continue(f, rest) ==
    /\ flushers' = [flushers EXCEPT ![f] = rest]
    /\ IF rest # << >> THEN Note(Head(rest), Head(rest) \notin KeysOf(held))
       ELSE UNCHANGED overlapped

Flush(f) ==
    /\ flushers[f] = << >> /\ held # << >>
    /\ Continue(f, [i \in DOMAIN held |-> held[i].key])
    /\ UNCHANGED <<queue, senders, taken, broken, drained>>

\* The record is deleted and then the key noted: a record that went in the meantime is
\* a KeyError, and the flush ends.
FlushDelivers(f) ==
    /\ flushers[f] # << >>
    /\ LET k == Head(flushers[f]) IN
         /\ taken' = [taken EXCEPT ![k] = @ + 1]
         /\ IF k \in KeysOf(held)
            THEN /\ held' = Without(k) /\ delivered' = delivered \cup {k}
                 /\ Continue(f, Tail(flushers[f])) /\ UNCHANGED broken
            ELSE /\ broken' = broken \cup {k}
                 /\ Continue(f, << >>) /\ UNCHANGED <<held, delivered>>
    /\ UNCHANGED <<parked, senders, drained>>

FlushFails(f, retryable) ==
    /\ flushers[f] # << >>
    /\ Hold(Head(flushers[f]), retryable)
    /\ Continue(f, Tail(flushers[f]))
    /\ UNCHANGED <<senders, drained>>

\* drain_dead_letters
Drain ==
    /\ parked # << >>
    /\ drained' = drained \cup ToSet(parked) /\ parked' = << >>
    /\ UNCHANGED <<held, delivered, senders, flushers, taken, overlapped, broken>>

-----------------------------------------------------------------------------
Flushes(f) == \/ Flush(f) \/ FlushDelivers(f)
              \/ \E retryable \in BOOLEAN : FlushFails(f, retryable)

Next == \/ \E s \in Senders : \/ \E k \in Keys : Send(s, k)
                             \/ SendSucceeds(s)
                             \/ \E retryable \in BOOLEAN : SendFails(s, retryable)
        \/ \E f \in Flushers : Flushes(f)
        \/ Drain

\* Somebody flushes again and again, and the port answers.
Fairness == \A f \in Flushers : WF_vars(Flushes(f))
Spec == Init /\ [][Next]_vars /\ Fairness

-----------------------------------------------------------------------------
(* Properties *)

\* What send() did not get out is not lost: it is kept, given up in sight of an
\* operator, or was delivered since.
WhatWasKeptIsThere ==
    \A s \in Senders : senders[s].at = "kept" =>
        senders[s].key \in KeysOf(held) \cup ToSet(parked) \cup drained \cup delivered

\* The queue holds a key once, has room for what it holds, and gives up in time.
QueueIsBounded ==
    /\ Len(held) <= Capacity /\ Cardinality(KeysOf(held)) = Len(held)
    /\ \A i \in DOMAIN held : held[i].tries < MaxAttempts

\* A message the port took is not given to it again, nor kept, and no flush breaks, as
\* long as nobody gave it twice at a time and no flush from what it had seen held.
DeliveredOnce ==
    \A k \in Keys \ overlapped :
        taken[k] <= 1 /\ (taken[k] = 1 => k \in delivered \ KeysOf(held)) /\ k \notin broken

\* Whatever is kept is delivered or given up.
WhatIsKeptIsSettled == \A k \in Keys : (k \in KeysOf(held)) ~> (k \notin KeysOf(held))

\* What the module says: the same key twice is delivered once, "a flush racing a
\* successful send" included.
SameKeyIsDeliveredOnce == \A k \in Keys : taken[k] <= 1
=============================================================================
