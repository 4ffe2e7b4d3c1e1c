-------------------------- MODULE ExternalEffects --------------------------
(***************************************************************************)
(* store/effects.py: the queue of durable delivery commands (table         *)
(* "external_effects").  Every operator below is the body of one           *)
(* transaction; WorkLoop decides who calls it and when.                    *)
(*                                                                         *)
(* The rows are a sequence in creation order.  "ripe" stands for the clock *)
(* having reached next_attempt_at (of a pending row) or claim_expires_at   *)
(* (of a claimed one): a delivery takes any time, so either may happen at  *)
(* any moment after the row was written.  The command is pinned: a branch, *)
(* named after the work item, and the commit to publish on it.             *)
(***************************************************************************)
EXTENDS WorkItem, Sequences

CONSTANTS MaxEffects,   \* bound: rows
          MaxTries,     \* max_attempts
          AttemptCap    \* bound: where counting attempts stops

ASSUME EffectsAssumption ==
    /\ MaxEffects \in Nat /\ MaxTries \in Nat \ {0}
    /\ AttemptCap \in Nat /\ AttemptCap >= MaxTries

VARIABLE effects

EffectState == {"pending", "delivering", "delivered", "parked"}
Outstanding == {"pending", "delivering"}

Effect == [item : Items, head : Heads, state : EffectState, attempts : 0..AttemptCap,
           owner : Workers \cup {NoOne}, ripe : BOOLEAN]

EffectsTypeOK == effects \in Seq(Effect) /\ Len(effects) <= MaxEffects

EffectsInit == effects = <<>>

-----------------------------------------------------------------------------
\* The idempotency key holds the run's id, and a run publishes once: no two
\* calls carry the same key, and every call inserts.
enqueue(item, head) ==
    effects' = Append(effects, [item |-> item, head |-> head, state |-> "pending",
                                attempts |-> 0, owner |-> NoOne, ripe |-> TRUE])

\* Mutant: a claim is for ever.
Bug_IsDue(x) == effects[x].state = "pending" /\ effects[x].ripe

\* pending and due, or claimed by a process whose lease ran out
IsDue(x) == effects[x].state \in Outstanding /\ effects[x].ripe

due == {x \in DOMAIN effects : IsDue(x)}

OneMore(n) == IF n < AttemptCap THEN n + 1 ELSE n

claim(x, owner) ==
    effects' = [effects EXCEPT ![x] =
        [@ EXCEPT !.state = "delivering", !.owner = owner, !.ripe = FALSE,
                  !.attempts = OneMore(effects[x].attempts)]]

\* Mutant: nobody asks whose claim it is.
Bug_owned(x, owner) == TRUE

\* _owned: the state and the owner, and not the clock: an expired lease that
\* nobody took over is still good.
owned(x, owner) == effects[x].state = "delivering" /\ effects[x].owner = owner

delivered(x) ==
    effects' = [effects EXCEPT ![x].state = "delivered", ![x].owner = NoOne]

\* Mutant: one attempt too many.
Bug_Retrying(x, transient) == transient /\ effects[x].attempts <= MaxTries

Retrying(x, transient) == transient /\ effects[x].attempts < MaxTries

\* A transient error waits for its backoff; a permanent one, or the last
\* attempt, parks the row until an operator looks at it.
failed(x, transient) ==
    effects' = [effects EXCEPT
        ![x].state = IF Retrying(x, transient) THEN "pending" ELSE "parked",
        ![x].owner = NoOne, ![x].ripe = FALSE]

\* `clawdence effects retry`
retry(x) ==
    /\ effects[x].state = "parked"
    /\ effects' = [effects EXCEPT ![x] =
           [@ EXCEPT !.state = "pending", !.attempts = 0, !.ripe = TRUE]]

\* The backoff is over, or the lease.
ripen(x) ==
    /\ effects[x].state \in Outstanding /\ ~effects[x].ripe
    /\ effects' = [effects EXCEPT ![x].ripe = TRUE]

-----------------------------------------------------------------------------
(***************************************************************************)
(* A row waiting for another attempt has one left, whatever number of      *)
(* claims were lost to crashes in between: nothing is retried for ever.    *)
(***************************************************************************)
PendingHasAnAttemptLeft ==
    \A x \in DOMAIN effects :
        effects[x].state = "pending" => effects[x].attempts < MaxTries
=============================================================================
