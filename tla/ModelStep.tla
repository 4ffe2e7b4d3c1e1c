----------------------------- MODULE ModelStep -----------------------------
(***************************************************************************)
(* agent/handler.py and agent/routing.py: an `agent` step, which asks a    *)
(* model, or its fallbacks, for an answer that fits a schema, in at most   *)
(* max_turns turns of one conversation that is cut to a budget, and whose  *)
(* failure engine/executor.py may retry.                                   *)
(*                                                                         *)
(* A message is what it is and how many tokens it has, a reply is what is  *)
(* wrong with it and whether it comes later than the step may take.  The   *)
(* model is external, and so is the provider's answer to a call that       *)
(* failed; agent/anthropic.py turns that into an error.                    *)
(***************************************************************************)
EXTENDS Naturals, Sequences, FiniteSets, SequencesExt

CONSTANTS Stages,        \* the stages the workflow may have
          Replies,       \* what a model may reply
          Price,         \* what a token of a model costs
          Window,        \* the room a model has for its input
          MaxTries,      \* retry.max_attempts
          NoCap          \* a stage without budget.max_tokens, or without max_usd

ModelAssumption ==
    /\ \A s \in Stages :
         /\ s.turns \in Nat \ {0} /\ s.schema \in BOOLEAN /\ s.salvage \in BOOLEAN
         /\ s.policy \in {"compact", "truncate", "fail"} /\ s.task \in Nat \ {0}
         /\ s.budget \in Nat \ {0} /\ s.cap \in Nat \cup {NoCap}
         /\ s.usd \in Nat \cup {NoCap} /\ s.timed \in BOOLEAN
         /\ s.chain \in Seq(DOMAIN Price) \ {<<>>}
    /\ \A r \in Replies : /\ r.tokens \in Nat \ {0}
                          /\ r.fits \in BOOLEAN /\ r.complete \in BOOLEAN /\ r.calls \in BOOLEAN
                          /\ r.late \in BOOLEAN
    /\ \A model \in DOMAIN Price : Price[model] \in Nat /\ Window[model] \in Nat \ {0}
    /\ MaxTries \in Nat \ {0}

VARIABLES
    stage,       \* which of the stages
    at,          \* where its attempt is: "fit", "ask" or "over"
    try,         \* the executor's attempt
    turn, conversation, report, asked, usage,
    answered,    \* the model that answered last
    outcome,
    spent,       \* history: what the calls of this attempt cost
    by,          \* history: the models that answered in this attempt
    said,        \* history: what the conversation would be if nothing had been cut
    misread      \* history: a call was moved down the chain that had quota

vars == <<stage, at, try, turn, conversation, report, asked, usage, answered, outcome,
              spent, by, said, misread>>

Message(what, size) == [what |-> what, size |-> size, cut |-> FALSE]
Elided(what) == [what |-> what, size |-> 1, cut |-> TRUE]

\* The tokens of its first n messages, for every n.
Running(messages) ==
    LET sum[n \in 0 .. Len(messages)] == IF n = 0 THEN 0 ELSE sum[n - 1] + messages[n].size
    IN  sum
Tokens(messages) == Running(messages)[Len(messages)]
System == 1
Chain == stage.chain

NoOutcome == [kind |-> "none", retryable |-> FALSE, repairs |-> {}, reply |-> "none"]

\* Every attempt is a fresh conversation.
Fresh(s) ==
    /\ at' = "fit" /\ turn' = 1 /\ asked' = 1
    /\ conversation' = <<Message("task", s.task)>> /\ said' = 1
    /\ report' = "none" /\ usage' = 0 /\ answered' = "none"
    /\ outcome' = NoOutcome /\ spent' = 0 /\ by' = {} /\ misread' = FALSE

Init ==
    /\ stage \in Stages /\ try = 1
    /\ at = "fit" /\ turn = 1 /\ asked = 1
    /\ conversation = <<Message("task", stage.task)>> /\ said = 1
    /\ report = "none" /\ usage = 0 /\ answered = "none"
    /\ outcome = NoOutcome /\ spent = 0 /\ by = {} /\ misread = FALSE

TypeOK ==
    /\ stage \in Stages /\ at \in {"fit", "ask", "over"} /\ try \in 1..MaxTries
    /\ turn \in 1..stage.turns /\ asked \in 1..Len(Chain)
    /\ \A i \in DOMAIN conversation : conversation[i].size \in Nat
    /\ report \in {"none", stage.policy}
    /\ usage \in Nat /\ spent \in Nat /\ said \in 1..(2 * stage.turns)
    /\ answered \in ToSet(Chain) \cup {"none"} /\ by \subseteq ToSet(Chain)
    /\ outcome.retryable \in BOOLEAN /\ misread \in BOOLEAN

\* StepFailure.  What came of an attempt is all that is left of it.
Fails(kind, retryable) ==
    /\ at' = "over"
    /\ outcome' = [NoOutcome EXCEPT !.kind = kind, !.retryable = retryable]

-----------------------------------------------------------------------------
(* _fit *)

\* _compact keeps the first message and the last.
Compact(messages) ==
    IF Len(messages) <= 2 THEN messages
    ELSE <<Head(messages), Elided("elided"), Last(messages)>>

\* _truncate cuts the end of the message that is too long, and whatever follows it.
Truncate(messages, allowance) ==
    LET before(i) == Running(messages)[i - 1]
        room(i) == IF before(i) < allowance THEN allowance - before(i) ELSE 1
    IN  IF allowance <= 0 THEN <<Elided(Last(messages).what)>>
        ELSE [i \in DOMAIN messages |->
                IF before(i) + messages[i].size <= allowance THEN messages[i]
                ELSE [Elided(messages[i].what) EXCEPT !.size = room(i)]]

\* The declared budget narrows the window of the primary.
Budget == IF stage.budget < Window[Chain[1]] THEN stage.budget ELSE Window[Chain[1]]
Estimated == System + Tokens(conversation)

Fit ==
    /\ at = "fit"
    /\ CASE Estimated <= Budget ->
              report' = "none" /\ at' = "ask" /\ UNCHANGED <<conversation, outcome>>
         [] Estimated > Budget /\ stage.policy = "fail" ->
              Fails("context-budget-exceeded", FALSE) /\ UNCHANGED <<conversation, report>>
         [] OTHER ->
              /\ report' = stage.policy /\ at' = "ask"
              /\ conversation' = IF stage.policy = "compact" THEN Compact(conversation)
                                 ELSE Truncate(conversation,
                                               IF Budget > System THEN Budget - System ELSE 0)
              /\ UNCHANGED outcome
    /\ asked' = 1
    /\ UNCHANGED <<stage, try, turn, usage, answered, spent, by, said, misread>>

-----------------------------------------------------------------------------
(* routing.complete, and the provider's refusals *)

\* validate: the whole chain, before anything is asked.
Checked(s) == \A i \in DOMAIN s.capable : s.capable[i]

\* What a provider refuses a call for, and whether its words are about money, which
\* they may be because they quote the prompt.
Refusals == [for : {"quota", "rate", "overloaded", "auth", "length", "rejected"}, quotes : BOOLEAN]

\* _translate: the words about money come first.
translate(r) == IF r.for = "quota" \/ r.quotes THEN "quota" ELSE r.for

RetryableErrors == {"rate", "overloaded"}

\* Only quota moves down the chain.
Refused(r) ==
    /\ at = "ask" /\ Checked(stage)
    /\ IF translate(r) = "quota" /\ asked < Len(Chain)
       THEN asked' = asked + 1 /\ UNCHANGED <<at, outcome>>
       ELSE Fails(translate(r), translate(r) \in RetryableErrors) /\ UNCHANGED asked
    /\ misread' = (misread \/ (translate(r) = "quota" /\ r.for # "quota" /\ ~r.quotes))
    /\ UNCHANGED <<stage, try, turn, conversation, report, usage, answered, spent, by, said>>

Incapable ==
    /\ at = "ask" /\ ~Checked(stage) /\ Fails("model-capability", FALSE)
    /\ UNCHANGED <<stage, try, turn, conversation, report, asked, usage, answered, spent, by,
                   said, misread>>

-----------------------------------------------------------------------------
(* The reply *)

\* What a reply has around the document, or wrong with it.  "open" is reasoning that
\* is not closed, "mention" a document whose text names the tag that opens it.
Flaws == {"think", "fence", "prose", "comma", "cut", "open", "mention"}

\* Mutant: every document is closed.
Bug_Removable(salvage) == Flaws \ {"open", "mention"}

Removable(salvage) == {"think", "fence", "prose", "comma"} \cup (IF salvage THEN {"cut"} ELSE {})

\* extract_json
Extracted(reply) == reply.flaws \subseteq Removable(stage.salvage)

Structured(reply) == Extracted(reply) /\ reply.fits

Prices(model) == Price[model]

\* _charge, after the call
Overspent(reply) ==
    \/ stage.cap # NoCap /\ usage + reply.tokens > stage.cap
    \/ stage.usd # NoCap /\ (usage + reply.tokens) * Price[Chain[asked]] > stage.usd
    \/ stage.timed /\ reply.late

LastTurn == turn = stage.turns

Succeeds(reply) ==
    /\ at' = "over"
    /\ outcome' = [kind |-> "ok", retryable |-> FALSE, reply |-> reply,
                   repairs |-> IF stage.schema THEN reply.flaws ELSE {}]

\* The next turn sees the reply and what was wrong with it.
Corrects(reply) ==
    /\ at' = "fit" /\ turn' = turn + 1 /\ said' = said + 2
    /\ conversation' = conversation \o <<Message("reply", reply.tokens), Message("correction", 1)>>
    /\ UNCHANGED outcome

\* What the handler makes of the reply: what it costs comes first.
Judged(reply) ==
    CASE reply.calls -> Fails("agent-unrequested-tool-call", TRUE)
      [] ~reply.calls /\ Overspent(reply) -> Fails("budget-exceeded", FALSE)
      [] ~reply.calls /\ ~Overspent(reply) /\ ~reply.complete /\ ~stage.salvage ->
           Fails("agent-response-incomplete", FALSE)
      [] OTHER -> IF stage.schema /\ ~Structured(reply)
                  THEN LastTurn /\ Fails("agent-response-invalid", TRUE)
                  ELSE Succeeds(reply)

\* Whether there is another turn.
Corrected(reply) ==
    /\ ~reply.calls /\ ~Overspent(reply) /\ (reply.complete \/ stage.salvage)
    /\ stage.schema /\ ~Structured(reply) /\ ~LastTurn

Replied(reply) ==
    /\ at = "ask" /\ Checked(stage)
    /\ answered' = Chain[asked] /\ by' = by \cup {Chain[asked]}
    /\ spent' = spent + Price[Chain[asked]] * reply.tokens
    /\ usage' = IF reply.calls THEN usage ELSE usage + reply.tokens
    /\ IF Corrected(reply) THEN Corrects(reply)
       ELSE Judged(reply) /\ UNCHANGED <<turn, said, conversation>>
    /\ UNCHANGED <<stage, try, report, asked, misread>>

\* Of the executor.
Retry ==
    /\ at = "over" /\ outcome.retryable /\ try < MaxTries
    /\ try' = try + 1 /\ Fresh(stage) /\ UNCHANGED stage

Next ==
    \/ Fit \/ Incapable \/ Retry
    \/ \E r \in Refusals : Refused(r)
    \/ \E r \in Replies : Replied(r)

Spec == Init /\ [][Next]_vars

\* The provider answers or the call times out, and the loop runs on.
FairSpec == Spec /\ WF_vars(Next)

-----------------------------------------------------------------------------
(* Properties *)

\* A step overspends its tokens, or its money if one model answered, by one reply at
\* most: none is asked for when a cap is passed, and none of a step that passed it is used.
OneReplyOverTheCap ==
    at = "ask" \/ outcome.kind = "ok" =>
        /\ stage.cap # NoCap => usage <= stage.cap
        /\ stage.usd # NoCap /\ Cardinality(by) = 1 => spent <= stage.usd

\* What a step returns fits its schema, is complete unless the stage salvages, and
\* names every repair; reasoning that never ended is no answer.
ResultIsVouchedFor ==
    outcome.kind = "ok" =>
        /\ stage.schema => outcome.reply.fits /\ outcome.repairs = outcome.reply.flaws
                              /\ "open" \notin outcome.repairs
        /\ ~stage.salvage => outcome.reply.complete
                               /\ (stage.schema => "cut" \notin outcome.repairs)

Marks == {i \in DOMAIN conversation : conversation[i].cut}

\* A prompt that has lost something shows where: it is as long as what was said, or it
\* has a mark.
NothingIsCutSilently ==
    at = "ask" => Len(conversation) = said \/ Marks # {}

\* What is sent fits the budget, but for a mark for each message that was cut, unless
\* compaction found nothing to take out.
PromptIsBounded ==
    at = "ask" => \/ Estimated <= Budget + Cardinality(Marks)
                  \/ stage.policy = "compact"

\* What a step says it cost is what its calls cost, if one model answered them.
CostIsWhatWasSpent ==
    outcome.kind = "ok" /\ Cardinality(by) = 1 => usage * Prices(answered) = spent

\* No fallback is asked, and paid for, that cannot do what the stage requires.
NothingIsSpentOnAnUncheckedChain == spent > 0 => \A i \in DOMAIN stage.capable : stage.capable[i]

\* Only a model without quota is passed over, or one whose refusal quotes words about
\* money.
OnlyQuotaMovesDown == ~misread

\* However badly the model answers, the step ends.
StepEnds == <>[](at = "over" /\ (outcome.kind = "ok" \/ ~outcome.retryable \/ try = MaxTries))

\* The record of a step says what was done to its prompt.
CutIsOnRecord ==
    outcome.kind = "ok" /\ (Marks # {} \/ Len(conversation) # said) => report # "none"
=============================================================================
