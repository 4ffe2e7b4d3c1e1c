----------------------------- MODULE MCAttempts -----------------------------
(* Attempt for TLC: the values a configuration cannot write. *)
EXTENDS Attempt, SequencesExt

\* Two runs of one work item.
OneBranch == [r \in Runs |-> CHOOSE b \in Branches : TRUE]

\* Two attempts of one image.
OneImage == [a \in Attempts |-> "image"]

\* Two lines of output, of which one is longer than the cap, and counts of tokens.
SomeLines == {<<"{", "turn", "}">>, <<"{", "error", "}">>,
              <<"{", "turn", "text", "text", "}">>, <<"in2", "cached1">>, <<"used2">>}
SomeCounts == [c \in {"in2", "cached1", "used2"} |->
                 [kind |-> CASE c = "in2" -> "input" [] c = "cached1" -> "cached"
                             [] c = "used2" -> "used",
                  count |-> IF c = "cached1" THEN 1 ELSE 2]]

\* With and without limits of time, under a cap on tokens or on money.
TwoClocks == {[budget |-> None, caps |-> 2, setup |-> 1], [budget |-> 2, caps |-> 3, setup |-> 1]}
TwoCaps == {[tokens |-> 2, usd |-> None], [tokens |-> None, usd |-> 5]}

\* The two readings of an output agree, on every text of so many cells.
ASSUME ReadingsAgree ==
    \A text \in BoundedSeq({"x", Output!Newline}, 2 * MaxLine + 1) :
        Output!Split(text) = Output!PiecesOf(text)
=============================================================================
