----------------------------- MODULE RepairText -----------------------------
(***************************************************************************)
(* agent/repair.py: what is done to the text of a reply that is not JSON.  *)
(* A text is a sequence of characters, of which only those that matter to  *)
(* the repairs are told apart; "c" is any other one, and " " what a mask   *)
(* has in its place.                                                       *)
(***************************************************************************)
EXTENDS Naturals, Sequences, SequencesExt, FiniteSetsExt

Openers == {"{", "["}
Closers == {"}", "]"}
CloserOf(c) == IF c = "{" THEN "}" ELSE "]"

\* One character of a scan that knows strings; "q" is the quote.
Read(s, c) ==
    IF s.in THEN [in |-> s.escaped \/ c # "q", escaped |-> ~s.escaped /\ c = "\\",
                  mask |-> Append(s.mask, IF ~s.escaped /\ c = "q" THEN "q" ELSE " ")]
    ELSE [s EXCEPT !.in = c = "q", !.mask = Append(@, c)]

\* _mask_strings
Mask(text) == FoldLeft(Read, [in |-> FALSE, escaped |-> FALSE, mask |-> <<>>], text).mask

Positions(s, cs) == {i \in DOMAIN s : s[i] \in cs}
Count(s, c, n) == Cardinality({i \in 1..n : s[i] = c})

\* _outermost_span: from the first opener to the last place where it is closed.
Span(text) ==
    LET start == Min(Positions(text, Openers))
        rest == SubSeq(text, start, Len(text))
        mask == Mask(rest)
        ends == {i \in Positions(mask, {CloserOf(rest[1])}) :
                    Count(mask, rest[1], i) = Count(mask, mask[i], i)}
    IN  IF Positions(text, Openers) = {} \/ ends = {} THEN <<>> ELSE SubSeq(rest, 1, Max(ends))

\* Where a pattern is looked for: outside strings.
Outside(text) == Mask(text)

\* _strip_trailing_commas
StripTrailingCommas(text) ==
    LET m == Outside(text)
        cuts == {i \in 1..(Len(text) - 1) : m[i] = "," /\ m[i + 1] \in Closers}
    IN  FoldLeft(LAMBDA out, i : IF i \in cuts THEN out ELSE Append(out, text[i]),
                 <<>>, [i \in DOMAIN text |-> i])

\* Back to a boundary: an opener stays, a comma goes.
CutBack(text, b) == SubSeq(text, 1, IF text[b] \in Openers THEN b ELSE b - 1)

\* Mutant: an unterminated string is closed where it stopped.
Bug_DropPartialString(text) ==
    IF Cardinality(Positions(Mask(text), {"q"})) % 2 = 1 THEN Append(text, "q") ELSE text

\* An unterminated string is dropped with the member it belongs to.  The boundary is
\* looked for in the text itself.
DropPartialString(text) ==
    LET quotes == Positions(Mask(text), {"q"})
        before == {i \in Positions(text, Openers \cup {","}) : i < Max(quotes)}
    IN  IF Cardinality(quotes) % 2 = 0 THEN text
        ELSE IF before = {} THEN <<>> ELSE CutBack(text, Max(before))

\* Commas at the end are dropped, and a key that has no value.
DropPartialMember(text) ==
    LET whole == {i \in DOMAIN text : text[i] \notin {",", ":"}}
        n == IF whole = {} THEN 0 ELSE Max(whole)
        body == SubSeq(text, 1, n)
        before == Positions(Mask(body), Openers \cup {","})
    IN  IF \A i \in (n + 1)..Len(text) : text[i] # ":" THEN body
        ELSE IF before = {} THEN <<>> ELSE CutBack(body, Max(before))

\* What is open at the end of a text, the innermost last.
Open(text) ==
    FoldLeft(LAMBDA stack, c : IF c \in Openers THEN Append(stack, c)
                               ELSE IF c \in Closers /\ stack # <<>> THEN Front(stack)
                               ELSE stack,
             <<>>, Mask(text))

\* _close_unbalanced; where nothing is left, the text stays what it was.
CloseUnbalanced(text) ==
    LET body == DropPartialMember(DropPartialString(text))
        open == Open(body)
    IN  IF body = <<>> THEN text
        ELSE body \o [i \in 1..Len(open) |-> CloserOf(open[Len(open) + 1 - i])]

-----------------------------------------------------------------------------
(* Documents, to compare with: trees, what is written of them, and what is  *)
(* left of one that was cut off.                                            *)

Atom(text) == [kind |-> "atom", text |-> text]
Numbers == {Atom(<<"1">>), Atom(<<"1", "2">>)}
Strings == {Atom(<<"q", "c", ",", "]", "q">>), Atom(<<"q", "\\", "q", "{", "q">>)}
Lists(S) == {[kind |-> "list", items |-> s] : s \in BoundedSeq(S, 2)}
Objects(S) == {[kind |-> "object", items |-> s] : s \in BoundedSeq(S, 2)}

Over(atoms) ==
    LET shallow == Lists(atoms) \cup Objects(atoms)
        inner == {t \in shallow : Len(t.items) = 1}
    IN  shallow \cup Lists(inner) \cup Objects(inner \cup Numbers)
Documents == Over(Numbers \cup Strings)

\* Strings that nobody wrote: what a string says when it is closed where it stopped.
CutStrings == {Atom(Append(SubSeq(s.text, 1, n), "q")) : s \in Strings, n \in 1 .. 4}

Key(i) == <<"q", "c", ":", "q", ":">>

RECURSIVE Written(_)
Written(t) ==
    IF t.kind = "atom" THEN t.text
    ELSE LET member(i) == (IF t.kind = "object" THEN Key(i) ELSE <<>>) \o Written(t.items[i])
             all == FoldLeft(LAMBDA s, i : s \o (IF i = 1 THEN <<>> ELSE <<",">>) \o member(i),
                             <<>>, [i \in DOMAIN t.items |-> i])
         IN  IF t.kind = "list" THEN <<"[">> \o all \o <<"]">> ELSE <<"{">> \o all \o <<"}">>

\* The documents that have only members of t, and of those a beginning: what may be
\* left of t when it is cut off.
RECURSIVE Beginnings(_)
Beginnings(t) ==
    IF t.kind = "atom" THEN {t}
    ELSE {[t EXCEPT !.items = <<>>]} \cup
         UNION {{[t EXCEPT !.items = Append(SubSeq(@, 1, n - 1), last)] :
                    last \in Beginnings(t.items[n])} : n \in DOMAIN t.items}

Digits == {"1", "2"}
\* What a reader of JSON would take.
WrittenDocuments == {Written(d) : d \in Over(Numbers \cup Strings \cup CutStrings)}

\* A text that stops inside a number.
InNumber(text, n) == n < Len(text) /\ text[n] \in Digits /\ text[n + 1] \in Digits

\* Salvaging a document that was cut off anywhere, but in a number, says nothing the
\* model did not write: if what comes out is a document, it is a beginning of that one.
SalvageInventsNothing(d) ==
    LET text == Written(d) IN
    \A n \in 1..Len(text) : ~InNumber(text, n) =>
        LET closed == CloseUnbalanced(SubSeq(text, 1, n))
        IN  closed \in WrittenDocuments => closed \in {Written(t) : t \in Beginnings(d)}

\* A document that is all there is not changed.
WholeDocumentsAreLeftAlone(d) ==
    LET text == Written(d)
    IN  CloseUnbalanced(text) = text /\ StripTrailingCommas(text) = text /\ Span(text) = text

\* A comma too many is removed wherever it is, and nothing else is.
WithComma(text, i) == SubSeq(text, 1, i - 1) \o <<",">> \o SubSeq(text, i, Len(text))
OnlyCommasGo(d) ==
    LET text == Written(d)
    IN  \A i \in Positions(Mask(text), Closers) : StripTrailingCommas(WithComma(text, i)) = text

\* The words around a document are removed, whatever brackets its strings have.
OnlyProseGoes(d) ==
    Span(<<"c", ",", "q", "c">> \o Written(d) \o <<"c", ":">>) = Written(d)

\* A repair never changes content.
RepairNeverChangesContent(d) ==
    LET text == Written(d) IN
    \A n \in 1..Len(text) :
        LET closed == CloseUnbalanced(SubSeq(text, 1, n))
        IN  closed \in WrittenDocuments => closed \in {Written(t) : t \in Beginnings(d)}
=============================================================================
