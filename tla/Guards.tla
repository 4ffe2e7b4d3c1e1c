------------------------------- MODULE Guards -------------------------------
(***************************************************************************)
(* The language of `when` and of ${...}: engine/conditions.py, refs.py and *)
(* interpolation.py.  Tokens are given; characters are not modelled.       *)
(*                                                                         *)
(* A JSON value is its type and its content: a number, for a string where  *)
(* it is in their order, for a list its items, for an object a sequence of *)
(* keys and values.  Missing is no JSON value.                             *)
(***************************************************************************)
EXTENDS Loader, SequencesExt, FiniteSetsExt

Value(type, n, items) == [type |-> type, is |-> n, items |-> items]
Missing == Value("missing", 0, <<>>)
Null == Value("null", 0, <<>>)
Bool(b) == Value("bool", IF b THEN 1 ELSE 0, <<>>)
Number(n) == Value("number", n, <<>>)
Text(n) == Value("string", n, <<>>)
List(s) == Value("list", 0, s)
Object(members) == Value("object", 0, members)
Member(key, value) == [key |-> key, value |-> value]
-----------------------------------------------------------------------------
(* refs.py *)

Statuses == <<"pending", "running", "succeeded", "failed", "timed_out", "skipped">>
StatusText == [s \in ToSet(Statuses) |-> CHOOSE i \in DOMAIN Statuses : Statuses[i] = s]

Index(list, n) == IF n >= Len(list) THEN Missing ELSE list[n + 1]

\* A segment is a key, and its number if it has one.
Child(value, segment) ==
    CASE value.type = "object" ->
           LET at == {i \in DOMAIN value.items : value.items[i].key = segment.key}
           IN  IF at = {} THEN Missing ELSE value.items[Min(at)].value
      [] value.type = "list" /\ segment.number # "none" -> Index(value.items, segment.number)
      [] OTHER -> Missing

\* _descend
Descend(value, path) == FoldLeft(Child, value, path)

\* Resolver.resolve: `results` has what the stages that ran have recorded.
Resolve(results, request, ref) ==
    IF ref.stage = Request
    THEN IF ref.facet = "json" THEN Descend(request, ref.path) ELSE Missing
    ELSE IF ref.stage \notin DOMAIN results THEN Missing
    ELSE LET result == results[ref.stage] IN
         CASE ref.facet = "json" -> Descend(result.output, ref.path)
           [] ref.facet = "response" -> Descend(result.response, ref.path)
           [] ref.facet = "status" -> Text(StatusText[result.status])
           [] ref.facet = "succeeded" -> Bool(result.status = "succeeded")
           [] ref.facet = "failed" -> Bool(result.status \in {"failed", "timed_out"})
           [] ref.facet = "skipped" -> Bool(result.status = "skipped")

-----------------------------------------------------------------------------
(* conditions.py: evaluation *)

Raises == Value("raises", 0, <<>>)

Truthy(v) == v.is # 0 \/ v.items # <<>>

\* Python's ==, in which a Boolean is a number.
RECURSIVE PyEqual(_, _)
PyEqual(l, r) ==
    CASE {l.type, r.type} \subseteq {"bool", "number"} -> l.is = r.is
      [] l.type = "list" /\ r.type = "list" ->
           Len(l.items) = Len(r.items) /\ \A i \in DOMAIN l.items : PyEqual(l.items[i], r.items[i])
      [] l.type = "object" /\ r.type = "object" ->
           Len(l.items) = Len(r.items) /\ \A i \in DOMAIN l.items : \E j \in DOMAIN r.items :
               r.items[j].key = l.items[i].key /\ PyEqual(l.items[i].value, r.items[j].value)
      [] OTHER -> l = r

\* _equal holds Booleans and numbers apart, where they are not inside something.
Equal(l, r) ==
    IF Missing \in {l, r} THEN l = r
    ELSE ((l.type = "bool") <=> (r.type = "bool")) /\ PyEqual(l, r)

Applied(op, l, r) ==
    CASE op = "<" -> l < r [] op = "<=" -> l <= r [] op = ">" -> l > r [] op = ">=" -> l >= r

Compared(op, l, r) ==
    CASE op = "==" -> Bool(Equal(l, r))
      [] op = "!=" -> Bool(~Equal(l, r))
      [] OTHER -> IF l.type = r.type /\ l.type \in {"number", "string"}
                  THEN Bool(Applied(op, l.is, r.is)) ELSE Raises

\* && and ||: the second is looked at only if the first does not decide.
Both(first, second, decides) ==
    CASE first = Raises -> Raises
      [] first # Raises /\ (Truthy(first) <=> decides) -> Bool(decides)
      [] OTHER -> IF second = Raises THEN Raises ELSE Bool(Truthy(second))

\* _eval, with V for what the references name.
RECURSIVE Eval(_, _)
Eval(node, V) ==
    CASE node.op = "const" -> node.value
      [] node.op = "ref" -> V[node.ref]
      [] node.op = "!" -> LET v == Eval(node.left, V)
                          IN  IF v = Raises THEN Raises ELSE Bool(~Truthy(v))
      [] node.op \in {"&&", "||"} -> Both(Eval(node.left, V), Eval(node.right, V), node.op = "||")
      [] OTHER -> LET l == Eval(node.left, V)
                      r == Eval(node.right, V)
                  IN  IF Raises \in {l, r} THEN Raises ELSE Compared(node.op, l, r)

RECURSIVE References(_)
References(node) ==
    CASE node.op = "const" -> {}
      [] node.op = "ref" -> {node.ref}
      [] node.op = "!" -> References(node.left)
      [] OTHER -> References(node.left) \cup References(node.right)

-----------------------------------------------------------------------------
(* conditions.py: the parser.  Every operator answers a node and where it   *)
(* stopped; a token that does not fit gives the node that is an error.      *)

Comparisons == {"==", "!=", "<", "<=", ">", ">="}
SyntaxError == [op |-> "error"]
Infix(op, l, r) == [op |-> op, left |-> l, right |-> r]

Peek(s, i) == IF i <= Len(s) THEN s[i].op ELSE "end"
Erred(i) == [node |-> SyntaxError, at |-> i]
Wrap(op, l, r) == [node |-> IF SyntaxError \in {l.node, r.node} THEN SyntaxError
                            ELSE Infix(op, l.node, r.node),
                   at |-> r.at]

RECURSIVE ParseOr(_, _), ParseAnd(_, _), ParseUnary(_, _), OrRest(_, _), AndRest(_, _)

ParsePrimary(s, i) ==
    CASE Peek(s, i) = "(" ->
           LET inner == ParseOr(s, i + 1)
           IN  IF Peek(s, inner.at) = ")" THEN [inner EXCEPT !.at = @ + 1] ELSE Erred(i)
      [] Peek(s, i) \in {"const", "ref"} -> [node |-> s[i], at |-> i + 1]
      [] OTHER -> Erred(i)

\* No chaining.
ParseComparison(s, i) ==
    LET left == ParsePrimary(s, i)
        right == ParsePrimary(s, left.at + 1)
    IN  CASE Peek(s, left.at) \notin Comparisons -> left
          [] Peek(s, left.at) \in Comparisons /\ Peek(s, right.at) \in Comparisons -> Erred(i)
          [] OTHER -> Wrap(s[left.at].op, left, right)

ParseUnary(s, i) ==
    IF Peek(s, i) # "!" THEN ParseComparison(s, i)
    ELSE LET operand == ParseUnary(s, i + 1)
         IN  [operand EXCEPT !.node = IF @ = SyntaxError THEN @ ELSE [op |-> "!", left |-> @]]

AndRest(left, s) ==
    IF Peek(s, left.at) # "&&" THEN left
    ELSE AndRest(Wrap("&&", left, ParseUnary(s, left.at + 1)), s)

ParseAnd(s, i) == AndRest(ParseUnary(s, i), s)

OrRest(left, s) ==
    IF Peek(s, left.at) # "||" THEN left
    ELSE OrRest(Wrap("||", left, ParseAnd(s, left.at + 1)), s)

\* Mutant: || binds as && does.
Bug_ParseOr(s, i) ==
    LET left == ParseUnary(s, i)
    IN  IF Peek(s, left.at) \notin {"&&", "||"} THEN left
        ELSE Wrap(s[left.at].op, left, ParseOr(s, left.at + 1))

ParseOr(s, i) == OrRest(ParseAnd(s, i), s)

Parse(s) ==
    LET all == ParseOr(s, 1) IN IF s # <<>> /\ all.at = Len(s) + 1 THEN all.node ELSE SyntaxError

-----------------------------------------------------------------------------
(* interpolation.py: a template is a sequence of pieces: literal text, the  *)
(* escape, or a placeholder.                                                *)

\* A string an agent wrote that looks like a placeholder.
Lookalike == Text(9)

\* _stringify
Stringified(value) ==
    CASE value.type \in {"missing", "null"} -> <<[piece |-> "raises"]>>
      [] OTHER -> <<[piece |-> "value", value |-> value]>>

Expanded(piece, V) ==
    CASE piece.piece = "escape" -> <<[piece |-> "text", text |-> "${"]>>
      [] piece.piece = "text" -> <<piece>>
      [] OTHER -> Stringified(V[piece.ref])

\* expand: one pass, or nothing at all.
Expand(template, V) ==
    LET all == FoldLeft(LAMBDA s, p : s \o Expanded(p, V), <<>>, template)
    IN  IF [piece |-> "raises"] \in ToSet(all) THEN Raises ELSE [type |-> "text", pieces |-> all]

-----------------------------------------------------------------------------
(* Properties *)

Precedence(node) ==
    CASE node.op = "||" -> 1 [] node.op = "&&" -> 2 [] node.op = "!" -> 3
      [] node.op \in Comparisons -> 4 [] OTHER -> 5

\* What an author writes for a tree, with no parenthesis that is not needed.
RECURSIVE Printed(_, _)
Printed(node, least) ==
    LET p == Precedence(node)
        text == CASE p = 5 -> <<node>>
                  [] p = 4 -> Printed(node.left, 5) \o <<[op |-> node.op]>> \o Printed(node.right, 5)
                  [] p = 3 -> <<[op |-> "!"]>> \o Printed(node.left, 3)
                  [] OTHER -> Printed(node.left, p) \o <<[op |-> node.op]>> \o Printed(node.right, p + 1)
    IN  IF p < least THEN <<[op |-> "("]>> \o text \o <<[op |-> ")"]>> ELSE text

Not(node) == [op |-> "!", left |-> node]

\* A guard is read as it was written, and a part that the first half decides is not
\* looked at, so that `$a.succeeded && $a.json.x < 1` is no error when a failed.
GuardIsReadAsWritten(tree, V) ==
    /\ Parse(Printed(tree, 1)) = tree
    /\ tree.op = "&&" => /\ Eval(Not(tree), V) = Eval(Infix("||", Not(tree.left), Not(tree.right)), V)
                         /\ Eval(tree.left, V) # Raises /\ ~Truthy(Eval(tree.left, V))
                              => Eval(tree, V) = Bool(FALSE)

\* The same JSON value: the members of an object are in no order.
RECURSIVE Same(_, _)
Same(l, r) ==
    /\ l.type = r.type /\ l.is = r.is
    /\ l.type = "list" => /\ Len(l.items) = Len(r.items)
                          /\ \A i \in DOMAIN l.items : Same(l.items[i], r.items[i])
    /\ l.type = "object" => /\ {m.key : m \in ToSet(l.items)} = {m.key : m \in ToSet(r.items)}
                            /\ \A m \in ToSet(l.items), n \in ToSet(r.items) :
                                  m.key = n.key => Same(m.value, n.value)

Parts(v) == IF v.type = "object" THEN {m.value : m \in ToSet(v.items)} ELSE ToSet(v.items)

RECURSIVE HasBoolean(_)
HasBoolean(v) == v.type = "bool" \/ \E part \in Parts(v) : HasBoolean(part)

BooleanInside(v) == \E part \in Parts(v) : HasBoolean(part)

\* Two values that are there and have no Boolean inside are equal exactly if they are the
\* same JSON value, to any depth, and of two that are ordered one is less, or they are equal.
EqualityIsDeep(l, r) ==
    Missing \notin {l, r} =>
        /\ ~BooleanInside(l) /\ ~BooleanInside(r) => (Equal(l, r) <=> Same(l, r))
        /\ Compared("<", l, r) # Raises =>
              Cardinality({op \in {"<", "==", ">"} : Compared(op, l, r) = Bool(TRUE)}) = 1

\* "a reference whose path is not present resolves to MISSING, which compares unequal to
\* everything" (conditions.py:23-24).  False: two absent references are equal.
AbsentEqualsNothing(l, r) == Missing \in {l, r} => ~Equal(l, r)

\* "Deep equality, with booleans and numbers held apart" (conditions.py:453).  False: they
\* are held apart at the top only, and [true] == [1].
BooleansAreNoNumbers(l, r) == Missing \notin {l, r} => (Equal(l, r) <=> Same(l, r))

\* What is substituted is never expanded, and nothing is left out: a template is its
\* pieces, each in its place, or an error if one of them names nothing.
ExpandedOnce(template, V) ==
    LET named == {i \in DOMAIN template : template[i].piece = "ref"}
    IN  IF \E i \in named : V[template[i].ref].type \in {"missing", "null"}
        THEN Expand(template, V) = Raises
        ELSE /\ Len(Expand(template, V).pieces) = Len(template)
             /\ \A i \in named : Expand(template, V).pieces[i] = [piece |-> "value", value |-> V[template[i].ref]]
=============================================================================
