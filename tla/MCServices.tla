----------------------------- MODULE MCServices -----------------------------
(***************************************************************************)
(* Services for TLC: small values for each machine, the cases of the       *)
(* decisions (Guards, Routing, Probe, RepairText), and what these promise. *)
(***************************************************************************)
EXTENDS Services, SequencesExt

\* An attempt of each of two repositories, under a fleet limit of one, and deliveries
\* enough for an attempt to be admitted beside itself: that one waits for its repository.
RepoOfKeys == [k \in Keys |-> IF k = "k1" THEN "r1" ELSE "r2"]
OneEach == [r \in Repos |-> 1]

\* A model with one fallback, and replies that are wrong in each of the ways.
SomeStages ==
    {s \in [turns : {1, 3}, schema : BOOLEAN, salvage : BOOLEAN,
            policy : {"compact", "truncate", "fail"}, task : {1, 4}, budget : {4},
            cap : {NoCap, 3}, usd : {NoCap, 5}, timed : BOOLEAN, chain : {<<"m1", "m2">>},
            capable : {<<TRUE, TRUE>>, <<TRUE, FALSE>>}] :
        s.timed = (s.usd # NoCap) /\ (s.cap # NoCap => s.usd = NoCap)}
SomeReplies == {r \in [tokens : {1, 2}, fits : BOOLEAN, complete : BOOLEAN, calls : BOOLEAN,
                       late : BOOLEAN,
                       flaws : {{}, {"fence", "comma"}, {"cut"}, {"open"}, {"mention"}}] :
                  /\ r.calls => r.flaws = {} /\ r.fits /\ r.complete
                  /\ ~r.fits => r.flaws = {}
                  /\ r.late => r.tokens = 1 /\ r.fits /\ r.complete /\ ~r.calls /\ r.flaws = {}}
TwoPrices == [m \in {"m1", "m2"} |-> IF m = "m1" THEN 3 ELSE 1]
TwoWindows == [m \in {"m1", "m2"} |-> 5]

Conditions == INSTANCE Guards
Repairs == INSTANCE RepairText

-----------------------------------------------------------------------------
(* Cases for the decisions *)

\* Expressions of two operators over two references, and what they may refer to.
Atoms == {[op |-> "const", value |-> Conditions!Number(1)],
          [op |-> "ref", ref |-> "a"], [op |-> "ref", ref |-> "b"]}
Over(S) == S \cup {Conditions!Not(s) : s \in S}
             \cup {Conditions!Infix(op, l, r) : op \in {"&&", "||", "==", "<"}, l \in S, r \in S}
Trees == Over(Atoms) \cup {Conditions!Infix(op, l, r) :
                             op \in {"&&", "||", "=="}, l \in Over(Atoms), r \in Over(Atoms)}
Values == {Conditions!Missing, Conditions!Null, Conditions!Bool(TRUE), Conditions!Number(0),
           Conditions!Number(1), Conditions!Text(1),
           Conditions!List(<<Conditions!Bool(TRUE)>>), Conditions!List(<< >>)}

\* The same values inside lists and objects, the members of an object in either order.
Holding(v) ==
    LET x == Conditions!Member("x", v)
        y == Conditions!Member("y", Conditions!Null)
    IN  {Conditions!List(<<v>>), Conditions!List(<<v, Conditions!Null>>), Conditions!Object(<<x>>),
         Conditions!Object(<<x, y>>), Conditions!Object(<<y, x>>)}
Operands == Values \cup UNION {Holding(v) : v \in Values \ {Conditions!Missing}}

\* Workflows of two stages at most, and templates of two pieces at most.
RefsOfStages == {[stage |-> id, facet |-> says[1], path |-> says[2]] :
                   id \in {"a", "b", Conditions!Request},
                   says \in {<<"json", <<"x">>>>, <<"status", <<"x">>>>, <<"status", << >>>>,
                            <<"odd", << >>>>}}
StagesOf == {s \in [id : {"a", "b", Conditions!Request}, choosesCommand : BOOLEAN,
                    refs : {{}} \cup {{ref} : ref \in RefsOfStages}] :
               s.choosesCommand => s.refs = {}}
Pieces == {[piece |-> "escape"], [piece |-> "text", text |-> "words"],
           [piece |-> "ref", ref |-> "a"], [piece |-> "ref", ref |-> "b"]}
Named == {Conditions!Lookalike, Conditions!Text(1), Conditions!Null}

\* Deployments of two repositories at most, and texts that name them.
Terms == {"web", "api", "pay"}
Profile(id, aliases, keywords) ==
    [id |-> id, name |-> id, aliases |-> aliases, keywords |-> keywords,
     tier |-> "container", acknowledged |-> FALSE]
Profiles(id) == {Profile(id, a, k) : a \in {{}, {"pay"}}, k \in SUBSET Terms}
Deployments == {<< >>} \cup {<<p>> : p \in Profiles("web")}
                 \cup {<<p, q>> : p \in Profiles("web"), q \in Profiles("api")}
Rules == [by |-> [t \in {"task", "bug", "spike"} |-> t], default |-> "sprint", classify |-> TRUE]
Asking(mentions) == [type |-> "task", workflow |-> "none", repos |-> << >>,
                     text |-> [lines |-> <<"plain">>, says |-> {}, mentions |-> mentions]]

\* A request that was asked for in each way, and what else its text could have said.
Lines == {<<"plain">>, <<"blank", "ends in ?">>, <<"plain", "- item", "- item", "- item">>}
Worded == [lines : Lines, says : SUBSET {"spike", "bug", "epic"}, mentions : {{}, {"pay"}}]
Asked == {[type |-> type, workflow |-> w, repos |-> repos, text |-> text] :
            type \in {"task", "bug"}, w \in {"none", "spike"}, repos \in {<< >>, <<"web">>, <<"zz">>},
            text \in Worded}
Other == [lines |-> <<"plain">>, says |-> {"bug"}, mentions |-> {"api"}]
Pair == <<Profile("web", {}, {"pay"}), Profile("api", {}, {})>>

\* Files of profiles, one of which may repeat another or ask for the host's socket.
FilesOf(repeated, tier, acknowledged) ==
    [f \in {"a", "b", "c"} |-> [id |-> IF f = "c" THEN repeated ELSE f, tier |-> tier,
                                acknowledged |-> acknowledged]]
Files == {FilesOf(r, t, k) : r \in {"a", "b", "c"}, t \in {"container", "docker socket"}, k \in BOOLEAN}
Documents == [schema : {1, 2}, known : BOOLEAN,
              repos : {<< >>, <<"a", "b">>, <<"a", "c">>, <<"a", "a">>, <<"x">>}]

\* Repositories of JavaScript, whole or not, and of something else beside it.
InRoot(names) == {<<"", n>> : n \in names}
Repository(names, claims, nested, illegible, refused) ==
    LET member == {<<"api", "package.json">>, <<"web", "go.mod">>}
        files == InRoot({"package.json"} \cup names) \cup member
    IN  [files |-> files, outside |-> {}, illegible |-> illegible, refused |-> refused,
         executable |-> {},
         says |-> [f \in files |-> IF f = <<"", "package.json">> THEN claims
                                   ELSE IF f \in member THEN nested ELSE {}],
         globs |-> <<"packages/*", "!">>,
         matches |-> [g \in {"packages/*"} |-> <<"api", "build", "web">>],
         git |-> "repository", origin |-> "nothing", remoteHead |-> "nothing",
         checkedOut |-> "main", name |-> "odd"]
Repositories ==
    {Repository(locks \cup others, claims, nested, spoilt[1], spoilt[2]) :
       locks \in SUBSET {"pnpm-lock.yaml", "yarn.lock", "package-lock.json"},
       others \in {{}, {"compose.yml"}, {"Dockerfile", "go.mod"},
                   {"pyproject.toml", "tox.ini", "conftest.py"}},
       claims \in SUBSET {"testcontainers", "members", "scripts.test", "placeholder", "npm"},
       nested \in {{}, {"testcontainers"}},
       spoilt \in {<<{}, {}>>, <<InRoot({"package.json"}), {}>>, <<{}, InRoot({"package.json"})>>}}

SomeCases == {[of |-> "guard", tree |-> t] : t \in Trees}
    \cup {[of |-> "values", left |-> l, right |-> r] : l \in Operands, r \in Operands}
    \cup {[of |-> "text", item |-> Asking(s), profiles |-> d, rules |-> Rules] :
            d \in Deployments, s \in SUBSET Terms}
    \cup {[of |-> "workflow", workflow |-> w] : w \in BoundedSeq(StagesOf, 2)}
    \cup {[of |-> "template", template |-> t] : t \in BoundedSeq(Pieces, 2)}
    \cup {[of |-> "request", item |-> i, text |-> Other, profiles |-> Pair, rules |-> Rules] :
            i \in Asked}
    \cup {[of |-> "file", document |-> d, files |-> f, name |-> n] :
            d \in Documents, f \in Files, n \in {<<"x">>, <<"..">>, <<"..", "x">>}}
    \cup {[of |-> "repository", repository |-> r, stack |-> Survey!Detect(r)] : r \in Repositories}
    \cup {[of |-> "document", document |-> d] : d \in Repairs!Documents}

-----------------------------------------------------------------------------
(* Properties *)

\* A guard means what it says, however it is bracketed; two values that are there, with no
\* Boolean inside, compare as JSON does, lists and objects too; a workflow loads if and
\* only if what it refers to is there before it; what is substituted into a template is
\* never expanded again (Guards; conditions.py, loader.py, interpolation.py).
WorkflowMeansWhatItSays ==
    /\ case.of = "guard" => \A V \in [{"a", "b"} -> Values] :
                               Conditions!GuardIsReadAsWritten(case.tree, V)
    /\ case.of = "values" => Conditions!EqualityIsDeep(case.left, case.right)
    /\ case.of = "workflow" => Conditions!LoadedReferencesAreEarlier(case.workflow)
    /\ case.of = "template" => \A V \in [{"a", "b"} -> Named] :
                                  Conditions!ExpandedOnce(case.template, V)

\* What conditions.py says of absent references and of Booleans: both are false (Guards).
AbsentIsUnequal == case.of = "values" => Conditions!AbsentEqualsNothing(case.left, case.right)
BooleansAreHeldApart == case.of = "values" => Conditions!BooleansAreNoNumbers(case.left, case.right)

\* A reply that was cut off is closed without inventing a member, and one that is whole
\* loses its framing and nothing else (RepairText; repair.py:139-319).
RepairsKeepTheContent ==
    case.of = "document" =>
        /\ Repairs!SalvageInventsNothing(case.document)
        /\ Repairs!WholeDocumentsAreLeftAlone(case.document)
        /\ Repairs!OnlyCommasGo(case.document) /\ Repairs!OnlyProseGoes(case.document)
=============================================================================
