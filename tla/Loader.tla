------------------------------- MODULE Loader -------------------------------
(***************************************************************************)
(* What engine/loader.py proves of a workflow before it runs: what a       *)
(* reference may be (engine/refs.py), and to whom.                         *)
(***************************************************************************)
EXTENDS Naturals, Sequences, FiniteSets

Facets == {"json", "response", "status", "succeeded", "failed", "skipped"}
Navigable == {"json", "response"}
Request == "request"

\* parse_reference: what a reference may be, wherever it is written.
WellFormed(ref) == ref.facet \in Facets /\ (ref.path # <<>> => ref.facet \in Navigable)

\* What refuses a stage, given the names declared before it.
Refused(stage, declared) ==
    \/ stage.id = Request
    \/ stage.choosesCommand
    \/ \E ref \in stage.refs :
         \/ ~WellFormed(ref)
         \/ ref.stage = stage.id
         \/ ref.stage = Request /\ ref.facet # "json"
         \/ ref.stage \notin declared

\* validate_references, stage by stage: a name is declared when its stage was looked at.
Validated(workflow) ==
    LET upTo[n \in 0..Len(workflow)] ==
            IF n = 0 THEN [ok |-> TRUE, declared |-> {Request}]
            ELSE [ok |-> upTo[n - 1].ok /\ ~Refused(workflow[n], upTo[n - 1].declared),
                  declared |-> upTo[n - 1].declared \cup {workflow[n].id}]
    IN  upTo

\* A workflow loads if its ids differ and no stage is refused.
Loads(workflow) ==
    /\ workflow # <<>>
    /\ Cardinality({workflow[i].id : i \in DOMAIN workflow}) = Len(workflow)
    /\ Validated(workflow)[Len(workflow)].ok

-----------------------------------------------------------------------------
(* Properties *)

\* A workflow loads exactly if every reference of every stage, also one that a guard
\* may never come to, is to a stage that has had its turn before, or to the request.
LoadedReferencesAreEarlier(workflow) ==
    Loads(workflow) <=>
        /\ workflow # <<>>
        /\ \A i \in DOMAIN workflow :
            /\ workflow[i].id # Request /\ ~workflow[i].choosesCommand
            /\ \A j \in DOMAIN workflow : workflow[i].id = workflow[j].id => i = j
            /\ \A ref \in workflow[i].refs :
                /\ WellFormed(ref)
                /\ \/ ref.stage = Request /\ ref.facet = "json"
                   \/ \E j \in 1..(i - 1) : workflow[j].id = ref.stage
=============================================================================
