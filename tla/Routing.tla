------------------------------- MODULE Routing -------------------------------
(***************************************************************************)
(* What a deployment is, and what a request becomes in it:                 *)
(* triage/config.py (load), domain/repo.py (the validator of a profile)    *)
(* and triage/routing.py (route).                                          *)
(*                                                                         *)
(* A request's text is the kinds of its lines, the kinds of words it says  *)
(* and the terms it mentions.                                              *)
(***************************************************************************)
EXTENDS Naturals, Sequences, FiniteSets, SequencesExt, FiniteSetsExt

NoAnswer == "none"
DefaultType == "task"
-----------------------------------------------------------------------------
(* config.py: a configuration document, and the files it points at *)

SchemaVersion == 1

\* RepoProfile._socket_mode_is_acknowledged
Validates(profile) == profile.tier = "docker socket" => profile.acknowledged

\* _read_profiles: in the order of the file, and no two with one id.
ReadProfiles(paths, files) ==
    IF /\ \A i \in DOMAIN paths : /\ paths[i] \in DOMAIN files
                                  /\ Validates(files[paths[i]])
       /\ \A i, j \in DOMAIN paths : files[paths[i]].id = files[paths[j]].id => i = j
    THEN {[i \in DOMAIN paths |-> files[paths[i]]]} ELSE {}

\* load: the repositories of the deployment, or none of it: a ConfigError.
Load(document, files) ==
    IF document.schema = SchemaVersion /\ document.known
    THEN ReadProfiles(document.repos, files) ELSE {}

\* Deployment.workflow_path: a name is one component of a path.
WorkflowPath(root, name) ==
    IF Len(name) = 1 /\ name[1] \notin {"", ".", ".."} THEN {root \o name} ELSE {}

-----------------------------------------------------------------------------
(* routing.py: what kind of request it is *)

\* _question: the first line that says anything
Asks(text) ==
    LET said == {i \in DOMAIN text.lines : text.lines[i] # "blank"}
    IN  said # {} /\ text.lines[Min(said)] \in {"ends in ?", "opens with how"}

EnumeratedMin == 3
Listed(text) == Cardinality({i \in DOMAIN text.lines : text.lines[i] = "- item"})

\* classify: only ever the default is revised.
Classify(item) ==
    LET text == item.text
        epic == "epic" \in text.says \/ Listed(text) >= EnumeratedMin
        spike == Asks(text) \/ "spike" \in text.says
    IN  CASE item.type # DefaultType -> item.type
          [] item.type = DefaultType /\ spike -> "spike"
          [] item.type = DefaultType /\ ~spike /\ "bug" \in text.says -> "bug"
          [] item.type = DefaultType /\ ~spike /\ "bug" \notin text.says /\ epic -> "epic"
          [] OTHER -> IF "story" \in text.says THEN "story" ELSE DefaultType

\* _workflow
Workflow(item, type, rules) ==
    IF item.workflow # NoAnswer THEN item.workflow
    ELSE IF type \in DOMAIN rules.by THEN rules.by[type] ELSE rules.default

-----------------------------------------------------------------------------
(* routing.py: which repository it lands in *)

AliasWeight == 3
KeywordWeight == 1

\* _score_one
Score(text, profile) ==
    LET named == ({profile.id, profile.name} \cup profile.aliases) \cap text.mentions
        about == (profile.keywords \cap text.mentions) \ named
    IN  AliasWeight * Cardinality(named) + KeywordWeight * Cardinality(about)

\* Mutant: the first of the best is taken.
Bug_Chosen(text, profiles) ==
    LET best == Max({Score(text, profiles[i]) : i \in DOMAIN profiles})
        first == {i \in DOMAIN profiles : Score(text, profiles[i]) = best}
    IN  IF Len(profiles) > 1 /\ best = 0 THEN NoAnswer ELSE profiles[Min(first)].id

\* The candidates, best first: a winner beats the runner-up outright.
Chosen(text, profiles) ==
    LET best == Max({Score(text, profiles[i]) : i \in DOMAIN profiles})
        first == {i \in DOMAIN profiles : Score(text, profiles[i]) = best}
    IN  CASE Len(profiles) = 1 -> profiles[1].id
          [] Len(profiles) > 1 /\ best > 0 /\ Cardinality(first) = 1 -> profiles[Min(first)].id
          [] OTHER -> NoAnswer

\* _repo
Repo(item, profiles) ==
    CASE item.repos # <<>> ->
           IF \E i \in DOMAIN profiles : profiles[i].id = item.repos[1]
           THEN item.repos[1] ELSE NoAnswer
      [] item.repos = <<>> /\ profiles = <<>> -> NoAnswer
      [] OTHER -> Chosen(item.text, profiles)

\* route
Route(item, profiles, rules) ==
    LET type == IF rules.classify THEN Classify(item) ELSE item.type
    IN  [type |-> type,
         workflow |-> Workflow(item, type, rules),
         repo |-> Repo(item, profiles)]

-----------------------------------------------------------------------------
(* Properties *)

\* What there is to route, and where: a request, and a deployment that load made.
RequestTexts == [lines : Seq(STRING), says : SUBSET STRING, mentions : SUBSET STRING]
Requests == [type : STRING, workflow : STRING, repos : Seq(STRING), text : RequestTexts]
Profiles == [id : STRING \ {NoAnswer}, name : STRING, aliases : SUBSET STRING,
             keywords : SUBSET STRING, tier : STRING, acknowledged : BOOLEAN]
IsDeployment(profiles) ==
    /\ profiles \in Seq(Profiles)
    /\ \A i \in DOMAIN profiles : /\ IsFiniteSet(profiles[i].aliases)
                                  /\ IsFiniteSet(profiles[i].keywords)
    /\ \A i, j \in DOMAIN profiles : profiles[i].id = profiles[j].id => i = j

Ids(profiles) == {profiles[i].id : i \in DOMAIN profiles}

(***************************************************************************)
(* A text is a selector over what the operator configured, never a source  *)
(* of options and never a guess: whatever it says it names a repository    *)
(* that is there; two repositories that look equally right are neither of  *)
(* them, in whatever order the file lists them; a mention that only one    *)
(* repository answers to never takes the request away from it.             *)
(***************************************************************************)
TextIsASelector(item, profiles, rules) ==
    LET routed == Route(item, profiles, rules)
        also(term) == [item EXCEPT !.text.mentions = @ \cup {term}]
    IN  /\ routed.repo \in Ids(profiles) \cup {NoAnswer}
        /\ \A order \in SetToSeqs(ToSet(profiles)) : Route(item, order, rules) = routed
        /\ \A i \in DOMAIN profiles :
              routed.repo = profiles[i].id
                => Route(also(profiles[i].name), profiles, rules).repo = profiles[i].id

(***************************************************************************)
(* What the envelope says is not for the text to change: a type somebody   *)
(* chose, a workflow or a repository that was asked for; and a question is *)
(* never given to a workflow for work.                                     *)
(***************************************************************************)
EnvelopeOverrides(item, text, profiles, rules) ==
    LET one == Route(item, profiles, rules)
        other == Route([item EXCEPT !.text = text], profiles, rules)
    IN  /\ item.type # DefaultType => one = [other EXCEPT !.repo = one.repo]
        /\ item.workflow # NoAnswer => one.workflow = other.workflow
        /\ item.repos # <<>> => one.repo = other.repo
        /\ Asks(item.text) /\ item.type = DefaultType /\ rules.classify => one.type = "spike"

(***************************************************************************)
(* A deployment that loads is a closed set of repositories, each with one  *)
(* profile, none of them with the host's Docker socket unless somebody     *)
(* agreed to it; and a workflow is a file of its one directory.            *)
(***************************************************************************)
DeploymentIsClosed(document, files, name) ==
    LET root == <<"etc", "workflows">>
    IN  /\ \A profiles \in Load(document, files) :
             /\ Cardinality(Ids(profiles)) = Len(document.repos)
             /\ \A i \in DOMAIN profiles :
                   profiles[i].tier = "docker socket" => profiles[i].acknowledged
        /\ \A path \in WorkflowPath(root, name) : Front(path) = root /\ Last(path) # ".."
=============================================================================
