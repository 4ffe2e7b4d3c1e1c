--------------------------------- MODULE Probe ---------------------------------
(***************************************************************************)
(* The profile proposed for a repository: probe/stacks.py (detect),        *)
(* probe/scan.py (Tree, git_facts), probe/signals.py (layout,              *)
(* needs_docker, toolchain, conventions) and probe/assemble.py (probe).    *)
(*                                                                         *)
(* A repository is its files, each <<directory, name>>, what the legible   *)
(* ones of them say, and what git knows of the checkout; a command is the  *)
(* program it calls; a finding is its level and the field it is about.     *)
(***************************************************************************)
EXTENDS Naturals, Sequences, FiniteSets, SequencesExt, FiniteSetsExt

CONSTANTS MaxFilesRead, MaxMembers

\* The reads of detect and of the layout always fit in the budget.
ProbeAssumption == MaxFilesRead \in Nat \ (0 .. 2) /\ MaxMembers \in Nat \ {0}

Nothing == "nothing"
Root == ""

Decided(field) == [level |-> "decided", field |-> field]
Action(field) == [level |-> "action", field |-> field]
Note(field) == [level |-> "note", field |-> field]
When(condition, finding) == IF condition THEN {finding} ELSE {}

-----------------------------------------------------------------------------
(* scan.py *)

\* Tree.has: a file that resolves outside the repository is not there.
Has(repo, name) == <<Root, name>> \in repo.files \ repo.outside

\* Tree.first
First(repo, names) ==
    LET there == {i \in DOMAIN names : Has(repo, names[i])}
    IN  IF there = {} THEN Nothing ELSE names[Min(there)]

\* Tree.text, mapping, toml, yaml: too long or malformed, or that the disk refuses to
\* read, says nothing.
Legible(repo) == repo.files \ (repo.outside \cup repo.illegible \cup repo.refused)
Says(repo, path) == IF path \in Legible(repo) THEN repo.says[path] ELSE {}
RootSays(repo, name) == Says(repo, <<Root, name>>)

SkipDirs == {"node_modules", "build", "vendor"}

\* Tree.members: negated, absolute and escaping globs match nothing here.
Members(repo, globs) ==
    LET inside(glob) == glob \notin {"!", "/", ".."}
        found == FoldLeft(LAMBDA all, glob :
                              all \o SelectSeq(repo.matches[glob], LAMBDA d : d \notin SkipDirs
                                                                     /\ d \notin ToSet(all)),
                          <<>>, SelectSeq(globs, inside))
    IN  [all |-> SubSeq(found, 1, Min({Len(found), MaxMembers})),
         findings |-> When(Len(found) >= MaxMembers, Note("members"))]

\* git_facts, and the two fields probe takes from them
GitFacts(repo) ==
    LET known == repo.git = "repository"
        branch == IF repo.remoteHead # Nothing THEN repo.remoteHead ELSE repo.checkedOut
    IN  [remote |-> IF known THEN repo.origin ELSE Nothing,
         branch |-> IF known /\ branch # Nothing THEN branch ELSE "main",
         findings |-> When(repo.git = "not installed", Action("git"))
                 \cup When(repo.git = "no repository", Action("remote_url"))
                 \cup When(known, IF repo.origin = Nothing THEN Action("remote_url")
                                                           ELSE Decided("remote_url"))
                 \cup When(known /\ repo.remoteHead = Nothing /\ branch # Nothing,
                           Note("default_branch"))]

-----------------------------------------------------------------------------
(* stacks.py: one build system, and everything derived from it *)

Stack(system, manifest, install, build, test, globs, findings) ==
    [system |-> system, manifest |-> manifest, install |-> install, build |-> build,
     test |-> test, globs |-> globs, findings |-> findings]

\* _wrapper
Launcher(repo, wrapper, fallback) ==
    [tool |-> IF Has(repo, wrapper) /\ wrapper \in repo.executable THEN wrapper ELSE fallback,
     findings |-> When(~Has(repo, wrapper), Note("launcher"))
             \cup When(Has(repo, wrapper) /\ wrapper \notin repo.executable, Action("launcher"))]

\* _maven
Maven(repo) ==
    LET launcher == Launcher(repo, "mvnw", "mvn")
    IN  Stack("maven", "pom.xml", launcher.tool, launcher.tool, launcher.tool,
              IF "members" \in RootSays(repo, "pom.xml") THEN repo.globs ELSE <<>>,
              launcher.findings \cup {Decided("build_system"), Decided("test_reporter")})

\* _gradle
Gradle(repo) ==
    LET launcher == Launcher(repo, "gradlew", "gradle")
        settings == First(repo, <<"settings.gradle.kts", "settings.gradle">>)
        includes == settings # Nothing /\ "members" \in RootSays(repo, settings)
        script == First(repo, <<"build.gradle.kts", "build.gradle">>)
    IN  Stack("gradle", IF script = Nothing THEN "settings.gradle.kts" ELSE script,
              launcher.tool, launcher.tool, launcher.tool,
              IF includes THEN repo.globs ELSE <<>>,
              launcher.findings \cup {Decided("build_system"), Decided("test_reporter")}
                                \cup When(includes, Note("install_command")))

NodeLocks == <<"pnpm-lock.yaml", "yarn.lock", "package-lock.json", "npm-shrinkwrap.json">>
LockOf == [lock \in ToSet(NodeLocks) |->
             CASE lock = "pnpm-lock.yaml" -> "pnpm" [] lock = "yarn.lock" -> "yarn" [] OTHER -> "npm"]

\* Mutant: a lockfile is a lockfile, whatever the declaration.
Bug_PackageManager(repo) ==
    LET lock == First(repo, NodeLocks)
        supported == RootSays(repo, "package.json") \cap {"npm", "pnpm", "yarn"}
    IN  [system |-> CASE supported # {} -> CHOOSE s \in supported : TRUE
                      [] supported = {} /\ lock # Nothing -> LockOf[lock] [] OTHER -> "npm",
         lock |-> lock, findings |-> {}]

\* _package_manager: the declaration, then the first lockfile there is
PackageManager(repo) ==
    LET lock == First(repo, NodeLocks)
        fromLock == IF lock = Nothing THEN "npm" ELSE LockOf[lock]
        declared == RootSays(repo, "package.json") \cap {"npm", "pnpm", "yarn", "bun"}
        supported == declared \ {"bun"}
        stale == supported # {} /\ lock # Nothing /\ fromLock \notin supported
    IN  [system |-> IF supported # {} THEN CHOOSE s \in supported : TRUE ELSE fromLock,
         lock |-> IF stale THEN Nothing ELSE lock,
         findings |-> When(stale, Note("lockfile")) \cup When("bun" \in declared, Action("build_system"))]

\* _node, _node_test, _node_workspaces
Node(repo) ==
    LET manager == PackageManager(repo)
        says == RootSays(repo, "package.json")
        tests == "scripts.test" \in says /\ "placeholder" \notin says
        declares == "members" \in says \cup RootSays(repo, "pnpm-workspace.yaml")
    IN  Stack(manager.system, "package.json",
              IF manager.lock # Nothing THEN manager.system ELSE Nothing,
              IF "scripts.build" \in says THEN manager.system ELSE Nothing,
              IF tests THEN manager.system ELSE Nothing,
              IF declares THEN repo.globs ELSE <<>>,
              manager.findings
                \cup {IF manager.lock # Nothing THEN Decided("build_system")
                                                ELSE Action("install_command")}
                \cup {IF tests THEN Decided(Nothing) ELSE Action("test_command")})

\* _python_manager
PythonManager(repo) ==
    CASE Has(repo, "uv.lock") -> "uv"
      [] ~Has(repo, "uv.lock") /\ (\/ Has(repo, "poetry.lock")
                                   \/ "tool.poetry" \in RootSays(repo, "pyproject.toml")) -> "poetry"
      [] OTHER -> "pip"

\* _has_pytest: the first of the configuration files is the one that is asked.
PytestConfigs == <<"pytest.ini", "tox.ini", "setup.cfg", "conftest.py", "tests/conftest.py">>
HasPytest(repo) ==
    LET config == First(repo, PytestConfigs)
    IN  \/ config # Nothing /\ (config = "tox.ini" => "pytest" \in RootSays(repo, "tox.ini"))
        \/ {"tool.pytest", "pytest"} \cap RootSays(repo, "pyproject.toml") # {}

\* _pip_install: its requirements, or itself
PipInstall(repo) ==
    IF \E name \in {"requirements.txt", "requirements-dev.txt", "pyproject.toml", "setup.py"} :
          Has(repo, name)
    THEN "pip" ELSE Nothing

\* _python, _python_workspaces
Python(repo) ==
    LET system == PythonManager(repo)
    IN  Stack(system, First(repo, <<"pyproject.toml", "setup.py", "requirements.txt">>),
              IF system = "pip" THEN PipInstall(repo) ELSE system, Nothing,
              IF HasPytest(repo) THEN "pytest" ELSE Nothing,
              IF "members" \in RootSays(repo, "pyproject.toml") THEN repo.globs ELSE <<>>,
              {Decided("build_system"), Note("build_command"),
               IF HasPytest(repo) THEN Decided("test_command") ELSE Action("test_command")})

\* _go
Go(repo) == Stack("go", "go.mod", "go", "go", "go", <<>>,
                  {Decided("build_system"), Note("test_reporter")})

\* _cargo
Cargo(repo) ==
    Stack("cargo", "Cargo.toml", "cargo", "cargo", "cargo",
          IF "members" \in RootSays(repo, "Cargo.toml") THEN repo.globs ELSE <<>>,
          {Decided("build_system")})

Candidates ==
    << <<"maven", {"pom.xml"}>>,
       <<"gradle", {"build.gradle", "build.gradle.kts", "settings.gradle", "settings.gradle.kts"}>>,
       <<"go", {"go.mod"}>>, <<"cargo", {"Cargo.toml"}>>,
       <<"python", {"pyproject.toml", "setup.py", "requirements.txt"}>>,
       <<"node", {"package.json"}>> >>

\* detect: the first candidate with a marker; detecting it is what reports.
Detect(repo) ==
    LET present == {i \in DOMAIN Candidates : \E marker \in Candidates[i][2] : Has(repo, marker)}
        chosen == IF present = {} THEN Nothing ELSE Candidates[Min(present)][1]
        stack == CASE chosen = "maven" -> Maven(repo) [] chosen = "gradle" -> Gradle(repo)
                   [] chosen = "go" -> Go(repo) [] chosen = "cargo" -> Cargo(repo)
                   [] chosen = "python" -> Python(repo) [] chosen = "node" -> Node(repo)
                   [] OTHER -> Stack("unknown", Nothing, Nothing, Nothing, Nothing, <<>>, {})
    IN  [stack EXCEPT !.findings = @ \cup When(Cardinality(present) # 1, Action("build_system"))]

-----------------------------------------------------------------------------
(* signals.py *)

AllManifests == <<"pom.xml", "build.gradle", "build.gradle.kts", "gradle/libs.versions.toml",
                  "package.json", "pyproject.toml", "setup.py", "requirements.txt",
                  "requirements-dev.txt", "go.mod", "Cargo.toml">>
ComposeFiles == {"docker-compose.yml", "docker-compose.yaml", "compose.yml", "compose.yaml"}
NotSignals == {"Dockerfile", "Containerfile", ".dockerignore"}

\* Where needs_docker looks, and the manifests it opens there, in that order: <<k, i>> is
\* the i-th one of the k-th directory.
Directories(members) == <<Root>> \o members
Manifest(dirs, m) == <<dirs[m[1]], AllManifests[m[2]]>>
Opened(repo, dirs) ==
    {m \in (DOMAIN dirs) \X (DOMAIN AllManifests) : Manifest(dirs, m) \in repo.files \ repo.outside}
Earlier(m, n) == m[1] < n[1] \/ (m[1] = n[1] /\ m[2] < n[2])

\* Tree._spend: what the detection read before the scan began
Spent(repo, system) ==
    LET read == CASE system = "maven" -> {"pom.xml"}
                  [] system = "gradle" -> {First(repo, <<"settings.gradle.kts", "settings.gradle">>)}
                  [] system = "cargo" -> {"Cargo.toml"}
                  [] system \in {"uv", "poetry", "pip"} ->
                       {"pyproject.toml"} \cup ({First(repo, PytestConfigs)} \cap {"tox.ini"})
                  [] system \in {"npm", "yarn", "pnpm"} -> {"package.json", "pnpm-workspace.yaml"}
                  [] OTHER -> {}
    IN  Cardinality({name \in read : Has(repo, name)})

\* needs_docker, _declares_testcontainers: a go.mod's indirect lines are the
\* closure, not a declaration.
NeedsDocker(repo, stack, members) ==
    LET dirs == Directories(members)
        opened == Opened(repo, dirs)
        fits == {m \in opened : Cardinality({n \in opened : Earlier(n, m)})
                                  < MaxFilesRead - Spent(repo, stack.system)}
        read == {Manifest(dirs, m) : m \in fits}
        evidence == {path \in read : "testcontainers" \in Says(repo, path)}
               \cup {path \in repo.files \ repo.outside : /\ path[1] \in ToSet(dirs)
                                                       /\ path[2] \in ComposeFiles}
    IN  [needed |-> evidence # {},
         findings |-> {Decided("needs_docker")}
                 \cup When(\E name \in NotSignals : Has(repo, name), Note("needs_docker"))
                 \cup When(fits # opened, Note("budget"))
                 \cup When(read \cap (repo.illegible \ repo.refused) # {}, Note("illegible"))]

\* toolchain: for each tool the first file that pins it
PinFiles == <<"mise.toml", ".tool-versions", ".nvmrc">>
Toolchain(repo) ==
    LET pinned(tool) == SelectSeq(PinFiles, LAMBDA f : Has(repo, f) /\ tool \in RootSays(repo, f))
        tools == {tool \in {"node", "java"} : pinned(tool) # <<>>}
    IN  [pins |-> [tool \in tools |-> pinned(tool)[1]],
         findings |-> IF tools = {} THEN {Note("toolchain")}
                                    ELSE {Decided("toolchain"), Note("exec_prefix")}]

\* conventions
Conventions(repo) == First(repo, <<"AGENTS.md", "CLAUDE.md", ".github/AGENTS.md", "docs/AGENTS.md">>)

-----------------------------------------------------------------------------
(* assemble.py *)

\* _id_from
IdFrom(name) ==
    [id |-> CASE name = "illegal" -> "repo" [] name = "odd" -> "cleaned" [] OTHER -> name,
     findings |-> When(name = "illegal", Action("id")) \cup When(name = "odd", Note("id"))]

\* probe, after the detection
Probed(repo, stack) ==
    LET facts == GitFacts(repo)
        members == Members(repo, stack.globs)
        docker == NeedsDocker(repo, stack, members.all)
        id == IdFrom(repo.name)
    IN  [id |-> id.id, remote_url |-> facts.remote, default_branch |-> facts.branch,
         build_system |-> stack.system, install_command |-> stack.install,
         build_command |-> stack.build, test_command |-> stack.test,
         needs_docker |-> docker.needed, isolation_tier |-> "container",
         toolchain |-> Toolchain(repo).pins, agents_md_path |-> Conventions(repo),
         findings |-> facts.findings \cup stack.findings \cup members.findings
                 \cup docker.findings \cup Toolchain(repo).findings \cup id.findings
                 \cup When(members.all # <<>>, Note("members"))
                 \cup When(docker.needed, Action("isolation_tier"))
                 \cup When(Conventions(repo) # Nothing, Decided("agents_md_path"))]

-----------------------------------------------------------------------------
(* Properties *)

\* What there is to probe: a file is a name in a directory, only a manifest declares a
\* dependency, a packageManager field names one manager, and git answers, or does not, or
\* is not installed.
IsRepository(repo) ==
    /\ repo.git \in {"repository", "no repository", "not installed"}
    /\ repo.files \subseteq STRING \X STRING
    /\ \A path \in repo.files :
          "testcontainers" \in repo.says[path] => path[2] \in ToSet(AllManifests)
    /\ \A one, other \in RootSays(repo, "package.json") \cap {"npm", "pnpm", "yarn", "bun"} :
          one = other

Reports(p, level, field) == [level |-> level, field |-> field] \in p.findings
Said(p, field) == \E f \in p.findings : f.field = field

(***************************************************************************)
(* A proposed command is one the repository declares, not one the probe    *)
(* would guess: an install that is frozen has the lockfile of that very    *)
(* package manager, a test command has something that asks for it; and     *)
(* what is left empty because nobody declared it is a question in the      *)
(* report.                                                                 *)
(***************************************************************************)
NothingIsGuessed(repo, stack) ==
    \E p \in {Probed(repo, stack)} :
        LET node == p.build_system \in {"npm", "yarn", "pnpm"} IN
        /\ node /\ p.install_command # Nothing =>
              \E lock \in ToSet(NodeLocks) : Has(repo, lock) /\ LockOf[lock] = p.build_system
        /\ node /\ p.test_command # Nothing => "scripts.test" \in RootSays(repo, "package.json")
        /\ \A field \in {"install_command", "test_command"} :
              p[field] = Nothing => Said(p, field) \/ Reports(p, "action", "build_system")
        /\ p.remote_url = Nothing => Reports(p, "action", "remote_url") \/ Reports(p, "action", "git")

(***************************************************************************)
(* A declared need of a Docker daemon, in the root or in any member, is    *)
(* found or the report says that something was not read (only a manifest   *)
(* that the disk refuses to read is passed over in silence); it is never   *)
(* found where nobody declares one; and finding it asks the operator a     *)
(* question instead of choosing a tier.                                    *)
(***************************************************************************)
DaemonIsAskedForNeverTaken(repo, stack) ==
    \E p \in {Probed(repo, stack)} :
    LET dirs == ToSet(Directories(Members(repo, stack.globs).all))
        declared == {path \in repo.files \ repo.outside :
                       /\ path[1] \in dirs
                       /\ \/ path[2] \in ComposeFiles
                          \/ "testcontainers" \in repo.says[path] /\ path \notin repo.refused}
    IN  /\ declared # {} => p.needs_docker \/ Said(p, "budget") \/ Said(p, "illegible")
        /\ p.needs_docker => declared # {}
        /\ p.needs_docker => Reports(p, "action", "isolation_tier") /\ p.isolation_tier = "container"

(***************************************************************************)
(* What the probe promises of its report: every field it declines to set   *)
(* says what was missing (probe/findings.py).                              *)
(***************************************************************************)
EveryEmptyFieldIsExplained(repo, stack) ==
    \A p \in {Probed(repo, stack)}, field \in {"install_command", "build_command", "test_command"} :
        p[field] = Nothing => Said(p, field) \/ Reports(p, "action", "build_system")
=============================================================================
