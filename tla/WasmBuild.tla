----------------------------- MODULE WasmBuild -----------------------------
(***************************************************************************)
(* wasm-builder-runner and wasm-builder: the build scripts that compile    *)
(* the runtime to wasm while cargo builds the node.  Each script is a      *)
(* process of its own; scripts of several crates run side by side and      *)
(* share one wasm workspace under a file lock.  Which files and variables  *)
(* a script asks cargo to watch decides whether the embedded binary still  *)
(* is the one the sources give.                                            *)
(*                                                                         *)
(* Files are abstracted to versions: a crate's sources, or Cargo.lock, are *)
(* one number that an edit raises.  The sources are what is watched of a   *)
(* crate: its directories, .rs and .toml files; a file of another kind     *)
(* that is compiled in is an asset.  A compiled binary records the         *)
(* versions, and the features, it was compiled from.                       *)
(*                                                                         *)
(* The workspace lies in the target directory, in the folder of the main   *)
(* build's type, and is kept for one of each here.                         *)
(***************************************************************************)
EXTENDS Integers, FiniteSets, Functions, Options

CONSTANTS Package,     \* the crates of the repository
          Project,     \* those whose build script builds a wasm binary
          CargoLock,   \* the Cargo.lock of the repository
          Asset,       \* files of crates that are neither .rs nor .toml
          CrateOf,     \* the crate an asset belongs to
          DependsOn,   \* edges <<crate, dependency>> of cargo metadata
          Feature,     \* names of features
          Declares,    \* the features a project's Cargo.toml declares
          MainType,    \* the build type of the main build
          CargoTargetDir,  \* CARGO_TARGET_DIR in the main build, or Unset
          Env,         \* environments a developer builds in, and features asked for
          Toolchain,   \* toolchains rustup can run
          Nightly,     \* those that are nightly
          HasWasm,     \* those with the wasm target
          Unset,
          MaxEdits,    \* edits of the sources
          MaxBuilds    \* cargo invocations

Variable == {"skip", "dummy", "force", "type", "dir", "toolchain"}

ASSUME ProjectAssumption ==
  /\ IsFiniteSet(Package) /\ Project \subseteq Package
  /\ CargoLock \notin Package \cup Asset /\ Package \cap Asset = {} /\ IsFiniteSet(Asset)
  /\ MainType \in {"release", "debug"}
  /\ CrateOf \in [Asset -> Package]
  /\ Declares \in [Project -> SUBSET Feature]
  /\ DependsOn \subseteq Package \X Package
  /\ Toolchain # {} /\ Nightly \subseteq Toolchain /\ HasWasm \subseteq Toolchain
  /\ MaxEdits \in Nat /\ MaxBuilds \in Nat
  /\ \A e \in Env : /\ DOMAIN e = Variable \cup {"features"} /\ e.features \subseteq Feature
                     /\ e.skip \in BOOLEAN /\ e.dummy \in BOOLEAN
                     /\ e.toolchain \in Toolchain \cup {Unset}

VARIABLES source,     \* File -> version
          present,    \* projects whose folder exists under its name
          env,        \* the environment of the cargo invocation
          builds,     \* cargo invocations so far
          todo,       \* scripts the running cargo invocation has yet to start
          pc, job,    \* per script: its step, the crate its runner builds
          start,      \* per script: the versions when it was started
          found,      \* per script: the members it has found
          record,     \* cargo's note of a script's last success, for each set of features
          runner,     \* the runner projects' folders: whose main.rs is in them
          lock,       \* wasm_workspace.lock
          folders,    \* the project folders of the wasm workspace
          manifests,  \* the features in the Cargo.toml of a project folder
          members,    \* members in the workspace's Cargo.toml
          wlock,      \* version of the workspace's Cargo.lock
          target,     \* compiled binaries, per crate and build type
          compact,    \* compacted binaries, per crate
          generated,  \* the scripts' output files, in an OUT_DIR for each set of features
          builtWith   \* history: the sets of features a crate was compiled for

repoVars == <<source, present>>
cargoVars == <<env, builds, todo, start, record>>
workspaceVars == <<folders, manifests, builtWith, members, wlock, target, compact>>
buildVars == <<repoVars, cargoVars, workspaceVars, pc, job, found, runner, lock, generated>>

Watched == Package \cup {CargoLock}
File == Watched \cup Asset
Version == 0 .. MaxEdits
BuildType == {"release", "debug"}
Unit == Project \X SUBSET Feature
Step == {"idle", "run", "lock", "create", "members", "toml", "build", "compact", "output"}

Dependencies(p) == {d \in Package : <<p, d>> \in DependsOn}

\* The crates a binary of p is compiled from are those in every set that has p
\* and, with a crate, its dependencies; what of them is watched, with
\* Cargo.lock, and all inputs, with the assets.
Closed == {s \in SUBSET Package : \A d \in s : Dependencies(d) \subseteq s}
WatchedInputs(p) == {CargoLock} \cup {d \in Package : \A s \in Closed : p \in s => d \in s}
Inputs(p) == WatchedInputs(p) \cup {a \in Asset : CrateOf[a] \in WatchedInputs(p)}

\* A compiled binary.
Binary ==
  UNION {[crate : {p}, type : BuildType, cargo : Toolchain, features : SUBSET Feature,
          from : [Inputs(p) -> Version]] : p \in Project}

\* A script's output file: which binary it includes.
Output == [crate : Project, type : BuildType \cup {"dummy"}]

\* What cargo notes of a successful script: the files and the variables to
\* watch, as they were.
Record ==
  [seen : UNION {[fs -> Version] : fs \in SUBSET Watched},
   env : {Restrict(e, vs) : e \in Env, vs \in SUBSET Variable}]

ASSUME NoneIsNothing == None \notin Project \cup Binary \cup Output

BuildTypeOK ==
  /\ source \in [File -> Version] /\ present \subseteq Project
  /\ env \in Env /\ builds \in 0 .. MaxBuilds /\ todo \subseteq Project
  /\ pc \in [Project -> Step] /\ job \in [Project -> Project]
  /\ start \in [Project -> [File -> Version]] /\ found \in [Project -> SUBSET Project]
  /\ record \in [Unit -> Record \cup {None}]
  /\ runner \in [Project -> Project \cup {None}]
  /\ lock \in Project \cup {None}
  /\ manifests \in [Project -> SUBSET Feature] /\ builtWith \in [Project -> SUBSET SUBSET Feature]
  /\ folders \subseteq Project /\ members \subseteq Project /\ wlock \in Version
  /\ target \in [Project \X BuildType -> Binary \cup {None}]
  /\ compact \in [Project -> Binary \cup {None}]
  /\ generated \in [Unit -> Output \cup {None}]

BuildInit ==
  /\ source = [f \in File |-> 0] /\ present = Project
  /\ env \in Env
  /\ builds = 0 /\ todo = {}
  /\ pc = [p \in Project |-> "idle"] /\ job = [p \in Project |-> p]
  /\ start = [p \in Project |-> [f \in File |-> 0]] /\ found = [p \in Project |-> {}]
  /\ record = [u \in Unit |-> None]
  /\ runner = [p \in Project |-> None]
  /\ lock = None
  /\ manifests = [p \in Project |-> {}] /\ builtWith = [p \in Project |-> {}]
  /\ folders = {} /\ members = {} /\ wlock = 0
  /\ target = [b \in Project \X BuildType |-> None]
  /\ compact = [p \in Project |-> None]
  /\ generated = [u \in Unit |-> None]

-----------------------------------------------------------------------------
(* What the code reads off its environment.                                 *)

CheckSkipBuild(e) == e.skip
CheckProvideDummyWasmBinary(e) == e.dummy

\* is_release_build; any other value panics.  The build type of the main build
\* is not looked at.
IsReleaseBuild(e) == e.type \in {Unset, "release"}
ValidBuildType(e) == e.type \in BuildType \cup {Unset}
TypeOf(e) == IF IsReleaseBuild(e) THEN "release" ELSE "debug"

\* copy_wasm_to_target_directory, of release builds: a relative path panics.
BadTargetDirectory(e) == IsReleaseBuild(e) /\ e.dir = "relative"

\* get_nightly_cargo: the requested toolchain, or the first nightly of the
\* cargo that runs the script, the default one, rustup's and any installed.
GetNightlyCargo(e) ==
  IF e.toolchain # Unset THEN e.toolchain
  ELSE IF Nightly # {} THEN CHOOSE t \in Nightly : TRUE
  ELSE CHOOSE t \in Toolchain : TRUE

\* prerequisites::check.
Check(e) == GetNightlyCargo(e) \in Nightly \cap HasWasm

\* External: the features cargo enables of a project, for which it keeps a
\* note and an OUT_DIR of their own.
Enabled(p, e) == e.features \cap Declares[p]
UnitOf(p, e) == <<p, Enabled(p, e)>>

\* The features of the wasm build.
ProjectEnabledFeatures(p, e) == Enabled(p, e) \ {"std", "default"}
HasRuntimeWasmFeatureDeclared(p) == "runtime-wasm" \in Declares[p]
WasmFeatures(p, e) ==
  ProjectEnabledFeatures(p, e) \cup {f \in {"runtime-wasm"} : HasRuntimeWasmFeatureDeclared(p)}

\* External: where a cargo puts what it compiles, and keeps locked meanwhile.
TargetDir(variable, folder) == IF variable # Unset THEN variable ELSE folder

\* CARGO_TARGET_DIR for the runner project's cargo.
MutRunnerTargetDir == CargoTargetDir
RunnerTargetDir == Unset

\* The environment of the nested cargo build.
MutNestedEnv(e) == e
NestedEnv(e) == [e EXCEPT !.skip = TRUE]

\* The variables the runner, and the builder, ask cargo to watch.
RunnerVars == {"skip", "dummy", "force"}
BuilderVars == {"skip", "type", "dir", "toolchain"}

\* The loop over the dependencies that does not follow those it finds.
MutCollect(dependencies, packages) == packages \cup dependencies

\* A turn of the loop of generate_rerun_if_changed_instructions: the
\* dependencies of a package met for the first time are to be followed too.
Collecting == [dependencies : SUBSET Package, packages : SUBSET Package]
Follow[loop \in Collecting] ==
  LET d == CHOOSE x \in loop.dependencies : TRUE
  IN IF loop.dependencies = {} THEN loop
     ELSE IF d \in loop.packages THEN [loop EXCEPT !.dependencies = @ \ {d}]
     ELSE [dependencies |-> (loop.dependencies \ {d}) \cup Dependencies(d),
           packages |-> loop.packages \cup {d}]

\* The turns it can make: each takes a dependency away, and one that adds
\* dependencies, of which there are as many as packages, adds a package.
Turns == Cardinality(Package) * (Cardinality(Package) + 2)

Collect(dependencies, packages) ==
  LET Loop[n \in Nat] ==
        IF n = 0 THEN [dependencies |-> dependencies, packages |-> packages]
        ELSE Follow[Loop[n - 1]]
  IN Loop[Turns].packages

\* package_rerun_if_changed of each; assets are passed over.
Tracked(p) == Collect(Dependencies(p), {p}) \cup {CargoLock}

-----------------------------------------------------------------------------
(* External: cargo, the developer and the operating system.                 *)

Idle == todo = {} /\ \A p \in Project : pc[p] = "idle"

\* cargo runs a script again unless nothing it was told to watch has changed.
Fresh(p, e) ==
  LET note == record[UnitOf(p, e)] IN
    /\ note # None
    /\ note.seen = Restrict(source, DOMAIN note.seen)
    /\ note.env = Restrict(e, DOMAIN note.env)

Cargo(e) ==
  /\ Idle /\ builds < MaxBuilds
  /\ env' = e /\ builds' = builds + 1
  /\ todo' = {p \in present : ~Fresh(p, e)} /\ todo' # {}
  /\ UNCHANGED <<repoVars, workspaceVars, start, record, pc, job, found, runner, lock, generated>>

\* Sources are edited at any time.
Edit(f) ==
  /\ SumFunctionOnSet(source, File) < MaxEdits
  /\ source' = [source EXCEPT ![f] = @ + 1]
  /\ UNCHANGED <<present, cargoVars, workspaceVars, pc, job, found, runner, lock, generated>>

\* Between builds crates are moved away or back.
Move(p) ==
  /\ Idle
  /\ present' = IF p \in present THEN present \ {p} ELSE present \cup {p}
  /\ record' = [u \in Unit |-> IF u[1] = p THEN None ELSE record[u]]
  /\ UNCHANGED <<source, workspaceVars, env, builds, todo, start, pc, job, found, runner, lock, generated>>

\* The end of a script takes its local state with it.
End(p) ==
  /\ pc' = [pc EXCEPT ![p] = "idle"]
  /\ job' = [job EXCEPT ![p] = p]
  /\ start' = [start EXCEPT ![p] = [f \in File |-> 0]]
  /\ found' = [found EXCEPT ![p] = {}]

\* A script that fails gives up the file lock with its process; cargo starts
\* no further script and will run this one again.
Fail(p) ==
  /\ End(p)
  /\ lock' = IF lock = p THEN None ELSE lock
  /\ todo' = {}
  /\ record' = [record EXCEPT ![UnitOf(p, env)] = None]
  /\ UNCHANGED <<repoVars, workspaceVars, env, builds, runner, generated>>

-----------------------------------------------------------------------------
(* The runner.                                                              *)

\* The folder of a script's runner project, unique to it; main.rs names the
\* crate and the output file.
RunnerFolder(p) == p

\* What cargo notes of a script that has built nothing.
Unbuilt(p) == [seen |-> Restrict(source, {}), env |-> Restrict(env, RunnerVars)]

\* build: nothing, a dummy, or a runner project.
Build(p) ==
  /\ p \in todo /\ todo' = todo \ {p}
  /\ \/ /\ CheckSkipBuild(env)
        /\ record' = [record EXCEPT ![UnitOf(p, env)] = Unbuilt(p)]
        /\ UNCHANGED <<generated, runner, pc, start>>
     \/ /\ ~CheckSkipBuild(env) /\ CheckProvideDummyWasmBinary(env)
        /\ generated' = [generated EXCEPT ![UnitOf(p, env)] = [crate |-> p, type |-> "dummy"]]
        /\ record' = [record EXCEPT ![UnitOf(p, env)] = Unbuilt(p)]
        /\ UNCHANGED <<runner, pc, start>>
     \/ /\ ~CheckSkipBuild(env) /\ ~CheckProvideDummyWasmBinary(env)
        /\ start' = [start EXCEPT ![p] = source]
        /\ runner' = [runner EXCEPT ![RunnerFolder(p)] = p]
        /\ pc' = [pc EXCEPT ![p] = "run"]
        /\ record' = [record EXCEPT ![UnitOf(p, env)] = None]
        /\ UNCHANGED generated
  /\ UNCHANGED <<repoVars, workspaceVars, env, builds, job, found, lock>>

At(p, from, to) == pc[p] = from /\ pc' = [pc EXCEPT ![p] = to]

\* run_project: another cargo compiles and runs what the folder holds, as soon
\* as it has its target directory to itself: the cargo that runs the script
\* keeps its own until the script ends.  What it runs checks the prerequisites
\* first.
RunProject(p) ==
  /\ TargetDir(RunnerTargetDir, RunnerFolder(p)) # TargetDir(CargoTargetDir, "repository")
  /\ \/ /\ Check(env) /\ At(p, "run", "lock")
        /\ job' = [job EXCEPT ![p] = runner[RunnerFolder(p)]]
        /\ UNCHANGED <<repoVars, cargoVars, workspaceVars, found, runner, lock, generated>>
     \/ ~Check(env) /\ pc[p] = "run" /\ Fail(p)

-----------------------------------------------------------------------------
(* The builder: create_and_compile under the lock.                          *)

\* WorkspaceLock::new.
MutTakeLock(p) ==
  /\ At(p, "lock", "create")
  /\ lock' = p
  /\ UNCHANGED <<repoVars, cargoVars, workspaceVars, job, found, runner, generated>>
TakeLock(p) ==
  /\ lock = None /\ lock' = p
  /\ At(p, "lock", "create")
  /\ UNCHANGED <<repoVars, cargoVars, workspaceVars, job, found, runner, generated>>

\* create_project: the folder with its Cargo.toml, which names the features,
\* and the Cargo.lock.
CreateProject(p) ==
  /\ At(p, "create", "members")
  /\ folders' = folders \cup {job[p]}
  /\ manifests' = [manifests EXCEPT ![job[p]] = WasmFeatures(job[p], env)]
  /\ wlock' = source[CargoLock]
  /\ UNCHANGED <<repoVars, cargoVars, builtWith, members, target, compact, job, found, runner, lock, generated>>

\* find_and_clear_workspace_members: folders of crates that are gone go too.
FindAndClearWorkspaceMembers(p) ==
  /\ At(p, "members", "toml")
  /\ found' = [found EXCEPT ![p] = folders \cap present]
  /\ folders' = folders \cap present
  /\ UNCHANGED <<repoVars, cargoVars, manifests, builtWith, members, wlock, target, compact, job, runner, lock, generated>>

CreateWasmWorkspaceProject(p) ==
  /\ At(p, "toml", "build")
  /\ members' = found[p]
  /\ UNCHANGED <<repoVars, cargoVars, folders, manifests, builtWith, wlock, target, compact, job, found, runner, lock, generated>>

\* build_project: the nested cargo also runs the crate's own build script, for
\* a target directory inside this workspace, and ends only if that one returns
\* at once: otherwise it makes a workspace of its own there, whose build runs
\* the script again, and so on for ever.  It fails on a compile error, and on
\* a build type that is none.
BuildProject(p) ==
  /\ pc[p] = "build" /\ CheckSkipBuild(NestedEnv(env))
  /\ \/ /\ ValidBuildType(env)
        /\ At(p, "build", "compact")
        /\ target' = [target EXCEPT ![<<job[p], TypeOf(env)>>] =
                        [crate |-> job[p], type |-> TypeOf(env), cargo |-> GetNightlyCargo(env),
                         features |-> manifests[job[p]],
                         from |-> Restrict([source EXCEPT ![CargoLock] = wlock], Inputs(job[p]))]]
        /\ builtWith' = [builtWith EXCEPT ![job[p]] = @ \cup {Enabled(job[p], env)}]
        /\ UNCHANGED <<repoVars, cargoVars, folders, manifests, members, wlock, compact, job, found,
                       runner, lock, generated>>
     \/ Fail(p)

\* compact_wasm_file for release builds, the copy to WASM_TARGET_DIRECTORY and
\* generate_rerun_if_changed_instructions; the lock is dropped on return.
CompactWasmFile(p) ==
  \/ /\ ~BadTargetDirectory(env)
     /\ At(p, "compact", "output")
     /\ compact' = IF IsReleaseBuild(env)
                     THEN [compact EXCEPT ![job[p]] = target[<<job[p], "release">>]]
                     ELSE compact
     /\ lock' = IF lock = p THEN None ELSE lock
     /\ UNCHANGED <<repoVars, cargoVars, folders, manifests, builtWith, members, wlock, target, job,
                    found, runner, generated>>
  \/ BadTargetDirectory(env) /\ pc[p] = "compact" /\ Fail(p)

\* The output file, and the runner's own variables at the very end.
WriteOutput(p) ==
  /\ pc[p] = "output" /\ End(p)
  /\ generated' = [generated EXCEPT ![UnitOf(p, env)] = [crate |-> job[p], type |-> TypeOf(env)]]
  /\ record' = [record EXCEPT ![UnitOf(p, env)] =
                  [seen |-> Restrict(start[p], Tracked(job[p])),
                   env |-> Restrict(env, BuilderVars \cup RunnerVars)]]
  /\ UNCHANGED <<repoVars, workspaceVars, env, builds, todo, runner, lock>>

-----------------------------------------------------------------------------
Script(p) ==
  \/ Build(p) \/ RunProject(p) \/ TakeLock(p) \/ CreateProject(p)
  \/ FindAndClearWorkspaceMembers(p) \/ CreateWasmWorkspaceProject(p)
  \/ BuildProject(p) \/ CompactWasmFile(p) \/ WriteOutput(p)

BuildNext ==
  \/ \E e \in Env : Cargo(e)
  \/ \E f \in File : Edit(f)
  \/ \E p \in Project : Move(p) \/ Script(p)

BuildSpec == BuildInit /\ [][BuildNext]_buildVars

\* A script keeps running once it was started, and cargo starts every script
\* on its list.
BuildFairness == \A p \in Project : WF_buildVars(Script(p))

-----------------------------------------------------------------------------
\* The binary the node includes when it is built in environment e.
Embedded(p, e) ==
  LET file == generated[UnitOf(p, e)]
  IN IF file.type = "release" THEN compact[file.crate] ELSE target[<<file.crate, "debug">>]

\* A build that cargo takes for up to date embeds a binary of this crate and of
\* the build type asked for, from the present version of every file watched of
\* every crate it depends on, however deep, and of Cargo.lock; an asset may
\* be older.  It has the features and the toolchain asked for too if the crate
\* was never compiled here for another set of features: the sets have an
\* output file and a note each, but share the place of the binary
\* (generate_rerun_if_changed_instructions of both crates, compact_wasm_file).
FreshIsCurrent ==
  \A p \in present, e \in Env :
    (pc[p] = "idle" /\ Fresh(p, e) /\ ~e.skip) =>
      /\ generated[UnitOf(p, e)] # None
      /\ IF e.dummy THEN generated[UnitOf(p, e)].type = "dummy"
         ELSE LET b == Embedded(p, e) IN
                /\ b # None /\ b.crate = p /\ b.type = TypeOf(e)
                /\ \A f \in WatchedInputs(p) : b.from[f] = source[f]
                /\ builtWith[p] \subseteq {Enabled(p, e)} =>
                     /\ b.features = WasmFeatures(p, e)
                     /\ e.toolchain # Unset => b.cargo = e.toolchain

\* "By default the WASM binary uses the same build type as the main cargo
\* build" (wasm-builder/src/lib.rs:100): said of builds that leave
\* WASM_BUILD_TYPE unset (is_release_build).
DefaultTypeIsMainType ==
  \A p \in present, e \in Env :
    (pc[p] = "idle" /\ Fresh(p, e) /\ ~e.skip /\ ~e.dummy /\ e.type = Unset) =>
      generated[UnitOf(p, e)].type = MainType

\* While a script's cargo builds, its project is a member of the workspace
\* and every member has its folder, whatever the other scripts do
\* (WorkspaceLock, create_wasm_workspace_project).
WorkspaceIsWhole ==
  \A p \in Project :
    pc[p] = "build" =>
      job[p] \in members /\ members \subseteq folders

\* A build script that was started ends: it does not wait for a lock for
\* ever, be it the workspace's or that of the target directory its own cargo
\* holds (CARGO_TARGET_DIR in run_project), and the nested build does not
\* start a build of its own (SKIP_WASM_BUILD in build_project).
EveryBuildEnds == \A p \in Project : (pc[p] # "idle") ~> (pc[p] = "idle")
=============================================================================
