------------------------------- MODULE MCNode -------------------------------
(* Outside the chain: "build", the build scripts of two crates p1 and p2;   *)
(* "node", the processes of one validator: v the node, s a sentry or light  *)
(* node with a copy of its keys, x whatever else is started on v's base     *)
(* path; "bench", the trie benchmarks.                                      *)
EXTENDS WasmBuild, NodeService, TrieBench, TLC

CONSTANTS p1, p2, lib,         \* crates
          data,                \* a file compiled into lib
          t1, t2, t3,          \* toolchains
          v, s, x,             \* processes
          validatorPath, sentryPath

VARIABLE scene

\* p2 and lib depend on each other, as crates do through dev-dependencies.
Deps == {<<p1, lib>>, <<lib, p2>>, <<p2, lib>>}

CratesOf == [a \in Asset |-> lib]

\* p1 has a feature of its own.
Declared == (p1 :> {"default", "std", "runtime-wasm", "extra"}) @@ (p2 :> {"default", "std"})

PlainEnv == [features |-> {"default", "std"}, skip |-> FALSE, dummy |-> FALSE, force |-> 0,
             type |-> Unset, dir |-> Unset, toolchain |-> Unset]

Envs == {PlainEnv,
         [PlainEnv EXCEPT !.skip = TRUE],
         [PlainEnv EXCEPT !.dummy = TRUE],
         [PlainEnv EXCEPT !.type = "debug", !.toolchain = t2],
         [PlainEnv EXCEPT !.dir = "relative"],
         [PlainEnv EXCEPT !.toolchain = t3],
         [PlainEnv EXCEPT !.features = @ \cup {"extra"}]}

Paths == [p \in Process |-> IF p = s THEN sentryPath ELSE validatorPath]

Started(command, role) ==
  [command |-> command, role |-> role, grandpa |-> TRUE, offchain |-> FALSE]

\* A subcommand's role is Full.
StartedWith ==
  [p \in Process |->
     CASE p = v -> {Started("Run", "Authority"), [Started("Run", "Authority") EXCEPT !.grandpa = FALSE]}
       [] p = s -> {[Started("Run", "Sentry") EXCEPT !.offchain = TRUE], Started("Run", "Light")}
       [] p = x -> {Started("Run", "Authority"), Started("BuildSyncSpec", "Full"),
                    Started("CheckBlock", "Full"), Started("PurgeChain", "Full")}]

allVars == <<buildVars, nodeVars, benchVars, scene>>

MCInit ==
  /\ scene \in {"build", "node", "bench"}
  /\ BuildInit /\ NodeInit /\ BenchInit
  /\ env = PlainEnv

OnlyBuild == scene = "build" /\ UNCHANGED <<nodeVars, benchVars, scene>>
OnlyNode == scene = "node" /\ UNCHANGED <<buildVars, benchVars, scene>>
OnlyBench == scene = "bench" /\ UNCHANGED <<buildVars, nodeVars, scene>>

\* Of the two crates only p2 is moved away.
MCNext ==
  \/ OnlyBuild /\ BuildNext /\ p1 \in present'
  \/ OnlyNode /\ NodeNext
  \/ OnlyBench /\ BenchNext

MCSpec == MCInit /\ [][MCNext]_allVars /\ BuildFairness /\ NodeFairness
=============================================================================
