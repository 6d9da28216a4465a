---------------------------- MODULE NodeService ----------------------------
(***************************************************************************)
(* The node binary: command.rs starts a node or one of its subcommands on  *)
(* a base path, service.rs puts the service together step by step.  Most   *)
(* steps may fail and then take the process down with all it has spawned.  *)
(* Tasks may end at any time, the service notices only essential ones.     *)
(*                                                                         *)
(* The processes are those of one validator: the node itself, the sentry   *)
(* and light nodes around it with a copy of its keystore, and commands and *)
(* second instances an operator starts on a base path in use.              *)
(***************************************************************************)
EXTENDS Integers, FiniteSets

CONSTANTS Process,    \* processes of the operator
          BasePath,   \* Process -> the directory it works on
          Configs,    \* Process -> the configurations it may be started with
          Nil

Role == {"Authority", "Sentry", "Full", "Light"}
\* The subcommands that use the database, one of each kind.
Command == {"Run", "BuildSyncSpec", "CheckBlock", "ExportBlocks", "Revert", "PurgeChain"}
Config == [command : Command, role : Role, grandpa : BOOLEAN, offchain : BOOLEAN]

\* The tasks the set-up names; "services" are the import queue, the network
\* worker, RPC and telemetry, none of them essential.
Task == {"services", "offchain-worker", "babe-proposer", "authority-discovery-worker",
         "grandpa-voter"}

ASSUME ServiceAssumption ==
  /\ \A p \in Process : Configs[p] \subseteq Config
  /\ Nil \notin Process /\ Nil \notin Config

\* The operator keeps one validator: what may run as an authority works on one
\* directory.
ASSUME OneValidator ==
  \A p, q \in Process :
    (\E c \in Configs[p], d \in Configs[q] : c.role = "Authority" /\ d.role = "Authority")
      => BasePath[p] = BasePath[q]

VARIABLES config,     \* the configuration a process runs with, Nil if it does not
          step,       \* how far it has come
          database,   \* per directory: the process that has it open
          tasks,      \* the tasks of a process that run
          essential,  \* those of its tasks that are essential
          keystore,   \* whether its GRANDPA voter was given the keystore
          network,    \* whether its network was started
          failed      \* whether one of its essential tasks has ended

nodeVars == <<config, step, database, tasks, essential, keystore, network, failed>>

ServiceStep == {"down", "partial", "network", "tasks", "babe", "discovery", "grandpa", "up", "command"}

NodeTypeOK ==
  /\ config \in [Process -> Config \cup {Nil}]
  /\ step \in [Process -> ServiceStep]
  /\ database \in [{BasePath[p] : p \in Process} -> Process \cup {Nil}]
  /\ tasks \in [Process -> SUBSET Task] /\ essential \in [Process -> SUBSET Task]
  /\ keystore \in [Process -> BOOLEAN] /\ network \in [Process -> BOOLEAN]
  /\ failed \in [Process -> BOOLEAN]

NodeInit ==
  /\ config = [p \in Process |-> Nil] /\ step = [p \in Process |-> "down"]
  /\ database = [d \in {BasePath[p] : p \in Process} |-> Nil]
  /\ tasks = [p \in Process |-> {}] /\ essential = [p \in Process |-> {}]
  /\ keystore = [p \in Process |-> FALSE] /\ network = [p \in Process |-> FALSE]
  /\ failed = [p \in Process |-> FALSE]

-----------------------------------------------------------------------------
IsAuthority(c) == c.role = "Authority"
IsLight(c) == c.role = "Light"
IsNode(c) == c.command = "Run"

\* new_full_base is also used by build-sync-spec.
NeedsFull(c) == c.command = "BuildSyncSpec" \/ (IsNode(c) /\ ~IsLight(c))

Advance(p, from, to) == step[p] = from /\ step' = [step EXCEPT ![p] = to]

\* The process ends, by itself, on an error or by a signal: the runner drops
\* the task manager, and with it every task, and the database.
Exit(p) ==
  /\ step[p] # "down"
  /\ config' = [config EXCEPT ![p] = Nil] /\ step' = [step EXCEPT ![p] = "down"]
  /\ database' = [database EXCEPT ![BasePath[p]] = IF @ = p THEN Nil ELSE @]
  /\ tasks' = [tasks EXCEPT ![p] = {}] /\ essential' = [essential EXCEPT ![p] = {}]
  /\ keystore' = [keystore EXCEPT ![p] = FALSE] /\ network' = [network EXCEPT ![p] = FALSE]
  /\ failed' = [failed EXCEPT ![p] = FALSE]

\* run: the subcommand, or the node if there is none.
Run(p) ==
  /\ \E c \in Configs[p] :
       /\ config' = [config EXCEPT ![p] = c]
       /\ \/ c.command = "PurgeChain" /\ Advance(p, "down", "command")
          \/ c.command # "PurgeChain" /\ Advance(p, "down", "partial")
  /\ UNCHANGED <<database, tasks, essential, keystore, network, failed>>

Spawn(p, ts) == tasks' = [tasks EXCEPT ![p] = @ \cup ts] /\ UNCHANGED essential
SpawnEssential(p, ts) ==
  /\ tasks' = [tasks EXCEPT ![p] = @ \cup ts]
  /\ essential' = [essential EXCEPT ![p] = @ \cup ts]

\* new_full_parts opens the database, which one process can do at a time.
OpenDatabase(p) ==
  /\ database[BasePath[p]] = Nil
  /\ database' = [database EXCEPT ![BasePath[p]] = p]

\* new_partial: block import and queue.  Some subcommands need no more.
NewPartial(p) ==
  /\ OpenDatabase(p)
  /\ Spawn(p, {"services"})
  /\ \/ Advance(p, "partial", "network") /\ NeedsFull(config[p])
     \/ Advance(p, "partial", "command") /\ ~IsNode(config[p]) /\ ~NeedsFull(config[p])
  /\ UNCHANGED <<config, keystore, network, failed>>

\* The same for a light client, in the first part of new_light_base.
NewLightParts(p) ==
  /\ OpenDatabase(p)
  /\ Spawn(p, {"services"})
  /\ Advance(p, "partial", "network") /\ IsNode(config[p]) /\ IsLight(config[p])
  /\ UNCHANGED <<config, keystore, network, failed>>

OffchainWorkers(c) == IF c.offchain THEN {"offchain-worker"} ELSE {}

\* build_network and the offchain workers; a full node's network waits.
BuildNetwork(p) ==
  /\ Advance(p, "network", "tasks") /\ NeedsFull(config[p])
  /\ Spawn(p, {"services"} \cup OffchainWorkers(config[p]))
  /\ UNCHANGED <<config, database, keystore, network, failed>>

\* A light client's network starts at once.
BuildLightNetwork(p) ==
  /\ Advance(p, "network", "tasks") /\ ~NeedsFull(config[p])
  /\ Spawn(p, {"services"} \cup OffchainWorkers(config[p]))
  /\ network' = [network EXCEPT ![p] = TRUE]
  /\ UNCHANGED <<config, database, keystore, failed>>

\* spawn_tasks: RPC, telemetry and the rest.
SpawnTasks(p) ==
  /\ Spawn(p, {"services"})
  /\ Advance(p, "tasks", "babe") /\ NeedsFull(config[p])
  /\ UNCHANGED <<config, database, keystore, network, failed>>

\* With them a light client is complete.
SpawnLightTasks(p) ==
  /\ Spawn(p, {"services"})
  /\ Advance(p, "tasks", "up") /\ ~NeedsFull(config[p])
  /\ UNCHANGED <<config, database, keystore, network, failed>>

\* start_babe with an ordinary handle.
MutStartBabe(p) ==
  /\ Advance(p, "babe", "discovery")
  /\ Spawn(p, IF IsAuthority(config[p]) THEN {"babe-proposer"} ELSE {})
  /\ UNCHANGED <<config, database, keystore, network, failed>>

\* start_babe, with the keystore, on an authority only.
StartBabe(p) ==
  /\ Advance(p, "babe", "discovery")
  /\ SpawnEssential(p, IF IsAuthority(config[p]) THEN {"babe-proposer"} ELSE {})
  /\ UNCHANGED <<config, database, keystore, network, failed>>

\* The authority discovery of an authority, and of a sentry.
StartAuthorityDiscovery(p) ==
  /\ Advance(p, "discovery", "grandpa")
  /\ Spawn(p, IF config[p].role \in {"Authority", "Sentry"}
                THEN {"authority-discovery-worker"} ELSE {})
  /\ UNCHANGED <<config, database, keystore, network, failed>>

\* The keystore handed on to whoever takes part in the network as an authority.
MutKeystoreFor(c) == c.role \in {"Authority", "Sentry"}
KeystoreFor(c) == IsAuthority(c)

\* The voter, or GRANDPA disabled; then the network starts.
StartGrandpa(p) ==
  /\ \/ Advance(p, "grandpa", "up") /\ IsNode(config[p])
     \/ Advance(p, "grandpa", "command") /\ ~IsNode(config[p])
  /\ keystore' = [keystore EXCEPT ![p] = KeystoreFor(config[p])]
  /\ SpawnEssential(p, IF config[p].grandpa THEN {"grandpa-voter"} ELSE {})
  /\ network' = [network EXCEPT ![p] = TRUE]
  /\ UNCHANGED <<config, database, failed>>

\* External: a task ends.
TaskEnds(p, t) ==
  /\ t \in tasks[p] /\ tasks' = [tasks EXCEPT ![p] = @ \ {t}]
  /\ failed' = [failed EXCEPT ![p] = @ \/ t \in essential[p]]
  /\ UNCHANGED <<config, step, database, essential, keystore, network>>

\* A step of the set-up that fails.
SetupFails(p) == step[p] \notin {"down", "up", "command"} /\ Exit(p)

\* run_node_until_exit waits for the task manager, that is, for an essential
\* task to end.
UntilExit(p) == step[p] = "up" /\ failed[p] /\ Exit(p)

\* A subcommand's future ends, or an essential task does.
CommandEnds(p) == step[p] = "command" /\ Exit(p)

\* The operator stops the process.
Signal(p) == step[p] = "up" /\ Exit(p)

-----------------------------------------------------------------------------
SetUp(p) ==
  \/ NewPartial(p) \/ BuildNetwork(p) \/ SpawnTasks(p)
  \/ StartBabe(p) \/ StartAuthorityDiscovery(p) \/ StartGrandpa(p)
  \/ NewLightParts(p) \/ BuildLightNetwork(p) \/ SpawnLightTasks(p)

NodeNext ==
  \E p \in Process :
    \/ Run(p) \/ SetUp(p)
    \/ SetupFails(p) \/ UntilExit(p) \/ CommandEnds(p) \/ Signal(p)
    \/ \E t \in Task : TaskEnds(p, t)

NodeSpec == NodeInit /\ [][NodeNext]_nodeVars

\* The executor polls the set-up and the task manager.
NodeFairness ==
  \A p \in Process : WF_nodeVars(SetUp(p) \/ SetupFails(p)) /\ WF_nodeVars(UntilExit(p))

-----------------------------------------------------------------------------
\* Whether a process may sign blocks or votes: its proposer works with the
\* keystore, its voter only if it was given it.
Signs(p) ==
  \/ "babe-proposer" \in tasks[p]
  \/ "grandpa-voter" \in tasks[p] /\ keystore[p]

\* However the operator starts the nodes that hold a copy of the validator's
\* keys, twice on one base path too, and whichever tasks of theirs end, one
\* process at most can sign (the roles in new_full_base, and the database it
\* opens first).
OneSigner == \A p, q \in Process : (Signs(p) /\ Signs(q)) => p = q

Crippled(p) ==
  /\ step[p] = "up"
  /\ \/ IsAuthority(config[p]) /\ "babe-proposer" \notin tasks[p]
     \/ NeedsFull(config[p]) /\ config[p].grandpa /\ "grandpa-voter" \notin tasks[p]

\* A node that has lost its block proposer or its voter does not go on
\* without it: it comes down, whether the task ends during the set-up or
\* later (spawn_essential_handle, run_node_until_exit).
CrippledNodeStops == \A p \in Process : Crippled(p) ~> step[p] = "down"
=============================================================================
