---------------------------- MODULE NodeService ----------------------------
(***************************************************************************)
(* A process of the parachain node from its command line to its end: the   *)
(* subcommands that need a client, and the node itself, which assembles    *)
(* its services one fallible call after the other while the tasks spawned  *)
(* so far already run.  An early return drops the TaskManager, and with it *)
(* every task; the end of a task spawned as essential is only looked at    *)
(* once the node runs.                                                     *)
(***************************************************************************)
EXTENDS Naturals, FiniteSets

CONSTANTS
    MaxEnds   \* bound: tasks that end by themselves

ASSUME NodeAssumption == MaxEnds \in Nat

VARIABLES
    config,        \* subcommand and the options the code branches on
    stage,         \* the call about to be made
    result,        \* what run() returns
    spawned,       \* tasks spawned so far
    essential,     \* those spawned with spawn_essential_handle
    running,       \* those that have not ended
    collator_key,  \* from build_relay_chain_interface
    started,       \* start_network has been called
    imported,      \* a block has been imported or authored
    ends           \* tasks that ended by themselves

tasks == <<spawned, essential, running>>
vars == <<config, stage, result, tasks, collator_key, started, imported, ends>>

-----------------------------------------------------------------------------
(* The subcommands, by what run() does for them. *)
AsyncCommands == {"CheckBlock", "ExportBlocks", "ExportState", "ImportBlocks", "Revert"}
PartialCommands == AsyncCommands \cup {"ExportGenesisState", "BenchmarkBlock"}
ImportCommands == {"CheckBlock", "ImportBlocks"}
DisabledCommands == {"BenchmarkPallet", "BenchmarkStorage", "BenchmarkOther"}
PlainCommands == {"BuildSpec", "ExportGenesisWasm", "BenchmarkMachine"} \cup DisabledCommands
RelayCommands == {"None", "PurgeChain"}
Subcommands == PartialCommands \cup PlainCommands \cup RelayCommands \cup {"TryRuntime"}

Configs ==
    [subcommand : Subcommands,
     telemetry_endpoints : BOOLEAN, authority : BOOLEAN, embedded : BOOLEAN,
     offchain_worker : BOOLEAN, indexing_enabled : BOOLEAN, hwbench : BOOLEAN]

(* The options of a node cannot be given with a subcommand. *)
NodeOptions(c) == c.authority \/ c.embedded \/ c.offchain_worker
                  \/ c.indexing_enabled \/ c.hwbench

Init ==
    /\ config \in {c \in Configs : c.subcommand # "None" => ~NodeOptions(c)}
    /\ stage = "create_runner" /\ result = "Pending"
    /\ spawned = {} /\ essential = {} /\ running = {}
    /\ collator_key = FALSE /\ started = FALSE /\ imported = FALSE
    /\ ends = 0

-----------------------------------------------------------------------------
(* spawn_handle().spawn and spawn_essential_handle().spawn of the tasks in *)
(* ts.                                                                     *)
SpawnUnlisted(ts, vital) ==                                      \* mutant
    /\ spawned' = spawned \cup (ts \ vital)
    /\ running' = running \cup ts
    /\ essential' = essential \cup vital
Spawn(ts, vital) ==
    /\ spawned' = spawned \cup ts
    /\ running' = running \cup ts
    /\ essential' = essential \cup vital

(* `?': the error goes up to run(), and everything held on the way is      *)
(* dropped.  So is everything when a command is done.                      *)
Leave(r) ==
    /\ stage' = "Dropped" /\ result' = r
    /\ UNCHANGED <<config, tasks, collator_key, started, imported, ends>>
Err == Leave("Err")

Goto(next) ==
    /\ stage' = next
    /\ UNCHANGED <<config, result, imported, ends>>
Then(next) == Goto(next) /\ UNCHANGED <<collator_key, started>>

(* create_runner, and the branch for the subcommand; TryRuntime, without   *)
(* its feature, which is not a default one, only reports that.             *)
Entry ==
    CASE config.subcommand \in RelayCommands -> "create_configuration"
      [] config.subcommand \in PartialCommands -> "new_full_parts"
      [] OTHER -> "command"
CreateRunner ==
    /\ stage = "create_runner"
    /\ \/ Err
       \/ config.subcommand # "TryRuntime" /\ Then(Entry) /\ UNCHANGED tasks

(* The para id of the chain specification and the configuration of the     *)
(* relay chain node; a PurgeChain does only the latter.                    *)
CreateConfiguration ==
    /\ stage = "create_configuration"
    /\ \/ Err
       \/ /\ Then(IF config.subcommand = "None" THEN "new_full_parts" ELSE "command")
          /\ UNCHANGED tasks

(* new_partial: client, backend and TaskManager; then the telemetry worker *)
(* and the pool are spawned, before the import queue may fail.             *)
NewFullParts ==
    /\ stage = "new_full_parts"
    /\ \/ Err
       \/ /\ Spawn({"pool"} \cup (IF config.telemetry_endpoints
                                  THEN {"telemetry"} ELSE {}), {"pool"})
          /\ Then("build_import_queue")

BuildImportQueue ==
    /\ stage = "build_import_queue"
    /\ \/ Err
       \/ /\ Spawn({"import_queue"}, {"import_queue"})
          /\ Then(IF config.subcommand = "None" THEN "build_relay_chain_interface"
                  ELSE "command")

(* A subcommand's own work, with or without the parts of new_partial.  The *)
(* benchmarks that need the feature runtime-benchmarks, not a default one, *)
(* and those run() does not know only report that.  The blocks that        *)
(* CheckBlock and ImportBlocks put into the import queue are in            *)
(* ImportBlock.                                                            *)
RunCommand ==
    /\ stage = "command"
    /\ Err \/ (config.subcommand \notin DisabledCommands /\ Leave("Ok"))

-----------------------------------------------------------------------------
(* start_node_impl after new_partial.  Which relay chain node comes with a *)
(* collator key: the embedded one for an authority, the one behind an RPC  *)
(* always.                                                                 *)
HasCollatorKey(c) == c.authority \/ ~c.embedded

BuildRelayChainInterface ==
    /\ stage = "build_relay_chain_interface"
    /\ \/ Err
       \/ /\ Spawn({"relay_chain"}, {"relay_chain"})
          /\ collator_key' = HasCollatorKey(config)
          /\ Goto("build_network") /\ UNCHANGED started

(* The network waits for start_network. *)
StartAtOnce ==                                                   \* mutant
    /\ stage = "build_network"
    /\ Spawn({"network"}, {}) /\ started' = TRUE
    /\ Goto("offchain_worker") /\ UNCHANGED collator_key
BuildNetwork ==
    /\ stage = "build_network"
    /\ Err \/ (Spawn({"network"}, {}) /\ Then("offchain_worker"))

SpawnOffchainWorker ==
    /\ stage = "offchain_worker"
    /\ IF config.offchain_worker THEN Spawn({"offchain_worker"}, {}) ELSE UNCHANGED tasks
    /\ Then("spawn_tasks")

(* spawn_tasks calls rpc_builder, create_full of rpc.rs, which fails when  *)
(* a module cannot be merged or the backend has no offchain storage.       *)
SpawnTasks ==
    /\ stage = "spawn_tasks"
    /\ Err \/ (Spawn({"rpc"}, {}) /\ Then("mmr_gadget"))

SpawnPlain ==                                                    \* mutant
    /\ stage = "mmr_gadget"
    /\ IF config.indexing_enabled THEN Spawn({"mmr_gadget"}, {}) ELSE UNCHANGED tasks
    /\ Then("hwbench")
SpawnMmrGadget ==
    /\ stage = "mmr_gadget"
    /\ IF config.indexing_enabled
       THEN Spawn({"mmr_gadget"}, {"mmr_gadget"}) ELSE UNCHANGED tasks
    /\ Then("hwbench")

SpawnHwbenchTelemetry ==
    /\ stage = "hwbench"
    /\ IF config.hwbench /\ config.telemetry_endpoints
       THEN Spawn({"telemetry_hwbench"}, {}) ELSE UNCHANGED tasks
    /\ Then("overseer_handle")

OverseerHandle ==
    /\ stage = "overseer_handle"
    /\ Err \/ (Then("start_consensus") /\ UNCHANGED tasks)

(* A validator builds its consensus, takes the collator key with expect,   *)
(* and starts as a collator; others start as a full node.                  *)
StartConsensus ==
    /\ stage = "start_consensus"
    /\ \/ Err
       \/ IF config.authority /\ ~collator_key THEN Leave("Panic")
          ELSE Spawn({"consensus"}, {"consensus"}) /\ Then("start_network")

StartNetwork ==
    /\ stage = "start_network"
    /\ started' = TRUE
    /\ Goto("Running") /\ UNCHANGED <<tasks, collator_key>>
-----------------------------------------------------------------------------
(* A task may end by itself at any time, also before the node runs. *)
TaskEnds(t) ==
    /\ stage # "Dropped" /\ t \in running /\ ends < MaxEnds
    /\ running' = running \ {t}
    /\ ends' = ends + 1
    /\ UNCHANGED <<config, stage, result, spawned, essential, collator_key,
                   started, imported>>

(* Blocks come from the network, from the recovery that the consensus      *)
(* services start, from this node's own collator, or from the file or the  *)
(* database that ImportBlocks and CheckBlock read.                         *)
ImportBlock ==
    /\ stage # "Dropped" /\ ~imported
    /\ \/ "import_queue" \in running /\ started /\ "network" \in running
       \/ "import_queue" \in running /\ "consensus" \in running
       \/ config.authority /\ "consensus" \in running
       \/ /\ stage = "command" /\ config.subcommand \in ImportCommands
          /\ "import_queue" \in running
    /\ imported' = TRUE
    /\ UNCHANGED <<config, stage, result, tasks, collator_key, started, ends>>

(* run_node_until_exit: the TaskManager's future ends when an essential    *)
(* task has ended, and the wait for it when a signal comes.                *)
NoticeEssentialEnd == stage = "Running" /\ ~(essential \subseteq running) /\ Err
Signal == stage = "Running" /\ Leave("Ok")

(* Tasks stop, each in its time, once the TaskManager is dropped. *)
StopTask(t) ==
    /\ stage = "Dropped" /\ t \in running
    /\ running' = running \ {t}
    /\ UNCHANGED <<config, stage, result, spawned, essential, collator_key,
                   started, imported, ends>>

Tasks == {"telemetry", "pool", "import_queue", "relay_chain", "network",
          "offchain_worker", "rpc", "mmr_gadget", "telemetry_hwbench", "consensus"}

StartNode ==
    \/ BuildRelayChainInterface \/ BuildNetwork \/ SpawnOffchainWorker
    \/ SpawnTasks \/ SpawnMmrGadget \/ SpawnHwbenchTelemetry
    \/ OverseerHandle \/ StartConsensus \/ StartNetwork

Next ==
    \/ CreateRunner \/ CreateConfiguration \/ NewFullParts \/ BuildImportQueue
    \/ RunCommand \/ StartNode
    \/ ImportBlock \/ NoticeEssentialEnd \/ Signal
    \/ \E t \in Tasks : TaskEnds(t) \/ StopTask(t)

Spec == Init /\ [][Next]_vars

(* The runner polls the TaskManager as long as the node runs, and the      *)
(* executor drops tasks that were told to stop.  No call of the start-up   *)
(* is assumed to return.                                                   *)
FairSpec ==
    /\ Spec
    /\ WF_vars(NoticeEssentialEnd)
    /\ \A t \in Tasks : WF_vars(StopTask(t))

-----------------------------------------------------------------------------
Stages == {"create_runner", "create_configuration", "new_full_parts",
           "build_import_queue", "command", "build_relay_chain_interface",
           "build_network", "offchain_worker", "spawn_tasks", "mmr_gadget",
           "hwbench", "overseer_handle", "start_consensus", "start_network",
           "Running", "Dropped"}

(* The variables have their types, and only spawned tasks run. *)
TypeOK ==
    /\ config \in Configs
    /\ stage \in Stages
    /\ result \in {"Pending", "Ok", "Err", "Panic"}
    /\ spawned \subseteq Tasks /\ essential \subseteq spawned /\ running \subseteq spawned
    /\ collator_key \in BOOLEAN /\ started \in BOOLEAN /\ imported \in BOOLEAN
    /\ ends \in 0..MaxEnds

(* Whatever starts to work while the start-up is still going on: a node    *)
(* imports or authors no block before the RPC server is there to be asked  *)
(* about it and, where offchain indexing is on, before the MMR gadget is.  *)
(* (CheckBlock and ImportBlocks import without either.)                    *)
BlocksFindServices ==
    config.subcommand = "None" /\ imported =>
        /\ "rpc" \in spawned
        /\ config.indexing_enabled => "mmr_gadget" \in spawned

(* A node does not go on without its pool, import queue or MMR gadget,     *)
(* even if they ended while it was starting: it ends, and all its tasks    *)
(* with it.                                                                *)
EssentialEndStopsNode ==
    (stage = "Running" /\ \E t \in {"pool", "import_queue", "mmr_gadget"} :
                              t \in spawned \ running)
        ~> (result # "Pending" /\ running = {})
=============================================================================
