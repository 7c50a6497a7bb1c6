------------------------- MODULE NodeServiceProofs -------------------------
(***************************************************************************)
(* The safety of the node's start-up, for any number of tasks that end by  *)
(* themselves.                                                             *)
(***************************************************************************)
EXTENDS NodeService, TLAPS

(* The inductive invariant: what has been spawned when the start-up gets   *)
(* to a stage, and that a node's blocks can only come in through the       *)
(* network once started or through the consensus services, both of which   *)
(* are last.                                                               *)
Ready == "rpc" \in spawned /\ (config.indexing_enabled => "mmr_gadget" \in spawned)
Assembled == {"hwbench", "overseer_handle", "start_consensus", "start_network", "Running"}
NodeInv ==
    /\ TypeOK
    /\ stage = "mmr_gadget" => "rpc" \in spawned
    /\ stage \in Assembled => Ready
    /\ started \/ "consensus" \in spawned => Ready
    /\ BlocksFindServices

LEMMA InitNodeInv == Init => NodeInv
  <1> SUFFICES ASSUME Init PROVE NodeInv
    OBVIOUS
  <1>1. TypeOK
    <2>1. config \in Configs
      BY DEF Init
    <2>2. collator_key \in BOOLEAN /\ started \in BOOLEAN /\ imported \in BOOLEAN
      BY DEF Init
    <2>3. stage \in Stages /\ result \in {"Pending", "Ok", "Err", "Panic"}
      BY DEF Init, Stages
    <2>4. /\ spawned \subseteq Tasks /\ essential \subseteq spawned
          /\ running \subseteq spawned
      BY DEF Init
    <2>5. ends \in 0..MaxEnds
      BY NodeAssumption DEF Init
    <2>6. QED
      BY <2>1, <2>2, <2>3, <2>4, <2>5 DEF TypeOK
  <1>2. stage = "create_runner" /\ result = "Pending" /\ spawned = {}
        /\ ~started /\ ~imported
    BY DEF Init
  <1>3. QED
    BY <1>1, <1>2 DEF NodeInv, Assembled, BlocksFindServices

(* Leaving keeps everything but stage and result. *)
LEMMA LeaveNodeInv ==
    ASSUME NodeInv, NEW r \in {"Ok", "Err", "Panic"}, Leave(r)
    PROVE  NodeInv'
  BY DEF Leave, tasks, NodeInv, TypeOK, Stages, Ready, Assembled, BlocksFindServices

(* One call of the start-up that succeeds without touching key or network. *)
LEMMA ThenNodeInv ==
    ASSUME NodeInv, NEW next \in Stages, Then(next),
           NEW ts \in SUBSET Tasks, NEW vital \in SUBSET ts, Spawn(ts, vital),
           next = "mmr_gadget" => "rpc" \in ts,
           next \in Assembled => Ready',
           "consensus" \in ts => Ready
    PROVE  NodeInv'
  BY DEF Then, Goto, Spawn, tasks, NodeInv, TypeOK, Ready, BlocksFindServices

(* The same where nothing is spawned. *)
LEMMA IdleNodeInv ==
    ASSUME NodeInv, NEW next \in Stages, Then(next), UNCHANGED tasks,
           next # "mmr_gadget", next \in Assembled => Ready
    PROVE  NodeInv'
  <1>1. Spawn({}, {})
    BY DEF Spawn, tasks
  <1>2. next \in Assembled => Ready'
    BY DEF Ready, tasks, Then, Goto
  <1>3. QED
    BY <1>1, <1>2, ThenNodeInv

-----------------------------------------------------------------------------
LEMMA NextNodeInv == NodeInv /\ [Next]_vars => NodeInv'
  <1> SUFFICES ASSUME NodeInv, [Next]_vars PROVE NodeInv'
    OBVIOUS
  <1> USE DEF Err
  <1>1. CASE CreateRunner
    <2>1. Entry \in {"create_configuration", "new_full_parts", "command"}
      BY DEF Entry
    <2>2. Entry \in Stages /\ Entry \notin Assembled /\ Entry # "mmr_gadget"
      BY <2>1 DEF Stages, Assembled
    <2>3. QED
      BY <1>1, <2>2, LeaveNodeInv, IdleNodeInv DEF CreateRunner
  <1>2. CASE CreateConfiguration
    <2> DEFINE next == IF config.subcommand = "None" THEN "new_full_parts" ELSE "command"
    <2>1. next \in Stages /\ next \notin Assembled /\ next # "mmr_gadget"
      BY DEF Stages, Assembled
    <2>2. Err \/ (Then(next) /\ UNCHANGED tasks)
      BY <1>2 DEF CreateConfiguration
    <2> HIDE DEF next
    <2>3. QED
      BY <2>1, <2>2, LeaveNodeInv, IdleNodeInv
  <1>3. CASE NewFullParts
    <2> DEFINE ts == {"pool"} \cup (IF config.telemetry_endpoints THEN {"telemetry"} ELSE {})
    <2>1. /\ ts \in SUBSET Tasks /\ {"pool"} \in SUBSET ts
          /\ "consensus" \notin ts
      BY DEF Tasks
    <2>2. "build_import_queue" \in Stages /\ "build_import_queue" \notin Assembled
      BY DEF Stages, Assembled
    <2>3. Err \/ (Spawn(ts, {"pool"}) /\ Then("build_import_queue"))
      BY <1>3 DEF NewFullParts
    <2> HIDE DEF ts
    <2>4. QED
      BY <2>1, <2>2, <2>3, LeaveNodeInv, ThenNodeInv
  <1>4. CASE BuildImportQueue
    <2> DEFINE next == IF config.subcommand = "None" THEN "build_relay_chain_interface"
                       ELSE "command"
    <2>1. next \in Stages /\ next \notin Assembled /\ next # "mmr_gadget"
      BY DEF Stages, Assembled
    <2>2. Err \/ (Spawn({"import_queue"}, {"import_queue"}) /\ Then(next))
      BY <1>4 DEF BuildImportQueue
    <2>3. {"import_queue"} \in SUBSET Tasks /\ "consensus" \notin {"import_queue"}
      BY DEF Tasks
    <2> HIDE DEF next
    <2>4. QED
      BY <2>1, <2>2, <2>3, LeaveNodeInv, ThenNodeInv
  <1>5. CASE RunCommand
    BY <1>5, LeaveNodeInv DEF RunCommand
  <1>6. CASE BuildRelayChainInterface
    <2>1. CASE Err
      BY <2>1, LeaveNodeInv
    <2>2. CASE /\ Spawn({"relay_chain"}, {"relay_chain"})
               /\ collator_key' = HasCollatorKey(config)
               /\ Goto("build_network") /\ UNCHANGED started
      BY <2>2 DEF Spawn, Goto, HasCollatorKey, NodeInv, TypeOK, Configs, Stages, Tasks, Ready,
                  Assembled, BlocksFindServices
    <2>3. QED
      BY <1>6, <2>1, <2>2 DEF BuildRelayChainInterface
  <1>7. CASE BuildNetwork
    <2>1. /\ "offchain_worker" \in Stages /\ "offchain_worker" \notin Assembled
          /\ {"network"} \in SUBSET Tasks /\ "consensus" \notin {"network"}
      BY DEF Stages, Assembled, Tasks
    <2>2. QED
      BY <1>7, <2>1, LeaveNodeInv, ThenNodeInv DEF BuildNetwork
  <1>8. CASE SpawnOffchainWorker
    <2>1. /\ "spawn_tasks" \in Stages /\ "spawn_tasks" \notin Assembled
          /\ {"offchain_worker"} \in SUBSET Tasks /\ "consensus" \notin {"offchain_worker"}
      BY DEF Stages, Assembled, Tasks
    <2>2. QED
      BY <1>8, <2>1, IdleNodeInv, ThenNodeInv DEF SpawnOffchainWorker
  <1>9. CASE SpawnTasks
    <2>1. /\ "mmr_gadget" \in Stages /\ "mmr_gadget" \notin Assembled
          /\ {"rpc"} \in SUBSET Tasks /\ "consensus" \notin {"rpc"}
      BY DEF Stages, Assembled, Tasks
    <2>2. QED
      BY <1>9, <2>1, LeaveNodeInv, ThenNodeInv DEF SpawnTasks
  <1>10. CASE SpawnMmrGadget
    <2>1. /\ "hwbench" \in Stages
          /\ {"mmr_gadget"} \in SUBSET Tasks /\ "consensus" \notin {"mmr_gadget"}
      BY DEF Stages, Tasks
    <2>2. stage = "mmr_gadget" /\ "rpc" \in spawned /\ Then("hwbench")
      BY <1>10 DEF SpawnMmrGadget, NodeInv
    <2>3. CASE config.indexing_enabled
      <3>1. Spawn({"mmr_gadget"}, {"mmr_gadget"})
        BY <1>10, <2>3 DEF SpawnMmrGadget
      <3>2. Ready'
        BY <2>2, <3>1 DEF Spawn, Ready
      <3>3. QED
        BY <2>1, <2>2, <3>1, <3>2, ThenNodeInv
    <2>4. CASE ~config.indexing_enabled
      <3>1. Ready /\ UNCHANGED tasks
        BY <1>10, <2>2, <2>4 DEF SpawnMmrGadget, Ready
      <3>2. QED
        BY <2>1, <2>2, <3>1, IdleNodeInv
    <2>5. QED
      BY <2>3, <2>4
  <1>11. CASE SpawnHwbenchTelemetry
    <2>1. /\ "overseer_handle" \in Stages
          /\ {"telemetry_hwbench"} \in SUBSET Tasks /\ "consensus" \notin {"telemetry_hwbench"}
          /\ "hwbench" \in Assembled
      BY DEF Stages, Assembled, Tasks
    <2>2. Ready /\ stage = "hwbench" /\ Then("overseer_handle")
      BY <1>11, <2>1 DEF SpawnHwbenchTelemetry, NodeInv
    <2>3. Spawn({"telemetry_hwbench"}, {}) => Ready'
      BY <2>2 DEF Spawn, Ready, Then, Goto
    <2>4. QED
      BY <1>11, <2>1, <2>2, <2>3, IdleNodeInv, ThenNodeInv DEF SpawnHwbenchTelemetry
  <1>12. CASE OverseerHandle
    <2>1. /\ "start_consensus" \in Stages
          /\ "overseer_handle" \in Assembled
      BY DEF Stages, Assembled
    <2>2. QED
      BY <1>12, <2>1, LeaveNodeInv, IdleNodeInv DEF OverseerHandle, NodeInv
  <1>13. CASE StartConsensus
    <2>1. /\ "start_network" \in Stages
          /\ {"consensus"} \in SUBSET Tasks
          /\ "start_consensus" \in Assembled
      BY DEF Stages, Assembled, Tasks
    <2>2. Ready
      BY <1>13, <2>1 DEF StartConsensus, NodeInv
    <2>3. \/ Leave("Err") \/ Leave("Panic")
          \/ Spawn({"consensus"}, {"consensus"}) /\ Then("start_network")
      BY <1>13, <2>2 DEF StartConsensus
    <2>4. Spawn({"consensus"}, {"consensus"}) /\ Then("start_network") => Ready'
      BY <2>2 DEF Spawn, Ready, Then, Goto
    <2>5. QED
      BY <2>1, <2>2, <2>3, <2>4, LeaveNodeInv, ThenNodeInv
  <1>14. CASE StartNetwork
    <2>1. Ready
      BY <1>14 DEF StartNetwork, NodeInv, Assembled
    <2>2. QED
      BY <1>14, <2>1 DEF StartNetwork, Goto, tasks, NodeInv, TypeOK, Stages, Ready,
                         Assembled, BlocksFindServices
  <1>15. CASE ImportBlock
    <2>1. config.subcommand = "None" => Ready
      BY <1>15 DEF ImportBlock, ImportCommands, NodeInv, TypeOK
    <2>2. QED
      BY <1>15, <2>1 DEF ImportBlock, tasks, NodeInv, TypeOK, Ready, BlocksFindServices
  <1>16. CASE NoticeEssentialEnd \/ Signal
    BY <1>16, LeaveNodeInv DEF NoticeEssentialEnd, Signal
  <1>17. ASSUME NEW t \in Tasks, TaskEnds(t) PROVE NodeInv'
    BY <1>17, NodeAssumption DEF TaskEnds, NodeInv, TypeOK, Ready, BlocksFindServices
  <1>18. ASSUME NEW t \in Tasks, StopTask(t) PROVE NodeInv'
    BY <1>18 DEF StopTask, NodeInv, TypeOK, Ready, BlocksFindServices
  <1>19. CASE UNCHANGED vars
    BY <1>19 DEF vars, tasks, NodeInv, TypeOK, Ready, BlocksFindServices
  <1>20. QED
    BY <1>1, <1>2, <1>3, <1>4, <1>5, <1>6, <1>7, <1>8, <1>9, <1>10, <1>11, <1>12,
       <1>13, <1>14, <1>15, <1>16, <1>17, <1>18, <1>19 DEF Next, StartNode

-----------------------------------------------------------------------------
(* The variables keep their types, and only spawned tasks run. *)
THEOREM NodeTypeCorrect == Spec => []TypeOK
  <1>1. NodeInv => TypeOK
    BY DEF NodeInv
  <1>2. QED
    BY <1>1, InitNodeInv, NextNodeInv, PTL DEF Spec

(* No block comes into a node before the RPC server and, with offchain     *)
(* indexing, the MMR gadget are there, whatever fails or ends meanwhile.   *)
THEOREM BlocksFindServicesReady == Spec => []BlocksFindServices
  <1>1. NodeInv => BlocksFindServices
    BY DEF NodeInv
  <1>2. QED
    BY <1>1, InitNodeInv, NextNodeInv, PTL DEF Spec
=============================================================================
