# XCMP prototype: TLA+ specifications, model checking and proofs

This directory specifies the parts of the XCMP prototype that have state and can go
wrong by ordering: the message stuffer pallet, the sender's runtime around it, the
relayer, the start-up of the node and its production of blocks. Every definition follows
the code under `src/`; `PROJECT.json` maps each one to the lines it models.

## The system

A message from parachain A to parachain B is proved in four tiers.

| stage | structure | leaf | where its root is |
|---|---|---|---|
| 4 | channel message MMR | messages of a block (`leaf_data`) | leaf of stage 3 |
| 3 | binary Merkle tree over the channel MMR roots | channel MMR root | digest of the sender's header |
| 2 | binary Merkle tree over the para heads | head data (header) | `leaf_extra` of a BEEFY MMR leaf |
| 1 | BEEFY MMR | BEEFY leaf | the root the verifying chain recorded |

### Inventory

| part | state | operations | interacts with |
|---|---|---|---|
| message stuffer pallet (`pallets/xcmp_message_stuffer`) | `XcmpChannelRoots`, `SeenBeefyRoots`, `SeenBeefyRootsOrder` | `on_initialize`, `update_root`, `submit_test_proof`, `submit_xcmp_proof`; `leaf_data` for pallet_mmr | ParachainSystem (BEEFY root), pallet_mmr, the relayer's transactions |
| sender runtime (`runtime`) | outbound pages, two channel MMRs, header digests | `get_xcmp_messages`, `collect_roots`, `gen_merkle_proof`, MMR and BEEFY root APIs | XcmpQueue, ParachainSystem, pallet_mmr; read by the relayer |
| relayer collectors (`xcmp_relayer`) | `LEAVES_BEEFY_MMR_MAP`, `PARA_HEADERS_MAP`, `MSG_ROOT_MAP`, `MSG_ROOT_CHANNEL_MERKLE_MAP`, `CHANNEL_ROOT_PROOF_MAP` | `collect_relay_data`, `collect_para_data` | relay node, sender node, submitter |
| relayer submitter | locals of `generate_xcmp_proof`; removes from `MSG_ROOT_MAP` | `generate_xcmp_proof`, `submit_xcmp_proof` | the four maps, the chain |
| relayer test loop | `root`, `proof`, `onchain_root`; `XcmpChannelRoots[0]` on chain | `get_proof_and_verify`, `update_root`, `submit_proof` | sender node and pallet |
| relayer loggers | `mmr_blocks_to_query`, `mmr_blocks_benchmark_counter`, `proof_sizes` | `log_all_*`, `do_mean` | the nodes; none of the shared state |
| template pallet | `Something` | `do_something`, `cause_error` | not in the runtime |
| node service (`node/src/service.rs`, `command.rs`) | the call reached, tasks spawned and running, collator key | `run`, `new_partial`, `start_node_impl`, `run_node_until_exit` | relay chain node, network, Substrate services |
| block production (`build_consensus`, `build_import_queue`, `CheckInherents`) | clocks, slots, timestamps and relay parents of heads | propose, import, check inherents | Timestamp, Aura, ParachainSystem, relay chain |
| weights, chain specs, XCM configuration | none | constants | Substrate pallets |

What makes it hard: three tasks that share maps only through `try_lock` and drop their
work when it fails; tasks that work, or end, while the node is still starting; clocks that
differ; values read from different blocks by separate calls; map entries
overwritten between two lookups of one proof; siblings that commit to the same messages;
tasks that end on the first failed call; a verifier whose four stages are chained by equalities between
parts of its input. `PROJECT.json` lists these hazards at the lines where they bite,
each with the properties that would catch it.

## Modules

**XcmpVerification** holds the check of `submit_xcmp_proof` as a pure operator,
`XcmpVerdict`: the first error in the order of the code, `"Panic"` for the index into
an empty vector and the failed integer conversions, or `"Ok"`. Hashing is ideal: a
root stands for one structure, and what it commits to is passed in as operators
(`MmrHas`, `TreeHas`, `LeafExtra`, `ChannelRoot`). An MMR proof is `[of, leaves]`; a
Merkle proof is `[root, leaf, path, wide]`.

**MessageStuffer** is one instance of the pallet: its three storage items, the hook and
the extrinsics as actions. An extrinsic that fails changes no storage. Three history
variables record what the provider returned and what was accepted; they are not
storage. `MCMessageStuffer` gives it a small world: two BEEFY roots, two headers, two
message MMRs, a header without digest, undecodable leaves and headers, and as inputs the
two genuine proofs, every variation of one component, and splices of the two.

**Sender** is the sender's runtime over blocks: `InitializeBlock` (the MMRs take a leaf
each before the transactions), `SendXcm`, `FinalizeBlock` (pages are taken from the
queue, the digest is made), and the runtime APIs as operators on the state. XcmpQueue,
pallet_mmr and ParachainSystem are outside the repository and modelled by how they are
used: pages lie at increasing indices from 0, any number of the oldest is taken at the
end of a block, and the indices start again at 0 when none is left. The APIs that take the id of
an MMR fail for ids other than 0 and 1. The stuffers' part of `on_initialize` is in MessageStuffer. The constant
prefix `[1, 2, 3]` of every leaf's buffer is left out.

**Channel** is Sender with the rest of the way: the relay chain, which includes finished
blocks of the sender beside a head of another parachain and makes a BEEFY leaf from the heads
after the previous block, and a recipient, whose stuffer records the BEEFY root of its relay
parent and checks proofs by `XcmpVerdict`. A root is the structure it commits to, so that "the
leaf is under the root" is computed and not assumed. The relayer is not in it: the properties
are about every proof that could be put together, at any time. `MCChannel` adds one
parachain with a channel of its own.

**Relayer** is the two collectors and `generate_xcmp_proof`, with the relay chain and the
sender's blocks around them. A step ends where a task awaits or releases a mutex. A
`try_lock` may fail whenever another task stands at a step that uses the same map.
`?` on a failed call ends a task (`RelayFault`, `ParaFault`, `SubmitFault`). Relay leaf
`n` commits to the heads after block `n - 1`; a sender block is built on the best block or
on the included head, so that siblings and orphans occur; each block records a BEEFY root
no older than its parent's. The leaf of a sender block is made in `on_initialize`, from the
state, number and hash of its parent, so messages, message root and channels root are those
of the parent `p` (`Messages(p)`, `MsgRoot(p)`, `ChannelsRoot(p)`): siblings share them, and
share the keys of the maps. A block that becomes best a second time is to the collector like
one more sibling. `rank` orders the message roots as BTreeMap keys: any order, since they are
hashes. The submitted proof is judged by `XcmpVerdict` in a block built on the best one, after
its `on_initialize` recorded one more root. Decoding of well-formed answers cannot fail and
has no step. The relayer starts when the sender has `StartPara` blocks and the relay chain one
of the heads in `StartHeads`. Relay chain forks are left out. `MCRelayer` gives the orders that
make a difference within the bounds.

**Delivery** is what Relayer promises about messages, known by their root, without maps, locks
or tasks: a root is held at most once at a time, taken alone and only once the relay chain
has included a block with it, and then handed over or lost; only the collection of another
block with it brings it back. The refinement mapping is in Relayer: the roots held are the keys
of `MSG_ROOT_MAP`, the one taken is that of the submitter before its transaction (`InHand`),
those handed over are in `submissions`. Delivery is not "at most once": a collector that lags
behind inserts a submitted root again for a sibling. Nothing in the repository promises that
messages are submitted once, and `submit_xcmp_proof` accepts a proof again.

**TestProofLoop** is the other half of `get_proof_and_verify`: read the channel root on
chain, write the relayer's own, submit the proof of leaf 1 if the two were equal, then
fetch a new root and a new proof in two calls. The read, `storage().at_latest()`, is at the
latest finalized block, while transactions are executed at the best one; `roots` has the values
of the item between the two. Best blocks are not retracted in this module. The node verifies the
first root and proof; if they do not fit, the call is an error and the program ends
(`VerifyFirst`). The loop shares no state with `generate_xcmp_proof`, whose result it ignores.
The relayer is the only writer of the channel root in this module.

**MmrRequests** is the tasks that only watch: `log_all_blocks` (for the sender's client),
`log_all_mmr_roots` and `log_all_mmr_proofs`, each with its own subscription. Best blocks rise,
skip numbers and replace each other. `log_all_mmr_proofs` asks in every round for one
block more than before; block 1 is asked for twice from the second round on, which
pallet_mmr is taken to allow.

**NodeService** is one process of the node. `stage` is the call about to be made; every call
followed by `?` may fail, and then drops the TaskManager with all tasks spawned so far. Tasks
run from the moment they are spawned, so a task may end, and a block arrive, in the middle of
the start-up. The subcommands are those of a build with default features, told apart by what
`run` builds for them: `TryRuntime` fails before a runner exists, `BenchmarkPallet`,
`BenchmarkStorage` and the benchmarks that `run` does not know (`BenchmarkOther`) can only
fail, `CheckBlock` and `ImportBlocks` import blocks with neither RPC server nor MMR gadget. The
options of the configuration that the code branches on are chosen in `Init`. The services
themselves are external, and so is which relay chain node comes with a collator key.

**BlockTime** is the time of block production, in milliseconds. A collator takes the relay
chain's tip, awaits the parachain inherent, and only then reads its clock; time passes and
relay blocks come in between. `Execute` is the runtime's verdict, the assertions of pallet_aura,
ParachainSystem and pallet_timestamp under their configuration, `Verifies` that of another node's import queue and
`check_inherents` that of the relay chain's validators. pallet_timestamp, pallet_aura and the
relay chain are external.

**MessageStufferProofs**, **SenderProofs**, **RelayerProofs**, **TestProofLoopProofs**,
**MmrRequestsProofs**, **NodeServiceProofs** and **BlockTimeProofs** hold the theorems.
**RelayerJobProofs** has the invariant of Relayer and the part of its proof that is about the
chains, the maps and the locals of `generate_xcmp_proof`; RelayerProofs builds on it.

Definitions marked `mutant` are altered copies of the definition that follows them; no
specification uses them. Substituted for it, each must break a property, which shows
that the property depends on that piece of code.

## Runs

| run | checks | shows |
|---|---|---|
| stuffer | `TypeOK`, `SeenMatchesOrder`, `VerifiableStaysVerifiable`, `AcceptedIsCommitted`, `CommittedIsAccepted` | map and vector of seen roots agree; a verifiable proof stays verifiable; only committed messages are accepted, never under the default root, and all of them can be |
| relayer | `TypeOK`, `SubmissionsCoherent`, `SubmittedOncePerBlock`, `SubmittedWasIncluded`, `RemovedWithProof`, `DeliversAsPromised` | stages always fit together; messages are submitted at most once per collected block that commits to them, and only after such a block was included; Relayer implements Delivery |
| relayer_progress | `ProvableIsSubmitted` | a root whose proof is complete and no longer replaced is submitted, unless a smaller one without a proof is in front |
| channel | `TypeOK`, `ApisFitHeader`, `HeadersKeepHistory`, `LeavesInOrder`, `IncludedCanBeReceived`, `ReceivedWasSent` | the APIs fit the header of the same block, which is what Relayer takes for granted; leaves keep the order of the pages; a recipient accepts from the sender only what it sent, and can be shown all that was included |
| test_proof_loop | `TypeOK`, `MatchIsSettled`, `RefusedOnlyWhenRaced`, `KeepsSubmitting` | a root that was found equal at the finalized block is that of all blocks since; test proofs are refused only for a race of the two fetches; the loop keeps submitting |
| mmr_requests | `TypeOK`, `QueryFollowsRounds`, `RefusedOnlyByForks`, `MeanWithinSizes` | the proof log ends on a refusal only after a start at genesis or enough forks; the mean it logs lies between the sizes |
| node_service | `TypeOK`, `BlocksFindServices`, `EssentialEndStopsNode` | a node imports no block before the RPC server and the MMR gadget are there; one that lost an essential task ends, with all its tasks |
| block_time | `TypeOK`, `FailsOnlyInOldSlots`, `HonestBlocksAccepted`, `HeadsAdvance` | a proposal fails only in a slot not newer than its parent's; no honest block is refused for its time; heads advance in slot, time and relay parent |

Four runs show that the code differs from what is written about it (`findings`):

| run | statement | what happens |
|---|---|---|
| stuffer_order_bound | the vector is bounded by `MaxBeefyRootsKept` | `force_from` keeps any length, one more entry per block |
| relayer_entry_verifies | `(BeefyMmrRoot, Proof)`, the root "needed to verify proof" | root of the best block, proof of an older one |
| relayer_stage3 | the channel proof "doesnt exist yet" | dropped on a contended lock, it never comes; the first key blocks the rest |
| sender_aggregates_all | "we aggregate all the fragments destined to a particular Parachain per block" | `get_xcmp_messages` starts at index 0, which is empty after a drain of some pages: the leaf holds none of those that wait |

Eight more differences are plain from a few lines and have no run:

- A page sent and drained in one block gets into no leaf, as leaves are made before the
  block's transactions (`runtime/src/lib.rs:627`), while `README.md:38` says the sender "Adds the
  message as a leaf".
- A proof is submitted as soon as it is complete (`xcmp_relayer/src/main.rs:641`), often before
  the chain has seen the BEEFY root it targets; it is then refused and not retried, while
  `README.md:55` says "receipient has the Beefy Mmr Root". `SubmissionsCoherent` names this
  verdict as one of the three that occur.
- `log_all_mmr_roots` logs the root at the node's best block with the hash of the
  subscription's block (`xcmp_relayer/src/main.rs:821`).
- The proof goes to the client of the sender (`xcmp_relayer/src/main.rs:641`), while
  `README.md:50` says `ParaB`'s extrinsic.
- `get_current_beefy_root` returns 32 ones without a root (`runtime/src/lib.rs:758`), while
  its comment says `H256::zero()`.
- `update_root` stores any root (`pallets/xcmp_message_stuffer/src/lib.rs:202`), while the
  comment on the storage, line 89, says "verified against current Relay Chain Beefy Root".
- Every queued page goes into a leaf (`runtime/src/lib.rs:489`), while `README.md:16` assumes
  a single XCMP message per block.
- `log_all_mmr_proofs` stores proof sizes (`xcmp_relayer/src/main.rs:857`), while the comment
  above it says "stick proof len minus previous proof len in a vector".

### Bounds

- stuffer: blocks and `MaxBeefyRootsKept` are small enough to outgrow the bound, and
  large enough for a root to come back and to be missing. Proof inputs vary one
  component at a time, so every check of the verifier is the first to fail for some
  input, and splice two proofs, so that a missing check lets one through.
- relayer: three relay blocks are the least with which a block is included, committed to by the
  next BEEFY leaf and submitted. Of the three sender blocks the relayer collects the second,
  best when it starts, and a third, which may be a sibling of the second, collected before or
  after the second's messages were submitted, or be built on it. The relay chain starts with
  the sender's head 0 (no digest: the relay collector ends) or 1. One change of the other heads
  gives two BEEFY leaves that differ for one head of the sender; one failed call ends one task
  at any point. Blocks of the sender record the default root or the newest BEEFY root
  (`RelayParents`), so that both verdicts occur. Two message roots are collected, so two orders
  are all.
- relayer_progress: the same chains from head 2, so that proofs become complete and are replaced,
  without failures, since a task that ended submits nothing more.
- channel: three blocks of the sender, two pages a channel: pages kept over blocks, a drained
  front and a restart of the indices. Three relay blocks: a head that stays, one that is
  replaced, and a root seen after each. Stages 1 to 3 are all those that verify by themselves,
  from any blocks and either parachain, and the leaf is any leaf of any MMR.
- test_proof_loop: four blocks and two faults: roots that are written and not yet finalized when
  the next one is, updates and submissions that are lost.
- mmr_requests: four announcements over best blocks 0 to 3, one fault, two proof sizes: every
  start, skips, and forks long enough that the third round asks for a missing block.
- node_service: every subcommand of the default build and every combination of options; two tasks that end by
  themselves, so that a second one ends after the first went unnoticed.
- block_time: two collators, clocks that agree, differ by a part of a slot or by a whole one,
  two slots of time in steps of 3 seconds, one relay block while a collator awaits: blocks on
  each other, timestamps that have to be raised, and relay parents that got old.

Deadlock is checked for the stuffer only. Elsewhere the chains or the time are bounded, and
tasks and processes that ended, or whose call failed, stop.

### Fairness

`FairSpec` of Relayer and TestProofLoop assumes weak fairness of each task, not of faults and
not of the chains, but for one thing: in TestProofLoop written roots are finalized sooner or later
(`WF_vars(Finalize)`), which the loop needs as it reads at the finalized block. The tasks are spawned on tokio's runtime, which polls every
ready task, and never wait for each other but through `try_lock`. The submitter and the
test loop run once per best block of the sender; that they run again is the assumption
that the sender keeps producing blocks, beyond those the bound lets the model tell apart.

`FairSpec` of NodeService assumes that the runner, which polls the TaskManager while the node
runs, notices that an essential task ended, and that the executor drops the tasks of a dropped
TaskManager. No call of the start-up is assumed to return.

## What is proved

For every value of the constants that satisfies `StufferAssumption` (types of the
inputs, that the default hash is no MMR root, and that a decoding error or a missing digest
is no hash):

- `TypeCorrect`: storage and histories keep their types.
- `SeenRootsConsistent`: `SeenMatchesOrder`. It is inductive with `TypeOK` once it says
  that the block numbers in the map are at most the current one.
- `AcceptanceSound`: `AcceptedIsCommitted`. The inductive invariant adds
  `SeenWasProvided`: a recorded root is one the provider returned, or the default hash.
  `OkIsCommitted` follows an accepted proof through the stages: the root has a BEEFY leaf
  (so it is not the default hash), whose `leaf_extra` is the tree of stage 2, whose header
  names the tree of stage 3, whose leaf is the MMR of stage 4. It is kept by later
  blocks since what the provider returned only grows.
- `AcceptanceComplete`: `CommittedIsAccepted`, the converse: what is committed to, tier by tier,
  under a root the provider returned has a proof that is accepted. It needs that provided
  roots are recorded and never forgotten. `HonestProofVerifies` shows it for any sequence of
  messages of one MMR, not only for those in the run's inputs.
- `VerifiableForever`: `VerifiableStaysVerifiable`, an action property: the only storage
  `submit_xcmp_proof` reads is the set of seen roots, and no action removes from it.

For every number of blocks and faults (`LoopAssumption`):

- `LoopTypeCorrect`, `MatchStaysSettled` (`MatchIsSettled`) and `TestProofsRefusedOnlyWhenRaced`.
  `RefusedOnlyWhenRaced` is not inductive: it needs `MatchIsSettled`, and that needs `Forward`: the
  relayer, the only writer, never goes back, so the roots from the finalized block to the best
  one are in the order of their blocks, and one equal to the relayer's newest is followed by no
  other.

For every chain, number of announcements and set of proof sizes (`RequestsAssumption`):

- `RequestsTypeCorrect`, `QueryStaysBehind` and `ProofLogRefusedOnlyByForks`.
  `RefusedOnlyByForks` needs `QueryFollowsRounds`: a query names no block above the number of
  rounds, a round uses up an announcement, and each announcement raises the best block but
  for what it replaces.
- `MeanStaysWithinSizes` (`MeanWithinSizes`), for any number of rounds. The sum is a recursive
  function, and the bound on it is proved by least counterexample, since the natural numbers are
  well founded (`UpTo`): the sum of `n` sizes lies between `n` times the smallest and `n` times the
  largest.

For every number of blocks and pages (`SenderAssumption`):

- `SenderTypeCorrect`, `HeadersKeepTheirHistory`, `ApisFitTheHeader` and `LeavesKeepOrder`,
  from one invariant, `SenderInv`. A header keeps its history because the MMRs gain one leaf per
  block and never lose one: a digest is a prefix of both. The order of the leaves needs to
  know the queue: the pages to a para lie at the indices from some `lo` up to the next
  index, numbered without a gap up to the last one sent, and no leaf starts after the page at
  `lo`. Draining only raises `lo`, so the next leaf cannot start earlier. As the queue has no
  gap, `get_xcmp_messages` finds all of it or, if `lo` is not 0, nothing (`WholeQueueOrNothing`).

For every number of blocks of the relay chain as well, and any other heads (`ChannelAssumption`:
they are not the sender's):

- `OnlySentIsAccepted`: any proof whatever that a recipient accepts in any state, under a header
  of the sender, holds only leaves that one of its channels had committed to by that header's
  block, with pages that were sent on it. `OnlySentIsReceived` (`ReceivedWasSent`) is the same of
  the proofs that the run combines.
- `IncludedIsReceivable`: `IncludedCanBeReceived`, the converse for included blocks.
- Both rest on `SenderInv`, which Channel keeps because its steps are steps of Sender or leave it
  alone (`ChannelRefinesSender`), and on `ChannelInv`: included heads are finished blocks, seen
  roots are roots of relay blocks, pages in leaves were sent. The last two are inductive since
  headers and BEEFY roots never change once made (`RootsNeverChange`).

For every number of blocks and failed calls, and every order of the keys (`RelayerAssumption`,
which also says that a decoding error is no hash):

- `RelayerInvariant`: `RelayerInv`. It says of each map which block an entry comes from, of the
  collectors where they stand, of the locals of `generate_xcmp_proof` that the stages found so far
  fit one message root, of the submissions that each is such a proof, and of each root that it was
  collected at least as often as it is held, taken or submitted (`CountOK`). The
  relay blocks behind stages 1 and 2 may differ; what makes them fit is that they have the
  same heads. None of the properties is inductive without it, since a proof is put
  together from maps that the collectors overwrite in between.
- `RelayerTypeCorrect`, `RelayerProofsFit` (`SubmissionsCoherent`: a submission is accepted, or
  refused because its root was not seen, or refused at stage 1 because root and proof are of
  different relay blocks), `OneSubmissionPerBlock`
  (`SubmittedOncePerBlock`), `OnlyIncludedSubmitted` (`SubmittedWasIncluded`) and
  `RootsLeaveWithProof` (`RemovedWithProof`) follow from it. A block accounts for one submission
  at most because a root leaves `MSG_ROOT_MAP` before its submission, and only another block puts
  it back.
- `RelayerDelivers`: `DeliversAsPromised`, that Relayer implements Delivery. Initial states map to
  initial states, and every action, under `RelayerInv`, to a step of Delivery or to none.

For every number of tasks that end by themselves (`NodeAssumption`):

- `NodeTypeCorrect` and `BlocksFindServicesReady`. `NodeInv` adds what has been spawned when the
  start-up reaches a stage: a node's blocks come in only through the started network or the
  consensus services, which are last.

For every number of collators, all clocks that agree to within a slot, and any length of
time (`TimeAssumption`):

- `BlockTimeTypeCorrect`, `ProposalsFailOnlyInOldSlots`, `NoHonestBlockRefused` and the action
  property `HeadsAlwaysAdvance` (`HeadsAdvance`). The invariant says that a head's timestamp lies in
  its slot and its relay parent is older than the tip that has it, and that a block waiting
  for inclusion is ahead of the head it is to replace. `BumpStaysInSlot` is the arithmetic behind it: raising a timestamp by the minimum
  period, half a slot, over a parent of an older slot never leaves the slot claimed.

Only model-checked: all liveness (`ProvableIsSubmitted`, `KeepsSubmitting`,
`EssentialEndStopsNode`: fairness and ENABLED are outside what the prover handles). The other
properties of the passing runs, invariants, action properties and the refinement, are proved.

## Not modelled

- Hash functions and codecs (ideal hashing instead), weights, and events but for the one
  `submit_test_proof` deposits.
- Configuration of stock pallets, fees and XCM, whose code is outside the repository, but for
  the parameters that Sender and BlockTime depend on; chain specifications, which are constants.
- The parsing of the command line, the delegation of `CliConfiguration`, and the code behind the
  features `runtime-benchmarks` and `try-runtime`.
- The template pallet, which is not in the runtime, and the mock of the stuffer's tests.
- The set-up of the relayer's connections, and `try_generate_mmr_proof`, which nothing calls.
- Sender and the whole of MessageStuffer on one chain: they share no storage, and within a block
  the order of the stuffers' and the MMRs' hooks cannot be told apart by either. Channel has of the
  recipient's pallet what `submit_xcmp_proof` reads.

Processing of accepted messages does not exist in the code yet.

Whether a page ever gets into a leaf depends on XcmpQueue, outside the repository: pages
taken at the end of the block that sent them are gone when the next leaf is made, and
`get_xcmp_messages` starts at index 0, so that it also finds nothing after a partial drain
(sender_aggregates_all).
