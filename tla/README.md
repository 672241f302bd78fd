# TLA+ models of gecko's conflict manager, vertex issuer and avm VM

This directory holds TLA+ models of the parts of the repository that have
concurrent or order-dependent behaviour. It also holds the TLC
configurations that check them. Every action is translated from the Go source.
`PROJECT.json` maps each definition to the lines it models. A few
definitions model code that is not in the repository (the `events` blockers,
the snowstorm graph, the transitive engine, the timer package). Those are
written from `spec.md`, and the map marks them `spec_modelled`.

## The system

| Part | Source | State | Operations |
|---|---|---|---|
| Conflict manager | `snow/consensus/snowstorm/conflicts/conflicts.go` | `txs`, `utxos` (input → spenders), `pendingAccept`/`pendingReject` blockers, `acceptable`/`rejectable` queues | `Add`, `Accept`, `Updateable` (plus the read-only `IsVirtuous`, `Conflicts`) |
| Test tx | `.../conflicts/test_tx.go` | status, epoch | `Accept`, `Reject` |
| Snowstorm graph | not in the repository | snowball counters, rogue flags | `Add`, `RecordPoll` and its `Updateable` loop |
| Vertex issuer | `snow/engine/avalanche/issuer.go` | `vtxDeps`, `trDeps`, `issued`, `abandoned` per issuer | `FulfillVtx`, `FulfillTr`, `Abandon`, `Update`; the `vtxIssuer`/`trIssuer` callbacks |
| Transitive engine | not in the repository | `pending`, `vtxBlocked`, `trBlocked`, current epoch | receiving a vertex, `batch`, transition acceptance |
| VM tx batching | `unnamed/part_001` | `vm.txs`, the timer, the `toEngine` channel | `IssueTx`/`issueTx`, `FlushTxs`, the timer callback, `Pending`, `Bootstrapped` |
| UTXO fetching | `unnamed/part_001` | the funds index (address → UTXO ids) | `GetUTXOs`, `getPaginatedUTXOs`, `getAllUTXOs`, `getAllUniqueAddressUTXOs` |
| UTXO/asset verification | `unnamed/part_001` | UTXO status and epoch, managed-asset status | `getUTXO`, `verifyTransferOfUTXO`, `verifyOperation` |
| Vertex builder | `snow/engine/avalanche/vertex/builder.go` | none (pure) | `Build` |
| Operation sort | `unnamed/part_002` | the operations and signer slices being sorted | `sortOperationsWithSigners` (`Less`, `Swap`), `isSortedAndUniqueOperations`; `sortOperations` |
| Health check | `unnamed/part_000` | none | `Health` |

The parts interact as follows:

- The engine receives a vertex and creates an issuer for it.
- The issuer waits on two kinds of blocker:
  - the vertex's parents, through `vtxBlocked`;
  - the transitions it depends on, through `trBlocked`, for its epoch.
- When nothing is missing, `Update` adds the vertex to avalanche consensus.
- Adding the vertex puts its txs into the snowstorm graph, which hands them to
  the conflict manager.
- A poll that finalizes a tx calls `Conflicts.Accept`. The graph then drains
  `Updateable`. An accepted tx fires `trBlocked`, which wakes issuers again.
- On the VM side:
  - API handlers issue txs into a buffer.
  - A timer or a full batch sends `PendingTxs` to the engine.
  - The engine takes the buffer through `Pending`, under the same context lock.

## Modules

- **Conflicts** (`conflicts.go`, `test_tx.go`):
  - The state is the manager's fields. `Add`, `AcceptS` and `Updateable` are
    operators on a record of that state.
  - The whole `Updateable` loop, both halves, is the recursion
    `AcceptLoop`/`RejectLoop`. Each turn removes the tx's spends, fulfils or
    abandons the blockers, and queues the conflicts.
  - `ApplyDecisions` is `TestTx.Accept`/`Reject`.
  - Blockers are sets of waiting txs keyed by the id registered. Code and model
    both register by transition id, but the code fulfils by tx id.
  - The environment actions are:
    - `IssueTx`, guarded by `getUTXO`'s rules;
    - `ConditionallyAccept`;
    - `Sweep`, one `Updateable` call whose result is applied.
  - MCConflicts fixes five "colored" txs with shared inputs and one dependency.
    They are those of the repository's `conflicts_test`.
  - `IsVirtuous` (no input key in `c.utxos`) gives the rogue flag of a tx the
    snowstorm graph adds.
- **AbstractConflicts**: what the manager promises its caller, without
  blockers, queues or index.
  - Its state is three sets: `processing`, `accepted` and `rejected`.
  - `Issue(t)` makes a valid tx processing.
  - `Decide(A, R)` decides a set of processing txs at once:
    - a tx in A has every dependency accepted and no accepted conflict;
    - a tx in R has an accepted conflict or a rejected dependency.
  - Conflicts instantiates it as `Abstract` with this refinement mapping:
    - `processing <- txs` (the manager's own set);
    - `accepted` and `rejected` are read from the txs' statuses.
  - `RefinesAbstract == Abstract!Spec` is a PROPERTY of `conflicts_safety`.
    Under the mapping, `Add` is `Issue`, one applied `Updateable` is one
    `Decide`, and `Accept` (blockers only) is a stuttering step.
- **Snowstorm** (EXTENDS Conflicts): the graph over the manager.
  - `GraphAdd` adds a tx to the graph and marks rogues.
  - `RecordPoll(votes)` updates the counters, conditionally accepts every
    preferred tx that reached beta, and enters the sweep.
  - `SweepStep` is one turn of the `for` loop over `Updateable`.
  - A poll holds the context lock, so nothing interleaves with its sweep.
- **Issuer** (`issuer.go`):
  - There is one action per branch of `Update`:
    - skip (line 68 guard);
    - `Txs`/`Epoch` error;
    - invalid txs, batched and abandoned;
    - re-issue error;
    - drop of a future-epoch vertex;
    - `Consensus.Add` error;
    - issue and query.
  - `FulfillVtx`/`FulfillTr`/`Abandon` are the blocker callbacks. They are
    collected in `toUpdate`, and a pending issuer is updated from that set in
    any order.
  - `Receive`, `AcceptTransition` and `AdvanceEpoch` are the engine around it.
  - Abandonment cascades through `vtxBlocked` (`AbandonClosure`).
  - MCIssuer has four vertices, four transitions and two epochs. The parent
    chain is v1←v2←v3, v3 is in a later epoch, and v4 shares a transition with
    v1.
- **VMBatching** (`part_001`):
  - `txs` is the buffer length, `armed`/`firing` is the timer, and `chan` is
    the `toEngine` channel.
  - `FlushTxs` is a non-blocking send that re-arms the timer when the channel
    is full.
  - Parsing and verification are a success or an error that changes nothing.
- **Pagination** (`part_001`):
  - The owners of three UTXOs range over every subset of two addresses, and the
    limit ranges over `0..maxUTXOsToFetch+1`.
  - `GetPaginatedUTXOs` and `GetAllUTXOs` are recursive operators that follow
    the Go loops statement by statement, cursor and `seen` set included.
  - `FetchPage` is a client following the returned cursor.
  - `Skipped` and `ResumeFrom` are the address comparison with the cursor.
- **EpochRules** (`part_001`): the managed-asset status rules.
  - The state is the stored `(lastUpdatedEpoch, status, oldStatus)` of each
    asset, plus a history of updates in true (unwrapped) epochs.
  - `InEffect`/`VerifyTransferOfUTXO` are the transfer check at 913-937.
    `UpdateAllowed` is `verifyOperation`'s check at 972-990.
  - `UpdateStatus` is an update operation that verifies and is stored with its
    epoch. The store's put is written from the spec: the replaced status
    becomes the old one.
  - uint32 is modelled at a reduced width `Width`. TLC's integers are 32-bit
    signed, and the wrap at 2^Width behaves as the one at 2^32.
  - `VerifyFxUsage` is `verifyFxUsage` over the cache `fxCache`, a partial
    function from assets to fx id sets. `VerifyTransfer` is
    `verifyTransferOfUTXO` up to the fx check. The checks after that change
    no state, and their outcome is `VerifyTransferOfUTXO`. `UpdateStatus`
    calls `verifyFxUsage` for secp256k1fx before the epoch check. Its cache
    write stays when the update is refused. `EvictFx` is the LRU cache
    dropping an entry when other assets fill it. `fxAnswers` records every
    answer given.
  - `MCEpochRules` gives the asset a CreateAssetTx with a secp256k1fx state
    (fx 0) and an nftfx state (fx 1). The VM also registers fx 2.
- **Spend** (`part_001`): the wallet helpers `Spend`, `SpendAll`, `Mint`,
  `SpendNFT` and `MintNFT`, each a one-shot call on the same UTXO list.
  - A UTXO is an asset and an output. The output kind is one of: secp256k1fx
    transfer (with an amount), secp256k1fx mint, nftfx transfer (with a
    group), nftfx mint, or `locked`. `locked` means the keychain cannot spend
    the UTXO now, and every helper skips it whatever its type.
  - `Add64` is `safemath.Add64` at width `Width`.
  - `MintLoop` deletes each minted asset from the caller's map, as the code
    does. The map left behind is part of Mint's result.
  - `FirstOp` is the loop with `break` of SpendNFT and MintNFT.
  - A result is a sequence of operations and a parallel sequence of signer
    lists. Both are named by the UTXO index they come from.
  - Mint, SpendNFT and MintNFT end with `sortOperationsWithSigners`:
    - `OpLess` is `Less`. The marshalled bytes of an operation begin with its
      asset id and then its UTXO id, so byte order is the order of that pair.
      Asset ids are numbers in the cfg for this reason.
    - `Swap` swaps both slices.
    - `InsertionSort`/`SiftDown` are what `sort.Sort` does with fewer than 12
      elements.
    - `IsSortedAndUniqueOperations` is the check that the tx's syntactic
      verification applies to the result.

## Runs

| Run | What it shows |
|---|---|
| `conflicts_safety` | Every interleaving of Add, conditional Accept and Updateable on the colored txs keeps these properties: at most one accepted spender per input; a spender index that matches the processing txs; each decision queued at most once; no tx accepted while a dependency is unaccepted. The manager also refines AbstractConflicts, so no tx is rejected without an accepted conflict or a rejected dependency, and no decided tx returns to processing. Passes (472 states). |
| `conflicts_dependencies` | **Violation.** A tx whose dependency is accepted is never returned as acceptable, and a tx whose dependency is rejected stays processing. |
| `snowstorm` | After every poll, each conflict of an accepted tx is rejected. The `Updateable` loop of a poll ends within one call per tx. Passes (27,065 states). |
| `issuer` | Only vertices whose parents are in consensus and whose transition dependencies are issued in the vertex's epoch (or accepted no later) enter consensus. When no callback is outstanding and nothing has errored, every pending issuer waits only on things that can still happen. Under fair `Update` calls, a pending issuer with nothing left to wait for is eventually issued (or the engine errors). Passes (489,152 states, about 90 s). |
| `issuer_batch_epoch` | **Violation.** Valid txs of a vertex with an invalid tx are re-batched into the vertex's epoch, not the current one. |
| `vm_batching` | Under fair timer and engine goroutines, every issued tx is eventually handed to the engine. Passes (145 states). |
| `pagination` | Following cursors reaches every UTXO. No page exceeds `maxUTXOsToFetch`. Every full page returns a cursor later in the search order than the one it was given, so a client that follows cursors stops. The unpaginated call returns every UTXO exactly once. Passes (921 states). |
| `pagination_exactly_once` | **Violation.** A UTXO indexed under two addresses is returned on two pages. |
| `epoch_rules` | A transfer in any epoch from the asset's last update to now is admitted exactly when the status set at least two epochs earlier allows it. This rests on `verifyOperation` spacing updates. Whatever order transfers, updates and cache evictions come in, `verifyFxUsage` never admits an fx the asset was not created with. Passes (51,916 states). |
| `epoch_rules_fx_cache` | **Violation.** `verifyFxUsage` answers for fx 0 of an asset (from a status update or a transfer). A transfer of the asset's nft (fx 1) is then refused. |
| `spend` | For every list of three UTXOs and every amount:<br>• `Spend` and `SpendAll` report exact totals or an overflow error, never a wrapped total.<br>• `Spend` covers what was asked or fails only on a real shortfall.<br>• `Spend` takes no UTXO it does not need.<br>• `Mint` builds one operation per asset asked for, from a mint output of that asset, and fails only when some asset has no usable mint output.<br>• `SpendNFT` and `MintNFT` use exactly one UTXO of the asset, group and output type asked for, and fail only when none exists.<br>• The operations of those three are sorted and unique, with each signer list at the position of its operation.<br>Passes (1,179,648 states). |

Each property of a passing run has a mutant in `PROJECT.json`: a plausible
bug in the mapped code that TLC finds under the run's own cfg. Examples:

- a missing conflict rejection;
- the accepted tx's own rejector fulfilled instead of abandoned (only the
  refinement catches this one);
- Mint's `delete(amounts, assetID)` dropped;
- SpendNFT's group check dropped;
- a sort `Swap` that moves the operations but not their signers;
- a queue that is not cleared;
- a parent check that was dropped;
- an abandonment that does not cascade;
- the timer armed before the append;
- an off-by-one in the address skip;
- a cursor address that is read from its first id again;
- `verifyFxUsage` caching the fx asked for whatever the asset's states.

The violation runs are the findings in `PROJECT.json`:

- The conflict manager registers blockers by transition id
  (`conflicts.go:76,135`) but fulfils them by tx id (`161,165,188,189`). The
  dependency scenarios of spec §5 therefore do not happen. The repository's
  `AcceptingDependencyTest` and `RejectingDependencyTest` expect them.
- `issuer.go:117,126` batches into the vertex's epoch, while spec §4.4 says
  the current one.
- `getPaginatedUTXOs`'s `seen` set lasts one call (`part_001:532`).
- `verifyFxUsage` (`part_001:871`) caches, under the asset id alone, a bit
  set that holds only the fx it was asked about. A later call for another fx
  of the same asset hits the cache and returns false. A valid transfer or
  operation of an asset created with two fxs then fails with
  `errIncompatibleFx`. Whether it fails depends on which fx was verified first
  since the entry was last evicted. The comments say the cache records
  whether the asset supports the fx.

`lastUpdatedEpoch+1` is computed in uint32 (`part_001:916,982`), while spec
§4.3 is stated over unbounded epochs. EpochRules models the wrap at `Width`
bits. With `MaxEpoch = 9` in `MCEpochRules.cfg`, TLC reports
`TransferUsesSettledStatus` violated at the wrap: a status set in the largest
epoch takes effect at once. No run keeps that bound. The wrap needs epoch
2^32−1, which the chain does not reach, so it is not listed as a hazard.

`Accept` waits on dependencies by status only and never compares epochs
(`conflicts.go:130`). A tx can therefore be accepted after its dependency
was accepted in a later epoch. This is not a finding: `Accept` assumes its
caller passes a tx that is still valid (`conflicts.go:131-134`), and the
epoch check belongs to verification (`getUTXO`, `part_001:807-811`). The
caller that would re-verify, snowstorm's poll handling, is not in the
repository.

Type invariants are checked only where a plausible bug in the code breaks
them, in Conflicts, Issuer and EpochRules. In Snowstorm, VMBatching,
Pagination and Spend, the typing holds by construction or by Go's types. A
channel cannot hold more than its capacity, and a uint64 sum cannot be
wider than 64 bits. These modules therefore check no type invariant.

## Bounds and fairness

- **Conflicts.** The five colored txs cover every case of `Updateable`:
  - two txs conflicting on one input;
  - a tx conflicting on two inputs;
  - a dependency;
  - a virtuous tx.

- **Snowstorm.** It uses the same txs with BetaVirtuous 1, BetaRogue 2 and
  MaxPolls 3. With these values a rogue tx can be finalized, and a poll can
  finalize two txs.
- **Issuer.** The four vertices reach every branch of `Update`:
  - a parent dropped or abandoned;
  - a transition accepted in a later epoch;
  - a vertex of a future epoch dropped and one of a past epoch re-issued;
  - an invalid tx re-batched.
- **VMBatching.** BatchSize 2, channel capacity 1 and 5 txs. With these values
  a batch fills, the timer fires on a partial batch, and a flush meets a full
  channel.
- **Pagination.** Two addresses, three UTXOs, a maximum of 2 and up to five
  pages. These values give a shared UTXO, a page boundary inside one address,
  and every clamped limit.
- **EpochRules.** One asset, two managers, Width 3 (epochs 0..7), up to three
  updates. The passing run stops at epoch 6, below the wrap. Two statuses
  and two managers give every combination of a frozen or unfrozen status with
  a change of manager. Three fxs, two of them the asset's, give a first
  answer for either of the asset's fxs, a later question about the other one,
  and an fx the asset lacks. One asset is enough: cache entries of different
  assets do not interact except through eviction, which is an action of its
  own. The fx-cache run stops at epoch 3.
- **Spend.** Two assets and three UTXOs of eight output kinds each. The
  amounts {1, 3, 6} and wanted amounts {0, 2, 7} at Width 3 cover these cases:
  - an amount reached exactly and one overshot;
  - a shortfall;
  - an overflow (6 + 3 ≥ 8).

  Two NFT groups are enough to give an NFT of the wrong group. Three UTXOs are
  enough to give two mint outputs of one asset, and two assets in UTXO order
  opposite to their id order make the sort swap.

Fairness appears in VMBatching and in the issuer run:

- Weak fairness on the timer's expiry and callback. The timer's dispatch
  goroutine runs for the life of the VM.
- Weak fairness on the engine's receive and handling. The engine's message
  loop always runs.
- API calls and bootstrapping are external and get no fairness.
- `Issuer`'s `FairSpec` puts weak fairness on `UpdateStep` only. Every
  `Update` call is made synchronously by the engine handler or blocker
  callback that enabled it (`issuer.go:45-64`, `:207-219`), so an enabled
  `Update` is not left pending forever. Receiving vertices, accepting
  transitions and epoch changes are the environment and get no fairness.
  The `issuer_batch_epoch` run keeps the plain `Spec`.

Liveness of the snowstorm poll loop is checked as the bounded safety property
`PollReturns` through the history variable `turns`.

## Not modelled

- `Conflicts` is a read-only query. Only the conflict set it returns is used.
- Snowball's binary and unary instances are reduced to counters.
  `Quiesce` and the virtuous set are left out.
- Repolling, query sampling and the network. A query is recorded only through
  its request id.
- The health check compares stake with a literal 0.5 (`part_000:26`). It has
  no state and no interleaving, so it is not listed as a hazard.
- `LoadUser`, `Initialize`, codecs and address formatting. These are
  sequential I/O and encoding.
- `sortOperations` (without signers) and
  `avax.SortTransferableInputsWithSigners`: they are called by tx
  construction outside the modelled helpers. `Less` returns false when
  marshalling fails, which is not a strict order. The operations that are
  sorted are built by the VM itself and always marshal, so this failure is
  not modelled and is not listed as a hazard.
- `spendManagedAsset`. Nothing calls it.
- `vertex.Build` (builder.go, the only file of its package in the
  repository). It calls library sorts, `innerStatelessVertex.Verify`, the
  codec and a hash, none of which is in the repository. What is left is the
  choice of codec version by epoch. It has no state, and nothing that
  interacts with it is in the repository either.
- The fx library checks (`VerifyTransfer`, `VerifyPermission`,
  `VerifyOperation`). They are not in the repository and are reduced to "the
  owner or the manager signed". `verifyFxUsage`'s paths for an asset whose tx
  is not fetched or is not a CreateAssetTx return false without touching the
  cache. They are not reached with genesis assets.
- `Shutdown`'s unlock/`Stop`/relock window. `timer.Stop` is not in the
  repository.

## Further work

- **Issuer and Snowstorm composed.** In `Issuer`, transition acceptance is an
  environment step that may accept any issued transition in any epoch. This
  is a superset of what the graph's polls do, so `ConsensusAdmission`,
  `NoStrandedIssuer` and `ReadyIssuerUpdated` already hold under every
  acceptance order the graph could produce. Composing the two modules would
  narrow that environment but would not reach a new case. The product of
  their state spaces (about 489,000 and 27,000 states) is also far beyond a
  run of a few minutes. The composition is left as further work for a
  property about both together, such as an end-to-end one from a received
  vertex to its txs' decisions.
- The IssueTx stale-epoch hazard (`part_001:431`) and `Shutdown`'s lock
  window (`part_001:338`) stay without a property, for the reasons given in
  `PROJECT.json`.
