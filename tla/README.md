# Verification of the LCP relayer's enclave-key lifecycle

This directory holds TLA+ models of the relayer-side enclave-key lifecycle
of lcp-go (`src/relay/prover.go`), TLC configurations that check them, and TLAPS
proofs. `src/relay/prover.go` is made of three Go files and a Makefile:
- lines 1-230: the `Prover` type, `SetupHeadersForUpdate` and `ProveState`;
- lines 231-968: `UpdateEKIfNeeded` and its helpers, registration, the
  EIP-712 signer and the ELC commands;
- lines 969-1182: the on-chain LCP client's `verifyRegisterEnclaveKey`,
  `registerEnclaveKey` and update path;
- the rest: the Makefile.

## The system

The relayer signs light-client updates and state proofs through an SGX
enclave (the LCP service). The signing key is an *enclave key*. It must be
registered in the destination chain's LCP client, and it is rotated at half
its expiration. The parts, and how they interact:

| Part | Code | State |
|---|---|---|
| EKLM state machine | `UpdateEKIfNeeded` 263-319, `loadEKIAndCheckUpdateNeeded` 363-449, `checkEKIUpdateNeeded` 321-340, `checkMsgStatus` 347-360 | `pr.activeEnclaveKey`, `pr.unfinalizedMsgID` |
| Policy engine | `selectNewEnclaveKey` 451-482, `validateISVEnclaveQuoteStatus`, `validateAdvisoryIDs` 484-503 | none |
| Registration | `registerEnclaveKey` 560-641 | none (sends a tx) |
| Key-info files | `save/load/remove*EnclaveKeyInfo`, not under `src/` (spec §4.3) | finalized key infos, unfinalized key info + msg id |
| On-chain LCP client | `verifyRegisterEnclaveKey` 1035-1076, `registerEnclaveKey` 1104-1130 | enclave keys and their expiry |
| On-chain update path | `VerifyClientMessage`/`verifyUpdateClient` 985-1033, `UpdateState`/`updateClient` 1078-1102, `IsActiveKey` 1140-1158 | consensus states, latest height |
| Header-relay gate | `SetupHeadersForUpdate` 152-190, `ProveState` 196-229 | reads the active key, signs updates |
| Operator signer, ELC commands, queriers | 644-968 | none |

One tick goes like this:
1. `SetupHeadersForUpdate` calls `UpdateEKIfNeeded`.
2. With no key in memory, `UpdateEKIfNeeded` loads one from the files.
3. If the key is unfinalized, it asks the chain whether the registration is
   included, failed or finalized. Promotion is `saveFinalized` at line 434,
   then `removeUnfinalized` at line 438.
4. If the key is expired, unknown to the LCP service, or its registration is
   gone, it clears memory (line 276).
5. It selects a new key from the LCP service and registers it with
   `SendMsgs`.
6. It checks the new registration and saves the key info, finalized or
   unfinalized. Only then does it set memory.

Every RPC (to the LCP service or the chain) and every file write is a
suspension point. The relayer may crash at any of them. A crash loses memory
and keeps the files and the chain. Meanwhile the chain grows, finalizes and
reorganizes, the LCP service gains and loses keys, and the clock moves.

## Modules

- **`EnclaveKeyManager.tla`**: the whole lifecycle above, with its
  environment.
  - `pc` names the next suspension point of the running call.
  - Each action runs from one suspension point to the next, and carries the
    guards and writes the code executes in between:

    | Action | Code |
    |---|---|
    | `Tick` | 363-394 (load from disk) |
    | `CheckFinalized` | 396-401 |
    | `CheckIncluded` | 403-414 |
    | `CheckStatus` | 416-447 |
    | `RemoveUnfinalized` | 437-442 |
    | `Select` | 278-283 and 451-482 |
    | `Register` | 285-290 and 560-641 |
    | `Status` | 292-316 |
    | `ProveState` | 196-209 |
    | `Crash` | any point |

  - The environment actions are `AdvanceTime`, `EnclaveKeyPruned`,
    `EnclaveKeyAttested`, `Finalize` and `Reorg`.
  - The data is abstracted:
    - a key is a model value with constant attestation time, quote status
      and advisory IDs;
    - `BadReports` are the keys whose report fails `ias.VerifyReport`;
    - time is in whole seconds, and expiry is compared in half-seconds, so
      `KeyExpiration/2` is exact.
  - With `TransientErrors` TRUE, every RPC may also fail. A failed `SendMsgs`
    may still have landed its tx.
  - `Reorg` drops every block above the finalized height and the
    registrations those blocks added. A dropped message is either gone, or is
    executed again in one new block, where it fails. A re-execution that
    succeeds at a new height is not modelled.
  - The key-info files are modelled from spec §4.3. `SaveUnfinalized` refuses
    while another unfinalized record exists. The last finalized key is the
    one with the latest attestation time.
- **`MC_EnclaveKeyManager.tla`**: three keys and two msg ids. The keys are:
  - k1: attested at 0, quote OK;
  - k2: attested at 1, `GROUP_OUT_OF_DATE` with an allowed advisory;
  - k3: attested at 2, quote OK.

  `KeyExpiration = 4`, so k1 rotates after t=2. Msg ids are reused once the
  relayer no longer holds them (`FreeMsgIds`); this keeps the state space
  finite.
- **`KeyLifecycle.tla`**: the abstract specification of what the manager
  promises about the key it signs with (spec §4.6). It has two variables,
  `key` and `msg`, and three states: NoKey, UnfinalizedKey (with its msg id)
  and FinalizedKey. Its steps are `Adopt` (NoKey to either key state),
  `Promote` (same key, msg cleared) and `Drop` (back to NoKey). A key is never
  swapped for another without passing through NoKey.
  `EnclaveKeyManager` instantiates it as
  `Lifecycle == INSTANCE KeyLifecycle WITH key <- activeEK, msg <- unfinalizedMsgID`.
- **`UpdateClient.tla`**: composes the header-relay gate and the chain's
  update path with `EnclaveKeyManager`, which it EXTENDS.
  - New state:
    - `originHeight`: the origin chain's latest finalized header;
    - `consensus`: the LCP client's consensus states, each tagged with the
      destination block that stored it;
    - `outbox`: the signed updates not yet executed.
  - `SetupHeadersForUpdate` runs after a tick returned nil. It:
    - fails if the LCP service no longer holds the active key;
    - returns nothing when the client is up to date;
    - otherwise signs one update with the active key.
  - `InitU` is the client as `CreateInitialLightClientState` (130-140)
    creates it: a zero `LatestHeight` and no consensus state.
  - `ExecuteUpdate` runs `VerifyClientMessage` and then `UpdateState` in a new
    block. While `LatestHeight` is zero, the check only needs the message to
    emit a state (1002-1005). After that, the previous consensus state must
    exist. In both cases `IsActiveKey` must hold at the block time.
  - The fault model:
    - `DropUpdate`: submitted updates are lost;
    - updates may be executed in any order. The run bounds the pending
      updates to `MaxPending = 1`, so it does not exercise reordering;
    - `ReorgClient`: a reorg drops the consensus states stored in unfinalized
      blocks, as well as the registrations.
  - A new tick does not start while a nil return is still to be used.
- **`ExpiryArithmetic.tla`**: the Duration arithmetic of line 325 and of
  `getKeyExpiration` (1156-1158), in signed Width-bit wrapping integers with
  truncating division.
- **`MC_UpdateClient.tla`**, **`MC_ExpiryArithmetic.tla`**: the TLC
  instances. Some runs use a pair instance: the keys k1 and k2 only
  (`MCKeysPair`) and one msg id (`MCMsgIdsOne`).
- **`EnclaveKeyManagerProofs.tla`**: the TLAPS proofs about the key manager.
- **`UpdateClientProofs.tla`**: the TLAPS proofs about the composed
  key-manager and update-client specification.

## Runs

| Run (cfg) | Expect | What it shows |
|---|---|---|
| lifecycle (`MC_EnclaveKeyManager.cfg`) | pass | The invariants below hold with transient errors, crashes, reorgs and LCP key churn. |
| recovery_round_trip | violation | After rotating from a stale unfinalized key, disk and memory disagree. |
| promotion_monotone | violation | A crash between lines 434 and 438 leaves a key both finalized and unfinalized. |
| selection_policy | violation | OK-with-allowed-advisory keys are selected, which spec §4.2 and the chain reject. |
| prove_state_has_key | violation | `ProveState` runs with a nil active key. |
| selection_abort | violation | A listed key with a bad report makes selection fail, although a later key is allowed (line 461; spec §7 says skip it). |
| liveness (`MC_Liveness.cfg`) | pass | `UnfinalizedResolves`: under fairness, once crashes stop, an unfinalized key in memory is eventually promoted or dropped. |
| stale_record | violation | `UnfinalizedRecordCleared`: after rotating away from a finalized but stale unfinalized key (line 431), its record stays on disk forever. |
| refinement (`MC_Refinement.cfg`) | pass | `ImplementsKeyLifecycle`: the manager implements `KeyLifecycle` under transient errors, crashes and reorgs. |
| update_client (`MC_UpdateClient.cfg`) | pass | `TypeOKU` and `FinalizedSignerAccepted`: an update signed with a key reported as finalized, and executed within half the key's life after the check, passes `IsActiveKey`. |
| signer_reorg | violation | `SignerRegisteredWhenExecuted`: an update signed with a still-unfinalized key is executed after a reorg removed that key's registration. |
| expiry_overflow (`MC_ExpiryArithmetic.cfg`) | violation | `UpdateOffsetIsHalfLife`: once the product wraps, the rotation offset is not KeyExpiration/2. |

The lifecycle run checks these invariants:
- `TypeOK`.
- `MemoryPersisted`, which is write-ahead (spec P4): the key in memory is
  saved on disk, as the kind of key info its msg id says.
- `UsableOnSuccess` (spec P3): a successful call leaves a key the policy
  allows at the call's clock.
- `FinalizedKeyRegistered`: a key the relayer treats as finalized is in the
  LCP client's store, added in a finalized block, so no reorg can remove it.
  "Finalized" means a nil `unfinalizedMsgID`, as the code has it (300-306,
  397-401). The comment on that field (36-37) states the opposite, and
  PROJECT.json records that disagreement as a finding.

Each of these invariants has a mutant, a plausible bug in the mapped code
under which TLC finds it violated:
- the expiry test is dropped;
- the finality test is off by one;
- rotation keeps the key in memory;
- the unfinalized record saves the cleared msg id.

The violation runs turn off transient errors, so their traces show the
disagreement in its plainest form. The findings in `PROJECT.json` describe
each one.

**Bounds.** The bounds are `MaxTime = 3` (4 in the violation runs) and
`MaxHeight = 3`, with two msg ids. They are large enough for the following
to happen:
- a key to expire;
- a registration to stay unfinalized across a tick and then finalize or be
  reorged out;
- a second key to be registered while the first key's record is still on
  disk.

The lifecycle run declares the permutations of the msg ids a symmetry
(`MCMsgSymmetry`). Nothing in the relayer or the chain tells two ids apart,
and the run checks only invariants, so the reduction is sound. The run
reaches about 2.7 million distinct states, up to symmetry, in about 70
seconds. TLC's coverage shows every action and every disjunct firing.

The bounds of the newer runs:
- **liveness and refinement.** The pair instance with `MaxTime = 3`. Key k1
  expires within it, and k2 can replace it.
  - liveness: 837 thousand states in about 2 minutes;
  - refinement: 1.3 million states in under a minute;
  - the three-key instance takes over 12 minutes for liveness.
- **stale_record.** Three keys and `MaxTime = 4`. The stale key must be
  finalized and then pruned.
- **update_client.** The pair instance with one msg id, `KeyExpiration = 3`,
  `MaxOrigin = 2` and `MaxPending = 1`.
  - The expiry is odd, so a key expires on the chain inside `MaxTime = 3`,
    which the half-life margin must cover. With 4 it never expires and the
    property is vacuous.
  - The run reaches 4.7 million states in about two and a half minutes, and
    every disjunct fires.
- **expiry_overflow.** `Width = 20` and `Second = 1000` scale the arithmetic
  down. The product first wraps at `KeyExpiration = 525` seconds. With Go's
  64 bits and 10^9 nanoseconds per second, it first wraps at about 9.2e9
  seconds. The run shows what the wrap does to the offset, not where Go's
  threshold lies; that threshold is 2^63 / 10^9.

**Fairness.** `FairSpec` adds weak fairness of every relayer step (`Tick`,
the checks, `Select`, `Register`, `Status`) and of `Finalize`:
- The relayer's service loop calls `SetupHeadersForUpdate` again and again,
  so an enabled step of the running call is eventually taken.
- The chain's finality eventually finalizes an included block.

No fairness is assumed for the LCP service's pruning and attestation, for
reorgs, for time or for crashes. The liveness run sets `TransientErrors`
FALSE. With transient errors, every RPC may fail on every tick, and nothing
in the code retries until success. The liveness properties are stated under
`EventuallyNoCrash` (`<>[][~Crash]_vars`), because a relayer that keeps
crashing makes no progress.

## Proofs (TLAPS)

`EnclaveKeyManagerProofs.tla` proves, for every value of the constants that
satisfies `KeysAssumption` and `ConfigAssumption`:

- **`TypeCorrect`**: `Spec => []TypeOK`. TypeOK alone is not inductive: a
  check reads `txs[unfinalizedMsgID]` and saves `activeEK`, which is only
  typed if memory holds a key at that point. The inductive invariant is
  `TypeInv = TypeOK /\ ControlInv`. `ControlInv` records what each `pc`
  implies:
  - the checks run on a loaded key (and, when unfinalized, its msg id);
  - memory is empty from line 276 until the call returns;
  - registration runs on a selected candidate and the returned msg id.
- **`MemoryBackedByDisk`**: `Spec => []MemoryPersisted`. The strengthening
  adds `PromotionInv`: between lines 434 and 438 the active key is already
  saved as finalized. That is what makes the second write's clearing of
  `unfinalizedMsgID` safe. The step proof has one case per action. `Tick` is
  split by which file the key was loaded from.

- **`FinalizedKeyIsRegistered`**: `Spec => []FinalizedKeyRegistered`. The
  strengthening `RegisteredInv` states what the chain records about every key
  the relayer tracks:
  - no registry entry is above the chain's height;
  - a finalized key info names a key added in a finalized block;
  - an unfinalized key info whose msg is included and succeeded names a key
    added at or below that msg's block, and so does the candidate at
    `pc = "status"`;
  - a successful call left a key in memory, and a running call has not
    returned.

  This is the chain's side of the argument. `verifyRegisterEnclaveKey` and
  the add-if-absent `registerEnclaveKey` make a successful msg's key
  registered no later than its block. A reorg removes only entries above the
  finalized height, together with the msgs in those blocks. Msg ids are
  reused only once the relayer no longer holds them. With `MemoryPersisted`,
  this carries a finalized registration from `checkMsgStatus` to the key in
  memory.

- **`RefinesKeyLifecycle`**: `Spec => ImplementsKeyLifecycle`, the
  refinement. `MemoryInv` (spec P1: an unfinalized msg id in memory implies a
  key in memory) is inductive together with `TypeInv` (lemma `MemoryStep`).
  Lemma `KeyStep` shows that one step leaves the key unchanged or clears it,
  and clears the msg id with it. Lemma `LifecycleStep` maps every step to
  `Adopt`, `Promote`, `Drop` or a stutter. The initial states map to the
  abstract `Init`. `PTL` combines the two.

- **`KeyUsableOnSuccess`**: `Spec => []UsableOnSuccess`. The strengthening
  `UsableInv` says:
  - every key the relayer holds (the finalized and unfinalized files and
    memory) passes the quote-status and advisory policy;
  - the clock reading `tNow` is never ahead of `now`;
  - while registering or checking, the candidate is allowed at `tNow`. This
    holds because the selection compared expiry against a later clock
    reading;
  - during the promotion window the active key is unexpired at `tNow`;
  - a running call has not returned.

  The Select case picks the chosen position and uses the fact that its key is
  allowed at the reading taken.

All of these rest on step lemmas (`TypeStep`, `PersistStep`, `ChainStep`), each
built on the one before, and end with `PTL`.

`UpdateClientProofs.tla` proves, for the composed specification `SpecU`:

- **`ComposedTypeCorrect`**: `SpecU => []TypeOKU`.
- **`FinalizedSignerIsAccepted`**: `SpecU => FinalizedSignerAccepted`. Every
  executed update signed with a finalized key was signed by a key the LCP
  client accepts while within half its expiration of the signing check.

  The base invariants (`ChainInv`, `UsableInv`) are re-established for the
  two update-client steps (lemma `BaseStepU`). Of the base variables, these
  steps change only the call's result and the chain height. `UpdateInv` adds:
  - every outbox message raises the height;
  - a finalized-key message names a key registered in a finalized block that
    was unexpired when it was checked.

  Lemma `RegistryStable` shows that a finalized registration survives every
  key-manager step, reorgs included, since a reorg removes only entries above
  the finalized height. `LatestHeightIsMax` shows that the client's latest
  height is the maximum of its consensus heights when it has any. By
  `LatestHeightRange`, it is zero before the first update. It rests on
  `BoundedMaxExists`, which is proved from `WFMin` of `WellFoundedInduction`
  on the well-founded order of the naturals. That theorem takes a set and a
  relation, not an operator, so the provers can use it.

Two choices in the model serve the proofs:
- The key selection is written as "a position that is a hit with no earlier
  hit", not as a CHOOSE of the minimum. Likewise the last finalized key is
  the set of keys with the latest attestation time. The least-number
  principle of `NaturalsInduction` takes an operator parameter, which the
  provers cannot instantiate. With the extremum as a witness, typing needs no such
  lemma, and TLC's runs are unchanged because the extremum is unique.
- The proof modules reach no RECURSIVE operator.

Only TLC checks the following:
- the liveness properties (`UnfinalizedResolves`), because TLAPS does not
  handle ENABLED or fairness;
- the wrapping arithmetic of `ExpiryArithmetic.tla`. Its statements are
  about `2^Width`. The backends do not evaluate `^`, not even on a literal
  such as `2^64`. Proving that `2^w` is a positive natural needs induction
  on `w`, through an operator-parameter theorem the provers cannot
  instantiate;
- the properties of the violation runs, which fail by design.

## Not modelled, and why

- Signature and certificate checks of AVRs, and the EIP-712 hashing of the
  operator signer: cryptography and encoding. Only their accept or reject
  outcome enters, through `BadReports` and `OperatorRejects`.
- The ELC commands and queriers: one-shot commands or pass-throughs with no
  state.
- The rotation boundary. At exactly half-life the code keeps the key, because
  its `After` at line 329 is strict. Spec §8 states this boundary both ways,
  so no property picks one reading.
- The selection models a failed `EnclaveKey` probe (a transient error) as
  the whole selection failing, not as one candidate being skipped.
- The signature and ELC-context checks of `verifyUpdateClient`, and the
  StateID comparison: the chain follows one origin chain, so a message the
  LCP service produced passes them.

## Plan for further work

1. An eventually-active-key property. It needs fairness for the LCP service's
   attestation, which the code does not control.
