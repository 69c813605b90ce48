------------------------- MODULE UpdateClientProofs -------------------------
(***************************************************************************)
(* Proofs about the header-relay gate composed with the destination LCP   *)
(* client's update path (UpdateClient): type correctness of the composed   *)
(* state, and that an update signed with a key UpdateEKIfNeeded reported   *)
(* as finalized, executed within half the key's life after the check,      *)
(* passes IsActiveKey. They rest on the relayer-side invariants proved in  *)
(* EnclaveKeyManagerProofs, re-established for the composed next-state     *)
(* relation, whose SetupHeadersForUpdate and ExecuteUpdate steps are not   *)
(* steps of EnclaveKeyManager.                                             *)
(***************************************************************************)
EXTENDS UpdateClient, EnclaveKeyManagerProofs, WellFoundedInduction

\* The relayer-side invariants: types, control, write-ahead, what the chain
\* records of the tracked keys, and the policy of the held keys.
BaseInv == ChainInv /\ UsableInv

\* What the composed state keeps. Every submitted update moves the client
\* forward from the height it was built on (prev < post); and one signed
\* with a key UpdateEKIfNeeded reported as finalized names a key added to
\* the LCP client in a finalized block, not past its half-life at the clock
\* the call checked it against.
UpdateInv ==
    /\ originHeight \in OriginHeights
    /\ consensus \subseteq ConsensusRecords
    /\ outbox \subseteq UpdateMsgs
    /\ \A m \in outbox : m.prev < m.post
    /\ \A m \in outbox :
          m.fin => /\ registry[m.signer] \in 1..finalizedHeight
                   /\ ~Expired(m.signer, m.checkedAt)

-----------------------------------------------------------------------------
(***************************************************************************)
(* cs.LatestHeight is well defined.                                        *)
(***************************************************************************)

\* A non-empty set of naturals below a bound has a greatest element: the
\* least element of its distances to the bound, which exists because < is
\* well-founded on Nat.
LEMMA BoundedMaxExists ==
    ASSUME NEW N \in Nat, NEW S \in SUBSET (0..N), S # {}
    PROVE  \E x \in S : \A y \in S : y <= x
<1> DEFINE D == {N - s : s \in S}
<1>1. D \subseteq Nat
      <2> SUFFICES ASSUME NEW s \in S PROVE N - s \in Nat
          OBVIOUS
      <2> QED
          OBVIOUS
<1>2. D # {}
      OBVIOUS
<1>3. \E d \in D : \A e \in D : ~(<<e, d>> \in OpToRel(<, Nat))
      BY <1>1, <1>2, NatLessThanWellFounded, WFMin
<1>4. PICK d \in D : \A e \in D : ~(<<e, d>> \in OpToRel(<, Nat))
      BY <1>3
<1>5. PICK x \in S : d = N - x
      OBVIOUS
<1>6. ASSUME NEW y \in S PROVE y <= x
      <2>1. N - y \in D /\ N - y \in Nat /\ d \in Nat
            BY <1>1
      <2>2. ~(N - y < d)
            BY <1>4, <2>1 DEF OpToRel
      <2>3. QED
            BY <1>5, <2>2
<1>7. QED
      BY <1>6

\* The client's latest height is the greatest origin height it stores.
LEMMA LatestHeightIsMax ==
    ASSUME OriginAssumption, consensus \subseteq ConsensusRecords, consensus # {}
    PROVE  /\ LatestHeight \in {c.origin : c \in consensus}
           /\ \A c \in consensus : c.origin <= LatestHeight
<1> DEFINE S == {c.origin : c \in consensus}
<1>1. S \subseteq 0..MaxOrigin /\ S # {} /\ MaxOrigin \in Nat
      BY DEF ConsensusRecords, OriginHeights
<1>2. \E x \in S : \A y \in S : y <= x
      BY <1>1, BoundedMaxExists
<1>3. QED
      BY <1>2 DEF LatestHeight

\* The client's latest height is zero (no consensus state yet) or one of
\* the origin heights.
LEMMA LatestHeightRange ==
    ASSUME OriginAssumption, consensus \subseteq ConsensusRecords
    PROVE  LatestHeight \in 0..MaxOrigin
<1>1. CASE consensus = {}
      BY <1>1 DEF LatestHeight
<1>2. CASE consensus # {}
      <2>1. LatestHeight \in {c.origin : c \in consensus}
            BY <1>2, LatestHeightIsMax
      <2>2. QED
            BY <2>1 DEF ConsensusRecords, OriginHeights
<1>3. QED
      BY <1>1, <1>2

-----------------------------------------------------------------------------
(***************************************************************************)
(* The relayer-side invariants under the composed next-state relation.     *)
(***************************************************************************)

\* A key added in a finalized block stays in the LCP client's store, in a
\* finalized block, across every step of EnclaveKeyManager: registerEnclaveKey
\* only adds absent keys, a reorg only drops entries above the finalized
\* height, and finality only grows.
LEMMA RegistryStable ==
    ASSUME TypeInv, [Next]_vars, NEW k \in Keys, registry[k] \in 1..finalizedHeight
    PROVE  registry'[k] \in 1..finalizedHeight'
<1> USE DEF ctl, mem, disk, chain, TypeInv, TypeOK
<1>1. CASE Register
      BY <1>1 DEF Register, IncludeRegistration
<1>2. CASE Reorg
      BY <1>2 DEF Reorg
<1>3. CASE Finalize
      BY <1>3 DEF Finalize
<1>4. CASE Tick \/ CheckFinalized \/ CheckIncluded \/ CheckStatus
             \/ RemoveUnfinalized \/ Select \/ Status \/ ProveState \/ Crash
      BY <1>4 DEF Tick, CheckFinalized, CheckIncluded, CheckStatus,
                  RemoveUnfinalized, Select, Status, ProveState, Crash
<1>5. CASE AdvanceTime \/ EnclaveKeyPruned \/ EnclaveKeyAttested \/ UNCHANGED vars
      BY <1>5 DEF AdvanceTime, EnclaveKeyPruned, EnclaveKeyAttested, vars
<1>6. QED
      BY <1>1, <1>2, <1>3, <1>4, <1>5 DEF Next, Relayer, Environment

\* A composed step is a step of EnclaveKeyManager (or stutters on its
\* variables), or one of the two composed steps that touch them:
\* SetupHeadersForUpdate sets the call's result, ExecuteUpdate adds a block.
LEMMA StepCases ==
    [NextU]_allvars => [Next]_vars \/ SetupHeadersForUpdate \/ ExecuteUpdate
BY DEF NextU, Next, Relayer, Environment, ReorgClient, DropUpdate,
       OriginAdvance, allvars

LEMMA BaseStepU == BaseInv /\ [NextU]_allvars => BaseInv'
<1> SUFFICES ASSUME BaseInv, [NextU]_allvars PROVE BaseInv'
    OBVIOUS
<1>1. CASE [Next]_vars
      BY <1>1, ChainStep, UsableStep DEF BaseInv, ChainInv, PersistInv
<1>2. CASE SetupHeadersForUpdate
      <2>1. /\ result' \in {"err", "none"} /\ pc = "idle"
            /\ UNCHANGED <<now, lcpKeys, pc, tNow, cand, pendingMsg, activeEK,
                           unfinalizedMsgID, finalizedStore, unfinalizedStore,
                           chainHeight, finalizedHeight, txs, registry>>
            BY <1>2 DEF SetupHeadersForUpdate, mem, disk, chain
      <2>2. QED
            BY <2>1 DEF BaseInv, ChainInv, PersistInv, TypeInv, TypeOK, ControlInv,
                        MemoryPersisted, PromotionInv, RegisteredInv, UsableInv,
                        UsableOnSuccess
<1>3. CASE ExecuteUpdate
      <2>1. /\ chainHeight < MaxHeight /\ chainHeight' = chainHeight + 1
            /\ UNCHANGED <<now, lcpKeys, pc, result, tNow, cand, pendingMsg, activeEK,
                           unfinalizedMsgID, finalizedStore, unfinalizedStore,
                           finalizedHeight, txs, registry>>
            BY <1>3 DEF ExecuteUpdate, ctl, mem, disk
      <2>2. QED
            BY <2>1, ConfigAssumption
            DEF BaseInv, ChainInv, PersistInv, TypeInv, TypeOK, ControlInv, Heights,
                MemoryPersisted, PromotionInv, RegisteredInv, UsableInv,
                UsableOnSuccess
<1>4. QED
      BY <1>1, <1>2, <1>3, StepCases

-----------------------------------------------------------------------------
(***************************************************************************)
(* The composed state.                                                     *)
(***************************************************************************)

LEMMA InitInv == InitU => BaseInv /\ UpdateInv
<1> SUFFICES ASSUME InitU PROVE BaseInv /\ UpdateInv
    OBVIOUS
<1>1. BaseInv
      BY ChainInit, UsableInit DEF InitU, BaseInv
<1>2. UpdateInv
      BY OriginAssumption, ConfigAssumption
      DEF InitU, UpdateInv, OriginHeights, ConsensusRecords, Heights
<1>3. QED
      BY <1>1, <1>2

\* A key a successful UpdateEKIfNeeded reports as finalized is registered
\* in a finalized block (FinalizedKeyRegistered, from ChainInv) and not past
\* its half-life at the call's clock (UsableOnSuccess).
LEMMA SignerOnSuccess ==
    ASSUME BaseInv, result = "ok"
    PROVE  /\ activeEK \in Keys
           /\ unfinalizedMsgID = None => registry[activeEK] \in 1..finalizedHeight
           /\ ~Expired(activeEK, tNow)
BY DEF BaseInv, ChainInv, PersistInv, TypeInv, TypeOK, RegisteredInv,
       MemoryPersisted, UsableInv, UsableOnSuccess, KeyAllowed

\* Each composed step keeps UpdateInv.
LEMMA UpdateStep == BaseInv /\ UpdateInv /\ [NextU]_allvars => UpdateInv'
<1> SUFFICES ASSUME BaseInv, UpdateInv, [NextU]_allvars PROVE UpdateInv'
    OBVIOUS
<1> USE OriginAssumption, KeysAssumption, ConfigAssumption
<1>0. TypeInv
      BY DEF BaseInv, ChainInv, PersistInv
<1>1. CASE [Next]_vars /\ UNCHANGED uvars
      <2>1. ASSUME NEW m \in outbox', m.fin
            PROVE  registry'[m.signer] \in 1..finalizedHeight'
            <3>1. m \in outbox /\ m.signer \in Keys
                  BY <1>1 DEF uvars, UpdateInv, UpdateMsgs
            <3>2. registry[m.signer] \in 1..finalizedHeight
                  BY <2>1, <3>1 DEF UpdateInv
            <3>3. QED
                  BY <1>0, <1>1, <3>1, <3>2, RegistryStable
      <2>2. QED
            BY <1>1, <2>1 DEF uvars, UpdateInv
<1>2. CASE ReorgClient
      <2>1. [Next]_vars /\ UNCHANGED <<originHeight, outbox>>
            BY <1>2 DEF ReorgClient, Next, Environment
      <2>2. ASSUME NEW m \in outbox', m.fin
            PROVE  registry'[m.signer] \in 1..finalizedHeight'
            <3>1. m \in outbox /\ m.signer \in Keys
                  BY <2>1 DEF UpdateInv, UpdateMsgs
            <3>2. registry[m.signer] \in 1..finalizedHeight
                  BY <2>2, <3>1 DEF UpdateInv
            <3>3. QED
                  BY <1>0, <2>1, <3>1, <3>2, RegistryStable
      <2>3. consensus' = {c \in consensus : c.block <= finalizedHeight}
            /\ finalizedHeight' = finalizedHeight /\ finalizedHeight \in Nat
            BY <1>0, <1>2 DEF ReorgClient, Reorg, TypeInv, TypeOK
      <2>4. QED
            BY <2>1, <2>2, <2>3 DEF UpdateInv
<1>3. CASE SetupHeadersForUpdate
      <2>1. /\ pc = "idle" /\ result = "ok"
            /\ UNCHANGED <<registry, finalizedHeight, originHeight, consensus>>
            BY <1>3 DEF SetupHeadersForUpdate, chain
      <2>2. CASE UNCHANGED outbox
            BY <2>1, <2>2 DEF UpdateInv
      <2>3. CASE /\ originHeight > LatestHeight /\ activeEK \in lcpKeys
                 /\ outbox' = outbox \cup
                      {[signer |-> activeEK, prev |-> LatestHeight, post |-> originHeight,
                        fin |-> unfinalizedMsgID = None, checkedAt |-> tNow]}
            <3> DEFINE n == [signer |-> activeEK, prev |-> LatestHeight,
                             post |-> originHeight, fin |-> unfinalizedMsgID = None,
                             checkedAt |-> tNow]
            <3>1. LatestHeight \in 0..MaxOrigin
                  BY LatestHeightRange DEF UpdateInv
            <3>2. n \in UpdateMsgs /\ n.prev < n.post
                  BY <1>0, <2>3, <3>1 DEF UpdateInv, UpdateMsgs, TypeInv, TypeOK,
                                          OriginHeights
            <3>3. n.fin => /\ registry[n.signer] \in 1..finalizedHeight
                           /\ ~Expired(n.signer, n.checkedAt)
                  BY <2>1, SignerOnSuccess
            <3>4. QED
                  BY <2>1, <2>3, <3>2, <3>3 DEF UpdateInv
      <2>4. QED
            BY <1>3, <2>2, <2>3 DEF SetupHeadersForUpdate
<1>4. CASE ExecuteUpdate
      <2>1. PICK m0 \in outbox :
               /\ outbox' = outbox \ {m0}
               /\ IF VerifyUpdateClient(m0) THEN UpdateClientState(m0)
                  ELSE UNCHANGED consensus
            BY <1>4 DEF ExecuteUpdate
      <2>2. /\ chainHeight < MaxHeight /\ chainHeight \in Nat
            /\ UNCHANGED <<registry, finalizedHeight, originHeight>>
            <3>1. chainHeight \in Nat
                  BY <1>0 DEF TypeInv, TypeOK, Heights
            <3>2. chainHeight < MaxHeight
                  BY <1>4 DEF ExecuteUpdate
            <3>3. UNCHANGED <<registry, finalizedHeight, originHeight>>
                  BY <1>4 DEF ExecuteUpdate
            <3>4. QED
                  BY <3>1, <3>2, <3>3
      <2>3. m0.post \in OriginHeights
            BY DEF UpdateInv, UpdateMsgs
      <2>4. consensus' \subseteq ConsensusRecords
            BY <2>1, <2>2, <2>3 DEF UpdateClientState, UpdateInv, ConsensusRecords,
                                    Heights
      <2>5. QED
            BY <2>1, <2>2, <2>4 DEF UpdateInv
<1>5. CASE DropUpdate \/ OriginAdvance
      BY <1>5 DEF DropUpdate, OriginAdvance, UpdateInv, OriginHeights, vars, ctl,
                  mem, disk, chain
<1>6. CASE UNCHANGED allvars
      BY <1>6 DEF allvars, uvars, UpdateInv, vars, ctl, mem, disk, chain
<1>7. QED
      BY <1>1, <1>2, <1>3, <1>4, <1>5, <1>6
      DEF NextU, Next, Relayer, Environment

\* Type correctness of the composed state in every reachable state: the
\* relayer, the key-info files, the chain, the origin's height, the LCP
\* client's consensus states and the submitted updates.
THEOREM ComposedTypeCorrect == SpecU => []TypeOKU
<1>1. BaseInv /\ UpdateInv /\ [NextU]_allvars => (BaseInv /\ UpdateInv)'
      BY BaseStepU, UpdateStep
<1>2. BaseInv /\ UpdateInv => TypeOKU
      BY DEF BaseInv, ChainInv, PersistInv, TypeInv, UpdateInv, TypeOKU
<1>3. QED
      BY InitInv, <1>1, <1>2, PTL DEF SpecU

-----------------------------------------------------------------------------
(***************************************************************************)
(* The half-life margin, end to end.                                       *)
(***************************************************************************)

\* The formula under [][...]_allvars in FinalizedSignerAccepted.
SignerAccepted ==
    \A m \in Executed :
        m.fin /\ 2 * (now - m.checkedAt) < KeyExpiration => IsActiveKey(now, m.signer)

\* Only ExecuteUpdate executes updates: every other step keeps the outbox
\* or (DropUpdate) adds no block.
LEMMA ExecutedOnlyByExecute ==
    ASSUME TypeInv, [NextU]_allvars, ~ExecuteUpdate
    PROVE  Executed = {}
<1>1. CASE DropUpdate
      BY <1>1 DEF DropUpdate, Executed, vars, chain, TypeInv, TypeOK, Heights
<1>2. CASE outbox \subseteq outbox'
      BY <1>2 DEF Executed
<1>3. QED
      BY <1>1, <1>2 DEF NextU, ReorgClient, SetupHeadersForUpdate, OriginAdvance,
                        uvars, allvars

\* An executed update signed with a key reported as finalized, less than
\* KeyExpiration/2 after the check, has a registered signer whose expiry
\* (AVR time plus KeyExpiration) is after the block time.
LEMMA AcceptStep == BaseInv /\ UpdateInv /\ [NextU]_allvars => SignerAccepted
<1> SUFFICES ASSUME BaseInv, UpdateInv, [NextU]_allvars PROVE SignerAccepted
    OBVIOUS
<1>0. TypeInv
      BY DEF BaseInv, ChainInv, PersistInv
<1>1. CASE ExecuteUpdate
      <2>1. PICK m0 \in outbox : outbox' = outbox \ {m0}
            BY <1>1 DEF ExecuteUpdate
      <2>2. /\ chainHeight' = chainHeight + 1
            /\ UNCHANGED <<now, registry>>
            BY <1>1 DEF ExecuteUpdate
      <2>3. Executed = {m0}
            BY <2>1, <2>2 DEF Executed
      <2>4. SUFFICES ASSUME m0.fin, 2 * (now - m0.checkedAt) < KeyExpiration
                     PROVE  IsActiveKey(now, m0.signer)
            BY <2>3 DEF SignerAccepted
      <2>5. /\ registry[m0.signer] \in 1..finalizedHeight
            /\ ~Expired(m0.signer, m0.checkedAt)
            BY <2>4 DEF UpdateInv
      <2>6. /\ m0.signer \in Keys /\ m0.checkedAt \in Nat /\ now \in Nat
            /\ AttTime[m0.signer] \in Nat /\ KeyExpiration \in Nat
            BY <1>0, KeysAssumption, ConfigAssumption
            DEF UpdateInv, UpdateMsgs, TypeInv, TypeOK
      <2>7. AttTime[m0.signer] + KeyExpiration > now
            BY <2>4, <2>5, <2>6 DEF Expired
      <2>8. QED
            BY <2>5, <2>7 DEF IsActiveKey
<1>2. CASE ~ExecuteUpdate
      BY <1>0, <1>2, ExecutedOnlyByExecute DEF SignerAccepted
<1>3. QED
      BY <1>1, <1>2

\* The half-life margin of checkEKIUpdateNeeded holds end to end, for every
\* value of the constants: an update SetupHeadersForUpdate signed with a key
\* UpdateEKIfNeeded reported as finalized, executed less than
\* KeyExpiration/2 after the clock that call checked the key against,
\* passes IsActiveKey, whatever reorgs, restarts, rotations, lost and
\* reordered updates happened in between.
THEOREM FinalizedSignerIsAccepted == SpecU => FinalizedSignerAccepted
<1>1. BaseInv /\ UpdateInv /\ [NextU]_allvars => (BaseInv /\ UpdateInv)'
      BY BaseStepU, UpdateStep
<1>2. BaseInv /\ UpdateInv /\ [NextU]_allvars => [SignerAccepted]_allvars
      BY AcceptStep
<1>3. QED
      BY InitInv, <1>1, <1>2, PTL DEF SpecU, FinalizedSignerAccepted, SignerAccepted

=============================================================================
