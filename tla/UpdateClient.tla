---------------------------- MODULE UpdateClient ----------------------------
(***************************************************************************)
(* The header-relay gate composed with the destination chain's LCP client  *)
(* (prover.go). SetupHeadersForUpdate first runs UpdateEKIfNeeded (the     *)
(* EnclaveKeyManager actions); when that returns nil it has the LCP        *)
(* service sign an update of the client with pr.activeEnclaveKey, and the  *)
(* relayer submits it. The chain executes submitted updates in any order,  *)
(* or they are lost; verifyUpdateClient accepts one only if its signer is  *)
(* an active enclave key at the block time, and updateClient then stores   *)
(* the new consensus state. Reorgs drop the consensus states stored in     *)
(* unfinalized blocks along with the registrations.                        *)
(***************************************************************************)
EXTENDS EnclaveKeyManager

CONSTANTS
    MaxOrigin,   \* bound on the origin chain's finalized height
    MaxPending   \* bound on the submitted updates not yet executed

ASSUME OriginAssumption == MaxOrigin \in Nat \ {0} /\ MaxPending \in Nat

VARIABLES
    originHeight,  \* height of the origin's latest finalized header
    consensus,     \* LCP client's consensus states: origin height, block set
    outbox         \* signed UpdateClientMessages not yet executed

uvars   == <<originHeight, consensus, outbox>>
allvars == <<vars, uvars>>

OriginHeights == 1..MaxOrigin
ConsensusRecords == [origin : OriginHeights, block : Heights]

\* An UpdateClientMessage: its signer and the heights of its ELC message
\* (prev 0: no PrevHeight, the first update after createClient).
\* `fin` (the key was finalized when it signed) and `checkedAt` (the clock
\* UpdateEKIfNeeded checked the key against) are history, not message data.
UpdateMsgs ==
    [signer : Keys, prev : 0..MaxOrigin, post : OriginHeights,
     fin : BOOLEAN, checkedAt : 0..MaxTime]

\* cs.LatestHeight: zero as createClient leaves it, then the greatest
\* PostHeight updateClient stored (it only raises it). A reorg rolls the
\* client state back together with the consensus states of its blocks.
LatestHeight ==
    IF consensus = {} THEN 0
    ELSE CHOOSE h \in {c.origin : c \in consensus} :
             \A c \in consensus : c.origin <= h

\* IsActiveKey(blockTime, key): the store contains the key and its expiredAt,
\* the AVR timestamp plus KeyExpiration seconds as registerEnclaveKey stored
\* it (getKeyExpiration), is after the block time.
IsActiveKey(t, k) == registry[k] # 0 /\ AttTime[k] + KeyExpiration > t

\* verifyUpdateClient: with a zero LatestHeight the message only has to
\* emit a state, which the LCP service's first message does; otherwise the
\* consensus state at PrevHeight must exist (one origin chain, so its
\* StateId matches). Then the signer must be an active key. The enclave's
\* signature and the ELC context are valid for a message the LCP service
\* produced.
VerifyUpdateClient(m) ==
    /\ LatestHeight = 0 \/ \E c \in consensus : c.origin = m.prev
    /\ IsActiveKey(now, m.signer)

\* updateClient: store the consensus state at PostHeight, in this block.
UpdateClientState(m) ==
    consensus' = {c \in consensus : c.origin # m.post}
                 \cup {[origin |-> m.post, block |-> chainHeight + 1]}

\* SetupHeadersForUpdate after UpdateEKIfNeeded returned nil: the origin
\* prover returns the headers from the client's latest height to the
\* latest finalized one (none: return nil), and the LCP service signs each
\* with pr.activeEnclaveKey; it fails (an error) if the enclave no longer
\* holds that key, or on an RPC error.
SetupHeadersForUpdate ==
    /\ pc = "idle" /\ result = "ok"
    /\ \/ /\ TransientErrors \/ activeEK \notin lcpKeys
          /\ result' = "err" /\ UNCHANGED outbox
       \/ /\ originHeight <= LatestHeight
          /\ result' = "none" /\ UNCHANGED outbox
       \/ /\ originHeight > LatestHeight /\ activeEK \in lcpKeys
          /\ Cardinality(outbox) < MaxPending
          /\ outbox' = outbox \cup
                {[signer |-> activeEK, prev |-> LatestHeight, post |-> originHeight,
                  fin |-> unfinalizedMsgID = None, checkedAt |-> tNow]}
          /\ result' = "none"
    /\ UNCHANGED <<now, lcpKeys, pc, tNow, cand, pendingMsg, mem, disk, chain,
                   originHeight, consensus>>

\* A block executes a submitted update: VerifyClientMessage, then
\* UpdateState when it passes; a rejected update fails in the block.
ExecuteUpdate ==
    /\ chainHeight < MaxHeight
    /\ \E m \in outbox :
          /\ outbox' = outbox \ {m}
          /\ IF VerifyUpdateClient(m) THEN UpdateClientState(m)
             ELSE UNCHANGED consensus
    /\ chainHeight' = chainHeight + 1
    /\ UNCHANGED <<now, lcpKeys, ctl, mem, disk, finalizedHeight, txs, registry,
                   originHeight>>

\* The relayer's submission of an update is lost (the tx never lands).
DropUpdate ==
    /\ \E m \in outbox : outbox' = outbox \ {m}
    /\ UNCHANGED <<vars, originHeight, consensus>>

\* The origin chain finalizes a new header.
OriginAdvance ==
    /\ originHeight < MaxOrigin /\ originHeight' = originHeight + 1
    /\ UNCHANGED <<vars, consensus, outbox>>

\* A reorg of the destination also drops the consensus states stored in
\* the dropped blocks (and the updates executed there are lost).
ReorgClient ==
    /\ Reorg
    /\ consensus' = {c \in consensus : c.block <= finalizedHeight}
    /\ UNCHANGED <<originHeight, outbox>>

-----------------------------------------------------------------------------

\* CreateInitialLightClientState: a zero LatestHeight and no consensus
\* state yet; the origin chain has a finalized header to relay.
InitU ==
    /\ Init
    /\ originHeight = 1
    /\ consensus = {}
    /\ outbox = {}

\* UpdateEKIfNeeded's steps, restarts and the environment of
\* EnclaveKeyManager leave the client alone. A new call does not start
\* while SetupHeadersForUpdate still has to use a nil return.
NextU ==
    \/ /\ \/ Tick /\ result # "ok"
          \/ CheckFinalized \/ CheckIncluded \/ CheckStatus \/ RemoveUnfinalized
          \/ Select \/ Register \/ Status \/ ProveState \/ Crash
          \/ AdvanceTime \/ EnclaveKeyPruned \/ EnclaveKeyAttested \/ Finalize
       /\ UNCHANGED uvars
    \/ ReorgClient
    \/ SetupHeadersForUpdate \/ ExecuteUpdate \/ DropUpdate \/ OriginAdvance

SpecU == InitU /\ [][NextU]_allvars

-----------------------------------------------------------------------------

TypeOKU ==
    /\ TypeOK
    /\ originHeight \in OriginHeights
    /\ consensus \subseteq ConsensusRecords
    /\ outbox \subseteq UpdateMsgs

\* The updates a step executes on the chain (a block is added and they
\* leave the outbox).
Executed == IF chainHeight' = chainHeight + 1 THEN outbox \ outbox' ELSE {}

\* The half-life margin of checkEKIUpdateNeeded, end to end: an update that
\* SetupHeadersForUpdate signed with a key UpdateEKIfNeeded reported as
\* finalized, and that the chain executes less than KeyExpiration/2 after
\* the clock UpdateEKIfNeeded checked the key against, passes IsActiveKey,
\* whatever reorgs, restarts and rotations happened in between.
FinalizedSignerAccepted ==
    [][\A m \in Executed :
          m.fin /\ 2 * (now - m.checkedAt) < KeyExpiration =>
              IsActiveKey(now, m.signer)]_allvars

\* Spec section 4.7 binds the signed updates to active_eki, also while it
\* is unfinalized; the spec says nothing of what a reorg does to them. An
\* executed update's signer is in the LCP client's key store.
SignerRegisteredWhenExecuted ==
    [][\A m \in Executed : registry[m.signer] # 0]_allvars

=============================================================================
