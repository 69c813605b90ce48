------------------------- MODULE EnclaveKeyManager -------------------------
(***************************************************************************)
(* The enclave-key lifecycle of the LCP relayer prover (prover.go):      *)
(* UpdateEKIfNeeded and the helpers it calls, driven against its           *)
(* collaborators: the LCP service (which enclave keys it holds), the       *)
(* destination chain (blocks, finality, reorgs, the LCP client's enclave   *)
(* key store) and the relayer's own key-info files on disk.                *)
(*                                                                         *)
(* One call of UpdateEKIfNeeded is split at the points where it waits on   *)
(* the LCP service, the chain or the disk; `pc` names the next such point. *)
(* The relayer may crash (restart) between any two of them: memory is then *)
(* lost, the files and the chain stay.                                     *)
(***************************************************************************)
EXTENDS Naturals, Sequences, FiniteSets

CONSTANTS
    Keys,                 \* enclave keys (their EnclaveKeyAddress)
    AttTime,              \* [Keys -> Nat]: the AVR timestamp of each key
    QuoteStatus,          \* [Keys -> Statuses]: isvEnclaveQuoteStatus of the AVR
    AdvisoryIDs,          \* [Keys -> SUBSET Advisories]: advisoryIDs of the AVR
    BadReports,           \* keys whose report fails ias.VerifyReport
    ForeignOperatorKeys,  \* keys whose report data names another operator
    Statuses, Advisories,
    AllowedQuoteStatuses, \* config.AllowedQuoteStatuses (= client state's)
    AllowedAdvisoryIds,   \* config.AllowedAdvisoryIds (= client state's)
    KeyExpiration,        \* config.KeyExpiration, in seconds
    OperatorEnabled,      \* pr.IsOperatorEnabled()
    OperatorInSet,        \* the relayer's operator is in client_state.operators
    TransientErrors,      \* whether RPCs to the LCP service or chain may fail
    KeyOrder,             \* order in which AvailableEnclaveKeys lists keys
    MsgIds,               \* message ids the chain may return
    None,                 \* nil
    MaxTime, MaxHeight    \* bounds on the clock and on the chain's height

QuoteOK == "OK"

ASSUME KeysAssumption ==
    /\ IsFiniteSet(Keys) /\ None \notin Keys /\ None \notin MsgIds
    /\ AttTime \in [Keys -> Nat]
    /\ QuoteStatus \in [Keys -> Statuses] /\ QuoteOK \in Statuses
    /\ AdvisoryIDs \in [Keys -> SUBSET Advisories]
    /\ BadReports \subseteq Keys /\ ForeignOperatorKeys \subseteq Keys
    /\ KeyOrder \in Seq(Keys)

ASSUME ConfigAssumption ==
    /\ KeyExpiration \in Nat \ {0}
    /\ AllowedQuoteStatuses \subseteq Statuses
    /\ AllowedAdvisoryIds \subseteq Advisories
    /\ OperatorEnabled \in BOOLEAN /\ OperatorInSet \in BOOLEAN
    /\ TransientErrors \in BOOLEAN
    /\ MaxTime \in Nat /\ MaxHeight \in Nat

VARIABLES
    now,               \* wall clock (time.Now()), also the chain's block time
    pc,                \* next step of the running UpdateEKIfNeeded, or "idle"
    result,            \* how the last call returned: "ok", "err" or "none"
    tNow,              \* `now` as read at the start of the call (prover.go:364)
    cand,              \* the key selectNewEnclaveKey returned in this call
    pendingMsg,        \* the msg id registerEnclaveKey returned in this call
    activeEK,          \* pr.activeEnclaveKey
    unfinalizedMsgID,  \* pr.unfinalizedMsgID
    finalizedStore,    \* keys saved as finalized key infos
    unfinalizedStore,  \* saved unfinalized key infos [eki, msgID]
    lcpKeys,           \* keys the LCP service currently holds
    chainHeight,       \* latest height of the destination chain
    finalizedHeight,   \* latest finalized height of the destination chain
    txs,               \* [MsgIds -> [height, success]]; height 0: not found
    registry           \* LCP client's enclave keys: height added, 0 if absent

ctl   == <<pc, result, tNow, cand, pendingMsg>>
mem   == <<activeEK, unfinalizedMsgID>>
disk  == <<finalizedStore, unfinalizedStore>>
chain == <<chainHeight, finalizedHeight, txs, registry>>
vars  == <<now, lcpKeys, ctl, mem, disk, chain>>

PCs == {"idle", "checkFinalized", "checkIncluded", "checkStatus",
        "removeUnfinalized", "select", "register", "status"}
Heights == 0..MaxHeight
TxRecords == [height : Heights, success : BOOLEAN]
UnfinalizedRecords == [eki : Keys, msgID : MsgIds]
NoTx == [height |-> 0, success |-> FALSE]

(***************************************************************************)
(* Key policy of the relayer.                                              *)
(***************************************************************************)

\* checkEKIUpdateNeeded's expiry test: timestamp.After(attestationTime +
\* KeyExpiration/2), in half-second units so that an odd expiration is exact.
Expired(k, t) == 2 * t > 2 * AttTime[k] + KeyExpiration

\* Mutant of CheckEKIUpdateNeeded: the expiry test is dropped.
CheckEKIUpdateNeededNoExpiry(k, t, probeOK) == ~probeOK

\* checkEKIUpdateNeeded: expired, or the EnclaveKey query failed (the LCP
\* service does not know the key, or the RPC failed: `probeOK` is FALSE).
CheckEKIUpdateNeeded(k, t, probeOK) == Expired(k, t) \/ ~probeOK

\* Possible outcomes of the EnclaveKey query for key k.
ProbeOutcomes(k) ==
    IF k \in lcpKeys
    THEN IF TransientErrors THEN {TRUE, FALSE} ELSE {TRUE}
    ELSE {FALSE}

ValidateISVEnclaveQuoteStatus(k) ==
    QuoteStatus[k] = QuoteOK \/ QuoteStatus[k] \in AllowedQuoteStatuses

ValidateAdvisoryIDs(k) == AdvisoryIDs[k] \subseteq AllowedAdvisoryIds

\* The tests a listed key must pass in selectNewEnclaveKey's loop.
KeyAllowed(k, t) ==
    ~Expired(k, t) /\ ValidateISVEnclaveQuoteStatus(k) /\ ValidateAdvisoryIDs(k)

\* selectNewEnclaveKey's loop: the positions of the listed keys at which the
\* walk stops, with an error (the report fails verification) or with the
\* key (it passes every policy test); at the others it continues.
Hits(t) ==
    {i \in DOMAIN KeyOrder :
        KeyOrder[i] \in lcpKeys
        /\ (KeyOrder[i] \in BadReports \/ KeyAllowed(KeyOrder[i], t))}

\* The walk reaches position i first of all its stopping positions.
FirstHit(t, i) == i \in Hits(t) /\ \A j \in Hits(t) : i <= j

\* registerEnclaveKey's operator checks, before anything is sent.
OperatorRejects(k) ==
    OperatorEnabled /\ (~OperatorInSet \/ k \in ForeignOperatorKeys)

(***************************************************************************)
(* The LCP client on the destination chain.                                *)
(***************************************************************************)

\* verifyRegisterEnclaveKey (the MRENCLAVE is the configured one and an
\* existing entry of the same AVR has the same expiry, so both tests pass).
VerifyRegisterEnclaveKey(k) ==
    /\ k \notin BadReports
    /\ IF QuoteStatus[k] = QuoteOK
       THEN AdvisoryIDs[k] = {}
       ELSE /\ QuoteStatus[k] \in AllowedQuoteStatuses
            /\ AdvisoryIDs[k] \subseteq AllowedAdvisoryIds

\* A block at chainHeight + 1 executes MsgUpdateClient(RegisterEnclaveKey k):
\* registerEnclaveKey adds k unless the store already contains it.
IncludeRegistration(k) ==
    /\ chainHeight' = chainHeight + 1
    /\ registry' = IF VerifyRegisterEnclaveKey(k) /\ registry[k] = 0
                   THEN [registry EXCEPT ![k] = chainHeight + 1]
                   ELSE registry

(***************************************************************************)
(* The key-info files (save/load/remove, spec section 4.3).                *)
(***************************************************************************)

\* loadLastFinalizedEnclaveKey: the finalized keys with the latest AVR.
LastFinalized ==
    {k \in finalizedStore : \A j \in finalizedStore : AttTime[j] <= AttTime[k]}

\* What a relayer with no key in memory loads, <<activeEnclaveKey,
\* unfinalizedMsgID>> (prover.go:372-390): the unfinalized key info if there
\* is one, else the last finalized one, else nothing.
DiskViews ==
    IF unfinalizedStore # {} THEN {<<r.eki, r.msgID>> : r \in unfinalizedStore}
    ELSE IF finalizedStore # {} THEN {<<k, None>> : k \in LastFinalized}
    ELSE {<<None, None>>}

\* Mutant of UnfinalizedRecord: saves pr.unfinalizedMsgID, which line 276
\* has already cleared, instead of the new msg id.
UnfinalizedRecordStale(k, id) == [eki |-> k, msgID |-> unfinalizedMsgID]

\* The record saveUnfinalizedEnclaveKeyInfo(eki, msgID) writes.
UnfinalizedRecord(k, id) == [eki |-> k, msgID |-> id]

\* Message ids the relayer still holds; the chain may hand out any other.
FreeMsgIds ==
    MsgIds \ ({unfinalizedMsgID, pendingMsg} \cup {r.msgID : r \in unfinalizedStore})

(***************************************************************************)
(* UpdateEKIfNeeded.                                                       *)
(***************************************************************************)

\* Mutant of MsgFinalized: one block past the finalized height counts.
MsgFinalizedOffByOne(tx) == tx.height <= finalizedHeight + 1

\* Mutant of MsgFinalized: LT instead of LTE, the finalized block itself
\* never counts.
MsgFinalizedStrict(tx) == tx.height < finalizedHeight

\* checkMsgStatus's finality test: BlockHeight().LTE(lfHeader.GetHeight()).
MsgFinalized(tx) == tx.height <= finalizedHeight

Return(r) ==
    /\ pc' = "idle" /\ result' = r /\ cand' = None /\ pendingMsg' = None

\* Mutant of Rotate: only the msg id is cleared, the key stays in memory.
RotateKeepKey ==
    /\ activeEK' = activeEK /\ unfinalizedMsgID' = None
    /\ pc' = "select"
    /\ UNCHANGED <<result, cand, pendingMsg>>

\* updateNeeded is true: clear the in-memory key and go select a new one.
Rotate ==
    /\ activeEK' = None /\ unfinalizedMsgID' = None
    /\ pc' = "select"
    /\ UNCHANGED <<result, cand, pendingMsg>>

\* Entry of UpdateEKIfNeeded and loadEKIAndCheckUpdateNeeded up to its
\* case split: read the clock, load a key from disk if memory has none.
Tick ==
    /\ pc = "idle"
    /\ \E m \in IF activeEK # None THEN {<<activeEK, unfinalizedMsgID>>} ELSE DiskViews :
           /\ activeEK' = m[1] /\ unfinalizedMsgID' = m[2]
           /\ pc' = IF m[1] = None THEN "select"
                     ELSE IF m[2] = None THEN "checkFinalized"
                     ELSE "checkIncluded"
    /\ tNow' = now /\ result' = "none"
    /\ UNCHANGED <<cand, pendingMsg, now, lcpKeys, disk, chain>>

\* The active key is finalized: rotate if expired or unknown to the LCP.
CheckFinalized ==
    /\ pc = "checkFinalized"
    /\ \E ok \in ProbeOutcomes(activeEK) :
          IF CheckEKIUpdateNeeded(activeEK, tNow, ok)
          THEN Rotate
          ELSE Return("ok") /\ UNCHANGED mem
    /\ UNCHANGED <<tNow, now, lcpKeys, disk, chain>>

\* GetMsgResult(unfinalizedMsgID): any error counts as "not included".
CheckIncluded ==
    /\ pc = "checkIncluded"
    /\ \/ /\ txs[unfinalizedMsgID].height # 0
          /\ pc' = "checkStatus"
          /\ UNCHANGED <<result, cand, pendingMsg, mem, unfinalizedStore>>
       \/ /\ txs[unfinalizedMsgID].height = 0 \/ TransientErrors
          /\ unfinalizedStore' = {}
          /\ Rotate
    /\ UNCHANGED <<tNow, now, lcpKeys, finalizedStore, chain>>

\* checkMsgStatus(unfinalizedMsgID) and what the call does with its answer.
CheckStatus ==
    LET tx == txs[unfinalizedMsgID] IN
    /\ pc = "checkStatus"
    /\ \/ /\ tx.height = 0 \/ TransientErrors
          /\ Return("err") /\ UNCHANGED <<mem, disk>>
       \/ /\ tx.height # 0 /\ ~tx.success
          /\ unfinalizedStore' = {} /\ Rotate
          /\ UNCHANGED finalizedStore
       \/ /\ tx.height # 0 /\ tx.success /\ MsgFinalized(tx)
          /\ \E ok \in ProbeOutcomes(activeEK) :
                IF CheckEKIUpdateNeeded(activeEK, tNow, ok)
                THEN Rotate /\ UNCHANGED disk
                ELSE /\ finalizedStore' = finalizedStore \cup {activeEK}
                     /\ pc' = "removeUnfinalized"
                     /\ UNCHANGED <<result, cand, pendingMsg, mem, unfinalizedStore>>
       \/ /\ tx.height # 0 /\ tx.success /\ ~MsgFinalized(tx)
          /\ \E ok \in ProbeOutcomes(activeEK) :
                IF CheckEKIUpdateNeeded(activeEK, tNow, ok)
                THEN Rotate
                ELSE Return("ok") /\ UNCHANGED mem
          /\ UNCHANGED disk
    /\ UNCHANGED <<tNow, now, lcpKeys, chain>>

\* Promotion, second write: remove the old unfinalized key info.
RemoveUnfinalized ==
    /\ pc = "removeUnfinalized"
    /\ unfinalizedStore' = {} /\ unfinalizedMsgID' = None
    /\ Return("ok")
    /\ UNCHANGED <<tNow, activeEK, finalizedStore, now, lcpKeys, chain>>

\* selectNewEnclaveKey, with the clock read afresh: the RPC fails, no key
\* stops the walk, or the first one that does has a bad report (an error);
\* otherwise that key is the candidate.
Select ==
    /\ pc = "select"
    /\ \/ /\ \/ TransientErrors \/ Hits(now) = {}
             \/ \E i \in DOMAIN KeyOrder : FirstHit(now, i) /\ KeyOrder[i] \in BadReports
          /\ Return("err")
       \/ \E i \in DOMAIN KeyOrder :
             /\ FirstHit(now, i) /\ KeyOrder[i] \notin BadReports
             /\ cand' = KeyOrder[i] /\ pc' = "register"
             /\ UNCHANGED <<result, pendingMsg>>
    /\ UNCHANGED <<tNow, now, lcpKeys, mem, disk, chain>>

\* registerEnclaveKey: operator checks, then SendMsgs. The message lands in
\* a new block; a failed RPC may still have landed it (`landed`).
Register ==
    /\ pc = "register"
    /\ \/ /\ OperatorRejects(cand) \/ TransientErrors
          /\ Return("err") /\ UNCHANGED chain
       \/ /\ ~OperatorRejects(cand) /\ TransientErrors /\ chainHeight < MaxHeight
          /\ IncludeRegistration(cand)
          /\ Return("err") /\ UNCHANGED <<finalizedHeight, txs>>
       \/ /\ ~OperatorRejects(cand) /\ chainHeight < MaxHeight
          /\ \E id \in FreeMsgIds :
                /\ txs' = [txs EXCEPT ![id] = [height |-> chainHeight + 1,
                                               success |-> VerifyRegisterEnclaveKey(cand)]]
                /\ pendingMsg' = id
          /\ IncludeRegistration(cand)
          /\ pc' = "status"
          /\ UNCHANGED <<result, cand, finalizedHeight>>
    /\ UNCHANGED <<tNow, now, lcpKeys, mem, disk>>

\* checkMsgStatus(msgID) for the new registration, then save and set memory.
Status ==
    LET tx == txs[pendingMsg] IN
    /\ pc = "status"
    /\ \/ /\ tx.height = 0 \/ TransientErrors \/ ~tx.success
          /\ Return("err") /\ UNCHANGED <<mem, disk>>
       \/ /\ tx.height # 0 /\ tx.success /\ MsgFinalized(tx)
          /\ finalizedStore' = finalizedStore \cup {cand}
          /\ activeEK' = cand
          /\ Return("ok")
          /\ UNCHANGED <<unfinalizedMsgID, unfinalizedStore>>
       \/ /\ tx.height # 0 /\ tx.success /\ ~MsgFinalized(tx)
          /\ IF \E r \in unfinalizedStore : r.eki # cand
             THEN Return("err") /\ UNCHANGED <<mem, disk>>
             ELSE /\ unfinalizedStore' = {UnfinalizedRecord(cand, pendingMsg)}
                  /\ activeEK' = cand /\ unfinalizedMsgID' = pendingMsg
                  /\ Return("ok")
                  /\ UNCHANGED finalizedStore
    /\ UNCHANGED <<tNow, now, lcpKeys, chain>>

(***************************************************************************)
(* ProveState reads pr.activeEnclaveKey without calling UpdateEKIfNeeded;  *)
(* with no key in memory the nil dereference panics and the relayer        *)
(* restarts. With a key it changes no modelled state.                      *)
(***************************************************************************)

\* The relayer process crashes at any point and is started again: memory
\* (and the call in progress) is lost, the files and the chain stay.
Crash ==
    /\ pc' = "idle" /\ result' = "none" /\ cand' = None /\ pendingMsg' = None
    /\ activeEK' = None /\ unfinalizedMsgID' = None
    /\ UNCHANGED <<tNow, now, lcpKeys, disk, chain>>

ProveState ==
    /\ pc = "idle" /\ activeEK = None
    /\ Crash

(***************************************************************************)
(* Environment.                                                            *)
(***************************************************************************)

AdvanceTime ==
    /\ now < MaxTime /\ now' = now + 1
    /\ UNCHANGED <<lcpKeys, ctl, mem, disk, chain>>

\* The LCP service forgets a key (e.g. the enclave was restarted).
EnclaveKeyPruned ==
    /\ \E k \in lcpKeys : lcpKeys' = lcpKeys \ {k}
    /\ UNCHANGED <<now, ctl, mem, disk, chain>>

\* The LCP service generates and attests a key.
EnclaveKeyAttested ==
    /\ \E k \in Keys \ lcpKeys : AttTime[k] <= now /\ lcpKeys' = lcpKeys \cup {k}
    /\ UNCHANGED <<now, ctl, mem, disk, chain>>

Finalize ==
    /\ finalizedHeight < chainHeight
    /\ finalizedHeight' = finalizedHeight + 1
    /\ UNCHANGED <<chainHeight, txs, registry, now, lcpKeys, ctl, mem, disk>>

\* The unfinalized blocks are dropped, and the registrations they added with
\* them. A dropped message is either gone or (`failed`) goes back to the
\* mempool and is executed again in one new block, where it now fails (e.g.
\* the block time is past the IAS certificate's validity).
Reorg ==
    LET dropped == {id \in MsgIds : txs[id].height > finalizedHeight}
        h == finalizedHeight + 1
    IN
    /\ finalizedHeight < chainHeight
    /\ \E failed \in SUBSET dropped :
          /\ chainHeight' = IF failed = {} THEN finalizedHeight ELSE h
          /\ txs' = [id \in MsgIds |->
                       IF id \in failed THEN [height |-> h, success |-> FALSE]
                       ELSE IF id \in dropped THEN NoTx ELSE txs[id]]
    /\ registry' = [k \in Keys |->
                      IF registry[k] > finalizedHeight THEN 0 ELSE registry[k]]
    /\ UNCHANGED <<finalizedHeight, now, lcpKeys, ctl, mem, disk>>

-----------------------------------------------------------------------------

Init ==
    /\ now = 0 /\ tNow = 0
    /\ pc = "idle" /\ result = "none" /\ cand = None /\ pendingMsg = None
    /\ activeEK = None /\ unfinalizedMsgID = None
    /\ finalizedStore = {} /\ unfinalizedStore = {}
    /\ lcpKeys \in SUBSET {k \in Keys : AttTime[k] <= 0}
    /\ chainHeight = 0 /\ finalizedHeight = 0
    /\ txs = [id \in MsgIds |-> NoTx]
    /\ registry = [k \in Keys |-> 0]

Relayer ==
    \/ Tick \/ CheckFinalized \/ CheckIncluded \/ CheckStatus
    \/ RemoveUnfinalized \/ Select \/ Register \/ Status
    \/ ProveState \/ Crash

Environment ==
    \/ AdvanceTime \/ EnclaveKeyPruned \/ EnclaveKeyAttested
    \/ Finalize \/ Reorg

Next == Relayer \/ Environment

Spec == Init /\ [][Next]_vars

\* The relayer's service loop calls SetupHeadersForUpdate again after every
\* return, and every RPC, file write and chain query returns (or times out):
\* each step of UpdateEKIfNeeded that stays enabled is eventually taken. The
\* destination chain eventually finalizes every block it has. The LCP
\* service, the clock, reorgs and crashes get no fairness.
Fairness ==
    /\ WF_vars(Tick) /\ WF_vars(CheckFinalized) /\ WF_vars(CheckIncluded)
    /\ WF_vars(CheckStatus) /\ WF_vars(RemoveUnfinalized)
    /\ WF_vars(Select) /\ WF_vars(Register) /\ WF_vars(Status)
    /\ WF_vars(Finalize)

FairSpec == Spec /\ Fairness

-----------------------------------------------------------------------------

TypeOK ==
    /\ now \in 0..MaxTime /\ tNow \in 0..MaxTime
    /\ pc \in PCs /\ result \in {"ok", "err", "none"}
    /\ cand \in Keys \cup {None} /\ pendingMsg \in MsgIds \cup {None}
    /\ activeEK \in Keys \cup {None} /\ unfinalizedMsgID \in MsgIds \cup {None}
    /\ finalizedStore \subseteq Keys
    /\ unfinalizedStore \subseteq UnfinalizedRecords
    /\ lcpKeys \subseteq Keys
    /\ chainHeight \in Heights /\ finalizedHeight \in 0..chainHeight
    /\ txs \in [MsgIds -> TxRecords]
    /\ registry \in [Keys -> Heights]

(***************************************************************************)
(* Properties.                                                             *)
(***************************************************************************)

\* Write-ahead (spec P4): whenever pr.activeEnclaveKey is set, the key info
\* it stands for is already on disk, as finalized when unfinalizedMsgID is
\* nil and as the unfinalized record of that msg id otherwise. Breaks if
\* UpdateEKIfNeeded or the promotion path set memory before (or despite) a
\* save.
MemoryPersisted ==
    activeEK # None =>
        IF unfinalizedMsgID = None
        THEN activeEK \in finalizedStore
        ELSE [eki |-> activeEK, msgID |-> unfinalizedMsgID] \in unfinalizedStore

\* Spec P3: when UpdateEKIfNeeded returns nil, the key its caller signs with
\* passes the relayer's policy at the time the call read the clock: not past
\* half of its expiration, quote status and advisory IDs allowed.
UsableOnSuccess ==
    result = "ok" =>
        activeEK # None /\ KeyAllowed(activeEK, tNow)

\* A key UpdateEKIfNeeded reports as finalized (unfinalizedMsgID nil) is in
\* the destination LCP client's enclave-key store, added in a finalized
\* block: no reorg can take it away. Relates checkMsgStatus's finality test
\* and the key-info files to the chain across reorgs and restarts. Nil
\* means finalized as the code has it (300-306, 397-401); the field
\* comment at 36-37 states the opposite convention.
FinalizedKeyRegistered ==
    result = "ok" /\ unfinalizedMsgID = None =>
        registry[activeEK] \in 1..finalizedHeight

\* Spec section 8, recovery round-trip: after a successful call, a restart
\* would load from disk alone the same (activeEnclaveKey, unfinalizedMsgID).
RecoveryRoundTrip ==
    result = "ok" => DiskViews = {<<activeEK, unfinalizedMsgID>>}

\* Spec section 8, promotion monotonicity (and one record per key, section
\* 3): between calls, a key saved as finalized never also has an unfinalized
\* key info.
PromotionMonotone ==
    pc = "idle" => \A r \in unfinalizedStore : r.eki \notin finalizedStore

\* Spec section 4.2, rule 2: a key whose quote status is OK but which has
\* advisory IDs is rejected, so selectNewEnclaveKey never returns one.
SelectionFollowsPolicy ==
    cand # None /\ QuoteStatus[cand] = QuoteOK => AdvisoryIDs[cand] = {}

\* Spec section 7: a candidate that fails validation is skipped, and only
\* running out of candidates is an error. So a selectNewEnclaveKey that
\* fails without an RPC error leaves no listed key with a good report that
\* the policy allows at the clock it read.
SelectionSkipsRejected ==
    [][pc = "select" /\ result' = "err" /\ ~TransientErrors =>
         \A k \in lcpKeys \ BadReports : ~KeyAllowed(k, now)]_vars

\* From some point on the relayer no longer crashes (a relayer that
\* restarts forever promises nothing).
EventuallyNoCrash == <>[][~Crash]_vars

\* A registration UpdateEKIfNeeded holds in memory as unfinalized is
\* eventually resolved: promoted once its block is finalized, or dropped
\* when it fails, is reorged out or its key must rotate.
UnfinalizedResolves ==
    EventuallyNoCrash => (unfinalizedMsgID # None ~> unfinalizedMsgID = None)

\* Spec section 3, lifecycle of a key record: an unfinalized record stays
\* until its registration is finalized (then it is removed as the key is
\* promoted) or fails or disappears (then it is removed). So the
\* unfinalized key-info file is eventually emptied.
UnfinalizedRecordCleared ==
    EventuallyNoCrash => (unfinalizedStore # {} ~> unfinalizedStore = {})

\* The in-memory key of UpdateEKIfNeeded seen through the abstract key
\* lifecycle of spec section 4.6.
Lifecycle == INSTANCE KeyLifecycle WITH key <- activeEK, msg <- unfinalizedMsgID

\* Every step of UpdateEKIfNeeded, a restart or ProveState moves
\* (pr.activeEnclaveKey, pr.unfinalizedMsgID) along an edge of the
\* lifecycle: a new key only from an empty memory (Tick's load, Status's
\* write), the msg id cleared only by the promotion at line 441, and every
\* other change a clearing of both (line 276, a restart).
ImplementsKeyLifecycle == Lifecycle!Spec

\* Spec section 4.7: ProveState ensures an active key first, so it never
\* runs with pr.activeEnclaveKey nil (which dereferences nil and panics).
ProveStateHasKey == [][~ProveState]_vars

=============================================================================
