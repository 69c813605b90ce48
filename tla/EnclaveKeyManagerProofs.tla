---------------------- MODULE EnclaveKeyManagerProofs ----------------------
(***************************************************************************)
(* Proofs, for every value of the constants, of the type invariant of      *)
(* EnclaveKeyManager, of its write-ahead property MemoryPersisted and of   *)
(* FinalizedKeyRegistered. None is inductive alone: they rest on what each *)
(* pc of UpdateEKIfNeeded implies about memory (ControlInv), on the        *)
(* promotion's first write (PromotionInv) and on what the chain records of *)
(* the keys the relayer tracks (RegisteredInv).                            *)
(***************************************************************************)
EXTENDS EnclaveKeyManager, TLAPS

\* What each suspension point of UpdateEKIfNeeded knows about memory:
\* loadEKIAndCheckUpdateNeeded's checks run on a loaded key (and, for an
\* unfinalized one, its msg id); from line 276 on memory is cleared until
\* the call returns; registerEnclaveKey and checkMsgStatus run on a
\* selected candidate and the msg id SendMsgs returned.
ControlInv ==
    /\ pc \in {"checkFinalized", "checkIncluded", "checkStatus",
               "removeUnfinalized"} => activeEK \in Keys
    /\ pc \in {"checkIncluded", "checkStatus"} => unfinalizedMsgID \in MsgIds
    /\ pc \in {"select", "register", "status"} =>
          activeEK = None /\ unfinalizedMsgID = None
    /\ pc \in {"register", "status"} => cand \in Keys
    /\ pc = "status" => pendingMsg \in MsgIds

TypeInv == TypeOK /\ ControlInv

LEMMA TypeInit == Init => TypeInv
BY KeysAssumption, ConfigAssumption
DEF Init, TypeInv, TypeOK, ControlInv, PCs, Heights, TxRecords, NoTx

\* Each action preserves TypeInv.
LEMMA TypeStep == TypeInv /\ [Next]_vars => TypeInv'
<1> SUFFICES ASSUME TypeInv, [Next]_vars PROVE TypeInv'
    OBVIOUS
<1> USE KeysAssumption, ConfigAssumption
<1> USE DEF PCs, UnfinalizedRecords, Heights, TxRecords, ctl, mem, disk, chain
<1>1. CASE Tick
      BY <1>1 DEF Tick, TypeInv, TypeOK, ControlInv, DiskViews, LastFinalized,
                  UnfinalizedRecords
<1>2. CASE CheckFinalized
      BY <1>2 DEF CheckFinalized, Rotate, Return, TypeInv, TypeOK, ControlInv
<1>3. CASE CheckIncluded
      BY <1>3 DEF CheckIncluded, Rotate, TypeInv, TypeOK, ControlInv
<1>4. CASE CheckStatus
      BY <1>4 DEF CheckStatus, Rotate, Return, TypeInv, TypeOK, ControlInv
<1>5. CASE RemoveUnfinalized
      BY <1>5 DEF RemoveUnfinalized, Return, TypeInv, TypeOK, ControlInv
<1>6. CASE Select
      <2>1. \A i \in DOMAIN KeyOrder : KeyOrder[i] \in Keys
            BY KeysAssumption
      <2>2. QED
            BY <1>6, <2>1 DEF Select, Return, TypeInv, TypeOK, ControlInv
<1>7. CASE Register
      <2>1. cand \in Keys /\ pc = "register"
            BY <1>7 DEF Register, TypeInv, ControlInv
      <2>2. CASE /\ OperatorRejects(cand) \/ TransientErrors
                 /\ Return("err") /\ UNCHANGED chain
                 /\ UNCHANGED <<tNow, now, lcpKeys, mem, disk>>
            BY <2>2 DEF Return, TypeInv, TypeOK, ControlInv
      <2>3. CASE /\ chainHeight < MaxHeight /\ IncludeRegistration(cand)
                 /\ Return("err") /\ UNCHANGED <<finalizedHeight, txs>>
                 /\ UNCHANGED <<tNow, now, lcpKeys, mem, disk>>
            BY <2>1, <2>3 DEF IncludeRegistration, Return, TypeInv, TypeOK, ControlInv
      <2>4. CASE /\ chainHeight < MaxHeight
                 /\ \E id \in FreeMsgIds :
                       /\ txs' = [txs EXCEPT ![id] = [height |-> chainHeight + 1,
                                                      success |-> VerifyRegisterEnclaveKey(cand)]]
                       /\ pendingMsg' = id
                 /\ IncludeRegistration(cand)
                 /\ pc' = "status"
                 /\ UNCHANGED <<result, cand, finalizedHeight>>
                 /\ UNCHANGED <<tNow, now, lcpKeys, mem, disk>>
            <3>1. PICK id \in FreeMsgIds :
                     /\ txs' = [txs EXCEPT ![id] = [height |-> chainHeight + 1,
                                                    success |-> VerifyRegisterEnclaveKey(cand)]]
                     /\ pendingMsg' = id
                  BY <2>4
            <3>2. id \in MsgIds
                  BY DEF FreeMsgIds
            <3>3. QED
                  BY <2>1, <2>4, <3>1, <3>2 DEF IncludeRegistration, VerifyRegisterEnclaveKey,
                                              TypeInv, TypeOK, ControlInv
      <2>5. QED
            BY <1>7, <2>2, <2>3, <2>4 DEF Register
<1>8. CASE Status
      BY <1>8 DEF Status, UnfinalizedRecord, Return, TypeInv, TypeOK, ControlInv,
                  UnfinalizedRecords
<1>9. CASE ProveState \/ Crash
      BY <1>9 DEF ProveState, Crash, TypeInv, TypeOK, ControlInv
<1>10. CASE AdvanceTime
      BY <1>10 DEF AdvanceTime, TypeInv, TypeOK, ControlInv
<1>14. CASE EnclaveKeyPruned \/ EnclaveKeyAttested
      BY <1>14 DEF EnclaveKeyPruned, EnclaveKeyAttested, TypeInv, TypeOK, ControlInv
<1>15. CASE Finalize
      BY <1>15 DEF Finalize, TypeInv, TypeOK, ControlInv
<1>11. CASE Reorg
      <2> DEFINE h == finalizedHeight + 1
      <2>1. finalizedHeight < chainHeight /\ h \in Heights
            BY <1>11 DEF Reorg, TypeInv, TypeOK
      <2>2. PICK failed \in SUBSET {id \in MsgIds : txs[id].height > finalizedHeight} :
               /\ chainHeight' = IF failed = {} THEN finalizedHeight ELSE h
               /\ txs' = [id \in MsgIds |->
                            IF id \in failed THEN [height |-> h, success |-> FALSE]
                            ELSE IF id \in {i \in MsgIds : txs[i].height > finalizedHeight}
                                 THEN NoTx ELSE txs[id]]
            BY <1>11 DEF Reorg
      <2>3. chainHeight' \in Heights /\ finalizedHeight' \in 0..chainHeight'
            BY <1>11, <2>1, <2>2 DEF Reorg, TypeInv, TypeOK
      <2>4. txs' \in [MsgIds -> TxRecords]
            BY <2>1, <2>2 DEF TypeInv, TypeOK, NoTx
      <2>5. registry' \in [Keys -> Heights]
            BY <1>11 DEF Reorg, TypeInv, TypeOK
      <2>6. QED
            BY <1>11, <2>3, <2>4, <2>5 DEF Reorg, TypeInv, TypeOK, ControlInv
<1>12. CASE UNCHANGED vars
      BY <1>12 DEF vars, ctl, mem, disk, chain, TypeInv, TypeOK, ControlInv
<1>13. QED
      BY <1>1, <1>2, <1>3, <1>4, <1>5, <1>6, <1>7, <1>8, <1>9, <1>10, <1>11,
         <1>12, <1>14, <1>15 DEF Next, Relayer, Environment

\* Type correctness of every variable the model of UpdateEKIfNeeded, the
\* key-info files and the chain keeps, in every reachable state.
THEOREM TypeCorrect == Spec => []TypeOK
<1>1. TypeInv => TypeOK
      BY DEF TypeInv
<1>2. QED
      BY TypeInit, TypeStep, <1>1, PTL DEF Spec

\* Between the two writes of the promotion (prover.go:434 and 438) the
\* active key is already saved as finalized.
PromotionInv == pc = "removeUnfinalized" => activeEK \in finalizedStore

PersistInv == TypeInv /\ MemoryPersisted /\ PromotionInv

LEMMA PersistInit == Init => PersistInv
BY TypeInit DEF Init, PersistInv, MemoryPersisted, PromotionInv

\* Each action keeps memory backed by the key-info files.
LEMMA PersistStep == PersistInv /\ [Next]_vars => PersistInv'
<1> SUFFICES ASSUME PersistInv, [Next]_vars PROVE PersistInv'
    OBVIOUS
<1> USE KeysAssumption, ConfigAssumption
<1> USE DEF PCs, UnfinalizedRecords, ctl, mem, disk, chain
<1>0. TypeInv'
      BY TypeStep DEF PersistInv
<1> DEFINE Goal == MemoryPersisted' /\ PromotionInv'
<1> SUFFICES Goal
      BY <1>0 DEF PersistInv
<1>1. CASE Tick
      <2>1. PICK m \in IF activeEK # None THEN {<<activeEK, unfinalizedMsgID>>}
                                        ELSE DiskViews :
                 /\ activeEK' = m[1] /\ unfinalizedMsgID' = m[2]
                 /\ pc' = IF m[1] = None THEN "select"
                          ELSE IF m[2] = None THEN "checkFinalized"
                          ELSE "checkIncluded"
                 /\ UNCHANGED disk
            BY <1>1 DEF Tick
      <2>2. CASE activeEK # None
            BY <2>1, <2>2 DEF PersistInv, MemoryPersisted, PromotionInv
      <2>3. CASE activeEK = None /\ unfinalizedStore # {}
            <3>1. PICK r \in unfinalizedStore : m = <<r.eki, r.msgID>>
                  BY <2>1, <2>3 DEF DiskViews
            <3>2. r \in UnfinalizedRecords
                  BY DEF PersistInv, TypeInv, TypeOK
            <3>3. r = [eki |-> r.eki, msgID |-> r.msgID] /\ r.msgID # None
                  BY <3>2, KeysAssumption
            <3>4. QED
                  BY <2>1, <3>1, <3>3 DEF MemoryPersisted, PromotionInv
      <2>4. CASE activeEK = None /\ unfinalizedStore = {} /\ finalizedStore # {}
            <3>1. PICK k \in LastFinalized : m = <<k, None>>
                  BY <2>1, <2>4 DEF DiskViews
            <3>2. k \in finalizedStore
                  BY <3>1 DEF LastFinalized
            <3>3. QED
                  BY <2>1, <3>1, <3>2 DEF MemoryPersisted, PromotionInv
      <2>5. CASE activeEK = None /\ unfinalizedStore = {} /\ finalizedStore = {}
            BY <2>1, <2>5 DEF DiskViews, MemoryPersisted, PromotionInv
      <2>6. QED
            BY <2>2, <2>3, <2>4, <2>5
<1>2. CASE CheckFinalized
      BY <1>2 DEF CheckFinalized, Rotate, Return, PersistInv, MemoryPersisted,
                  PromotionInv
<1>3. CASE CheckIncluded
      BY <1>3 DEF CheckIncluded, Rotate, PersistInv, MemoryPersisted, PromotionInv
<1>4. CASE CheckStatus
      BY <1>4 DEF CheckStatus, Rotate, Return, PersistInv, MemoryPersisted,
                  PromotionInv
<1>5. CASE RemoveUnfinalized
      BY <1>5 DEF RemoveUnfinalized, Return, PersistInv, MemoryPersisted,
                  PromotionInv
<1>6. CASE Select
      BY <1>6 DEF Select, Return, PersistInv, MemoryPersisted, PromotionInv
<1>7. CASE Register
      BY <1>7 DEF Register, Return, PersistInv, MemoryPersisted, PromotionInv
<1>8. CASE Status
      BY <1>8 DEF Status, UnfinalizedRecord, Return, PersistInv, TypeInv,
                  ControlInv, MemoryPersisted, PromotionInv
<1>9. CASE ProveState \/ Crash
      BY <1>9 DEF ProveState, Crash, MemoryPersisted, PromotionInv
<1>10. CASE Environment
      BY <1>10 DEF Environment, AdvanceTime, EnclaveKeyPruned, EnclaveKeyAttested,
                   Finalize, Reorg, PersistInv, MemoryPersisted, PromotionInv
<1>11. CASE UNCHANGED vars
      BY <1>11 DEF vars, PersistInv, MemoryPersisted, PromotionInv
<1>12. QED
      BY <1>1, <1>2, <1>3, <1>4, <1>5, <1>6, <1>7, <1>8, <1>9, <1>10, <1>11
      DEF Next, Relayer

\* Write-ahead (spec P4): in every reachable state, the key
\* UpdateEKIfNeeded holds in pr.activeEnclaveKey is on disk, as finalized
\* when pr.unfinalizedMsgID is nil and as that msg id's unfinalized key info
\* otherwise, so a crash never loses a key the relayer has signed with.
THEOREM MemoryBackedByDisk == Spec => []MemoryPersisted
<1>1. PersistInv => MemoryPersisted
      BY DEF PersistInv
<1>2. QED
      BY PersistInit, PersistStep, <1>1, PTL DEF Spec

\* What the chain guarantees about the keys the relayer tracks. No entry of
\* the LCP client's store is above the chain's height. A finalized key info
\* names a key added in a finalized block. A key info (or, at pc "status",
\* the candidate) whose msg is included and succeeded names a key added at
\* or below that msg's block: verifyRegisterEnclaveKey accepted it, and
\* registerEnclaveKey adds it unless an earlier entry exists. A call that
\* returned nil left a key in memory, and a running call has not returned.
RegisteredInv ==
    /\ \A k \in Keys : registry[k] <= chainHeight
    /\ \A k \in finalizedStore : registry[k] \in 1..finalizedHeight
    /\ \A r \in unfinalizedStore :
          txs[r.msgID].height # 0 /\ txs[r.msgID].success =>
             registry[r.eki] \in 1..txs[r.msgID].height
    /\ pc = "status" /\ txs[pendingMsg].height # 0 /\ txs[pendingMsg].success =>
          registry[cand] \in 1..txs[pendingMsg].height
    /\ result = "ok" => activeEK # None
    /\ pc # "idle" => result = "none"

ChainInv == PersistInv /\ RegisteredInv

LEMMA ChainInit == Init => ChainInv
BY PersistInit DEF Init, ChainInv, RegisteredInv, NoTx

\* Each action keeps the tracked keys registered as RegisteredInv says.
LEMMA ChainStep == ChainInv /\ [Next]_vars => ChainInv'
<1> SUFFICES ASSUME ChainInv, [Next]_vars PROVE ChainInv'
    OBVIOUS
<1> USE KeysAssumption, ConfigAssumption
<1> USE DEF PCs, UnfinalizedRecords, Heights, TxRecords, ctl, mem, disk, chain
<1>0. PersistInv'
      BY PersistStep DEF ChainInv
<1> SUFFICES RegisteredInv'
      BY <1>0 DEF ChainInv
<1> USE DEF ChainInv, PersistInv, TypeInv, TypeOK, ControlInv, RegisteredInv
<1>1. CASE Tick
      BY <1>1 DEF Tick
<1>2. CASE CheckFinalized
      <2>1. pc = "checkFinalized" /\ activeEK \in Keys
            BY <1>2 DEF CheckFinalized
      <2>2. PICK ok \in ProbeOutcomes(activeEK) :
               /\ IF CheckEKIUpdateNeeded(activeEK, tNow, ok)
                  THEN Rotate
                  ELSE Return("ok") /\ UNCHANGED mem
               /\ UNCHANGED <<tNow, now, lcpKeys, disk, chain>>
            BY <1>2 DEF CheckFinalized
      <2>3. QED
            BY <2>1, <2>2 DEF Rotate, Return
<1>3. CASE CheckIncluded
      BY <1>3 DEF CheckIncluded, Rotate
<1>4. CASE CheckStatus
      <2>1. CASE /\ txs[unfinalizedMsgID].height # 0
                 /\ txs[unfinalizedMsgID].success
                 /\ MsgFinalized(txs[unfinalizedMsgID])
                 /\ finalizedStore' = finalizedStore \cup {activeEK}
                 /\ pc' = "removeUnfinalized"
                 /\ UNCHANGED <<result, cand, pendingMsg, mem, unfinalizedStore>>
                 /\ UNCHANGED <<tNow, now, lcpKeys, chain>>
            <3>1. [eki |-> activeEK, msgID |-> unfinalizedMsgID] \in unfinalizedStore
                  BY <1>4 DEF CheckStatus, MemoryPersisted
            <3>2. pc = "checkStatus"
                  BY <1>4 DEF CheckStatus
            <3>3. registry[activeEK] \in 1..txs[unfinalizedMsgID].height
                  <4>1. \A r \in unfinalizedStore :
                           txs[r.msgID].height # 0 /\ txs[r.msgID].success =>
                              registry[r.eki] \in 1..txs[r.msgID].height
                        OBVIOUS
                  <4>2. QED
                        BY <2>1, <3>1, <4>1, Zenon
            <3>5. txs[unfinalizedMsgID].height <= finalizedHeight
                  BY <2>1 DEF MsgFinalized
            <3>6. registry[activeEK] \in 1..finalizedHeight
                  BY <3>2, <3>3, <3>5
            <3>4. QED
                  BY <2>1, <3>2, <3>6
      <2>2. CASE ~(/\ txs[unfinalizedMsgID].height # 0
                   /\ txs[unfinalizedMsgID].success
                   /\ MsgFinalized(txs[unfinalizedMsgID])
                   /\ finalizedStore' = finalizedStore \cup {activeEK}
                   /\ pc' = "removeUnfinalized"
                   /\ UNCHANGED <<result, cand, pendingMsg, mem, unfinalizedStore>>
                   /\ UNCHANGED <<tNow, now, lcpKeys, chain>>)
            BY <1>4, <2>2 DEF CheckStatus, Rotate, Return
      <2>3. QED
            BY <2>1, <2>2
<1>5. CASE RemoveUnfinalized
      BY <1>5 DEF RemoveUnfinalized, Return
<1>6. CASE Select
      BY <1>6 DEF Select, Return
<1>7. CASE Register
      <2>1. pc = "register" /\ cand \in Keys
            BY <1>7 DEF Register
      <2>2. CASE /\ OperatorRejects(cand) \/ TransientErrors
                 /\ Return("err") /\ UNCHANGED chain
                 /\ UNCHANGED <<tNow, now, lcpKeys, mem, disk>>
            BY <2>1, <2>2 DEF Return
      <2>3. CASE /\ chainHeight < MaxHeight /\ IncludeRegistration(cand)
                 /\ Return("err") /\ UNCHANGED <<finalizedHeight, txs>>
                 /\ UNCHANGED <<tNow, now, lcpKeys, mem, disk>>
            BY <2>1, <2>3 DEF IncludeRegistration, Return
      <2>4. CASE /\ chainHeight < MaxHeight
                 /\ \E id \in FreeMsgIds :
                       /\ txs' = [txs EXCEPT ![id] = [height |-> chainHeight + 1,
                                                      success |-> VerifyRegisterEnclaveKey(cand)]]
                       /\ pendingMsg' = id
                 /\ IncludeRegistration(cand)
                 /\ pc' = "status"
                 /\ UNCHANGED <<result, cand, finalizedHeight>>
                 /\ UNCHANGED <<tNow, now, lcpKeys, mem, disk>>
            <3>1. PICK id \in FreeMsgIds :
                     /\ txs' = [txs EXCEPT ![id] = [height |-> chainHeight + 1,
                                                    success |-> VerifyRegisterEnclaveKey(cand)]]
                     /\ pendingMsg' = id
                  BY <2>4
            <3>2. id \in MsgIds /\ \A r \in unfinalizedStore : r.msgID # id
                  BY DEF FreeMsgIds
            <3>3. \A k \in Keys : registry[k] # 0 => registry'[k] = registry[k]
                  BY <2>4 DEF IncludeRegistration
            <3>4. QED
                  BY <2>1, <2>4, <3>1, <3>2, <3>3 DEF IncludeRegistration
      <2>5. QED
            BY <1>7, <2>2, <2>3, <2>4 DEF Register
<1>8. CASE Status
      <2> DEFINE tx == txs[pendingMsg]
      <2>1. pc = "status" /\ UNCHANGED chain
            BY <1>8 DEF Status
      <2>2. CASE /\ tx.height = 0 \/ TransientErrors \/ ~tx.success
                 /\ Return("err") /\ UNCHANGED <<mem, disk>>
            BY <2>1, <2>2 DEF Return
      <2>3. CASE /\ tx.height # 0 /\ tx.success /\ MsgFinalized(tx)
                 /\ finalizedStore' = finalizedStore \cup {cand}
                 /\ activeEK' = cand
                 /\ Return("ok")
                 /\ UNCHANGED <<unfinalizedMsgID, unfinalizedStore>>
            BY <2>1, <2>3 DEF Return, MsgFinalized
      <2>4. CASE /\ tx.height # 0 /\ tx.success /\ ~MsgFinalized(tx)
                 /\ IF \E r \in unfinalizedStore : r.eki # cand
                    THEN Return("err") /\ UNCHANGED <<mem, disk>>
                    ELSE /\ unfinalizedStore' = {UnfinalizedRecord(cand, pendingMsg)}
                         /\ activeEK' = cand /\ unfinalizedMsgID' = pendingMsg
                         /\ Return("ok")
                         /\ UNCHANGED finalizedStore
            BY <2>1, <2>4 DEF Return, UnfinalizedRecord
      <2>5. QED
            BY <1>8, <2>2, <2>3, <2>4 DEF Status
<1>9. CASE ProveState \/ Crash
      <2>1. /\ result' = "none" /\ pc' = "idle"
            /\ UNCHANGED <<disk, chain>>
            BY <1>9 DEF ProveState, Crash
      <2>2. QED
            BY <2>1
<1>10. CASE AdvanceTime
      <2>1. UNCHANGED <<ctl, mem, disk, chain>>
            BY <1>10 DEF AdvanceTime
      <2>2. QED
            BY <2>1
<1>15. CASE EnclaveKeyPruned \/ EnclaveKeyAttested
      <2>1. UNCHANGED <<ctl, mem, disk, chain>>
            BY <1>15 DEF EnclaveKeyPruned, EnclaveKeyAttested
      <2>2. QED
            BY <2>1
<1>11. CASE Finalize
      BY <1>11 DEF Finalize
<1>12. CASE Reorg
      <2> DEFINE dropped == {id \in MsgIds : txs[id].height > finalizedHeight}
                 h == finalizedHeight + 1
      <2>1. PICK failed \in SUBSET dropped :
               /\ chainHeight' = IF failed = {} THEN finalizedHeight ELSE h
               /\ txs' = [id \in MsgIds |->
                            IF id \in failed THEN [height |-> h, success |-> FALSE]
                            ELSE IF id \in dropped THEN NoTx ELSE txs[id]]
            BY <1>12 DEF Reorg
      <2>2. /\ registry' = [k \in Keys |->
                             IF registry[k] > finalizedHeight THEN 0 ELSE registry[k]]
            /\ UNCHANGED <<finalizedHeight, ctl, mem, disk>>
            BY <1>12 DEF Reorg
      <2>3. \A id \in MsgIds : txs'[id].height # 0 /\ txs'[id].success =>
                                txs'[id] = txs[id] /\ txs[id].height <= finalizedHeight
            BY <2>1 DEF NoTx
      <2>4. QED
            BY <2>1, <2>2, <2>3
<1>13. CASE UNCHANGED vars
      BY <1>13 DEF vars
<1>14. QED
      BY <1>1, <1>2, <1>3, <1>4, <1>5, <1>6, <1>7, <1>8, <1>9, <1>10, <1>11,
         <1>12, <1>13, <1>15 DEF Next, Relayer, Environment

\* A key UpdateEKIfNeeded reports as finalized (a nil unfinalizedMsgID after
\* a successful call) is in the destination LCP client's enclave-key store,
\* added in a finalized block, for every chain height, every number of
\* keys and msg ids, and every pattern of reorgs, crashes and RPC failures.
THEOREM FinalizedKeyIsRegistered == Spec => []FinalizedKeyRegistered
<1>1. ChainInv => FinalizedKeyRegistered
      BY DEF ChainInv, PersistInv, RegisteredInv, MemoryPersisted,
             FinalizedKeyRegistered
<1>2. QED
      BY ChainInit, ChainStep, <1>1, PTL DEF Spec

-----------------------------------------------------------------------------
(***************************************************************************)
(* Refinement of the abstract key lifecycle (KeyLifecycle).                *)
(***************************************************************************)

\* Spec P1: a msg id is only held together with its key.
MemoryInv == unfinalizedMsgID # None => activeEK # None

LEMMA MemoryStep == TypeInv /\ MemoryInv /\ [Next]_vars => MemoryInv'
<1> SUFFICES ASSUME TypeInv, MemoryInv, [Next]_vars PROVE MemoryInv'
    OBVIOUS
<1> USE KeysAssumption DEF mem, ctl, disk, chain
<1>1. CASE Tick
      <2>1. PICK m \in IF activeEK # None THEN {<<activeEK, unfinalizedMsgID>>}
                       ELSE DiskViews :
                  activeEK' = m[1] /\ unfinalizedMsgID' = m[2]
            BY <1>1 DEF Tick
      <2>2. m[2] # None => m[1] # None
            BY <2>1 DEF MemoryInv, DiskViews, LastFinalized, TypeInv, TypeOK,
                        UnfinalizedRecords
      <2>3. QED
            BY <2>1, <2>2 DEF MemoryInv
<1>2. CASE Status
      BY <1>2 DEF Status, Return, MemoryInv, TypeInv, ControlInv
<1>3. CASE RemoveUnfinalized
      BY <1>3 DEF RemoveUnfinalized, MemoryInv
<1>4. CASE CheckFinalized \/ CheckIncluded \/ CheckStatus
      BY <1>4 DEF CheckFinalized, CheckIncluded, CheckStatus, Rotate, Return,
                  MemoryInv
<1>5. CASE Select \/ Register \/ ProveState \/ Crash
      BY <1>5 DEF Select, Register, ProveState, Crash, MemoryInv
<1>6. CASE Environment \/ UNCHANGED vars
      BY <1>6 DEF Environment, AdvanceTime, EnclaveKeyPruned,
                  EnclaveKeyAttested, Finalize, Reorg, vars, MemoryInv
<1>7. QED
      BY <1>1, <1>2, <1>3, <1>4, <1>5, <1>6 DEF Next, Relayer

\* With a key in memory, a step keeps it or clears memory, and changes the
\* msg id only by clearing it.
LEMMA KeyStep ==
    ASSUME TypeInv, activeEK # None, [Next]_vars
    PROVE  /\ activeEK' \in {activeEK, None}
           /\ activeEK' = None => unfinalizedMsgID' = None
           /\ unfinalizedMsgID' \in {unfinalizedMsgID, None}
<1> USE DEF mem, ctl, disk, chain
<1>1. CASE Tick
      BY <1>1 DEF Tick
<1>2. CASE Status
      BY <1>2 DEF Status, TypeInv, ControlInv
<1>3. CASE RemoveUnfinalized
      BY <1>3 DEF RemoveUnfinalized
<1>4. CASE CheckFinalized \/ CheckIncluded \/ CheckStatus
      BY <1>4 DEF CheckFinalized, CheckIncluded, CheckStatus, Rotate, Return
<1>5. CASE Select \/ Register \/ ProveState \/ Crash
      BY <1>5 DEF Select, Register, ProveState, Crash
<1>6. CASE Environment \/ UNCHANGED vars
      BY <1>6 DEF Environment, AdvanceTime, EnclaveKeyPruned,
                  EnclaveKeyAttested, Finalize, Reorg, vars
<1>7. QED
      BY <1>1, <1>2, <1>3, <1>4, <1>5, <1>6 DEF Next, Relayer

\* Every step is a step of the abstract lifecycle, or leaves the key and
\* the msg id alone.
LEMMA LifecycleStep ==
    ASSUME TypeInv, MemoryInv, TypeInv', MemoryInv', [Next]_vars
    PROVE  [Lifecycle!Next]_Lifecycle!vars
<1>1. CASE activeEK = None
      <2>1. unfinalizedMsgID = None
            BY <1>1 DEF MemoryInv
      <2>2. CASE activeEK' = None
            BY <1>1, <2>1, <2>2 DEF MemoryInv, Lifecycle!vars
      <2>3. CASE activeEK' # None
            BY <1>1, <2>3 DEF TypeInv, TypeOK, Lifecycle!Next, Lifecycle!Adopt
      <2>4. QED
            BY <2>2, <2>3
<1>2. CASE activeEK # None
      <2>1. /\ activeEK' \in {activeEK, None}
            /\ activeEK' = None => unfinalizedMsgID' = None
            /\ unfinalizedMsgID' \in {unfinalizedMsgID, None}
            BY <1>2, KeyStep
      <2>2. CASE activeEK' = None
            BY <1>2, <2>1, <2>2 DEF Lifecycle!Next, Lifecycle!Drop
      <2>3. CASE activeEK' = activeEK /\ unfinalizedMsgID' = unfinalizedMsgID
            BY <2>3 DEF Lifecycle!vars
      <2>4. CASE activeEK' = activeEK /\ unfinalizedMsgID' # unfinalizedMsgID
            BY <1>2, <2>1, <2>4 DEF Lifecycle!Next, Lifecycle!Promote
      <2>5. QED
            BY <1>2, <2>1, <2>2, <2>3, <2>4
<1>3. QED
      BY <1>1, <1>2

\* UpdateEKIfNeeded implements the key lifecycle of spec section 4.6, for
\* every value of the constants: a key is only adopted from an empty
\* memory, the msg id is only cleared by promotion, anything else clears
\* both; no key is swapped for another and no finalized key is demoted.
THEOREM RefinesKeyLifecycle == Spec => ImplementsKeyLifecycle
<1>1. Init => TypeInv /\ MemoryInv
      BY TypeInit DEF Init, MemoryInv
<1>2. TypeInv /\ MemoryInv /\ [Next]_vars => (TypeInv /\ MemoryInv)'
      BY TypeStep, MemoryStep
<1>3. Init => Lifecycle!Init
      BY DEF Init, Lifecycle!Init
<1>4. (TypeInv /\ MemoryInv) /\ (TypeInv /\ MemoryInv)' /\ [Next]_vars
          => [Lifecycle!Next]_Lifecycle!vars
      BY LifecycleStep
<1>5. QED
      BY <1>1, <1>2, <1>3, <1>4, PTL
      DEF Spec, ImplementsKeyLifecycle, Lifecycle!Spec

-----------------------------------------------------------------------------
(***************************************************************************)
(* UsableOnSuccess: a nil return of UpdateEKIfNeeded leaves a key that     *)
(* passes the relayer's policy at the clock the call read.                 *)
(***************************************************************************)

\* The quote-status and advisory tests of selectNewEnclaveKey, which do not
\* depend on the clock.
PolicyOK(k) == ValidateISVEnclaveQuoteStatus(k) /\ ValidateAdvisoryIDs(k)

\* Every key the relayer can hold passed the policy when it was selected
\* (keys only reach the files and memory as selectNewEnclaveKey's
\* candidate); the clock read at line 364 is not ahead of the clock; the
\* candidate is allowed at that reading, because selection read a later
\* one; between the promotion's writes the key is not past its half-life;
\* and a running call has not returned.
UsableInv ==
    /\ tNow <= now
    /\ \A k \in finalizedStore : PolicyOK(k)
    /\ \A r \in unfinalizedStore : PolicyOK(r.eki)
    /\ activeEK # None => PolicyOK(activeEK)
    /\ pc \in {"register", "status"} => KeyAllowed(cand, tNow)
    /\ pc = "removeUnfinalized" => ~Expired(activeEK, tNow)
    /\ pc # "idle" => result = "none"
    /\ UsableOnSuccess

LEMMA UsableInit == Init => UsableInv
BY DEF Init, UsableInv, UsableOnSuccess

\* Each action keeps UsableInv.
LEMMA UsableStep == TypeInv /\ UsableInv /\ [Next]_vars => UsableInv'
<1> SUFFICES ASSUME TypeInv, UsableInv, [Next]_vars PROVE UsableInv'
    OBVIOUS
<1> USE DEF ctl, mem, disk, chain
<1>0. tNow \in Nat /\ now \in Nat /\ None \notin Keys
      BY KeysAssumption DEF TypeInv, TypeOK
<1> USE <1>0
<1>1. CASE Tick
      <2>1. PICK m \in IF activeEK # None THEN {<<activeEK, unfinalizedMsgID>>}
                       ELSE DiskViews :
               /\ activeEK' = m[1] /\ unfinalizedMsgID' = m[2]
               /\ pc' = IF m[1] = None THEN "select"
                        ELSE IF m[2] = None THEN "checkFinalized"
                        ELSE "checkIncluded"
            BY <1>1 DEF Tick
      <2>2. m[1] # None => PolicyOK(m[1])
            <3>1. CASE activeEK # None
                  BY <2>1, <3>1 DEF UsableInv
            <3>2. CASE activeEK = None /\ unfinalizedStore # {}
                  <4>1. PICK r \in unfinalizedStore : m = <<r.eki, r.msgID>>
                        BY <2>1, <3>2 DEF DiskViews
                  <4>2. QED
                        BY <4>1 DEF UsableInv
            <3>3. CASE activeEK = None /\ unfinalizedStore = {} /\ finalizedStore # {}
                  <4>1. PICK k \in LastFinalized : m = <<k, None>>
                        BY <2>1, <3>3 DEF DiskViews
                  <4>2. QED
                        BY <4>1 DEF LastFinalized, UsableInv
            <3>4. CASE activeEK = None /\ unfinalizedStore = {} /\ finalizedStore = {}
                  BY <2>1, <3>4 DEF DiskViews
            <3>5. QED
                  BY <3>1, <3>2, <3>3, <3>4
      <2>3. /\ tNow' = now /\ result' = "none"
            /\ UNCHANGED <<now, finalizedStore, unfinalizedStore>>
            BY <1>1 DEF Tick
      <2>4. pc' \in {"select", "checkFinalized", "checkIncluded"}
            BY <2>1
      <2>5. QED
            BY <2>1, <2>2, <2>3, <2>4 DEF UsableInv, UsableOnSuccess
<1>2. CASE CheckFinalized
      <2>1. pc = "checkFinalized" /\ activeEK \in Keys /\ result = "none"
            BY <1>2 DEF CheckFinalized, TypeInv, ControlInv, UsableInv
      <2>2. PICK ok \in ProbeOutcomes(activeEK) :
               /\ IF CheckEKIUpdateNeeded(activeEK, tNow, ok)
                  THEN Rotate
                  ELSE Return("ok") /\ UNCHANGED mem
               /\ UNCHANGED <<tNow, now, lcpKeys, disk, chain>>
            BY <1>2 DEF CheckFinalized
      <2>3. QED
            BY <2>1, <2>2 DEF CheckEKIUpdateNeeded, Rotate, Return, UsableInv,
                              UsableOnSuccess, KeyAllowed, PolicyOK
<1>3. CASE CheckIncluded
      BY <1>3 DEF CheckIncluded, Rotate, UsableInv, UsableOnSuccess
<1>4. CASE CheckStatus
      <2>1. pc = "checkStatus" /\ activeEK \in Keys /\ result = "none"
            BY <1>4 DEF CheckStatus, TypeInv, ControlInv, UsableInv
      <2> DEFINE tx == txs[unfinalizedMsgID]
      <2>2. UNCHANGED <<tNow, now>> /\ PolicyOK(activeEK)
            BY <1>4, <2>1 DEF CheckStatus, UsableInv
      <2>3. CASE /\ tx.height = 0 \/ TransientErrors
                 /\ Return("err") /\ UNCHANGED <<mem, disk>>
            BY <2>1, <2>2, <2>3 DEF Return, UsableInv, UsableOnSuccess
      <2>4. CASE /\ tx.height # 0 /\ ~tx.success
                 /\ unfinalizedStore' = {} /\ Rotate
                 /\ UNCHANGED finalizedStore
            BY <2>1, <2>2, <2>4 DEF Rotate, UsableInv, UsableOnSuccess
      <2>5. CASE /\ tx.height # 0 /\ tx.success /\ MsgFinalized(tx)
                 /\ \E ok \in ProbeOutcomes(activeEK) :
                       IF CheckEKIUpdateNeeded(activeEK, tNow, ok)
                       THEN Rotate /\ UNCHANGED disk
                       ELSE /\ finalizedStore' = finalizedStore \cup {activeEK}
                            /\ pc' = "removeUnfinalized"
                            /\ UNCHANGED <<result, cand, pendingMsg, mem,
                                           unfinalizedStore>>
            BY <2>1, <2>2, <2>5 DEF CheckEKIUpdateNeeded, Rotate, UsableInv,
                                    UsableOnSuccess
      <2>6. CASE /\ tx.height # 0 /\ tx.success /\ ~MsgFinalized(tx)
                 /\ \E ok \in ProbeOutcomes(activeEK) :
                       IF CheckEKIUpdateNeeded(activeEK, tNow, ok)
                       THEN Rotate
                       ELSE Return("ok") /\ UNCHANGED mem
                 /\ UNCHANGED disk
            <3>1. PICK ok \in ProbeOutcomes(activeEK) :
                     IF CheckEKIUpdateNeeded(activeEK, tNow, ok)
                     THEN Rotate
                     ELSE Return("ok") /\ UNCHANGED mem
                  BY <2>6
            <3>2. CASE CheckEKIUpdateNeeded(activeEK, tNow, ok)
                  BY <2>1, <2>2, <2>6, <3>1, <3>2 DEF Rotate, UsableInv,
                                                    UsableOnSuccess
            <3>3. CASE ~CheckEKIUpdateNeeded(activeEK, tNow, ok)
                  <4>1. KeyAllowed(activeEK, tNow)
                        BY <2>2, <3>3 DEF CheckEKIUpdateNeeded, KeyAllowed, PolicyOK
                  <4>2. QED
                        BY <2>1, <2>2, <2>6, <3>1, <3>3, <4>1 DEF Return, UsableInv,
                                                                UsableOnSuccess
            <3>4. QED
                  BY <3>2, <3>3
      <2>7. QED
            BY <1>4, <2>3, <2>4, <2>5, <2>6 DEF CheckStatus
<1>5. CASE RemoveUnfinalized
      <2>1. pc = "removeUnfinalized" /\ activeEK \in Keys
            BY <1>5 DEF RemoveUnfinalized, TypeInv, ControlInv
      <2>2. QED
            BY <1>5, <2>1 DEF RemoveUnfinalized, Return, UsableInv, UsableOnSuccess,
                              KeyAllowed, PolicyOK
<1>6. CASE Select
      <2>1. pc = "select" /\ result = "none"
            BY <1>6 DEF Select, UsableInv
      <2>2. CASE \E i \in DOMAIN KeyOrder :
                    /\ FirstHit(now, i) /\ KeyOrder[i] \notin BadReports
                    /\ cand' = KeyOrder[i] /\ pc' = "register"
                    /\ UNCHANGED <<result, pendingMsg>>
            <3>1. PICK i \in DOMAIN KeyOrder :
                     /\ FirstHit(now, i) /\ KeyOrder[i] \notin BadReports
                     /\ cand' = KeyOrder[i] /\ pc' = "register"
                  BY <2>2
            <3>2. KeyOrder[i] \in Keys
                  BY KeysAssumption
            <3>3. KeyAllowed(KeyOrder[i], now)
                  BY <3>1 DEF FirstHit, Hits
            <3>4. ~Expired(KeyOrder[i], tNow)
                  <4>1. tNow <= now
                        BY DEF UsableInv
                  <4>2. ~Expired(KeyOrder[i], now)
                        BY <3>3 DEF KeyAllowed
                  <4>3. AttTime[KeyOrder[i]] \in Nat /\ KeyExpiration \in Nat
                        BY <3>2, KeysAssumption, ConfigAssumption
                  <4>4. tNow \in Nat /\ now \in Nat
                        BY <1>0
                  <4>5. QED
                        BY ONLY <4>1, <4>2, <4>3, <4>4, SMTT(30) DEF Expired
            <3>5. UNCHANGED <<tNow, now, activeEK, unfinalizedMsgID, finalizedStore,
                              unfinalizedStore, result>>
                  BY <1>6, <2>2 DEF Select
            <3>6. QED
                  BY <2>1, <3>1, <3>3, <3>4, <3>5 DEF KeyAllowed, UsableInv,
                                                    UsableOnSuccess
      <2>3. QED
            BY <1>6, <2>1, <2>2 DEF Select, Return, UsableInv, UsableOnSuccess
<1>7. CASE Register
      BY <1>7 DEF Register, Return, IncludeRegistration, UsableInv, UsableOnSuccess
<1>8. CASE Status
      <2> DEFINE tx == txs[pendingMsg]
      <2>1. /\ pc = "status" /\ KeyAllowed(cand, tNow) /\ PolicyOK(cand)
            /\ cand \in Keys /\ UNCHANGED <<tNow, now>>
            BY <1>8 DEF Status, UsableInv, KeyAllowed, PolicyOK, TypeInv, ControlInv
      <2>2. CASE /\ tx.height = 0 \/ TransientErrors \/ ~tx.success
                 /\ Return("err") /\ UNCHANGED <<mem, disk>>
            BY <2>1, <2>2 DEF Return, UsableInv, UsableOnSuccess
      <2>3. CASE /\ tx.height # 0 /\ tx.success /\ MsgFinalized(tx)
                 /\ finalizedStore' = finalizedStore \cup {cand}
                 /\ activeEK' = cand
                 /\ Return("ok")
                 /\ UNCHANGED <<unfinalizedMsgID, unfinalizedStore>>
            BY <2>1, <2>3 DEF Return, UsableInv, UsableOnSuccess
      <2>4. CASE /\ tx.height # 0 /\ tx.success /\ ~MsgFinalized(tx)
                 /\ IF \E r \in unfinalizedStore : r.eki # cand
                    THEN Return("err") /\ UNCHANGED <<mem, disk>>
                    ELSE /\ unfinalizedStore' = {UnfinalizedRecord(cand, pendingMsg)}
                         /\ activeEK' = cand /\ unfinalizedMsgID' = pendingMsg
                         /\ Return("ok")
                         /\ UNCHANGED finalizedStore
            <3>1. CASE \E r \in unfinalizedStore : r.eki # cand
                  BY <2>1, <2>4, <3>1 DEF Return, UsableInv, UsableOnSuccess
            <3>2. CASE ~\E r \in unfinalizedStore : r.eki # cand
                  <4>1. /\ unfinalizedStore' = {UnfinalizedRecord(cand, pendingMsg)}
                        /\ activeEK' = cand /\ unfinalizedMsgID' = pendingMsg
                        /\ Return("ok")
                        /\ UNCHANGED finalizedStore
                        BY <2>4, <3>2
                  <4>2. QED
                        BY <2>1, <4>1 DEF Return, UnfinalizedRecord, UsableInv,
                                          UsableOnSuccess
            <3>3. QED
                  BY <3>1, <3>2
      <2>5. QED
            BY <1>8, <2>2, <2>3, <2>4 DEF Status
<1>9. CASE ProveState \/ Crash
      BY <1>9 DEF ProveState, Crash, UsableInv, UsableOnSuccess
<1>10. CASE AdvanceTime
      <2>1. now' = now + 1 /\ now \in Nat /\ tNow \in Nat
            BY <1>0, <1>10 DEF AdvanceTime
      <2>2. tNow' <= now'
            BY <2>1, <1>10, SMT DEF AdvanceTime, UsableInv
      <2>3. UNCHANGED <<tNow, ctl, mem, disk>>
            BY <1>10 DEF AdvanceTime
      <2>4. QED
            BY <2>2, <2>3 DEF UsableInv, UsableOnSuccess
<1>11. CASE EnclaveKeyPruned \/ EnclaveKeyAttested \/ Finalize \/ Reorg
      BY <1>11 DEF EnclaveKeyPruned, EnclaveKeyAttested, Finalize, Reorg,
                   UsableInv, UsableOnSuccess
<1>12. CASE UNCHANGED vars
      BY <1>12 DEF vars, UsableInv, UsableOnSuccess
<1>13. QED
      BY <1>1, <1>2, <1>3, <1>4, <1>5, <1>6, <1>7, <1>8, <1>9, <1>10, <1>11,
         <1>12 DEF Next, Relayer, Environment

\* Spec P3: in every reachable state, when UpdateEKIfNeeded has returned
\* nil the key SetupHeadersForUpdate signs with is set, not past half of its
\* expiration at the clock the call read, and of an allowed quote status
\* and advisory IDs, whatever crashes, reorgs and LCP key churn happened.
THEOREM KeyUsableOnSuccess == Spec => []UsableOnSuccess
<1>1. Init => TypeInv /\ UsableInv
      BY TypeInit, UsableInit
<1>2. TypeInv /\ UsableInv /\ [Next]_vars => (TypeInv /\ UsableInv)'
      BY TypeStep, UsableStep
<1>3. TypeInv /\ UsableInv => UsableOnSuccess
      BY DEF UsableInv
<1>4. QED
      BY <1>1, <1>2, <1>3, PTL DEF Spec

=============================================================================
