----------------------- MODULE MC_EnclaveKeyManager -----------------------
(***************************************************************************)
(* Small instances of EnclaveKeyManager for TLC. Three enclave keys with   *)
(* staggered attestation times, so that keys pass their rotation time      *)
(* while the clock runs; two message ids (enough for one in-flight and one *)
(* stale registration).                                                    *)
(***************************************************************************)
EXTENDS EnclaveKeyManager, TLC

CONSTANTS k1, k2, k3, m1, m2, m3

MCKeys == {k1, k2, k3}
MCMsgIds == {m1, m2}

\* k1 is attested first and rotates first; k3 outlives the run.
MCAttTime == k1 :> 0 @@ k2 :> 1 @@ k3 :> 2

MCStatuses == {"OK", "GROUP_OUT_OF_DATE", "CONFIGURATION_NEEDED"}
MCAdvisories == {"INTEL-SA-00161", "INTEL-SA-00219"}

\* k2 is out of date with an allowed advisory; k1 and k3 are clean.
MCQuoteStatus == k1 :> "OK" @@ k2 :> "GROUP_OUT_OF_DATE" @@ k3 :> "OK"
MCAdvisoryIDs == k1 :> {} @@ k2 :> {"INTEL-SA-00161"} @@ k3 :> {}

\* Variant for the policy run: k1 reports OK but carries an advisory.
MCAdvisoryIDsOKWithAdvisory ==
    k1 :> {"INTEL-SA-00161"} @@ k2 :> {"INTEL-SA-00161"} @@ k3 :> {}

MCAllowedQuoteStatuses == {"GROUP_OUT_OF_DATE"}
MCAllowedAdvisoryIds == {"INTEL-SA-00161"}
MCKeyOrder == <<k1, k2, k3>>

\* Two-key instance for the liveness runs: k1 rotates, k2 outlives the run.
MCKeysPair == {k1, k2}
MCKeyOrderPair == <<k1, k2>>
MCAttTimePair == [k \in MCKeysPair |-> MCAttTime[k]]
MCQuoteStatusPair == [k \in MCKeysPair |-> MCQuoteStatus[k]]
MCAdvisoryIDsPair == [k \in MCKeysPair |-> MCAdvisoryIDs[k]]

\* One msg id, for the composition with the LCP client's update path.
MCMsgIdsOne == {m1}

\* Msg ids are opaque to the relayer and the chain (nothing compares or
\* picks one by name), so permuting them is a symmetry of the safety runs.
MCMsgSymmetry == Permutations(MCMsgIds)

=============================================================================
