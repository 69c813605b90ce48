------------------------- MODULE MC_UpdateClient -------------------------
(***************************************************************************)
(* UpdateClient on the two-key instance of MC_EnclaveKeyManager, with an   *)
(* origin chain that finalizes one header beyond the client's first one.   *)
(***************************************************************************)
EXTENDS UpdateClient, MC_EnclaveKeyManager

=============================================================================
