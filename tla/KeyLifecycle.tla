---------------------------- MODULE KeyLifecycle ----------------------------
(***************************************************************************)
(* What the relayer's enclave-key manager promises about the key it signs  *)
(* with (spec section 4.6): it is in one of three states, NoKey,           *)
(* UnfinalizedKey (a key whose registration msg is not yet finalized) and  *)
(* FinalizedKey, and moves between them only along these edges:           *)
(*   NoKey          -> UnfinalizedKey(k, id) or FinalizedKey(k)            *)
(*                     (loaded from the key-info files, or registered)     *)
(*   UnfinalizedKey -> FinalizedKey, same key (promotion)                  *)
(*   any key        -> NoKey (rotation, a dropped registration, a restart) *)
(* In particular a key is never swapped for another without going through  *)
(* NoKey, an unfinalized key keeps its msg id until it is promoted or      *)
(* dropped, and a finalized key never becomes unfinalized again.           *)
(***************************************************************************)

CONSTANTS Keys, MsgIds, None

VARIABLES
    key,   \* the active enclave key, or None
    msg    \* the msg id of its registration while unfinalized, else None

vars == <<key, msg>>

State ==
    IF key = None THEN "NoKey"
    ELSE IF msg = None THEN "FinalizedKey" ELSE "UnfinalizedKey"

Init == key = None /\ msg = None

\* NoKey -> a key, finalized (msg None) or unfinalized (msg its msg id).
Adopt ==
    /\ key = None
    /\ key' \in Keys /\ msg' \in MsgIds \cup {None}

\* UnfinalizedKey -> FinalizedKey of the same key.
Promote ==
    /\ key # None /\ msg # None
    /\ msg' = None /\ key' = key

\* Any key -> NoKey.
Drop ==
    /\ key # None
    /\ key' = None /\ msg' = None

Next == Adopt \/ Promote \/ Drop

Spec == Init /\ [][Next]_vars

=============================================================================
