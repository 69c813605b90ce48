----------------------- MODULE MC_ExpiryArithmetic -----------------------
(***************************************************************************)
(* ExpiryArithmetic with a 20-bit Duration and a thousand units a second:  *)
(* the product first wraps at KeyExpiration = 525, as Go's does at         *)
(* 2^63 / 10^9, about 9.2e9 seconds.                                       *)
(***************************************************************************)
EXTENDS ExpiryArithmetic

=============================================================================
