--------------------------- MODULE ExpiryArithmetic ---------------------------
(***************************************************************************)
(* The duration arithmetic of the relayer's rotation time and of the LCP   *)
(* client's key expiry (prover.go), in Go's fixed-width integers.          *)
(*   relayer:  updateTime = attestationTime.Add(                           *)
(*                 time.Duration(KeyExpiration) * time.Second / 2)         *)
(*   chain:    expiredAt  = avr.GetTimestamp().Add(                        *)
(*                 time.Duration(KeyExpiration) * time.Second)             *)
(* KeyExpiration is a uint64 of seconds; time.Duration is an int64 of      *)
(* nanoseconds. The conversion reinterprets the bits, the product wraps    *)
(* modulo 2^64 into the signed range, and / truncates toward zero.         *)
(* Width and Second stand for 64 and 10^9; a model keeps Width small       *)
(* enough for TLC and the ratio 2^(Width-1)/Second that decides where the  *)
(* product first wraps.                                                    *)
(***************************************************************************)
EXTENDS Integers

CONSTANTS
    Width,          \* bits of time.Duration
    Second,         \* time.Second in Duration units
    MaxExpiration   \* bound on the configured KeyExpiration

VARIABLE keyExpiration   \* config.KeyExpiration (= client state's)

\* An integer taken into the signed Width-bit range, modulo 2^Width.
WrapSigned(x) ==
    LET m == 2^Width IN ((x + m \div 2) % m) - m \div 2

\* Go's integer division, truncating toward zero.
Quo(a, b) == IF a >= 0 THEN a \div b ELSE -((-a) \div b)

\* time.Duration(ke) * time.Second, as computed by getKeyExpiration.
ExpirationDuration(ke) == WrapSigned(WrapSigned(ke) * Second)

\* checkEKIUpdateNeeded's offset of the rotation time from the AVR time.
UpdateOffset(ke) == Quo(ExpirationDuration(ke), 2)

Init == keyExpiration \in 1..MaxExpiration

\* The configured expiration may be changed, between restarts, to any
\* value in range.
Next == keyExpiration' \in 1..MaxExpiration

Spec == Init /\ [][Next]_keyExpiration

\* Spec section 4.6 (Case B): the key rotates at attestation_time +
\* key_expiration/2 seconds; checkEKIUpdateNeeded's offset must be that.
UpdateOffsetIsHalfLife ==
    UpdateOffset(keyExpiration) = (keyExpiration * Second) \div 2

=============================================================================
