--------------------------- MODULE GrantLifecycle ---------------------------
(***************************************************************************)
(* What the token endpoint promises about one authorization: it is a       *)
(* single credential that changes hands.  At first a code, then nothing    *)
(* while the code is being redeemed, then one refresh token (rotation      *)
(* replaces the value, not the credential), and at last nothing for good.  *)
(* The promise is the one the developer manual makes: a code is exchanged  *)
(* once, a rotated token is out of use, and a revoked or replayed grant    *)
(* needs a new authorization.                                              *)
(***************************************************************************)
CONSTANT Code

VARIABLE phase

Phase == {"none", "code", "redeeming", "token", "over"}

LifecycleTypeOK == phase \in [Code -> Phase]

LifecycleInit == phase = [k \in Code |-> "none"]

Move(k, from, to) == phase[k] = from /\ phase' = [phase EXCEPT ![k] = to]

Issue(k) == Move(k, "none", "code")
Redeem(k) == Move(k, "code", "redeeming")
Deliver(k) == Move(k, "redeeming", "token")

\* Expiry, revocation, a failed redemption, the end of an account: any number
\* of grants end in one step, and none comes back.
End(S) ==
    /\ S # {}
    /\ \A k \in S : phase[k] # "none"
    /\ phase' = [k \in Code |-> IF k \in S THEN "over" ELSE phase[k]]

LifecycleNext ==
    \/ \E k \in Code : Issue(k) \/ Redeem(k) \/ Deliver(k)
    \/ \E S \in SUBSET Code : End(S)

LifecycleSpec == LifecycleInit /\ [][LifecycleNext]_phase
=============================================================================
