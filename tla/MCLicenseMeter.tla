-------------------------- MODULE MCLicenseMeter ---------------------------
(* Instances of LicenseMeter for TLC.                                      *)
EXTENDS LicenseMeter, TLC

CONSTANTS d1, d2, a1, a2

OneDevice == (a1 :> d1)
TwoDevices == (a1 :> d1 @@ a2 :> d2)

(* A paid period with a period of grace, then one that is canceled.        *)
Sub(status, start, end) == [status |-> status, start |-> start, end |-> end]
Periods == {Sub("active", 1, 1), Sub("canceled", 2, 3)}
OnePeriod == {Sub("active", 1, 1)}

MCSymmetry == Permutations(Threads) \cup Permutations(RunIds)
DeviceSymmetry == MCSymmetry \cup {(a1 :> a2 @@ a2 :> a1 @@ d1 :> d2 @@ d2 :> d1)}
=============================================================================
