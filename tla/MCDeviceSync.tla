----------------------------- MODULE MCDeviceSync -----------------------------
(* Small instances of DeviceSync. *)
EXTENDS DeviceSync, TLC

CONSTANTS d1, d2

NoSkew == [d \in Devices |-> 0]

\* a skew the clock takes two units to make up for
FarSkewed == (d1 :> 2) @@ (d2 :> 0)

\* one device keeps its log by age, the other by number of entries
MixedPolicy == (d1 :> "time") @@ (d2 :> "count")

CountPolicy == [d \in Devices |-> "count"]

NoPolicy == [d \in Devices |-> "none"]

=============================================================================
