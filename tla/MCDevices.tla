----------------------------- MODULE MCDevices -----------------------------
(* The device registry with a few devices stacked on each other.           *)
EXTENDS Devices

\* Devices made earlier and later may be the larger ones.
MCSize == [d \in Dev |-> d % 2]
=============================================================================
