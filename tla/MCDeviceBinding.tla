-------------------------- MODULE MCDeviceBinding --------------------------
(* Small instances of DeviceBinding for TLC.                               *)
EXTENDS DeviceBinding

CONSTANTS a1, a2, b1

\* Two drivers of one type, one of another; a plug-in class of its own and one
\* that has the name of a driver's type.
DriverTypes == [d \in Drivers |-> IF d = b1 THEN "B" ELSE "A"]

\* Configurations with up to three devices, one of a type nobody knows.
SmallConfigs == UNION {[1 .. n -> {"A", "B", "Reader", "Unknown"}] : n \in 0 .. 3}
=============================================================================
