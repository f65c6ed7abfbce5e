--------------------------- MODULE MCDeviceLink ---------------------------
(* The instance of DeviceLink for TLC: calls to one device, which may have *)
(* two clients, and a second device whose socket must not be chosen.       *)
EXTENDS DeviceLink

CONSTANTS d1, d2, k1, k2, k3

MCDevice == [k \in Clients |-> IF k = k3 THEN d2 ELSE d1]
MCTarget == [c \in Calls |-> d1]
=============================================================================
