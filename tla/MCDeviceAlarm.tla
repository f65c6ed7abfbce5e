--------------------------- MODULE MCDeviceAlarm ---------------------------
(* DeviceAlarm for TLC: no handler tells the sockets of a user apart. *)
EXTENDS DeviceAlarm, TLC

SocketSymmetry == Permutations(Sockets)
=============================================================================
