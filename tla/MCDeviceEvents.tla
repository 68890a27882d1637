--------------------------- MODULE MCDeviceEvents ---------------------------
(* A small home for TLC. *)
EXTENDS DeviceEvents

CONSTANTS lamp, lock, sensor, p1
=============================================================================
