-------------------------- MODULE MCDeviceExecutor --------------------------
(* Instances of DeviceExecutor for TLC. *)
EXTENDS DeviceExecutor
=============================================================================
