------------------------ MODULE MCRecoveredIntervals ------------------------
(***************************************************************************)
(* Every set of intervals on a device of DeviceBlocks blocks, built in     *)
(* every order; a first array that must grow, or refuse to.                *)
(***************************************************************************)
EXTENDS RecoveredIntervals

CONSTANT DeviceBlocks

\* All ranges on the device, the empty ones included.
MCRequests == {r \in (0 .. DeviceBlocks - 1) \X (0 .. DeviceBlocks) :
                 r[1] + r[2] <= DeviceBlocks}
=============================================================================
