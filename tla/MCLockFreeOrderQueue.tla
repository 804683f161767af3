----------------------- MODULE MCLockFreeOrderQueue -----------------------
(***************************************************************************)
(* A ring asked for three slots, which it rounds up to four, filled to the *)
(* last slot and wrapped by MaxPush pushes.                                *)
(***************************************************************************)
EXTENDS LockFreeOrderQueue

CONSTANTS o1, o2

MCCapacity == RoundUp(3)
=============================================================================
