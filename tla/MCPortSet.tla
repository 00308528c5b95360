------------------------------ MODULE MCPortSet ------------------------------
(* PortSet for TLC: ids that collide in tables of 8 and 16 slots.       *)
EXTENDS PortSet

CollidingDraw == {7, 11, 15, 19, 23, 27, 31, 35}

=============================================================================
