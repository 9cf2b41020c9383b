------------------------- MODULE MCThreeSemaphores -------------------------
(* An area of two bytes, and pieces of plot buffer of no byte, less than an *)
(* area, exactly one, more than one and exactly two.                        *)
EXTENDS ThreeSemaphores

CONSTANTS b1, b2, b3

MCByte    == {b1, b2, b3}
MCPayload == { << >>, << b1 >>, << b2, b3 >>, << b3, b1, b2 >>, << b1, b2, b2, b3 >> }
=============================================================================
