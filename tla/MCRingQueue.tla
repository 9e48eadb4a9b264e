---------------------------- MODULE MCRingQueue ----------------------------
(* A small instance of RingQueue.                                             *)
EXTENDS RingQueue, Bitwise

\* The bits of "x & y" are those that x and y have in common.
ASSUME MaskBits ==
    \A x, y \in 0..(4 * MaxCount) : Bits(x & y) = Bits(x) \cap Bits(y)
=============================================================================
