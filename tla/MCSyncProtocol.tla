---------------------------- MODULE MCSyncProtocol ----------------------------
(***************************************************************************)
(* Instances of SyncProtocol.  The block tree is                           *)
(*                                                                         *)
(*      g --- a1 --- a2 --- a3 --- a4                                      *)
(*       \--- b1 --- b2 --- b3                                             *)
(*                                                                         *)
(* a4 is the highest block, b3 has the most work.                          *)
(***************************************************************************)
EXTENDS SyncProtocol

CONSTANTS g, a1, a2, a3, a4, b1, b2, b3, p1, p2

Row(b) ==
  CASE b = g  -> <<g>>
    [] b = a1 -> <<g, a1>>
    [] b = a2 -> <<g, a1, a2>>
    [] b = a3 -> <<g, a1, a2, a3>>
    [] b = a4 -> <<g, a1, a2, a3, a4>>
    [] b = b1 -> <<g, b1>>
    [] b = b2 -> <<g, b1, b2>>
    [] b = b3 -> <<g, b1, b2, b3>>

MCPath == [b \in Block |-> Row(b)]

MCWork ==
  [b \in Block |-> CASE b = g -> 1 [] b = a1 -> 2 [] b = b1 -> 3 [] b = a2 -> 4 [] b = b2 -> 5
                     [] b = a3 -> 6 [] b = a4 -> 7 [] b = b3 -> 8]

MCStart == [p \in Peer |-> IF p = p1 THEN a4 ELSE b2]
=============================================================================
