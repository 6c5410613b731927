----------------------------- MODULE MCBlockchain -----------------------------
(***************************************************************************)
(* Instances of Blockchain.  The block tree is                             *)
(*                                                                         *)
(*      g --- a1 --- a2 --- a3                                             *)
(*       \--- b1 --- b2 --- b3                                             *)
(*              \--- c2 --- c3                                             *)
(***************************************************************************)
EXTENDS Blockchain

CONSTANTS g, a1, a2, a3, b1, b2, b3, c2, c3, t1, t2, t3, x1, k1, k2

Row(b) ==
  CASE b = g  -> <<g>>
    [] b = a1 -> <<g, a1>>
    [] b = a2 -> <<g, a1, a2>>
    [] b = a3 -> <<g, a1, a2, a3>>
    [] b = b1 -> <<g, b1>>
    [] b = b2 -> <<g, b1, b2>>
    [] b = b3 -> <<g, b1, b2, b3>>
    [] b = c2 -> <<g, b1, c2>>
    [] b = c3 -> <<g, b1, c2, c3>>

MCPath == [b \in Block |-> Row(b)]

\* b2 is harder than the others: <<g, b1, b2>> has the work of <<g, a1, a2, a3>>.
MCWork ==
  [b \in Block |-> CASE b = g -> 1 [] b \in {a1, b1} -> 2 [] b \in {a2, c2} -> 3
                     [] b \in {a3, b2} -> 4 [] b \in {b3, c3} -> 5]

\* A fork that is in force for the next block once a3 is in the chain.
MCVersionAt == [h \in 0..5 |-> IF h < 4 THEN 1 ELSE 2]

MCVersion == [b \in Block |-> 1]

\* A fork at height 3, and blocks of the version it asks for.
MCVersionAtFork == [h \in 0..5 |-> IF h < 3 THEN 1 ELSE 2]

MCVersionFork == [b \in Block |-> MCVersionAtFork[Len(MCPath[b]) - 1]]

\* t1 and t2 both spend k1; t3 refers to an output of t1.  t1 is in both branches,
\* b3 spends k1 again.
MCTxsOf ==
  [b \in Block |-> CASE b \in {a1, b2} -> <<t1>> [] b = a2 -> <<t3>>
                     [] b \in {b3, c2} -> <<t2>> [] OTHER -> <<>>]

MCImages == [tx \in Tx |-> IF tx = t3 THEN {k2} ELSE {k1}]

MCDeps == [tx \in Tx |-> IF tx = t3 THEN {t1} ELSE {}]

MCAliasOf == [tx \in Tx |-> IF tx \in {t1, t2} THEN x1 ELSE NoAlias]

\* A checkpoint overtakes a chain: a1 alone has more work than b1, b2 and b3 (the
\* checkpoint).  c2 has more work still, and is refused by the database only.
MCWorkCheckpoint ==
  [b \in Block |-> CASE b = g -> 1 [] b = a1 -> 5 [] b = a2 -> 6 [] b = a3 -> 7
                     [] b = b1 -> 2 [] b = b2 -> 3 [] b = b3 -> 4 [] b = c2 -> 8 [] b = c3 -> 9]

MCTxsOfCheckpoint ==
  [b \in Block |-> CASE b \in {a1, b2} -> <<t1>> [] b = a2 -> <<t3>>
                     [] b = c2 -> <<t1, t2>> [] OTHER -> <<>>]
=============================================================================
