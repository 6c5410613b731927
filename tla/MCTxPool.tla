------------------------------ MODULE MCTxPool ------------------------------
(***************************************************************************)
(* Small instances of TxPool: t1 and t2 compete for the image k2, which is *)
(* the second input of t1; t1 and t3 compete for the alias a1; t3 spends   *)
(* an output of t2.                                                        *)
(***************************************************************************)
EXTENDS TxPool

CONSTANTS t1, t2, t3, k1, k2, k3, a1

MCImages == [tx \in Tx |-> CASE tx = t1 -> <<k1, k2>> [] tx = t2 -> <<k2>> [] OTHER -> <<k3>>]

MCAliasOf == [tx \in Tx |-> IF tx = t2 THEN NoAlias ELSE a1]

MCDeps == [tx \in Tx |-> IF tx = t3 THEN {t2} ELSE {}]

\* <<t1, t2>> spends k2 twice
MCBodies == {<<t1>>, <<t2>>, <<t3>>, <<t1, t2>>} \cap Seq(Tx)

MCBodiesRestart == {<<t1>>, <<t1, t2>>}
=============================================================================
