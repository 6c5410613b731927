------------------------------- MODULE MCMining -------------------------------
(***************************************************************************)
(* t and u register the same alias, t and v spend the same image, and x    *)
(* refers to an output of u.                                               *)
(***************************************************************************)
EXTENDS Mining, TLC

CONSTANTS t, u, v, x, none, c1, c2

MCTx == {t, u, v, x}

MCFeeOrder == <<x, v, t, u>>

MCImages == (t :> {1}) @@ (u :> {2}) @@ (v :> {1}) @@ (x :> {3})

MCDeps == (t :> {}) @@ (u :> {}) @@ (v :> {}) @@ (x :> {u})

MCAliasOf == (t :> 1) @@ (u :> 1) @@ (v :> none) @@ (x :> none)

MCBodies == {<<>>, <<u>>, <<x>>, <<v, t>>, <<t, u>>}

Bound(blocks, finds, deliveries, calls1, calls2, size, arrivals, removals) ==
  [blocks |-> blocks, finds |-> finds, deliveries |-> deliveries, calls |-> (c1 :> calls1) @@ (c2 :> calls2),
   size |-> size, arrivals |-> arrivals, removals |-> removals]

\* One start, with a reorganisation, with several blocks and with changes of the pool;
\* two threads that find a block while mining is stopped; four calls that overlap
MCBounds ==
  {Bound(4, 1, 1, 1, 0, 1, 0, 0), Bound(3, 2, 1, 1, 0, 1, 0, 0), Bound(3, 2, 0, 1, 0, 1, 1, 1),
   Bound(2, 1, 0, 1, 1, 2, 0, 0), Bound(1, 0, 0, 2, 2, 2, 0, 0)}
=============================================================================
