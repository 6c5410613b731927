------------------------------ MODULE MCWallet ------------------------------
(***************************************************************************)
(* p pays the wallet; s and r both spend that output, s with change; x     *)
(* spends it too, with change, and pays another account of the wallet.     *)
(***************************************************************************)
EXTENDS Wallet
CONSTANTS p, s, r, x, o1, o2, o3, o4

MCSpends == p :> {} @@ s :> {o1} @@ r :> {o1} @@ x :> {o1}
MCPays == p :> <<o1>> @@ s :> <<o2>> @@ r :> <<>> @@ x :> <<o3, o4>>
MCAccount == o1 :> 0 @@ o2 :> 0 @@ o3 :> 0 @@ o4 :> 1

Bound(from, start, blocks, forks, txs, errors, drops, stops, restarts, saves) ==
  [from |-> from, start |-> start, blocks |-> blocks, forks |-> forks, txs |-> txs,
   errors |-> errors, drops |-> drops, stops |-> stops,
   restarts |-> restarts, saves |-> saves]

\* Every run explores each of these combinations.
MCBounds ==
  {Bound(0, <<>>, 6, 4, 0, 0, 0, 0, 0, 0),       \* a reorganization and back
   Bound(0, <<>>, 4, 2, 2, 1, 0, 0, 0, 0),       \* with a failing request
   Bound(0, <<<<p>>>>, 5, 2, 3, 0, 0, 0, 0, 0),  \* rival spends on two branches
   Bound(0, <<<<p>>>>, 4, 0, 3, 1, 1, 0, 0, 0),  \* a lost, a dropped transaction
   Bound(0, <<<<p>>>>, 4, 0, 3, 0, 1, 1, 0, 0),  \* a stop
   Bound(0, <<<<p>>>>, 3, 0, 3, 0, 1, 0, 1, 1),  \* a restart or rescan
   Bound(0, <<<<p>>>>, 4, 2, 2, 0, 0, 0, 1, 1),  \* and a reorganization
   Bound(5, <<>>, 7, 2, 0, 0, 0, 0, 0, 0),       \* fast_refresh, several answers
   Bound(3, <<>>, 5, 1, 0, 1, 0, 1, 0, 0),       \* failing or stopped
   Bound(2, <<>>, 4, 2, 2, 0, 0, 0, 0, 0)}       \* with skipped transactions
=============================================================================
