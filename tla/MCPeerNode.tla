------------------------------ MODULE MCPeerNode ------------------------------
(***************************************************************************)
(* An instance of PeerNode: three peers, one of which says no port, and    *)
(* messages of peers whose clocks are ahead and behind, with an entry      *)
(* newer than the message in one of them.                                  *)
(***************************************************************************)
EXTENDS PeerNode

CONSTANTS self, a, b, c

Message(t, list) == [local_time |-> t, list |-> list]

MCGossip ==
  [x \in Addr |->
     CASE x = a -> {Message(9, <<Entry(b, 9), Entry(c, 8)>>)}
       [] x = b -> {Message(0, <<>>), Message(3, <<Entry(a, 4)>>)}
       [] x = c -> {Message(3, <<Entry(a, 3)>>)}
       [] x = self -> {Message(1, <<>>)}]

MCSeeds == <<a>>

MCPriority == <<b>>
=============================================================================
