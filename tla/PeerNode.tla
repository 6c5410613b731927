------------------------------- MODULE PeerNode -------------------------------
(***************************************************************************)
(* How a node finds and keeps its peers: peerlist_manager (net_peerlist.h) *)
(* and the connections of node_server (net_node.inl).                      *)
(*                                                                         *)
(* connections_maker runs in one thread and waits for every connection and *)
(* handshake it starts; meanwhile other threads handle incoming            *)
(* handshakes, back pings, timed syncs and closed connections.             *)
(*                                                                         *)
(* A peer is its address; an incoming connection comes from another port,  *)
(* and its address is known from the port the peer says it listens on.     *)
(* The lists peers send are messages of Gossip.                            *)
(***************************************************************************)
EXTENDS Integers, Sequences, FiniteSets, SequencesExt

CONSTANTS
  Addr, Self,            \* addresses, and this node's own
  Seeds,                 \* m_seed_nodes, a sequence
  Priority,              \* m_priority_peers, a sequence
  ConnectionsCount,      \* connections_count
  WhitePercent,          \* P2P_DEFAULT_WHITELIST_CONNECTIONS_PERCENT
  WhiteLimit, GrayLimit, \* P2P_LOCAL_WHITE_PEERLIST_LIMIT, ..._GRAY_...
  IndexLimit,            \* 20, of make_new_connection_from_peerlist
  TryLimit,              \* 10, of make_new_connection_from_peerlist
  Gossip,                \* peer -> peer lists it sends, with its time
  Dialers,               \* peers that connect to this node
  Hidden,                \* peers that nobody can connect to; they say no port
  FirstTime, MaxTime,    \* bound: the clock
  MaxEvents              \* bound: peers that go, broken connections, timeouts, refused lists, saves, crashes

ASSUME PeerAssumption ==
  /\ Self \in Addr /\ Dialers \subseteq Addr \ {Self} /\ Hidden \subseteq Addr \ {Self}
  /\ ConnectionsCount \in Nat \ {0} /\ WhitePercent \in 0..100
  /\ WhiteLimit \in Nat \ {0} /\ GrayLimit \in Nat \ {0} /\ TryLimit \in Nat \ {0}
  /\ FirstTime \in Nat /\ MaxTime \in Nat

VARIABLES
  now,
  white, gray,   \* m_peers_white, m_peers_gray in the order of by_time, oldest first
  out,           \* address -> handshaken outgoing connections
  inc,           \* addresses of handshaken incoming connections
  pings,         \* addresses of back pings that are under way
  blocked,       \* m_blocked_ips
  maker,         \* the thread of connections_maker
  file,          \* p2pstate.bin
  up,            \* addresses where a node listens
  events

lists == <<white, gray>>

conns == <<out, inc, pings, blocked>>

world == <<up, events, file>>

vars == <<now, lists, conns, maker, world>>

----------------------------------------------------------------------------
(***************************************************************************)
(* peerlist_manager.  Entries are ordered by last_seen; an entry comes     *)
(* after those with the same time.                                         *)
(***************************************************************************)
Entry(a, t) == [adr |-> a, last_seen |-> t]

Addresses(list) == {list[i].adr : i \in 1..Len(list)}

Without(list, a) == SelectSeq(list, LAMBDA e : e.adr # a)

Placed(list, e) ==
  SelectSeq(list, LAMBDA x : x.last_seen <= e.last_seen) \o <<e>>
    \o SelectSeq(list, LAMBDA x : x.last_seen > e.last_seen)

\* replace: an entry stays where it is if its new time fits there.
Replaced(list, e) ==
  LET i == CHOOSE j \in 1..Len(list) : list[j].adr = e.adr
      fits == /\ i > 1 => list[i - 1].last_seen <= e.last_seen
              /\ i < Len(list) => e.last_seen <= list[i + 1].last_seen
  IN IF fits THEN [list EXCEPT ![i] = e] ELSE Placed(Without(list, e.adr), e)

Trim(list, limit) == IF Len(list) > limit THEN SubSeq(list, Len(list) - limit + 1, Len(list)) ELSE list

Put(list, e, limit) ==
  IF e.adr \in Addresses(list) THEN Replaced(list, e) ELSE Trim(Placed(list, e), limit)

\* append_with_peer_white; set_peer_just_seen is this with the time.
WhiteWith(w, e) == Put(w, e, WhiteLimit)

\* Mutant: the address stays in the gray list.
GrayAfterKept(g, e) == g

GrayAfter(g, e) == Without(g, e.adr)

AppendWithPeerWhite(e) == white' = WhiteWith(white, e) /\ gray' = GrayAfter(gray, e)

\* append_with_peer_gray
GrayWith(w, g, e) == IF e.adr \in Addresses(w) THEN g ELSE Put(g, e, GrayLimit)

\* merge_peerlist
Merged(w, g, list) == Trim(FoldLeft(LAMBDA acc, e : GrayWith(w, acc, e), g, list), GrayLimit)

\* fix_time_delta: the sender's clock is taken out of the times ...
Fixed(m) ==
  [i \in 1..Len(m.list) |-> Entry(m.list[i].adr, m.list[i].last_seen + (now - m.local_time))]

\* ... and no entry may be newer than the message.
HasFuture(m) == \E i \in 1..Len(m.list) : m.list[i].last_seen > m.local_time

----------------------------------------------------------------------------
(***************************************************************************)
(* Connections.                                                            *)
(***************************************************************************)
Event == events < MaxEvents /\ events' = events + 1

\* get_outgoing_connections_count; the connection of a back ping is an outgoing one.
OutCount == MapThenSumSet(LAMBDA a : out[a], Addr) + Cardinality(pings)

\* is_peer_used: this node itself, or a peer with a connection of either kind.
IsPeerUsed(a) == a = Self \/ out[a] > 0 \/ a \in inc \cup pings

IsAddrConnected(a) == out[a] > 0 \/ a \in pings

\* close, of all connections with a
Close(a) == out' = [out EXCEPT ![a] = 0] /\ inc' = inc \ {a} /\ pings' = pings \ {a}

\* handle_remote_peerlist and what follows for a list that is refused: the list is
\* not merged and the address gets a fail; the bound on fails is zero here, so that
\* the first one blocks the address (block_ip), which closes its connections.
Refuse(a) == Event /\ Close(a) /\ blocked' = blocked \cup {a}

----------------------------------------------------------------------------
(***************************************************************************)
(* connections_maker.  maker.pc is where it is, maker.kind the loop it is  *)
(* in: over the seeds, over the priority peers, or over a list.            *)
(***************************************************************************)
Resting ==
  [pc |-> "idle", kind |-> "none", target |-> Self, i |-> 0, left |-> 0, phases |-> <<>>,
   count |-> 0, tried |-> {}]

\* The two calls of make_expected_connections_count
Phase(use_white, expected) == [white |-> use_white, expected |-> expected]

ExpectedWhite == (ConnectionsCount * WhitePercent) \div 100

\* Mutant: one connection more.
PhasesOneMore ==
  IF OutCount > ConnectionsCount THEN <<>>
  ELSE <<Phase(FALSE, ConnectionsCount + 1), Phase(TRUE, ConnectionsCount + 1)>>

\* Mutant: the gray list is for the connections beyond the expected white ones only.
PhasesWhite ==
  IF OutCount >= ConnectionsCount THEN <<>>
  ELSE IF OutCount < ExpectedWhite THEN <<Phase(TRUE, ExpectedWhite)>>
  ELSE <<Phase(TRUE, ConnectionsCount)>>

Phases ==
  IF OutCount >= ConnectionsCount THEN <<>>
  ELSE IF OutCount < ExpectedWhite
       THEN <<Phase(TRUE, ExpectedWhite), Phase(FALSE, ConnectionsCount)>>
       ELSE <<Phase(FALSE, ConnectionsCount), Phase(TRUE, ConnectionsCount)>>

\* The next priority peer, or the lists once there is none.
AtPriority(i) == [Resting EXCEPT !.pc = "next", !.kind = "priority", !.i = i]

AtLists(phases) ==
  IF phases = <<>> THEN Resting ELSE [Resting EXCEPT !.pc = "next", !.kind = "list", !.phases = phases]

ListOf(phase) == IF phase.white THEN white ELSE gray

\* try_to_connect_and_handshake_with_new_peer has returned false.
AfterFailure(mk) ==
  CASE mk.kind = "seed" ->
         IF mk.left = 1 THEN AtPriority(1)
         ELSE [mk EXCEPT !.pc = "next", !.target = Self, !.left = @ - 1, !.i = (@ % Len(Seeds)) + 1]
    [] mk.kind = "priority" -> AtPriority(mk.i + 1)
    [] mk.kind = "list" -> [mk EXCEPT !.pc = "pick", !.target = Self]

\* It has returned true.
AfterSuccess(mk) ==
  CASE mk.kind = "seed" -> AtPriority(1)
    [] mk.kind = "priority" -> AtPriority(mk.i + 1)
    [] mk.kind = "list" -> AtLists(mk.phases)

\* connect, by which a blocked address is refused too
Connect(mk, a) == IF a \in up \ blocked THEN [mk EXCEPT !.pc = "handshake", !.target = a] ELSE AfterFailure(mk)

MakerStart ==
  /\ maker.pc = "idle"
  /\ IF white = <<>> /\ Seeds # <<>>
     THEN \E i \in 1..Len(Seeds) :
            maker' = [Resting EXCEPT !.pc = "next", !.kind = "seed", !.i = i, !.left = Len(Seeds) + 1]
     ELSE maker' = AtPriority(1)
  /\ UNCHANGED <<now, lists, conns, world>>

NextSeed ==
  /\ maker.pc = "next" /\ maker.kind = "seed"
  /\ maker' = Connect(maker, Seeds[maker.i])
  /\ UNCHANGED <<now, lists, conns, world>>

\* connect_to_peerlist
NextPriority ==
  /\ maker.pc = "next" /\ maker.kind = "priority"
  /\ maker' = IF maker.i > Len(Priority) THEN AtLists(Phases)
              ELSE IF IsAddrConnected(Priority[maker.i]) THEN AtPriority(maker.i + 1)
              ELSE Connect(maker, Priority[maker.i])
  /\ UNCHANGED <<now, lists, conns, world>>

\* The loop of make_expected_connections_count, and the count of peers with which
\* make_new_connection_from_peerlist starts.
NextFromList ==
  /\ maker.pc = "next" /\ maker.kind = "list"
  /\ LET phase == Head(maker.phases)
         n == Len(ListOf(phase))
     IN maker' = IF OutCount >= phase.expected \/ n = 0 THEN AtLists(Tail(maker.phases))
                 ELSE [maker EXCEPT !.pc = "pick", !.count = n, !.tried = {}]
  /\ UNCHANGED <<now, lists, conns, world>>

\* get_random_index_with_fixed_probability: its possible results
RandomIndices(max) ==
  IF max = 0 THEN {0} ELSE {(x * x * x) \div (max * max) : x \in 0..max}

\* Indices into a list of n peers, zero for the peer seen last
Indices(n) == RandomIndices(IF n - 1 < IndexLimit THEN n - 1 ELSE IndexLimit)

At(list, index) == list[Len(list) - index].adr

\* One peer of the list; the list may have become shorter since it was counted.
Pick(index) ==
  /\ maker.pc = "pick"
  /\ index \in Indices(maker.count) \ maker.tried
  /\ Cardinality(maker.tried) < TryLimit
  /\ LET list == ListOf(Head(maker.phases))
         peer == At(list, index)
         mk == [maker EXCEPT !.tried = @ \cup {index}]
     IN maker' = IF index >= Len(list) THEN AtLists(Tail(maker.phases))
                 ELSE IF IsPeerUsed(peer) \/ peer \in blocked THEN mk
                 ELSE Connect(mk, peer)
  /\ UNCHANGED <<now, lists, conns, world>>

\* Too many tries, or too many draws of indices that were tried before.
GiveUp ==
  /\ maker.pc = "pick" /\ maker.tried # {}
  /\ maker' = AtLists(Tail(maker.phases))
  /\ UNCHANGED <<now, lists, conns, world>>

\* No answer in time, or the peer is gone.
HandshakeFails ==
  /\ maker.pc = "handshake"
  /\ IF maker.target \in up THEN Event ELSE UNCHANGED events
  /\ maker' = AfterFailure(maker)
  /\ UNCHANGED <<now, lists, conns, up, file>>

\* The answer to COMMAND_HANDSHAKE.  From a seed only the list is taken.  A peer
\* that turns out to be this node is put into the white list and then dropped.
HandshakeAnswer(m) ==
  /\ maker.pc = "handshake" /\ maker.target \in up
  /\ LET peer == maker.target
         g == Merged(white, gray, Fixed(m))
         e == Entry(peer, now)
     IN \/ /\ HasFuture(m)
           /\ Refuse(peer)
           /\ maker' = AfterFailure(maker)
           /\ UNCHANGED lists
        \/ /\ ~HasFuture(m) /\ maker.kind = "seed"
           /\ gray' = g
           /\ maker' = AfterSuccess(maker)
           /\ UNCHANGED <<white, conns, events>>
        \/ /\ ~HasFuture(m) /\ maker.kind # "seed"
           /\ white' = WhiteWith(white, e) /\ gray' = GrayAfter(g, e)
           /\ IF peer = Self
              THEN maker' = AfterFailure(maker) /\ UNCHANGED out
              ELSE maker' = [maker EXCEPT !.pc = "handshaken"] /\ out' = [out EXCEPT ![peer] = @ + 1]
           /\ UNCHANGED <<inc, pings, blocked, events>>
  /\ UNCHANGED <<now, up, file>>

\* Back in try_to_connect_and_handshake_with_new_peer
Handshaken ==
  /\ maker.pc = "handshaken"
  /\ AppendWithPeerWhite(Entry(maker.target, now))
  /\ maker' = AfterSuccess(maker)
  /\ UNCHANGED <<now, conns, world>>

----------------------------------------------------------------------------
(***************************************************************************)
(* Other threads.                                                          *)
(***************************************************************************)
\* handle_handshake
HandleHandshake(a) ==
  /\ a \in Dialers \cap (up \cup Hidden) /\ a \notin blocked \cup inc
  /\ inc' = inc \cup {a}
  /\ pings' = IF a \in Hidden THEN pings ELSE pings \cup {a}
  /\ UNCHANGED <<now, lists, out, blocked, maker, world>>

\* try_ping: the peer answers at the port it said, or it does not.
PingAnswer(a) ==
  /\ a \in pings /\ a \in up
  /\ pings' = pings \ {a}
  /\ AppendWithPeerWhite(Entry(a, now))
  /\ UNCHANGED <<now, out, inc, blocked, maker, world>>

PingFails(a) ==
  /\ a \in pings
  /\ IF a \in up THEN Event ELSE UNCHANGED events
  /\ pings' = pings \ {a}
  /\ UNCHANGED <<now, lists, out, inc, blocked, maker, up, file>>

\* Mutant: an incoming connection counts as a proof that the peer can be reached.
SeenAgainIncoming(a) == TRUE

\* do_peer_timed_sync: peers with an outgoing connection are seen again.
SeenAgain(a) == out[a] > 0

\* The answer to COMMAND_TIMED_SYNC on a connection.  As in the code, a refused list
\* does not end the handler.
TimedSyncAnswer(a, m) ==
  /\ out[a] > 0 \/ a \in inc
  /\ LET g == IF HasFuture(m) THEN gray ELSE Merged(white, gray, Fixed(m))
         e == Entry(a, now)
     IN /\ IF HasFuture(m) THEN Refuse(a) ELSE UNCHANGED <<conns, events>>
        /\ white' = IF SeenAgain(a) THEN WhiteWith(white, e) ELSE white
        /\ gray' = IF SeenAgain(a) THEN GrayAfter(g, e) ELSE g
  /\ UNCHANGED <<now, maker, up, file>>

----------------------------------------------------------------------------
(***************************************************************************)
(* The clock, peers that come and go, and the node's own restarts.         *)
(***************************************************************************)
Tick ==
  /\ now < MaxTime
  /\ now' = now + 1
  /\ UNCHANGED <<lists, conns, maker, world>>

Leave(a) ==
  /\ Event /\ a \in up \ {Self}
  /\ up' = up \ {a}
  /\ Close(a)
  /\ UNCHANGED <<now, lists, blocked, maker, file>>

Break(a) ==
  /\ Event /\ (out[a] > 0 \/ a \in inc)
  /\ Close(a)
  /\ UNCHANGED <<now, lists, blocked, maker, up, file>>

\* P2P_IP_BLOCKTIME is over.
Unblock(a) ==
  /\ a \in blocked
  /\ blocked' = blocked \ {a}
  /\ UNCHANGED <<now, lists, out, inc, pings, maker, world>>

StoreConfig ==
  /\ Event /\ file # lists
  /\ file' = lists
  /\ UNCHANGED <<now, lists, conns, maker, up>>

\* init_config: the lists of the file, or none if the daemon crashed while it wrote
\* the file, which is truncated first.
Crash ==
  /\ Event
  /\ \/ white' = file[1] /\ gray' = file[2] /\ file' = file
     \/ white' = <<>> /\ gray' = <<>> /\ file' = <<<<>>, <<>>>>
  /\ out' = [a \in Addr |-> 0] /\ inc' = {} /\ pings' = {} /\ blocked' = {}
  /\ maker' = Resting
  /\ UNCHANGED <<now, up>>

----------------------------------------------------------------------------
Init ==
  /\ now = FirstTime
  /\ white = <<>> /\ gray = <<>> /\ file = <<<<>>, <<>>>>
  /\ out = [a \in Addr |-> 0] /\ inc = {} /\ pings = {} /\ blocked = {}
  /\ maker = Resting
  /\ up = Addr \ Hidden
  /\ events = 0

ConnectionsMaker ==
  \/ MakerStart \/ NextSeed \/ NextPriority \/ NextFromList \/ GiveUp
  \/ \E i \in 0..IndexLimit : Pick(i)
  \/ HandshakeFails \/ Handshaken
  \/ \E m \in Gossip[maker.target] : HandshakeAnswer(m)

Next ==
  \/ ConnectionsMaker
  \/ \E a \in Addr :
       \/ HandleHandshake(a) \/ PingAnswer(a) \/ PingFails(a)
       \/ \E m \in Gossip[a] : TimedSyncAnswer(a, m)
       \/ Leave(a) \/ Break(a) \/ Unblock(a)
  \/ Tick \/ StoreConfig \/ Crash

Spec == Init /\ [][Next]_vars

\* connections_maker is called every second and each of its steps ends; every index
\* that the random choice can give is drawn again and again; a block expires, and
\* a back ping is answered or times out.
FairSpec ==
  /\ Spec
  /\ WF_vars(ConnectionsMaker)
  /\ \A i \in 0..IndexLimit, w \in BOOLEAN : SF_vars(Pick(i) /\ Head(maker.phases).white = w)
  /\ \A a \in Addr : WF_vars(Unblock(a)) /\ WF_vars(PingAnswer(a) \/ PingFails(a))

----------------------------------------------------------------------------
(***************************************************************************)
(* Properties.                                                             *)
(***************************************************************************)
IsList(list, limit) ==
  /\ Len(list) <= limit
  /\ \A i \in 1..Len(list) : list[i].adr \in Addr /\ list[i].last_seen \in Int

\* The variables have their types, and no list is longer than its limit.
TypeOK ==
  /\ now \in FirstTime..MaxTime
  /\ IsList(white, WhiteLimit) /\ IsList(gray, GrayLimit)
  /\ IsList(file[1], WhiteLimit) /\ IsList(file[2], GrayLimit)
  /\ out \in [Addr -> Nat]
  /\ inc \subseteq Addr /\ pings \subseteq Addr /\ blocked \subseteq Addr
  /\ maker.pc \in {"idle", "next", "pick", "handshake", "handshaken"}
  /\ up \subseteq Addr /\ events \in 0..MaxEvents

\* The peer lists are sound, whatever gossip, pings, handshakes and a crash did: an address
\* is in one of them at most, and once, also in the file (append_with_peer_white,
\* append_with_peer_gray); no entry is from the future of this node's clock, whatever
\* clocks the peers have (fix_time_delta); and each list is within its limit and in the
\* order of the times, so that a full one loses the address seen longest ago.
ListsSound ==
  /\ TypeOK
  /\ \A l \in {lists, file} :
       /\ Addresses(l[1]) \cap Addresses(l[2]) = {}
       /\ Cardinality(Addresses(l[1])) = Len(l[1]) /\ Cardinality(Addresses(l[2])) = Len(l[2])
  /\ \A l \in {white, gray} :
       /\ \A i \in 1..Len(l) : l[i].last_seen <= now
       /\ \A i, j \in 1..Len(l) : i < j => l[i].last_seen <= l[j].last_seen

\* The white list holds only addresses that can be connected to, whatever gossip says:
\* a peer that connected to this node is pinged back first.
WhiteReachable == Addresses(white) \cap Hidden = {}

\* connections_count: only for a priority peer does the node open an outgoing connection
\* when it has as many as it is allowed, although they come and go after it counted.
OutLimit ==
  [][(\E a \in Addr : out'[a] > out[a]) /\ maker.target \notin ToSet(Priority) => OutCount - Cardinality(pings) < ConnectionsCount]_vars

\* A peer that connections_maker could connect to: one of those that the random index
\* can choose.
Eligible ==
  {a \in up : /\ ~IsPeerUsed(a)
              /\ \E l \in {white, gray} : l # <<>> /\ \E i \in Indices(Len(l)) : At(l, i) = a}

\* A node with no outgoing connection makes one, unless there is no such peer.
Reconnects == []<>((\E a \in Addr : out[a] > 0) \/ Eligible = {})
=============================================================================
