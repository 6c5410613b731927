----------------------------- MODULE SyncProtocol -----------------------------
(***************************************************************************)
(* How a node downloads the chain: t_cryptonote_protocol_handler           *)
(* (cryptonote_protocol/cryptonote_protocol_handler.inl) with one          *)
(* connection to each peer.                                                *)
(*                                                                         *)
(* A peer answers requests from its own main chain and may move to a chain *)
(* with more work at any time.  A connection is two FIFO channels.  Its    *)
(* handlers run one after the other, those of different connections        *)
(* interleave: a response is processed block by block, and each block      *)
(* takes the core's locks on its own.                                      *)
(*                                                                         *)
(* The core is what the handlers see of it: the top of the main chain (its *)
(* path is the main chain), the blocks kept in memory and those marked     *)
(* invalid.  Bad is the set of blocks whose transactions do not verify; as *)
(* in the core, that is found out when the block joins the main chain.     *)
(***************************************************************************)
EXTENDS Integers, Sequences, Functions

CONSTANTS
  Peer, Block, Genesis,
  Path,         \* block -> the blocks from the genesis block to it
  Work,         \* block -> cumulative difficulty
  Bad,
  Start,        \* peer -> the last block of its main chain at first
  IdsCount,     \* BLOCKS_IDS_SYNCHRONIZING_DEFAULT_COUNT
  SyncSize,     \* get_block_sync_size()
  IpFails,      \* P2P_IP_FAILS_BEFORE_BLOCK
  MaxEvents     \* bound: moves of peers to another chain, and broken connections

ASSUME SyncAssumption ==
  /\ Genesis \in Block /\ Path \in [Block -> Seq(Block)] /\ Work \in [Block -> Nat]
  /\ Path[Genesis] = <<Genesis>>
  /\ \A b \in Block \ {Genesis} :
       LET parent == Path[b][Len(Path[b]) - 1]
       IN parent \in Block /\ Path[b] = Append(Path[parent], b) /\ Work[b] > Work[parent]
  /\ Genesis \notin Bad
  /\ Start \in [Peer -> Block]
  /\ IdsCount \in Nat \ {0, 1} /\ SyncSize \in Nat \ {0} /\ {IpFails, MaxEvents} \subseteq Nat

VARIABLES
  top,       \* the last block of the main chain
  alt,       \* m_alternative_chains
  invalid,   \* m_invalid_blocks
  conn,      \* peer -> the context of its connection
  busy,      \* peers whose response is being processed
  batch,     \* peer -> the blocks of it that are still to come
  out, in,   \* peer -> messages to it, messages from it
  fails,     \* peer -> m_ip_fails_score
  blocked,   \* m_blocked_ips
  peerTop,   \* peer -> the last block of its main chain
  seen,      \* history: peer -> last id of its latest chain response or sync data
  stuck,     \* history: peers with a failed final condition on their connection
  events     \* moves and broken connections so far

core == <<top, alt, invalid>>

links == <<conn, busy, batch, out, in, stuck>>

ips == <<fails, blocked>>

world == <<peerTop, events>>

vars == <<core, links, ips, world, seen>>

----------------------------------------------------------------------------
MainOf == [b \in Block |-> Range(Path[b])]

Main == MainOf[top]

Parent(b) == Path[b][Len(Path[b]) - 1]

Height(b) == Len(Path[b])  \* blocks in the chain that ends with b

Known == Main \cup alt \cup invalid

HaveBlock(b) == b \in Known

\* The context of a connection that is not there, and of one that is new.
Closed ==
  [state |-> "closed", needed |-> <<>>, requested |-> {}, remote |-> 0, last |-> 0, callbacks |-> 0]

NewContext == [Closed EXCEPT !.state = "befor_handshake"]

Open(p) == conn[p].state # "closed"

----------------------------------------------------------------------------
(***************************************************************************)
(* add_new_block.  The result carries the core after it.                   *)
(***************************************************************************)
Result(t, a, i, what) == [top |-> t, alt |-> a, invalid |-> i, what |-> what]

\* handle_alternative_block once b is in m_alternative_chains: a chain with more
\* work takes over, unless a block of it is refused; that block and those after it
\* are then invalid.
WithAlternative(b) ==
  LET a == alt \cup {b}
      branch == MainOf[b] \ Main
      refused == {x \in branch : MainOf[x] \cap Bad # {}}
  IN IF Work[b] <= Work[top] THEN Result(top, a, invalid, "alternative")
     ELSE IF refused = {}
          THEN Result(b, (a \ MainOf[b]) \cup (Main \ MainOf[b]), invalid, "main")
          ELSE Result(top, a \ refused, invalid \cup refused, "failed")

AddNewBlock(b) ==
  CASE HaveBlock(b) -> Result(top, alt, invalid, "exists")
    [] ~HaveBlock(b) /\ Parent(b) = top ->
         IF b \in Bad THEN Result(top, alt, invalid, "failed") ELSE Result(b, alt, invalid, "main")
    [] ~HaveBlock(b) /\ Parent(b) # top /\ Parent(b) \in Main \cup alt -> WithAlternative(b)
    [] OTHER -> Result(top, alt, invalid, "orphaned")

Core(r) == top' = r.top /\ alt' = r.alt /\ invalid' = r.invalid

----------------------------------------------------------------------------
(***************************************************************************)
(* Messages.                                                               *)
(***************************************************************************)
Backwards(s) == [i \in 1..Len(s) |-> s[Len(s) + 1 - i]]

SyncData(b) == [type |-> "sync", id |-> b, height |-> Height(b)]

NewBlock(b) == [type |-> "new_block", id |-> b]

RequestChain == [type |-> "request_chain", ids |-> Backwards(Path[top])]

RequestObjects(ids) == [type |-> "request_objects", ids |-> ids]

Send(p, m) == out' = [out EXCEPT ![p] = Append(@, m)]

Receive(p) == in' = [in EXCEPT ![p] = Tail(@)]

\* Head of a channel, with no response being processed: handlers of a connection
\* do not overlap.
NextIn(p, type) == Open(p) /\ p \notin busy /\ in[p] # <<>> /\ Head(in[p]).type = type

\* drop_connection: what is under way on it is lost.
Drop(p) ==
  /\ conn' = [conn EXCEPT ![p] = Closed]
  /\ busy' = busy \ {p}
  /\ batch' = [batch EXCEPT ![p] = <<>>]
  /\ in' = [in EXCEPT ![p] = <<>>]
  /\ out' = [out EXCEPT ![p] = <<>>]
  /\ stuck' = stuck \ {p}

\* add_ip_fail, and block_ip once there are too many
AddIpFail(p) ==
  IF fails[p] + 1 > IpFails
  THEN fails' = [fails EXCEPT ![p] = IpFails \div 2] /\ blocked' = blocked \cup {p}
  ELSE fails' = [fails EXCEPT ![p] = @ + 1] /\ UNCHANGED blocked

----------------------------------------------------------------------------
(***************************************************************************)
(* process_payload_sync_data: what the peer says of its chain, in the      *)
(* handshake (initial) and then in each timed sync.                        *)
(***************************************************************************)
\* Mutant: sync data is looked at while synchronizing.
IgnoredNever(c, initial) == c.state = "befor_handshake" /\ ~initial

\* Mutant: a suspended connection stays suspended.
IgnoredIdle(c, initial) == c.state \in {"synchronizing", "idle"}

Ignored(c, initial) ==
  \/ c.state = "befor_handshake" /\ ~initial
  \/ c.state = "synchronizing"

ProcessPayloadSyncData(c, id, height, initial) ==
  IF Ignored(c, initial) THEN c
  ELSE IF HaveBlock(id) THEN [c EXCEPT !.state = "normal"]
  ELSE [c EXCEPT !.state = "synchronizing", !.remote = height, !.callbacks = @ + 1]

Handshake(p) ==
  /\ ~Open(p)
  /\ p \notin blocked
  /\ conn' = [conn EXCEPT ![p] =
                 ProcessPayloadSyncData(NewContext, peerTop[p], Height(peerTop[p]), TRUE)]
  /\ seen' = [seen EXCEPT ![p] = peerTop[p]]
  /\ UNCHANGED <<core, busy, batch, out, in, stuck, ips, world>>

ReceiveSync(p) ==
  /\ NextIn(p, "sync")
  /\ LET m == Head(in[p])
     IN /\ conn' = [conn EXCEPT ![p] = ProcessPayloadSyncData(@, m.id, m.height, FALSE)]
        /\ seen' = [seen EXCEPT ![p] = IF Ignored(conn[p], FALSE) THEN @ ELSE m.id]
  /\ Receive(p)
  /\ UNCHANGED <<core, busy, batch, out, stuck, ips, world>>

OnCallback(p) ==
  /\ Open(p) /\ p \notin busy /\ conn[p].callbacks > 0
  /\ conn' = [conn EXCEPT ![p].callbacks = @ - 1]
  /\ IF conn[p].state = "synchronizing" THEN Send(p, RequestChain) ELSE out' = out
  /\ UNCHANGED <<core, busy, batch, in, stuck, ips, world, seen>>

----------------------------------------------------------------------------
(***************************************************************************)
(* request_missing_objects, on a context the caller has brought up to      *)
(* date.                                                                   *)
(***************************************************************************)
\* The loop over a list of ids: those in S, until there are limit of them, and how
\* many ids it has passed over.
Round(done, s, i, S, limit) ==
  IF Len(done.ids) >= limit THEN done
  ELSE [ids |-> IF s[i] \in S THEN Append(done.ids, s[i]) ELSE done.ids, passed |-> i]

Collect(s, S, limit) ==
  LET loop[i \in 0..Len(s)] ==
        IF i = 0 THEN [ids |-> <<>>, passed |-> 0] ELSE Round(loop[i - 1], s, i, S, limit)
  IN loop[Len(s)]

Only(s, S) == Collect(s, S, Len(s)).ids

MoreIds(c) == c.last < c.remote - 1

RequestMissingObjects(p, c, check) ==
  \/ /\ c.needed # <<>>
     /\ LET req == Collect(c.needed, IF check THEN Block \ Known ELSE Block, SyncSize)
        IN /\ Send(p, RequestObjects(req.ids))
           /\ conn' = [conn EXCEPT ![p] =
                 [c EXCEPT !.needed = SubSeq(@, req.passed + 1, Len(@)),
                           !.requested = @ \cup Range(req.ids)]]
     /\ stuck' = stuck
  \/ /\ c.needed = <<>> /\ MoreIds(c)
     /\ Send(p, RequestChain)
     /\ conn' = [conn EXCEPT ![p] = c]
     /\ stuck' = stuck
  \/ /\ c.needed = <<>> /\ ~MoreIds(c)
     /\ IF c.last = c.remote - 1 /\ c.requested = {}
        THEN conn' = [conn EXCEPT ![p] = [c EXCEPT !.state = "normal"]] /\ stuck' = stuck
        ELSE conn' = [conn EXCEPT ![p] = c] /\ stuck' = stuck \cup {p}
     /\ out' = out

----------------------------------------------------------------------------
(***************************************************************************)
(* handle_response_chain_entry.  As in the code, the sanity checks on the  *)
(* response come first; no peer that runs this code fails them.            *)
(***************************************************************************)
ResponseChainEntry(p) ==
  /\ NextIn(p, "chain_entry")
  /\ LET m == Head(in[p])
         c == [conn[p] EXCEPT !.remote = m.total, !.last = m.start + Len(m.ids) - 1,
                              !.needed = @ \o Only(m.ids, Block \ Known)]
     IN IF m.ids = <<>> \/ ~HaveBlock(Head(m.ids))
        THEN Drop(p) /\ AddIpFail(p) /\ UNCHANGED seen
        ELSE /\ seen' = [seen EXCEPT ![p] = m.ids[Len(m.ids)]]
             /\ UNCHANGED ips
             /\ IF c.last > c.remote
                THEN Drop(p)
                ELSE RequestMissingObjects(p, c, FALSE) /\ Receive(p) /\ UNCHANGED <<busy, batch>>
  /\ UNCHANGED <<core, world>>

----------------------------------------------------------------------------
(***************************************************************************)
(* handle_response_get_objects: the checks on the whole response, then its *)
(* blocks, then request_missing_objects.                                   *)
(***************************************************************************)
\* Another connection delivered these blocks first.
Overtaken(c, m) == Len(m.ids) > 1 /\ m.ids[1] \in c.requested /\ HaveBlock(m.ids[2])

Complete(c, m) == c.requested = Range(m.ids)

\* Mutant: an overtaken connection counts as synchronized.
SuspendedContextNormal(c) == [c EXCEPT !.state = "normal", !.needed = <<>>, !.requested = {}]

SuspendedContext(c) == [c EXCEPT !.state = "idle", !.needed = <<>>, !.requested = {}]

ResponseGetObjects(p) ==
  /\ NextIn(p, "objects")
  /\ LET m == Head(in[p])
         c == [conn[p] EXCEPT !.remote = m.height]
     IN \/ /\ c.last > m.height \/ ~(Overtaken(c, m) \/ Complete(c, m))
           /\ Drop(p)
        \/ /\ c.last <= m.height /\ Overtaken(c, m)
           /\ conn' = [conn EXCEPT ![p] = SuspendedContext(c)]
           /\ Receive(p)
           /\ UNCHANGED <<busy, batch, out, stuck>>
        \/ /\ c.last <= m.height /\ ~Overtaken(c, m) /\ Complete(c, m)
           /\ conn' = [conn EXCEPT ![p] = [c EXCEPT !.requested = {}]]
           /\ busy' = busy \cup {p}
           /\ batch' = [batch EXCEPT ![p] = m.ids]
           /\ Receive(p)
           /\ UNCHANGED <<out, stuck>>
  /\ UNCHANGED <<core, ips, world, seen>>

\* handle_incoming_block on the next block of the response.
ProcessBlock(p) ==
  /\ p \in busy /\ batch[p] # <<>>
  /\ LET r == AddNewBlock(Head(batch[p]))
     IN /\ Core(r)
        /\ IF r.what \in {"failed", "orphaned"}
           THEN Drop(p) /\ AddIpFail(p)
           ELSE /\ batch' = [batch EXCEPT ![p] = Tail(@)]
                /\ UNCHANGED <<conn, busy, in, out, stuck, ips>>
  /\ UNCHANGED <<world, seen>>

FinishResponse(p) ==
  /\ p \in busy /\ batch[p] = <<>>
  /\ busy' = busy \ {p}
  /\ RequestMissingObjects(p, conn[p], TRUE)
  /\ UNCHANGED <<core, batch, in, ips, world, seen>>

----------------------------------------------------------------------------
(***************************************************************************)
(* handle_notify_new_block.                                                *)
(***************************************************************************)
NotifyNewBlock(p) ==
  /\ NextIn(p, "new_block")
  /\ IF conn[p].state # "normal"
     THEN Receive(p) /\ UNCHANGED <<core, conn, busy, batch, out, stuck>>
     ELSE LET r == AddNewBlock(Head(in[p]).id)
          IN /\ Core(r)
             /\ \/ /\ r.what = "failed"
                   /\ Drop(p)
                \/ /\ r.what = "orphaned"
                   /\ conn' = [conn EXCEPT ![p].state = "synchronizing"]
                   /\ out' = [out EXCEPT ![p] = Append(@, [RequestChain EXCEPT !.ids = Backwards(Path[r.top])])]
                   /\ Receive(p)
                   /\ UNCHANGED <<busy, batch, stuck>>
                \/ /\ r.what \notin {"failed", "orphaned"}
                   /\ Receive(p)
                   /\ UNCHANGED <<conn, busy, batch, out, stuck>>
  /\ UNCHANGED <<ips, world, seen>>

----------------------------------------------------------------------------
(***************************************************************************)
(* The peers, which run the same code, and the network.                    *)
(***************************************************************************)
\* find_blockchain_supplement: from the first of the ids, which come highest first,
\* that is in the main chain, at most IdsCount ids.
ChainEntry(p, ids) ==
  LET chain == Path[peerTop[p]]
      split == CHOOSE h \in 1..Len(chain) :
                 \E i \in 1..Len(ids) :
                   /\ ids[i] = chain[h]
                   /\ \A j \in 1..(i - 1) : ids[j] \notin Range(chain)
      last == IF split + IdsCount - 1 < Len(chain) THEN split + IdsCount - 1 ELSE Len(chain)
  IN [type |-> "chain_entry", start |-> split - 1, total |-> Len(chain), ids |-> SubSeq(chain, split, last)]

\* Mutant: blocks are packed last first.
ObjectsReversed(p, ids) ==
  [type |-> "objects", height |-> Height(peerTop[p]),
   ids |-> Backwards(Only(ids, MainOf[peerTop[p]]))]

\* handle_get_objects: only the blocks of the main chain are found.
Objects(p, ids) ==
  [type |-> "objects", height |-> Height(peerTop[p]),
   ids |-> Only(ids, MainOf[peerTop[p]])]

Answer(p) ==
  /\ Open(p) /\ out[p] # <<>>
  /\ LET m == Head(out[p])
     IN in' = [in EXCEPT ![p] = Append(@, IF m.type = "request_chain" THEN ChainEntry(p, m.ids)
                                                                      ELSE Objects(p, m.ids))]
  /\ out' = [out EXCEPT ![p] = Tail(@)]
  /\ UNCHANGED <<core, conn, busy, batch, stuck, ips, world, seen>>

\* COMMAND_TIMED_SYNC, either way: the peer's sync data gets here.  Bound: one at a
\* time, and none that would change nothing if it arrived at once.
TimedSync(p) ==
  /\ \A i \in 1..Len(in[p]) : in[p][i].type # "sync"
  /\ conn[p].state = "idle" \/ (conn[p].state = "normal" /\ ~HaveBlock(peerTop[p]))
  /\ in' = [in EXCEPT ![p] = Append(@, SyncData(peerTop[p]))]
  /\ UNCHANGED <<core, conn, busy, batch, out, stuck, ips, world, seen>>

\* A peer moves to a chain with more work; it relays the last block if that came
\* alone, and not if it came with a response.
PeerAdvance(p, b, relay) ==
  /\ events < MaxEvents
  /\ Work[b] > Work[peerTop[p]]
  /\ peerTop' = [peerTop EXCEPT ![p] = b]
  /\ events' = events + 1
  /\ IF relay /\ Open(p) THEN in' = [in EXCEPT ![p] = Append(@, NewBlock(b))] ELSE in' = in
  /\ UNCHANGED <<core, conn, busy, batch, out, stuck, ips, seen>>

Disconnect(p) ==
  /\ Open(p) /\ events < MaxEvents
  /\ Drop(p)
  /\ events' = events + 1
  /\ UNCHANGED <<core, ips, peerTop, seen>>

\* is_remote_ip_allowed: P2P_IP_BLOCKTIME is over.
Unblock(p) ==
  /\ p \in blocked
  /\ blocked' = blocked \ {p}
  /\ UNCHANGED <<core, links, fails, world, seen>>

----------------------------------------------------------------------------
Init ==
  /\ top = Genesis /\ alt = {} /\ invalid = {}
  /\ conn = [p \in Peer |-> Closed]
  /\ busy = {}
  /\ batch = [p \in Peer |-> <<>>]
  /\ out = [p \in Peer |-> <<>>]
  /\ in = [p \in Peer |-> <<>>]
  /\ fails = [p \in Peer |-> 0]
  /\ blocked = {}
  /\ peerTop = Start
  /\ seen = [p \in Peer |-> Genesis]
  /\ stuck = {}
  /\ events = 0

Step(p) ==
  \/ Handshake(p) \/ ReceiveSync(p) \/ OnCallback(p)
  \/ ResponseChainEntry(p) \/ ResponseGetObjects(p) \/ ProcessBlock(p) \/ FinishResponse(p)
  \/ NotifyNewBlock(p) \/ Answer(p) \/ TimedSync(p)

Next ==
  \E p \in Peer :
    \/ Step(p)
    \/ \E b \in Block, relay \in BOOLEAN : PeerAdvance(p, b, relay)
    \/ Disconnect(p)
    \/ Unblock(p)

Spec == Init /\ [][Next]_vars

\* Handlers are run by the server's threads as messages arrive, peers answer, timed
\* syncs and new connections are made at intervals, and a block of an address
\* expires.  Nothing forces a peer to move or a connection to break.
FairSpec ==
  Spec /\ \A p \in Peer :
    /\ WF_vars(Handshake(p)) /\ WF_vars(ReceiveSync(p)) /\ WF_vars(OnCallback(p))
    /\ WF_vars(ResponseChainEntry(p)) /\ WF_vars(ResponseGetObjects(p))
    /\ WF_vars(ProcessBlock(p)) /\ WF_vars(FinishResponse(p)) /\ WF_vars(NotifyNewBlock(p))
    /\ WF_vars(Answer(p)) /\ WF_vars(TimedSync(p)) /\ WF_vars(Unblock(p))

----------------------------------------------------------------------------
\* Every variable has its type; there is never more than one callback requested
\* for a connection (the "double callback rise" m_callback_request_count is for).
TypeOK ==
  /\ top \in Block /\ alt \subseteq Block /\ invalid \subseteq Block
  /\ \A p \in Peer :
       /\ conn[p].state \in {"closed", "befor_handshake", "synchronizing", "idle", "normal"}
       /\ conn[p].needed \in Seq(Block) /\ conn[p].requested \subseteq Block
       /\ conn[p].remote \in Nat /\ conn[p].last \in Nat /\ conn[p].callbacks \in 0..1
       /\ batch[p] \in Seq(Block)
       /\ peerTop[p] \in Block /\ seen[p] \in Block
       /\ fails[p] \in 0..IpFails
  /\ busy \subseteq Peer /\ blocked \subseteq Peer /\ stuck \subseteq Peer
  /\ events \in 0..MaxEvents

\* How many messages of these types a channel holds.
Count(s, types) ==
  LET n[i \in 0..Len(s)] ==
        IF i = 0 THEN 0 ELSE n[i - 1] + (IF s[i].type \in types THEN 1 ELSE 0)
  IN  n[Len(s)]

\* What a connection waits for: a callback, an answer, or the end of a handler.
Pending(p) ==
  conn[p].callbacks + Len(out[p]) + Count(in[p], {"chain_entry", "objects"})
    + (IF p \in busy THEN 1 ELSE 0)

\* A synchronizing connection waits for exactly one thing, any other for none: sync
\* data and new blocks are ignored while synchronizing, so with nothing under way
\* the download would never go on, and with two requests under way the second
\* answer would be taken for blocks that were not asked for.  The blocks a connection
\* has asked for are those of the request or the answer under way, and a connection
\* that is not synchronizing is owed nothing.
OneRequest ==
  /\ TypeOK
  /\ \A p \in Peer :
       /\ Pending(p) = IF conn[p].state = "synchronizing" /\ p \notin stuck THEN 1 ELSE 0
       /\ conn[p].requested # {} =>
            \/ \E i \in 1..Len(out[p]) : /\ out[p][i].type = "request_objects"
                                        /\ Range(out[p][i].ids) = conn[p].requested
            \/ \E i \in 1..Len(in[p]) : /\ in[p][i].type = "objects"
                                       /\ Range(in[p][i].ids) \subseteq conn[p].requested
       /\ conn[p].state # "synchronizing" => conn[p].needed = <<>> /\ conn[p].requested = {}

\* A connection in state_normal has been downloaded to its end: the node has the
\* last block the peer told of before the state was set, and its chain has at least
\* that work unless a block of the peer's chain does not verify.
NormalIsCaughtUp ==
  \A p \in Peer : conn[p].state = "normal" =>
    /\ HaveBlock(seen[p])
    /\ Work[top] >= Work[seen[p]] \/ MainOf[seen[p]] \cap Bad # {}

\* A peer gets an ip fail only for a block that does not verify: not when it moves
\* to another chain between two answers, not when another connection is faster.
HonestNotBlamed ==
  [][\A p \in Peer :
       fails'[p] # fails[p] \/ (p \in blocked' /\ p \notin blocked) =>
         p \in busy /\ batch[p] # <<>> /\ MainOf[Head(batch[p])] \cap Bad # {}]_vars

\* When the peers stay where they are, the node ends up with at least the work of
\* each of them, whatever connections broke on the way; except for a peer whose
\* chain does not verify, or whose connection failed the final condition.
CaughtUp(p) ==
  \/ Work[top] >= Work[peerTop[p]]
  \/ MainOf[peerTop[p]] \cap Bad # {}
  \/ p \in stuck

EventuallyCaughtUp == \A p \in Peer : <>[]CaughtUp(p)
=============================================================================
