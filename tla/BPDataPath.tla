------------------------------- MODULE BPDataPath -------------------------------
(***************************************************************************)
(* The backpressure data path on a fixed mesh: BPQuerier (bpquerier.cc),   *)
(* BPForwarder (bpforwarder.cc) and the header stamping of DataQueues::pull *)
(* (dataqueues.cc).  The route is not chosen at the source: the source's   *)
(* BPQuerier encapsulates a packet with the route <<me, 0>>; the pull of    *)
(* DataQueues writes the chosen neighbor in the last slot; the neighbor's  *)
(* BPForwarder checks that it is that node, learns the link metrics the    *)
(* header carries, and, unless it is the destination, writes the metrics  *)
(* of the link it came over from its own LinkTable (set_link) and hands    *)
(* the packet to its BPQuerier, which appends a new empty slot (add_link). *)
(* BPQuerier also decides, per destination, whether to send a route query. *)
(*                                                                         *)
(* A header is [nodes, next, fwd, rev]: nodes[i] is link_node(i - 1), so   *)
(* there are Len(nodes) - 1 links, fwd[i] and rev[i] are the metrics of     *)
(* link i - 1 and next is the index of the next hop in the code's terms.   *)
(* The scheduler's choice of packet and neighbor is left free.             *)
(***************************************************************************)
EXTENDS Naturals, Sequences, SequencesExt

CONSTANTS
  Nodes,        \* the mesh nodes
  Edges,        \* the radio links, as sets {a, b}
  Metric,       \* Metric[<<a, b>>]: the metric of the link a -> b
  Src,          \* the node whose BPQuerier receives the flow on port 0
  Dst,          \* the flow's destination
  Zero,         \* IPAddress(0), the empty slot of a route
  NoDstInfo,    \* no entry for Dst in _queries
  MaxPackets,   \* bound on the packets the source sends
  MaxHops,      \* bound on the slots of a route (the code has none)
  MaxWrites     \* bound on `query' and `reset' handler writes

Gr == INSTANCE Graphs

DirLinks == {l \in Nodes \X Nodes : {l[1], l[2]} \in Edges}

Nbrs(n) == {m \in Nodes : {m, n} \in Edges}

ASSUME /\ Metric \in [DirLinks -> Nat \ {0}]
       /\ Src \in Nodes /\ Dst \in Nodes /\ Src # Dst /\ Zero \notin Nodes

VARIABLES
  table,      \* each node's LinkTable: directed link -> metric (0 unknown)
  arp,        \* each node's ARPTable: the neighbors it has an address for
  queries,    \* each node's _queries entry for Dst
  queue,      \* the packets in each node's DataQueues
  air,        \* frames on the air: [pkt, to]
  sent,       \* history: packets the source has sent
  delivered,  \* history: packets pushed out of BPForwarder's port 1 at Dst
  queried,    \* history: the nodes that have sent a route query
  writes      \* history: handler writes so far

dvars == <<table, arp, queries, queue, air, sent, delivered, queried, writes>>

(* BPQuerier::DstInfo, reduced to what push tests: routed is             *)
(* "_best_metric and _p.size() are non-zero", expired is "_last_switch +  *)
(* TIME_BEFORE_SWITCH < now" and waitOver is "_last_query + 5 s < now".    *)
DstInfo == [routed : BOOLEAN, expired : BOOLEAN, waitOver : BOOLEAN]

Packets == [id : 1..MaxPackets, nodes : Seq(Nodes \cup {Zero}), next : Nat,
            fwd : Seq(Nat), rev : Seq(Nat)]

(* A node's LinkTable knows the links to and from its neighbors.          *)
DInit ==
  /\ table = [n \in Nodes |-> [l \in DirLinks |-> IF n \in {l[1], l[2]}
                                                  THEN Metric[l] ELSE 0]]
  /\ arp = [n \in Nodes |-> {}]
  /\ queries = [n \in Nodes |-> NoDstInfo]
  /\ queue = [n \in Nodes |-> {}]
  /\ air = {}
  /\ sent = 0
  /\ delivered = {}
  /\ queried = {}
  /\ writes = 0

(* valid_route(best_route(Dst)): Dst is reachable from n over the links   *)
(* of the LinkTable t with a known metric.                                 *)
Routable(t, n) ==
  Dst \in Gr!Descendants([node |-> Nodes, edge |-> {l \in DirLinks : t[l] # 0}], n)

(* The _queries entry after BPQuerier::push on `port`, and whether push   *)
(* calls send_query.  A new entry has _best_metric 0 and timestamps 0,    *)
(* long past; only the source's port sets do_query for a new entry.       *)
QuerierEntry(n, port, t) ==
  LET new  == queries[n] = NoDstInfo
      q0   == IF new THEN [routed |-> FALSE, expired |-> TRUE, waitOver |-> TRUE]
              ELSE queries[n]
      eval == ~q0.routed \/ q0.expired
      q1   == IF eval THEN [q0 EXCEPT !.routed = Routable(t, n), !.expired = FALSE]
              ELSE q0
      ask  == (new /\ port = 0) \/ (eval /\ ~Routable(t, n))
  IN  [entry |-> IF ask /\ q1.waitOver THEN [q1 EXCEPT !.waitOver = FALSE] ELSE q1,
       query |-> ask /\ q1.waitOver]

(* BPQuerier::push and send_query: the entry, and the query history.      *)
Query(n, port, t) ==
  LET r == QuerierEntry(n, port, t)
  IN  /\ queries' = [queries EXCEPT ![n] = r.entry]
      /\ queried' = IF r.query THEN queried \cup {n} ELSE queried

(* BPForwarder::encap of the route <<me, 0>> at the source.               *)
Encap(id) == [id |-> id, nodes |-> <<Src, Zero>>, next |-> 1,
              fwd |-> <<0>>, rev |-> <<0>>]

(* A packet of the flow reaches the source's BPQuerier on port 0 and is   *)
(* queued in its DataQueues.                                               *)
SourcePush ==
  /\ sent < MaxPackets
  /\ sent' = sent + 1
  /\ Query(Src, 0, table[Src])
  /\ queue' = [queue EXCEPT ![Src] = @ \cup {Encap(sent + 1)}]
  /\ UNCHANGED <<table, arp, air, delivered, writes>>

(* DataQueues::pull serves p towards neighbor m: the neighbor goes into   *)
(* the last slot of the route, and the frame goes to m's address, or to   *)
(* every neighbor when the ARPTable has none.                              *)
Pull(n, p, m) ==
  LET q == [p EXCEPT !.nodes[Len(p.nodes)] = m]
  IN  /\ p \in queue[n]
      /\ m \in Nbrs(n)
      /\ Len(p.nodes) <= MaxHops
      /\ queue' = [queue EXCEPT ![n] = @ \ {p}]
      /\ air' = air \cup {[pkt |-> q, to |-> r] :
                            r \in IF m \in arp[n] THEN {m} ELSE Nbrs(n)}
      /\ UNCHANGED <<table, arp, queries, sent, delivered, queried, writes>>

(* The write of link i of p into the LinkTable entry l, if any: the       *)
(* forward metric for a -> b, then the reverse one for b -> a, when       *)
(* non-zero.                                                               *)
Writes(p, i, l) ==
  \/ p.fwd[i] # 0 /\ l = <<p.nodes[i], p.nodes[i + 1]>>
  \/ p.rev[i] # 0 /\ l = <<p.nodes[i + 1], p.nodes[i]>>

(* The learning of BPForwarder::push: update_link for every link of the   *)
(* header in order, so the last write of an entry wins.  The random-link   *)
(* fields, zeroed by encap and set by no element here, update nothing.     *)
Learn(t, p) ==
  [l \in DirLinks |->
     LET W == {i \in DOMAIN p.fwd : Writes(p, i, l)}
         i == Max(W)
     IN  IF W = {} THEN t[l]
         ELSE IF l = <<p.nodes[i], p.nodes[i + 1]>> THEN p.fwd[i] ELSE p.rev[i]]

(* Mutant of SetLink: the reverse metric read as the forward one.         *)
SetLinkFwdOnly(p, t, m) ==
  LET prev == p.nodes[p.next]
  IN  [p EXCEPT !.fwd[p.next] = t[<<prev, m>>], !.rev[p.next] = t[<<prev, m>>]]

(* Mutant of SetLink: no reverse metric.                                   *)
SetLinkNoRev(p, t, m) ==
  LET prev == p.nodes[p.next]
  IN  [p EXCEPT !.fwd[p.next] = t[<<prev, m>>], !.rev[p.next] = 0]

(* set_link(next - 1, prev, me, ...): the metrics of the link the packet  *)
(* came over, prev -> me forward and me -> prev reverse, from m's          *)
(* LinkTable.                                                              *)
SetLink(p, t, m) ==
  LET prev == p.nodes[p.next]
  IN  [p EXCEPT !.fwd[p.next] = t[<<prev, m>>], !.rev[p.next] = t[<<m, prev>>]]

(* Mutant of ArpInsert: the address recorded for this node's own slot.   *)
ArpInsertNext(a, p) == a \cup {p.nodes[p.next + 1]}

(* _arp_table->insert of the previous hop, whose address the frame        *)
(* carries as its source.                                                  *)
ArpInsert(a, p) == a \cup {p.nodes[p.next]}

(* Mutant of AddLink: the next index not advanced.                         *)
AddLinkStuck(p) ==
  [p EXCEPT !.nodes = Append(@, Zero), !.fwd = Append(@, 0), !.rev = Append(@, 0)]

(* BPForwarder::add_link(p, 0): a new empty slot, and next moves to it.    *)
AddLink(p) ==
  [p EXCEPT !.nodes = Append(@, Zero), !.fwd = Append(@, 0), !.rev = Append(@, 0),
            !.next = @ + 1]

(* BPForwarder::push kills a frame on port 0 whose next hop is not m.     *)
NotForMe(p, m) == p.nodes[p.next + 1] # m

(* BPForwarder::push on port 0 of node m for the frame c: a frame whose   *)
(* next hop is another node is killed; otherwise the header's links are   *)
(* learned and the packet leaves on port 1 at the destination, or goes    *)
(* through set_link, the ARP insert of the previous hop, BPQuerier::push  *)
(* on port 1 and add_link into m's DataQueues.                             *)
Forward(c) ==
  LET m == c.to
      p == c.pkt
      t == Learn(table[m], p)
  IN  /\ c \in air
      /\ air' = air \ {c}
      /\ IF NotForMe(p, m)
         THEN UNCHANGED <<table, arp, queries, queue, delivered, queried>>
         ELSE /\ table' = [table EXCEPT ![m] = t]
              /\ IF m = Dst
                 THEN /\ delivered' = delivered \cup {p}
                      /\ UNCHANGED <<arp, queries, queue, queried>>
                 ELSE /\ arp' = [arp EXCEPT ![m] = ArpInsert(@, p)]
                      /\ Query(m, 1, t)
                      /\ queue' = [queue EXCEPT ![m] =
                                     @ \cup {AddLink(SetLink(p, t, m))}]
                      /\ UNCHANGED delivered
      /\ UNCHANGED <<sent, writes>>

(* Time passes: 5 s since the last query of n.                             *)
QueryWait(n) ==
  /\ queries[n] # NoDstInfo /\ ~queries[n].waitOver
  /\ queries' = [queries EXCEPT ![n].waitOver = TRUE]
  /\ UNCHANGED <<table, arp, queue, air, sent, delivered, queried, writes>>

(* Time passes: TIME_BEFORE_SWITCH (10 s) since n last chose a route,     *)
(* and so also 5 s since its last query.                                  *)
SwitchExpire(n) ==
  /\ queries[n] # NoDstInfo /\ ~queries[n].expired
  /\ queries' = [queries EXCEPT ![n].expired = TRUE, ![n].waitOver = TRUE]
  /\ UNCHANGED <<table, arp, queue, air, sent, delivered, queried, writes>>

(* The `query` write handler: send_query(Dst), which creates the entry if *)
(* absent, whatever the time since the last query.                         *)
QueryHandler(n) ==
  /\ writes < MaxWrites
  /\ writes' = writes + 1
  /\ queries' = [queries EXCEPT ![n] =
                   [IF @ = NoDstInfo
                    THEN [routed |-> FALSE, expired |-> TRUE, waitOver |-> TRUE]
                    ELSE @ EXCEPT !.waitOver = FALSE]]
  /\ queried' = queried \cup {n}
  /\ UNCHANGED <<table, arp, queue, air, sent, delivered>>

(* The `reset` write handler: _queries.clear().                            *)
Reset(n) ==
  /\ queries[n] # NoDstInfo
  /\ writes < MaxWrites
  /\ writes' = writes + 1
  /\ queries' = [queries EXCEPT ![n] = NoDstInfo]
  /\ UNCHANGED <<table, arp, queue, air, sent, delivered, queried>>

DNext ==
  \/ SourcePush
  \/ \E n \in Nodes : \E p \in queue[n], m \in Nbrs(n) : Pull(n, p, m)
  \/ \E c \in air : Forward(c)
  \/ \E n \in Nodes : QueryWait(n) \/ SwitchExpire(n)
  \/ \E n \in Nodes : QueryHandler(n) \/ Reset(n)

DSpec == DInit /\ [][DNext]_dvars
-----------------------------------------------------------------------------
DPTypeOK ==
  /\ table \in [Nodes -> [DirLinks -> Nat]]
  /\ \A n \in Nodes : arp[n] \subseteq Nbrs(n) /\ queue[n] \subseteq Packets
  /\ queries \in [Nodes -> DstInfo \cup {NoDstInfo}]
  /\ air \subseteq [pkt : Packets, to : Nodes]
  /\ queried \subseteq Nodes

(* A sequence of nodes that follows radio links.                          *)
IsWalk(s) == \A i \in 1..Len(s) - 1 : {s[i], s[i + 1]} \in Edges

(* The hops a packet has made: link nodes 0 .. next - 1.                   *)
Hops(p) == SubSeq(p.nodes, 1, p.next)

(* Every route header is the walk the packet really made from the source: *)
(* queued at n, its hops end at n and its next slot is empty; on the air, *)
(* its next slot names a radio neighbor of the sender.  (encap, pull's     *)
(* stamping, the next-hop check of BPForwarder::push and add_link.)        *)
HeadersConsistent ==
  /\ \A n \in Nodes : \A p \in queue[n] :
        /\ p.nodes[1] = Src /\ IsWalk(Hops(p)) /\ Last(Hops(p)) = n
        /\ Len(p.nodes) = p.next + 1 /\ Last(p.nodes) = Zero
  /\ \A c \in air :
        /\ c.pkt.nodes[1] = Src /\ IsWalk(c.pkt.nodes)
        /\ Len(c.pkt.nodes) = c.pkt.next + 1

(* No LinkTable ever holds a wrong metric: every link metric a header     *)
(* carries, written by set_link at one node and learned by update_link at *)
(* later ones, is the metric of that link in that direction.               *)
LinkTablesTrue ==
  \A n \in Nodes, l \in DirLinks : table[n][l] \in {0, Metric[l]}

(* A valid route in the LinkTable t: every link has a known metric.       *)
ValidRoute(t, s) == \A i \in 1..Len(s) - 1 : t[<<s[i], s[i + 1]>>] # 0

(* The destination can route back along every path a packet came by: on  *)
(* delivery its LinkTable knows every link of the packet's route in both  *)
(* directions, though only the last link is its own (set_link at every    *)
(* forwarder writes both metrics, and BPForwarder::push learns them).      *)
ReversePathKnown ==
  \A p \in delivered :
    /\ ValidRoute(table[Dst], p.nodes)
    /\ ValidRoute(table[Dst], Reverse(p.nodes))
=============================================================================
