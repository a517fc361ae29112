---------------------------- MODULE BPMetricFlood ----------------------------
(***************************************************************************)
(* The route-query flood of src/bp/bpmetricflood.cc on a fixed mesh.  A    *)
(* node starts a flood (start_flood) by broadcasting a query that carries  *)
(* the path followed so far.  A node that receives one (process_flood)     *)
(* first learns the link metrics the query carries into its LinkTable,     *)
(* then discards it when it is already on the path; otherwise it appends  *)
(* itself, records the query in _seen, passes it out of port 1 and, unless *)
(* it is the queried destination, schedules a timer.  When the timer       *)
(* fires (forward_query_hook) the query is rebroadcast with the metrics of *)
(* this node's LinkTable for every link of the path (forward_query).       *)
(* Unlike SRCR, queries with a common source and sequence number are not   *)
(* suppressed, so the destination learns every loop-free path.            *)
(* Broadcasts may be lost; the `clear` write handler empties _seen.        *)
(***************************************************************************)
EXTENDS Naturals, Sequences, SequencesExt

CONSTANTS
  Nodes,          \* the mesh nodes (their IP addresses)
  Edges,          \* the radio links, as sets {a, b}
  Metric,         \* Metric[<<a, b>>]: the metric LinkStat measures for a -> b
  QueryPairs,     \* the <<source, destination>> pairs BPQuerier may query
  SeenCapacity,   \* the size at which process_flood pops the front of _seen
  MaxQueries,     \* bound on start_flood calls of each node
  MaxFaults       \* bound on lost broadcasts and `clear` writes

DirLinks == {l \in Nodes \X Nodes : {l[1], l[2]} \in Edges}

Nbrs(n) == {m \in Nodes : {m, n} \in Edges}

ASSUME /\ \A e \in Edges : e \subseteq Nodes /\ Cardinality(e) = 2
       /\ Metric \in [DirLinks -> Nat \ {0}]
       /\ QueryPairs \subseteq Nodes \X Nodes

VARIABLES
  msgs,        \* broadcast copies in the air: one record per receiver
  seen,        \* _seen of each node, oldest first
  table,       \* each node's LinkTable: directed link -> metric (0 unknown)
  seqNo,       \* _seq of each node
  delivered,   \* history: the queries pushed out of port 1 at their destination
  started,     \* history: the <<source, destination, seq>> of each flood
  faults       \* history: broadcasts lost and `clear` writes so far

fvars == <<msgs, seen, table, seqNo, delivered, started, faults>>

Paths == {p \in UNION {SetToSeqs(S) : S \in SUBSET Nodes} : p # <<>>}

Queries == [to : Nodes, dst : Nodes, seq : 1..MaxQueries, path : Seq(Nodes),
            fwd : Seq(Nat)]

SeenEntries == [src : Nodes, dst : Nodes, seq : 1..MaxQueries, path : Seq(Nodes),
                pending : BOOLEAN]

(* A node knows, from its own LinkStat probes, the metrics of the links to *)
(* and from its neighbors.                                                  *)
FInit ==
  /\ msgs = {}
  /\ seen = [n \in Nodes |-> <<>>]
  /\ table = [n \in Nodes |-> [l \in DirLinks |-> IF n \in {l[1], l[2]}
                                                  THEN Metric[l] ELSE 0]]
  /\ seqNo = [n \in Nodes |-> 0]
  /\ delivered = {}
  /\ started = {}
  /\ faults = 0

(* One copy of a broadcast for every radio neighbor of the sender.         *)
Broadcast(from, q) == {[q EXCEPT !.to = m] : m \in Nbrs(from)}

(* LinkTable::valid_route: every link of the path has a known metric.     *)
ValidRoute(t, path) == \A i \in 1..Len(path) - 1 : t[<<path[i], path[i + 1]>>] # 0

(* The metrics forward_query writes for the links of a path: the forward  *)
(* metric of each link, from this node's LinkTable.                        *)
LinkMetrics(t, path) == [i \in 1..Len(path) - 1 |-> t[<<path[i], path[i + 1]>>]]

(* The link updates of process_flood: for every link a -> b of the query  *)
(* with a non-zero forward metric, update_link(a, b, fwd) and then         *)
(* update_link(b, a, rev), where rev is read with get_link_fwd as well.    *)
LearnLinks(t, path, fwd) ==
  [l \in DirLinks |->
     LET fw == {i \in DOMAIN fwd : fwd[i] # 0 /\ l = <<path[i], path[i + 1]>>}
         rv == {i \in DOMAIN fwd : fwd[i] # 0 /\ l = <<path[i + 1], path[i]>>}
     IN  IF fw # {} THEN fwd[CHOOSE i \in fw : TRUE]
         ELSE IF rv # {} THEN fwd[CHOOSE i \in rv : TRUE]
         ELSE t[l]]

(* The sequence number start_flood gives a query: ++_seq.                 *)
NextSeq(n) == seqNo[n] + 1

(* start_flood: a query for dst with the next sequence number and a path  *)
(* holding only the source.                                                *)
StartFlood(n, d) ==
  /\ <<n, d>> \in QueryPairs
  /\ seqNo[n] < MaxQueries
  /\ seqNo' = [seqNo EXCEPT ![n] = @ + 1]
  /\ msgs' = msgs \cup Broadcast(n, [to |-> n, dst |-> d, seq |-> NextSeq(n),
                                     path |-> <<n>>, fwd |-> <<>>])
  /\ started' = started \cup {<<n, d, NextSeq(n)>>}
  /\ UNCHANGED <<seen, table, delivered, faults>>

(* Mutant of Rejected: the SRCR rule, commented out in the code, that also *)
(* rejects a query whose source and sequence number were seen before.      *)
RejectedSRCR(n, m) ==
  \/ Contains(m.path, n)
  \/ \E k \in DOMAIN seen[n] : seen[n][k].src = m.path[1] /\ seen[n][k].seq = m.seq

(* Mutant of Rejected: the loop check dropped.                             *)
RejectedNever(n, m) == FALSE

(* process_flood discards a query whose path already holds this node.     *)
Rejected(n, m) == Contains(m.path, n)

(* _seen after recording an entry: the oldest entry goes first when the   *)
(* list has reached its capacity.                                          *)
Record(s, e) ==
  Append(IF Len(s) >= SeenCapacity THEN Tail(s) ELSE s, e)

(* process_flood of the copy m: learn its links and its sender, then drop *)
(* it if this node is on its path; else record it, push it out of port 1  *)
(* and, when this node is not the destination, keep it for forwarding.     *)
ProcessFlood(m) ==
  LET n == m.to
      path == Append(m.path, n)
  IN  /\ m \in msgs
      /\ msgs' = msgs \ {m}
      /\ table' = [table EXCEPT ![n] = LearnLinks(@, m.path, m.fwd)]
      /\ IF Rejected(n, m)
         THEN UNCHANGED <<seen, delivered>>
         ELSE /\ seen' = [seen EXCEPT ![n] =
                            Record(@, [src |-> m.path[1], dst |-> m.dst,
                                       seq |-> m.seq, path |-> path,
                                       pending |-> m.dst # n])]
              /\ delivered' = IF m.dst = n
                               THEN delivered \cup {<<m.path[1], m.seq, path>>}
                               ELSE delivered
      /\ UNCHANGED <<seqNo, started, faults>>

(* The timer of entry k fires (forward_query_hook) while it is still in   *)
(* _seen and not forwarded: forward_query marks it forwarded and          *)
(* rebroadcasts it when its path is a valid route of this node's          *)
(* LinkTable, and kills it otherwise.                                      *)
ForwardQuery(n, k) ==
  LET e == seen[n][k]
  IN  /\ k \in DOMAIN seen[n]
      /\ e.pending
      /\ seen' = [seen EXCEPT ![n][k].pending = FALSE]
      /\ msgs' = IF ValidRoute(table[n], e.path)
                 THEN msgs \cup Broadcast(n, [to |-> n, dst |-> e.dst, seq |-> e.seq,
                                              path |-> e.path,
                                              fwd |-> LinkMetrics(table[n], e.path)])
                 ELSE msgs
      /\ UNCHANGED <<table, seqNo, delivered, started, faults>>

(* A broadcast copy is lost in the air.                                    *)
Lose(m) ==
  /\ m \in msgs
  /\ faults < MaxFaults
  /\ msgs' = msgs \ {m}
  /\ faults' = faults + 1
  /\ UNCHANGED <<seen, table, seqNo, delivered, started>>

(* The `clear` write handler empties _seen; pending queries are dropped.  *)
Clear(n) ==
  /\ seen[n] # <<>>
  /\ faults < MaxFaults
  /\ seen' = [seen EXCEPT ![n] = <<>>]
  /\ faults' = faults + 1
  /\ UNCHANGED <<msgs, table, seqNo, delivered, started>>

FNext ==
  \/ \E n, d \in Nodes : StartFlood(n, d)
  \/ \E m \in msgs : ProcessFlood(m)
  \/ \E n \in Nodes, k \in 1..SeenCapacity : ForwardQuery(n, k)
  \/ \E m \in msgs : Lose(m)
  \/ \E n \in Nodes : Clear(n)

(* Receptions happen while copies are in the air, and every scheduled     *)
(* timer fires within 1750 ms.                                             *)
FSpec ==
  /\ FInit /\ [][FNext]_fvars
  /\ WF_fvars(\E m \in msgs : ProcessFlood(m))
  /\ \A n \in Nodes : WF_fvars(\E k \in 1..SeenCapacity : ForwardQuery(n, k))
-----------------------------------------------------------------------------
(* A sequence of nodes that follows radio links.                          *)
IsWalk(p) == \A i \in 1..Len(p) - 1 : {p[i], p[i + 1]} \in Edges

(* Every path a node records in _seen is loop-free and follows radio      *)
(* links from the query's source to this node, whatever the order in      *)
(* which copies of the same flood arrive over different paths             *)
(* (the path check and push_back of process_flood).                        *)
SeenPathsSimple ==
  \A n \in Nodes : \A k \in DOMAIN seen[n] :
    LET p == seen[n][k].path
    IN  /\ p[1] = seen[n][k].src /\ Last(p) = n
        /\ IsInjective(p) /\ IsWalk(p)

(* The loop-free paths from s to d in the mesh.                            *)
Routes(s, d) == {p \in Paths : p[1] = s /\ Last(p) = d /\ IsWalk(p)}

(* "Backpressure needs to know all paths": unless a broadcast is lost or  *)
(* _seen is cleared, every flood started by s for d eventually reaches d  *)
(* along every loop-free path of the mesh, so that d pushes each of them   *)
(* out of port 1 (process_flood, forward_query_hook, forward_query).        *)
AllPathsDiscovered ==
  \A q \in QueryPairs, k \in 1..MaxQueries :
    <<q[1], q[2], k>> \in started ~>
      (faults > 0 \/ \A p \in Routes(q[1], q[2]) : <<q[1], k, p>> \in delivered)
=============================================================================
