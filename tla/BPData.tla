------------------------------- MODULE BPData -------------------------------
(***************************************************************************)
(* The neighbor backlog table BPData (src/bp/bpdata.{hh,cc}) and the two   *)
(* operations that change it: the receipt of a neighbor's probe            *)
(* (BPStat::simple_action, src/bp/bpstat.cc) and the `info` write handler  *)
(* that pins a distance (BPData::write_handler).                           *)
(*                                                                         *)
(* _NFB maps a neighbor to its Flow -> HostBPInfo table; `known` is the    *)
(* set of its keys and nfb[n][f] the HostBPInfo, or NoInfo when the        *)
(* neighbor has no entry for f.  The neighbor metric _NM is written by the *)
(* same probe but read only by the info read handler and by the disabled   *)
(* distributed-scheduling block of next_pull_queue, so its value is left   *)
(* out.                                                                    *)
(***************************************************************************)
EXTENDS Naturals

CONSTANTS
  Neighbors,   \* keys a probe can carry (its sender)
  Flows,       \* flow destinations a probe can report
  Backlogs,    \* backlog values a probe can carry
  Distances,   \* distance values a probe can carry
  Enhanced,    \* _enhanced of BPStat: the probe carries distances
  NoInfo       \* the absent HostBPInfo

VARIABLES known, nfb

bpvars == <<known, nfb>>

(* The distance is a uint32_t: a probe may carry any, ~0 included.       *)
Info == [backlog : Backlogs, distance : Nat, static : BOOLEAN]

BPTypeOK ==
  /\ known \subseteq Neighbors
  /\ nfb \in [Neighbors -> [Flows -> Info \cup {NoInfo}]]

BPInit ==
  /\ known = {}
  /\ nfb = [n \in Neighbors |-> [f \in Flows |-> NoInfo]]

(* Mutant of ProbeEntry: a static entry is skipped by the probe.          *)
ProbeEntrySkippingStatic(old, backlog, distance) ==
  IF old # NoInfo /\ old.static
  THEN old
  ELSE [backlog |-> backlog, distance |-> distance, static |-> FALSE]

(* The entry a probe batch <<backlog, distance>> for f leaves (lines       *)
(* 277-284): a static entry keeps its distance, but the new HostBPInfo is  *)
(* built by the two-argument constructor, whose _static_distance is false. *)
ProbeEntry(old, backlog, distance) ==
  IF old # NoInfo /\ old.static
  THEN [backlog |-> backlog, distance |-> old.distance, static |-> FALSE]
  ELSE [backlog |-> backlog, distance |-> distance, static |-> FALSE]

(* BPStat::simple_action: the table of the sender is created if absent,   *)
(* then every flow batch the probe carries (a truncated probe carries a    *)
(* part of them) replaces the entry of its flow.  Without ENHANCED the     *)
(* distance read is 0.                                                     *)
ReceiveProbe(n, batch) ==
  /\ known' = known \cup {n}
  /\ nfb' = [nfb EXCEPT ![n] =
               [f \in Flows |->
                  IF f \in DOMAIN batch
                  THEN ProbeEntry(@[f], batch[f][1],
                                  IF Enhanced THEN batch[f][2] ELSE 0)
                  ELSE @[f]]]

Batches == UNION {[S -> Backlogs \X Distances] : S \in SUBSET Flows}

(* BPData::write_handler "<neig> <dst> <backlog> <distance>": overwrites   *)
(* both fields of the existing entry and pins its distance.  get_info      *)
(* returns NULL when the entry is absent and the handler dereferences it;  *)
(* only writes to existing entries are modelled.                           *)
WriteInfo(n, f, backlog, distance) ==
  /\ n \in known
  /\ nfb[n][f] # NoInfo
  /\ nfb' = [nfb EXCEPT ![n][f] =
               [backlog |-> backlog, distance |-> distance, static |-> TRUE]]
  /\ UNCHANGED known

BPNext ==
  \/ \E n \in Neighbors, batch \in Batches : ReceiveProbe(n, batch)
  \/ \E n \in Neighbors, f \in Flows, b \in Backlogs, d \in Distances :
        WriteInfo(n, f, b, d)
=============================================================================
