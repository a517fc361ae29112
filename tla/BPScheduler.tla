----------------------------- MODULE BPScheduler -----------------------------
(***************************************************************************)
(* What a backpressure scheduler promises, independent of how it scores:   *)
(* per flow a FIFO of packets; once per period a decision selects a flow   *)
(* (or none) and grants it a budget, the packets queued in it at that      *)
(* moment; the decision may also discard packets from the front of any     *)
(* queue (drop aging).  Between decisions only the selected flow is        *)
(* served, from its front, and at most its budget.  Arrivals are appended  *)
(* while a queue is below its capacity.                                     *)
(***************************************************************************)
EXTENDS Naturals, Sequences

CONSTANTS
  Flows,      \* the flows
  Capacity,   \* the capacity of every queue
  Items,      \* what a queue holds
  NoSel       \* no flow selected

VARIABLES
  queue,      \* queue[f]: the packets of flow f, oldest first
  sel,        \* the selected flow, or NoSel
  budget      \* packets sel may still send before the next decision

svars == <<queue, sel, budget>>

STypeOK ==
  /\ queue \in [Flows -> Seq(Items)]
  /\ sel \in Flows \cup {NoSel}
  /\ budget \in 0..Capacity

SInit ==
  /\ queue = [f \in Flows |-> <<>>]
  /\ sel = NoSel
  /\ budget = 0

(* An arrival of some item on flow f is appended, or dropped when the     *)
(* queue is full.                                                          *)
Arrive(f) ==
  /\ \E x \in Items :
       queue' = [queue EXCEPT ![f] = IF Len(@) < Capacity THEN Append(@, x) ELSE @]
  /\ UNCHANGED <<sel, budget>>

(* A decision: every queue may lose a prefix; the selected flow's budget  *)
(* is what then remains in it.                                             *)
Decide(s) ==
  /\ DOMAIN queue' = Flows
  /\ \A f \in Flows : \E k \in 0..Len(queue[f]) :
       queue'[f] = SubSeq(queue[f], 1 + k, Len(queue[f]))
  /\ sel' = s
  /\ budget' = IF s = NoSel THEN 0 ELSE Len(queue'[s])

(* The selected flow sends its oldest packet.                              *)
Serve ==
  /\ sel # NoSel
  /\ budget > 0
  /\ queue[sel] # <<>>
  /\ queue' = [queue EXCEPT ![sel] = Tail(@)]
  /\ budget' = budget - 1
  /\ UNCHANGED sel

SNext ==
  \/ Serve
  \/ \E s \in Flows \cup {NoSel} : Decide(s)
  \/ \E f \in Flows : Arrive(f)

SSpec == SInit /\ [][SNext]_svars
=============================================================================
