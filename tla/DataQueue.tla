------------------------------ MODULE DataQueue ------------------------------
(***************************************************************************)
(* The per-flow packet queue DataQueue of src/bp/dataqueue.hh, as          *)
(* operators on a record value.  A queue holds three deques: q (_Q, the    *)
(* default class), qi (_QI, I/SEI/SPS/PPS frames) and qp (_QP, P/B         *)
(* frames); qi and qp are used only when VIDEO is set.  drops is _drops    *)
(* and hw is _highwater_length.  qused records whether _Q has held a       *)
(* packet in video mode, i.e. whether it has grown a buffer.              *)
(*                                                                         *)
(* A packet is a record [id, cls]: id is its identity (the Packet* the     *)
(* guard is compared with) and cls the class that push_back derives from   *)
(* the H.264 NAL type of its payload: "I" for NAL types 5-8, "P" for 1,    *)
(* "D" for anything else.                                                  *)
(***************************************************************************)
EXTENDS Naturals, Sequences

CONSTANT Video   \* _video (VIDEO)

Classes == {"I", "P", "D"}

(* The DataQueue constructor: empty deques, the given initial drops.       *)
NewQueue(drops) ==
  [q |-> <<>>, qi |-> <<>>, qp |-> <<>>, drops |-> drops, hw |-> 0,
   qused |-> FALSE]

Size(dq) == IF Video THEN Len(dq.qi) + Len(dq.qp) + Len(dq.q) ELSE Len(dq.q)

(* The deque pop_front and front take a packet from: _QI, then _QP, then   *)
(* _Q in video mode, _Q otherwise.                                         *)
FrontDeque(dq) ==
  CASE Video /\ dq.qi # <<>> -> "qi"
    [] Video /\ dq.qp # <<>> -> "qp"
    [] OTHER -> "q"

Front(dq) == Head(dq[FrontDeque(dq)])

PopFront(dq) == [dq EXCEPT ![FrontDeque(dq)] = Tail(@)]

(* The deque push_back appends to.                                         *)
BackDeque(p) ==
  CASE Video /\ p.cls = "I" -> "qi"
    [] Video /\ p.cls = "P" -> "qp"
    [] OTHER -> "q"

PushBack(dq, p) ==
  [dq EXCEPT ![BackDeque(p)] = Append(@, p),
             !.qused = @ \/ (Video /\ BackDeque(p) = "q")]

(* back() returns _Q.back() in both modes; it is defined only when _Q is   *)
(* not empty.                                                              *)
HasBack(dq) == dq.q # <<>>

Back(dq) == dq.q[Len(dq.q)]

(* In video mode the constructor reserves cap/3 slots for _Q, none when    *)
(* cap < 3; until a packet is pushed to _Q it then has no buffer, and      *)
(* _Q.back() on it dereferences a null array.                              *)
NoBuffer(dq, cap) == Video /\ cap \div 3 = 0 /\ ~dq.qused

AddDrops(dq, n) == [dq EXCEPT !.drops = @ + n]

(* remove_drops saturates at 0.                                            *)
RemoveDrops(dq, n) == [dq EXCEPT !.drops = IF @ > n THEN @ - n ELSE 0]

SetHighwater(dq, n) == [dq EXCEPT !.hw = n]

(* The packets a queue holds, in all its deques.                           *)
Content(dq) == {dq.q[i] : i \in DOMAIN dq.q} \cup {dq.qi[i] : i \in DOMAIN dq.qi}
                 \cup {dq.qp[i] : i \in DOMAIN dq.qp}

(* pop_front applied n times, as the aging loop of do_periodically does.   *)
RECURSIVE PopFrontN(_, _)
PopFrontN(dq, n) == IF n = 0 THEN dq ELSE PopFrontN(PopFront(dq), n - 1)
=============================================================================
