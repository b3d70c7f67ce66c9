------------------------ MODULE RadioDownlink_proofs ------------------------
(***************************************************************************)
(* Proofs about RadioDownlink for every frame capacity, packet size, pipe    *)
(* depth and limit on packets in a poll.  IInv: the downlink keeps no packet *)
(* in its hands between polls, where the local variable that holds one is    *)
(* gone, so that the packet would vanish uncounted.  OInv adds the order of  *)
(* the packets and that each is in exactly one place.                        *)
(***************************************************************************)
EXTENDS RadioDownlink, SequenceFacts

\* The loops run while pkt_count is below the limit (radio_app.c:1005, 1012).
WithinLimit ==
  /\ pktCount \in Nat
  /\ pc = "pack" => pktCount < MaxTx

\* A packet is left for the next frame only in a poll that has a next frame.
LeftHasNextFrame == pc = "finish" /\ pktCount >= MaxTx => pending = NoPacket

IInv == WithinLimit /\ LeftHasNextFrame /\ NothingLeftOver

USE DEF NoPacket

LEMMA InitNothingLeft == Init => IInv
  BY DEF Init, IInv, WithinLimit, LeftHasNextFrame, NothingLeftOver

\* The inner loop (radio_app.c:1012-1060): it stops below the limit, without a
\* packet to carry over, or both.
LEMMA PackKeeps ==
  ASSUME IInv, PipeEmpty \/ StartFrameFails \/ AddPacket \/ LeavePacket
  PROVE  IInv'
<1> USE DownlinkAssumption DEF IInv, WithinLimit, LeftHasNextFrame, NothingLeftOver
<1>1. CASE PipeEmpty
  BY <1>1 DEF PipeEmpty, Available
<1>2. CASE StartFrameFails
  BY <1>2 DEF StartFrameFails
<1>3. CASE AddPacket
  <2>1. pktCount' = pktCount + 1 /\ pending' = NoPacket
    BY <1>3 DEF AddPacket, NextCount
  <2>2. pc' = IF pktCount' < MaxTx THEN "pack" ELSE "finish"
    BY <1>3 DEF AddPacket, NextCount
  <2> QED
    BY <2>1, <2>2
<1>4. CASE LeavePacket
  BY <1>4 DEF LeavePacket
<1> QED
  BY <1>1, <1>2, <1>3, <1>4

\* A finished frame (radio_app.c:1062-1150) ends the poll at the limit, where
\* nothing is left over, or early, and then the packet left over is dropped.
LEMMA FinishKeeps == ASSUME IInv, FinishFrame PROVE IInv'
<1> USE DownlinkAssumption DEF IInv, WithinLimit, LeftHasNextFrame, NothingLeftOver
<1>1. CASE CompleteFrameFails
  BY <1>1 DEF CompleteFrameFails
<1>2. CASE SendFrame
  BY <1>2 DEF SendFrame, CompleteFrame, AfterFrame
<1>3. CASE SendFails
  BY <1>3 DEF SendFails, CompleteFrame, AfterFrame
<1>4. CASE SynchronizeFails
  BY <1>4 DEF SynchronizeFails, CompleteFrame
<1> QED
  BY <1>1, <1>2, <1>3, <1>4 DEF FinishFrame

\* No step leaves a packet behind.
LEMMA StepKeeps == ASSUME IInv, [Next]_vars PROVE IInv'
<1> USE DownlinkAssumption DEF IInv, WithinLimit, LeftHasNextFrame, NothingLeftOver
<1>1. CASE Publish
  BY <1>1 DEF Publish
<1>2. CASE DiscardPipe
  BY <1>2 DEF DiscardPipe
<1>3. CASE StartService
  BY <1>3 DEF StartService
<1>4. CASE StartServiceFails
  BY <1>4 DEF StartServiceFails
<1>5. CASE Downlink
  BY <1>5, PackKeeps, FinishKeeps DEF Downlink
<1>6. CASE UNCHANGED vars
  BY <1>6 DEF vars
<1> QED
  BY <1>1, <1>2, <1>3, <1>4, <1>5, <1>6 DEF Next

\* Once RADIO_ServiceDownlink returns, no packet is in its local variables, whichever
\* calls failed on the way.
THEOREM NoneLeftOver == Spec => []NothingLeftOver
<1>1. Init => IInv
  BY InitNothingLeft
<1>2. IInv /\ [Next]_vars => IInv'
  BY StepKeeps
<1>3. IInv => NothingLeftOver
  BY DEF IInv
<1> QED
  BY <1>1, <1>2, <1>3, PTL DEF Spec

-----------------------------------------------------------------------------
(* The order of the packets and their whereabouts                           *)

\* Oldest first: what was sent, the frame, the packet left over, the pipe.
Ordered ==
  /\ Increasing(sent) /\ Increasing(frame) /\ Increasing(pipe)
  /\ Below(ToSet(sent), ToSet(frame)) /\ Below(ToSet(sent), Forgotten)
  /\ Below(ToSet(sent), ToSet(pipe)) /\ Below(ToSet(frame), Forgotten)
  /\ Below(ToSet(frame), ToSet(pipe)) /\ Below(Forgotten, ToSet(pipe))

OnItsWay == ToSet(sent) \cup ToSet(frame) \cup Forgotten \cup ToSet(pipe)

\* Every packet is in one of these places or lost.
Placed ==
  /\ \A p : p \in OnItsWay \cup lost <=> p \in 1 .. Len(sizes)
  /\ \A p : ~(p \in OnItsWay /\ p \in lost)

Queues == sent \in Seq(Nat) /\ frame \in Seq(Nat) /\ pipe \in Seq(Nat) /\ pending \in Nat

\* A frame that is not started is empty.
EmptyUnlessReady == ~ready => frame = <<>>

OInv == /\ IInv /\ Queues /\ EmptyUnlessReady /\ Len(sizes) \in Nat
        /\ Ordered /\ Placed

LEMMA OInit == Init => OInv
<1> SUFFICES ASSUME Init PROVE OInv
  OBVIOUS
<1>1. IInv
  BY InitNothingLeft
<1>2. /\ sent = <<>> /\ frame = <<>> /\ pipe = <<>> /\ pending = 0 /\ lost = {} /\ sizes = <<>>
  BY DEF Init
<1>3. Queues /\ EmptyUnlessReady /\ Len(sizes) = 0
  BY <1>2 DEF Queues, EmptyUnlessReady
<1>4. Ordered
  BY <1>2, EmptyElements DEF Ordered, Below
<1>5. Placed
  BY <1>2, <1>3, EmptyElements DEF Placed, OnItsWay, Forgotten
<1> QED
  BY <1>1, <1>3, <1>4, <1>5 DEF OInv

\* The packet taken up is older than what stays in the pipe, and comes after the frame.
LEMMA TakeFacts ==
  ASSUME OInv, Available, TakeCurrent
  PROVE  /\ Current \in Nat \ {0} /\ pipe' \in Seq(Nat) /\ Increasing(pipe')
         /\ Forgotten \cup ToSet(pipe) = {Current} \cup ToSet(pipe')
         /\ Below({Current}, ToSet(pipe'))
         /\ Below(ToSet(frame), {Current}) /\ Below(ToSet(sent), {Current})
         /\ Below(ToSet(frame), ToSet(pipe')) /\ Below(ToSet(sent), ToSet(pipe'))
         /\ pending # 0 => pipe' = pipe /\ Forgotten = {Current}
         /\ pending = 0 => Forgotten = {} /\ Below({Current}, ToSet(pipe'))
<1> USE DEF OInv, Queues
<1>1. CASE pending # 0
  <2>1. Current = pending /\ pipe' = pipe /\ Forgotten = {pending}
    BY <1>1 DEF Current, TakeCurrent, Forgotten
  <2> QED
    BY <1>1, <2>1 DEF Ordered
<1>2. CASE pending = 0
  <2>1. pipe # <<>> /\ Current = Head(pipe) /\ pipe' = Tail(pipe) /\ Forgotten = {}
    BY <1>2 DEF Available, Current, TakeCurrent, Forgotten
  <2>2. /\ Tail(pipe) \in Seq(Nat) /\ Head(pipe) \in Nat
        /\ ToSet(pipe) = ToSet(Tail(pipe)) \cup {Head(pipe)}
        /\ Increasing(Tail(pipe)) /\ Below({Head(pipe)}, ToSet(Tail(pipe)))
    BY <2>1, TailElements DEF Ordered
  <2>3. Head(pipe) \in 1 .. Len(sizes)
    BY <2>2 DEF Placed, OnItsWay
  <2>4. Below(ToSet(frame), ToSet(pipe)) /\ Below(ToSet(sent), ToSet(pipe))
    BY DEF Ordered
  <2> QED
    BY <1>2, <2>1, <2>2, <2>3, <2>4 DEF Below
<1> QED
  BY <1>1, <1>2

LEMMA PackOrder ==
  ASSUME OInv, PipeEmpty \/ StartFrameFails \/ AddPacket \/ LeavePacket
  PROVE  OInv'
<1>1. IInv'
  BY PackKeeps DEF OInv
<1> USE DEF OInv, Queues
<1>2. StartedFrame = frame
  BY DEF StartedFrame, EmptyUnlessReady
<1>3. CASE PipeEmpty
  BY <1>1, <1>3 DEF PipeEmpty, Ordered, Placed, OnItsWay, Forgotten, EmptyUnlessReady
<1>4. CASE StartFrameFails
  <2>1. UNCHANGED <<sizes, sent, frame, pending, ready>> /\ Available /\ TakeCurrent
        /\ lost' = (IF pending = NoPacket THEN lost \cup {Current} ELSE lost)
    BY <1>4 DEF StartFrameFails
  <2>2. Forgotten' = Forgotten
    BY <2>1 DEF Forgotten
  <2>3. Ordered'
    BY <2>1, <2>2, TakeFacts DEF Ordered, Below
  <2>4. Placed'
    <3>1. CASE pending # 0
      BY <2>1, <2>2, <3>1, TakeFacts DEF Placed, OnItsWay
    <3>2. CASE pending = 0
      <4>1. /\ ToSet(pipe) = {Current} \cup ToSet(pipe') /\ Current \notin ToSet(pipe')
            /\ Current \notin ToSet(sent) /\ Current \notin ToSet(frame)
            /\ Current \in Nat
        BY <2>1, <3>2, TakeFacts DEF Below
      <4> HIDE DEF TakeCurrent, Current
      <4> QED
        BY <2>1, <2>2, <3>2, <4>1, TakeFacts DEF Placed, OnItsWay
    <3> QED
      BY <3>1, <3>2
  <2> QED
    BY <1>1, <2>1, <2>3, <2>4, TakeFacts DEF EmptyUnlessReady
<1>5. CASE AddPacket
  <2>1. /\ Available /\ TakeCurrent /\ ready' = TRUE /\ frame' = Append(frame, Current)
        /\ pending' = 0 /\ UNCHANGED <<sizes, sent, lost>>
    BY <1>2, <1>5 DEF AddPacket
  <2>2. Forgotten' = {}
    BY <2>1 DEF Forgotten
  <2>3. /\ frame' \in Seq(Nat) /\ Increasing(frame') /\ ToSet(frame') = ToSet(frame) \cup {Current}
    BY <2>1, TakeFacts, AppendElements DEF Ordered
  <2>4. Ordered'
    BY <2>1, <2>2, <2>3, TakeFacts DEF Ordered, Below
  <2>5. OnItsWay' = OnItsWay
    BY <2>1, <2>2, <2>3, TakeFacts DEF OnItsWay
  <2>6. Placed'
    BY <2>1, <2>5 DEF Placed
  <2> QED
    BY <1>1, <2>1, <2>3, <2>4, <2>6, TakeFacts DEF EmptyUnlessReady
<1>6. CASE LeavePacket
  <2>1. /\ Available /\ TakeCurrent /\ ready' = TRUE /\ frame' = frame
        /\ pending' = Current /\ UNCHANGED <<sizes, sent, lost>>
    BY <1>2, <1>6 DEF LeavePacket, LeftOver
  <2>2. Forgotten' = {Current}
    BY <2>1, TakeFacts DEF Forgotten
  <2>3. Ordered'
    BY <2>1, <2>2, TakeFacts DEF Ordered, Below
  <2>4. OnItsWay' = OnItsWay
    BY <2>1, <2>2, TakeFacts DEF OnItsWay
  <2>5. Placed'
    BY <2>1, <2>4 DEF Placed
  <2> QED
    BY <1>1, <2>1, <2>3, <2>5, TakeFacts DEF EmptyUnlessReady
<1> QED
  BY <1>3, <1>4, <1>5, <1>6

LEMMA FinishOrder == ASSUME OInv, FinishFrame PROVE OInv'
<1>1. IInv'
  BY FinishKeeps DEF OInv
<1> USE DEF OInv, Queues
<1>2. CASE CompleteFrameFails
  <2>1. UNCHANGED <<sizes, sent, frame, pipe, ready>> /\ pending' = 0 /\ lost' = lost \cup Forgotten
    BY <1>2 DEF CompleteFrameFails
  <2>2. Forgotten' = {}
    BY <2>1 DEF Forgotten
  <2>3. \A p \in Forgotten : p \notin ToSet(sent) \cup ToSet(frame) \cup ToSet(pipe) /\ p \in Nat
    BY DEF Ordered, Below, Forgotten
  <2>4. Ordered'
    BY <2>1, <2>2 DEF Ordered, Below
  <2>5. Placed'
    BY <2>1, <2>2, <2>3 DEF Placed, OnItsWay
  <2> QED
    BY <1>1, <2>1, <2>4, <2>5 DEF EmptyUnlessReady
<1>3. CASE SendFrame
  <2>1. /\ frame' = <<>> /\ sent' = sent \o frame /\ ready' = FALSE
        /\ UNCHANGED <<sizes, pipe, pending, lost>>
    BY <1>3 DEF SendFrame, CompleteFrame
  <2>2. /\ sent' \in Seq(Nat) /\ Increasing(sent') /\ ToSet(sent') = ToSet(sent) \cup ToSet(frame)
        /\ frame' \in Seq(Nat) /\ Increasing(frame') /\ ToSet(frame') = {}
    BY <2>1, JoinElements, EmptyElements DEF Ordered
  <2>3. Forgotten' = Forgotten
    BY <2>1 DEF Forgotten
  <2>4. Ordered'
    BY <2>1, <2>2, <2>3 DEF Ordered, Below
  <2>5. Placed'
    BY <2>1, <2>2, <2>3 DEF Placed, OnItsWay
  <2> QED
    BY <1>1, <2>1, <2>2, <2>4, <2>5 DEF EmptyUnlessReady
<1>4. ASSUME frame' = <<>>, ready' = FALSE, UNCHANGED <<sizes, pipe, sent>>,
             \/ UNCHANGED pending /\ lost' = lost \cup ToSet(frame)
             \/ pending' = 0 /\ lost' = lost \cup ToSet(frame) \cup Forgotten
      PROVE  OInv'
  <2>1. frame' \in Seq(Nat) /\ Increasing(frame') /\ ToSet(frame') = {}
    BY <1>4, EmptyElements
  <2>2. \A p \in ToSet(frame) : p \notin ToSet(sent) \cup Forgotten \cup ToSet(pipe)
    <3>1. \A p \in ToSet(frame) : p \in Nat
      BY InSeq
    <3> QED
      BY <3>1 DEF Ordered, Below
  <2>3. \A p \in Forgotten : p \notin ToSet(sent) \cup ToSet(frame) \cup ToSet(pipe)
    BY DEF Ordered, Below, Forgotten
  <2>4. CASE UNCHANGED pending /\ lost' = lost \cup ToSet(frame)
    <3>1. Forgotten' = Forgotten
      BY <2>4 DEF Forgotten
    <3>2. Ordered'
      BY <1>4, <2>1, <3>1 DEF Ordered, Below
    <3>3. Placed'
      BY <1>4, <2>1, <2>2, <2>4, <3>1 DEF Placed, OnItsWay
    <3> QED
      BY <1>1, <1>4, <2>1, <2>4, <3>2, <3>3 DEF EmptyUnlessReady
  <2>5. CASE pending' = 0 /\ lost' = lost \cup ToSet(frame) \cup Forgotten
    <3>1. Forgotten' = {}
      BY <2>5 DEF Forgotten
    <3>2. Ordered'
      BY <1>4, <2>1, <3>1 DEF Ordered, Below
    <3>3. Placed'
      BY <1>4, <2>1, <2>2, <2>3, <2>5, <3>1 DEF Placed, OnItsWay
    <3> QED
      BY <1>1, <1>4, <2>1, <2>5, <3>2, <3>3 DEF EmptyUnlessReady
  <2> QED
    BY <1>4, <2>4, <2>5
<1>5. CASE SendFails
  BY <1>4, <1>5 DEF SendFails, CompleteFrame
<1>6. CASE SynchronizeFails
  BY <1>4, <1>6 DEF SynchronizeFails, CompleteFrame
<1> QED
  BY <1>2, <1>3, <1>5, <1>6 DEF FinishFrame

LEMMA OStep == ASSUME OInv, [Next]_vars PROVE OInv'
<1>1. IInv'
  BY StepKeeps DEF OInv
<1> USE DEF OInv, Queues
<1>2. CASE Publish
  <2> DEFINE new == Len(sizes) + 1
  <2>1. /\ UNCHANGED <<sent, frame, pending, ready>> /\ Len(sizes') = new
        /\ \/ pipe' = Append(pipe, new) /\ UNCHANGED lost
           \/ lost' = lost \cup {new} /\ UNCHANGED pipe
    <3>1. \E n \in Sizes : sizes' = Append(sizes, n)
      BY <1>2 DEF Publish
    <3>2. Len(sizes') = new
      BY <3>1
    <3> QED
      BY <1>2, <3>2 DEF Publish
  <2>2. Forgotten' = Forgotten
    BY <2>1 DEF Forgotten
  <2>3. \A p : p \in 1 .. new <=> p \in 1 .. Len(sizes) \/ p = new
    OBVIOUS
  <2>4. \A p \in OnItsWay : p < new
    BY DEF Placed
  <2>5. new \notin OnItsWay /\ new \notin lost /\ new \in Nat
    BY DEF Placed
  <2> HIDE DEF new
  <2>6. CASE pipe' = Append(pipe, new) /\ UNCHANGED lost
    <3>1. /\ pipe' \in Seq(Nat) /\ ToSet(pipe') = ToSet(pipe) \cup {new}
          /\ Increasing(pipe')
      BY <2>4, <2>5, <2>6, AppendElements DEF Ordered, Below, OnItsWay
    <3>2. Ordered'
      BY <2>1, <2>2, <2>4, <3>1 DEF Ordered, Below, OnItsWay
    <3>3. Placed'
      BY <2>1, <2>2, <2>3, <2>5, <2>6, <3>1 DEF Placed, OnItsWay
    <3> QED
      BY <1>1, <2>1, <2>5, <3>1, <3>2, <3>3 DEF EmptyUnlessReady
  <2>7. CASE lost' = lost \cup {new} /\ UNCHANGED pipe
    <3>1. Ordered'
      BY <2>1, <2>2, <2>7 DEF Ordered
    <3>2. Placed'
      BY <2>1, <2>2, <2>3, <2>5, <2>7 DEF Placed, OnItsWay
    <3> QED
      BY <1>1, <2>1, <2>5, <2>7, <3>1, <3>2 DEF EmptyUnlessReady
  <2> QED
    BY <2>1, <2>6, <2>7
<1>3. CASE DiscardPipe
  <2>1. /\ UNCHANGED <<sizes, sent, frame, pending, ready>>
        /\ pipe' = <<>> /\ lost' = lost \cup ToSet(pipe)
    BY <1>3 DEF DiscardPipe
  <2>2. Forgotten' = Forgotten
    BY <2>1 DEF Forgotten
  <2>3. pipe' \in Seq(Nat) /\ Increasing(pipe') /\ ToSet(pipe') = {}
    BY <2>1, EmptyElements
  <2>4. \A p \in ToSet(pipe) : p \notin ToSet(sent) \cup ToSet(frame) \cup Forgotten
    <3>1. \A p \in ToSet(pipe) : p \in Nat
      BY InSeq
    <3> QED
      BY <3>1 DEF Ordered, Below
  <2>5. Ordered'
    BY <2>1, <2>2, <2>3 DEF Ordered, Below
  <2>6. Placed'
    BY <2>1, <2>2, <2>3, <2>4 DEF Placed, OnItsWay
  <2> QED
    BY <1>1, <2>1, <2>3, <2>5, <2>6 DEF EmptyUnlessReady
<1>4. CASE StartService
  <2>1. pending = 0
    BY <1>4 DEF StartService, IInv, NothingLeftOver
  <2>2. /\ UNCHANGED <<sizes, pipe, sent, lost>> /\ pending' = 0 /\ ready' = TRUE /\ frame' = frame
    BY <1>4 DEF StartService, StartedFrame, EmptyUnlessReady
  <2> QED
    BY <1>1, <2>1, <2>2 DEF Ordered, Placed, OnItsWay, Forgotten, EmptyUnlessReady
<1>5. CASE StartServiceFails
  BY <1>1, <1>5 DEF StartServiceFails, Ordered, Placed, OnItsWay, Forgotten, EmptyUnlessReady
<1>6. CASE Downlink
  BY <1>6, PackOrder, FinishOrder DEF Downlink
<1>7. CASE UNCHANGED vars
  BY <1>1, <1>7 DEF vars, Ordered, Placed, OnItsWay, Forgotten, EmptyUnlessReady
<1> QED
  BY <1>2, <1>3, <1>4, <1>5, <1>6, <1>7 DEF Next

LEMMA OInvariant == Spec => []OInv
  BY OInit, OStep, PTL DEF Spec

\* The places put one behind the other.
LEMMA InflightFacts ==
  ASSUME OInv
  PROVE  Increasing(Inflight) /\ ToSet(Inflight) = OnItsWay
<1> DEFINE held == IF pending = NoPacket THEN <<>> ELSE <<pending>>
<1>1. held \in Seq(Nat) /\ ToSet(held) = Forgotten /\ Increasing(held)
  <2>1. CASE pending = 0
    BY <2>1, EmptyElements DEF Forgotten
  <2>2. CASE pending # 0
    <3>1. held = Append(<<>>, pending) /\ pending \in Nat /\ <<>> \in Seq(Nat)
      BY <2>2 DEF OInv, Queues
    <3> HIDE DEF held
    <3> QED
      BY <2>2, <3>1, AppendElements, EmptyElements DEF Forgotten, Below
  <2> QED
    BY <2>1, <2>2
<1>2. Inflight = ((sent \o frame) \o held) \o pipe
  BY DEF Inflight
<1> HIDE DEF held
<1>3. /\ sent \o frame \in Seq(Nat) /\ Increasing(sent \o frame)
      /\ ToSet(sent \o frame) = ToSet(sent) \cup ToSet(frame)
  BY JoinElements DEF OInv, Ordered, Queues
<1> DEFINE first == sent \o frame
<1> HIDE DEF first
<1>4. /\ first \o held \in Seq(Nat) /\ Increasing(first \o held)
      /\ ToSet(first \o held) = ToSet(sent) \cup ToSet(frame) \cup Forgotten
  <2>1. Below(ToSet(first), ToSet(held))
    BY <1>1, <1>3 DEF first, OInv, Ordered, Below
  <2> QED
    BY <1>1, <1>3, <2>1, JoinElements DEF first
<1> DEFINE front == first \o held
<1> HIDE DEF front
<1>5. Increasing(front \o pipe) /\ ToSet(front \o pipe) = OnItsWay
  <2>1. Below(ToSet(front), ToSet(pipe))
    BY <1>4 DEF front, OInv, Ordered, Below
  <2> QED
    BY <1>4, <2>1, JoinElements DEF front, OInv, Ordered, Queues, OnItsWay
<1> QED
  BY <1>2, <1>5 DEF front, first

\* Whatever fails, packets leave in the order they were published and none twice, for
\* every pipe depth, frame capacity and sizes of packets.
THEOREM PacketsInOrder == Spec => []InOrder
<1>1. OInv => InOrder
  BY InflightFacts DEF InOrder, Increasing
<1> QED
  BY <1>1, OInvariant, PTL

\* Every packet published is in exactly one place, sent, or lost.
THEOREM PacketsConserved == Spec => []Conserved
<1>1. OInv => Conserved
  <2> SUFFICES ASSUME OInv PROVE Conserved
    OBVIOUS
  <2>1. Placed /\ ToSet(Inflight) = OnItsWay
    BY InflightFacts DEF OInv
  <2> QED
    BY <2>1 DEF Placed, Conserved
<1> QED
  BY <1>1, OInvariant, PTL

-----------------------------------------------------------------------------
(* Losses                                                                   *)

CounterInv == devErr \in 0 .. CounterMod - 1

\* One error, and two, change a counter that is at least three wide.
LEMMA CountChanges ==
  ASSUME NEW c \in 0 .. CounterMod - 1, NEW k \in {0, 1, 2}
  PROVE  (c + k) % CounterMod \in 0 .. CounterMod - 1 /\ (k # 0 => (c + k) % CounterMod # c)
<1>1. CounterMod \in Nat /\ CounterMod > 2 /\ c \in Nat
  BY DownlinkAssumption
<1>2. CASE c + k < CounterMod
  BY <1>1, <1>2
<1>3. CASE c + k >= CounterMod
  <2>1. (c + k) % CounterMod = c + k - CounterMod
    BY <1>1, <1>3
  <2> QED
    BY <1>1, <1>3, <2>1
<1> QED
  BY <1>1, <1>2, <1>3

\* A finished frame counts one error for what was not secured and one for what was
\* not sent.
LEMMA FrameCounts ==
  ASSUME CounterInv, NEW failed \in {0, 1}, \E insecure \in {0, 1} : CompleteFrame(insecure, failed)
  PROVE  CounterInv' /\ (failed = 1 => devErr' # devErr)
<1>1. PICK insecure \in {0, 1} : devErr' = (devErr + (insecure + failed)) % CounterMod
  BY DEF CompleteFrame, Errors
<1>2. insecure + failed \in {0, 1, 2} /\ (failed = 1 => insecure + failed # 0)
  OBVIOUS
<1> QED
  BY <1>1, <1>2, CountChanges DEF CounterInv

\* What a step does to the counter, and to the packets lost.
LEMMA LossStep ==
  ASSUME CounterInv, OInv, [Next]_vars
  PROVE  CounterInv' /\ (lost' # lost /\ pc # "idle" /\ sizes' = sizes => devErr' # devErr)
<1>1. Inc(devErr) \in 0 .. CounterMod - 1 /\ Inc(devErr) # devErr
  BY CountChanges DEF CounterInv, Inc
<1> USE DEF CounterInv
<1>2. CASE Publish
  <2>1. PICK n \in Sizes : sizes' = Append(sizes, n)
    BY <1>2 DEF Publish
  <2>2. devErr' = devErr
    BY <1>2 DEF Publish, counts
  <2>3. Len(sizes') = Len(sizes) + 1 /\ Len(sizes) \in Nat
    BY <2>1 DEF OInv
  <2> QED
    BY <2>2, <2>3
<1>3. CASE DiscardPipe \/ StartService \/ StartServiceFails
  BY <1>1, <1>3 DEF DiscardPipe, StartService, StartServiceFails, counts
<1>4. CASE PipeEmpty \/ AddPacket
  BY <1>4 DEF PipeEmpty, AddPacket, counts
<1>5. CASE StartFrameFails \/ LeavePacket
  BY <1>1, <1>5 DEF StartFrameFails, LeavePacket
<1>6. CASE CompleteFrameFails
  BY <1>1, <1>6 DEF CompleteFrameFails
<1>7. CASE SendFrame
  BY <1>7, FrameCounts DEF SendFrame
<1>8. CASE SendFails \/ SynchronizeFails
  BY <1>8, FrameCounts DEF SendFails, SynchronizeFails
<1>9. CASE UNCHANGED vars
  BY <1>9 DEF vars, counts
<1> QED
  BY <1>2, <1>3, <1>4, <1>5, <1>6, <1>7, <1>8, <1>9 DEF Next, Downlink, FinishFrame

\* A packet that the downlink takes and loses shows in the device error count, for every
\* width of the counter from 3.
THEOREM LossCounted == Spec => LossIsCounted
<1> DEFINE Counted == lost' # lost /\ pc # "idle" /\ sizes' = sizes => devErr' # devErr
<1>1. Init => CounterInv
  BY DownlinkAssumption DEF Init, CounterInv
<1>2. CounterInv /\ OInv /\ [Next]_vars => CounterInv'
  BY LossStep
<1>3. CounterInv /\ OInv /\ [Next]_vars => [Counted]_vars
  BY LossStep
<1> QED
  BY <1>1, <1>2, <1>3, OInvariant, PTL DEF Spec, LossIsCounted

-----------------------------------------------------------------------------
(* What fits in a frame                                                     *)

FitInv == sizes \in Seq(Nat \ {0}) /\ free \in Nat /\ FrameFits

\* The packets of the frame have a size.
LEMMA FrameSized ==
  ASSUME OInv, FitInv
  PROVE  \A p \in ToSet(frame) \cup Forgotten \cup ToSet(pipe) :
           p \in 1 .. Len(sizes) /\ sizes[p] \in Nat \ {0}
  BY DEF OInv, Placed, OnItsWay, FitInv

\* A frame that was just started, or goes on, has free what its packets leave, or nothing.
LEMMA StartedFits ==
  ASSUME OInv, FitInv
  PROVE  /\ StartedFree \in Nat /\ StartedFrame = frame
         /\ Total(sizes, frame) < Capacity
         /\ StartedFree = 0 \/ StartedFree + Total(sizes, frame) = Capacity
<1>1. StartedFrame = frame
  BY DEF OInv, StartedFrame, EmptyUnlessReady
<1>2. CASE ready
  BY <1>1, <1>2 DEF StartedFree, FitInv, FrameFits, SizeSum, Total
<1>3. CASE ~ready
  <2>1. Total(sizes, frame) = 0
    BY <1>3, TotalEmpty DEF OInv, EmptyUnlessReady
  <2> QED
    BY <1>1, <1>3, <2>1, DownlinkAssumption DEF StartedFree
<1> QED
  BY <1>2, <1>3

LEMMA FitStep == ASSUME OInv, FitInv, [Next]_vars PROVE FitInv'
<1>1. SizeSum(frame) = Total(sizes, frame) /\ SizeSum(frame)' = Total(sizes', frame')
  BY DEF SizeSum, Total, FoldSeq, FoldFunction, FoldFunctionOnSet, MapThenFoldSet
<1>2. CASE Publish
  <2>1. PICK n \in Sizes : sizes' = Append(sizes, n)
    BY <1>2 DEF Publish
  <2>2. n \in Nat \ {0}
    BY SizesAssumption
  <2>3. \A p \in ToSet(frame) : sizes'[p] = sizes[p]
    BY <2>1, <2>2, FrameSized DEF FitInv
  <2>4. Total(sizes', frame) = Total(sizes, frame)
    BY <2>3, TotalSame DEF OInv, Queues
  <2>5. UNCHANGED <<ready, free, frame>>
    BY <1>2 DEF Publish
  <2> QED
    BY <1>1, <2>1, <2>2, <2>4, <2>5 DEF FitInv, FrameFits
<1>3. CASE StartService \/ LeavePacket
  <2>1. free' = StartedFree /\ frame' = frame /\ sizes' = sizes
    BY <1>3, StartedFits DEF StartService, LeavePacket
  <2> QED
    BY <1>1, <2>1, StartedFits DEF FitInv, FrameFits
<1>4. CASE AddPacket
  <2> DEFINE e == Current
  <2>1. /\ frame' = Append(frame, e) /\ free' = StartedFree - sizes[e] /\ sizes' = sizes
        /\ sizes[e] < StartedFree /\ Available /\ TakeCurrent
    BY <1>4, StartedFits DEF AddPacket, Fits
  <2>2. e \in Nat /\ sizes[e] \in Nat
    BY <2>1, FrameSized, TakeFacts
  <2> HIDE DEF e
  <2>3. Total(sizes, frame') = Total(sizes, frame) + sizes[e] /\ Total(sizes, frame) \in Nat
    <3>1. frame \in Seq(Nat) /\ \A p \in ToSet(frame) : sizes[p] \in Nat
      BY FrameSized DEF OInv, Queues
    <3> QED
      BY <2>1, <2>2, <3>1, TotalAppend
  <2>4. Capacity \in Nat
    BY DownlinkAssumption
  <2> QED
    BY <1>1, <2>1, <2>2, <2>3, <2>4, StartedFits DEF FitInv, FrameFits
<1>5. CASE SendFrame \/ SendFails \/ SynchronizeFails
  BY <1>5 DEF SendFrame, SendFails, SynchronizeFails, CompleteFrame, FitInv, FrameFits
<1>6. CASE DiscardPipe \/ StartServiceFails \/ PipeEmpty \/ StartFrameFails \/ UNCHANGED vars
  <2>1. UNCHANGED <<sizes, ready, free, frame>>
    BY <1>6 DEF DiscardPipe, StartServiceFails, PipeEmpty, StartFrameFails, vars
  <2> QED
    BY <1>1, <2>1 DEF FitInv, FrameFits
<1>7. CASE CompleteFrameFails
  <2>1. UNCHANGED <<sizes, ready, frame>> /\ free' \in {free, 0}
    BY <1>7 DEF CompleteFrameFails
  <2> QED
    BY <1>1, <2>1 DEF FitInv, FrameFits
<1> QED
  BY <1>2, <1>3, <1>4, <1>5, <1>6, <1>7 DEF Next, Downlink, FinishFrame

\* No frame is ever filled past its capacity, for every capacity and sizes of packets: a
\* packet is only added to octets that are free, also in a frame that an idle packet filled
\* and that is retried in a later poll.
THEOREM FrameNeverOverfull == Spec => []FrameFits
<1>1. Init => FitInv
  BY DEF Init, FitInv, FrameFits
<1>2. OInv /\ FitInv /\ [Next]_vars => FitInv'
  BY FitStep
<1>3. FitInv => FrameFits
  BY DEF FitInv
<1> QED
  BY <1>1, <1>2, <1>3, OInvariant, PTL DEF Spec
-----------------------------------------------------------------------------
(* The downlink is a link of packets                                        *)

\* A frame that is complete but was never started follows a call that failed, or an
\* empty pipe with nothing left over.
LinkInv == faults \in Nat /\ (pc = "finish" /\ ~ready => pending = NoPacket \/ faults > 0)

\* A disturbance is remembered, also those past the ones counted.
LEMMA FailCounts ==
  ASSUME faults \in Nat, NEW n \in 0 .. 2, Fail(n)
  PROVE  /\ faults' \in Nat /\ (faults' = faults \/ faults' > 0)
         /\ n > 0 \/ faults > 0 => faults' > 0
<1>1. MaxFaults \in Nat /\ (Persistent => MaxFaults > 0)
  BY DownlinkAssumption
<1>2. CASE faults' = faults + n
  BY <1>2
<1>3. CASE Persistent /\ faults' = MaxFaults
  BY <1>1, <1>3
<1> QED BY <1>2, <1>3 DEF Fail

LEMMA DisturbCounts == ASSUME faults \in Nat, Disturb PROVE faults' \in Nat /\ faults' > 0
  BY FailCounts DEF Disturb

\* What a finished frame adds to the disturbances.
LEMMA FrameFaults ==
  ASSUME LinkInv, NEW failed \in {0, 1}, \E insecure \in {0, 1} : CompleteFrame(insecure, failed)
  PROVE  /\ faults' \in Nat /\ (faults' = faults \/ faults' > 0)
         /\ failed = 1 \/ faults > 0 => faults' > 0
<1>1. PICK insecure \in {0, 1} : Fail(insecure + failed)
  BY DEF CompleteFrame
<1>2. insecure + failed \in 0 .. 2 /\ (failed = 1 => insecure + failed > 0)
  OBVIOUS
<1> QED
  BY <1>1, <1>2, FailCounts DEF LinkInv

LEMMA LinkStep == ASSUME LinkInv, [Next]_vars PROVE LinkInv'
<1> USE DisturbCounts DEF LinkInv
<1>1. CASE Publish \/ DiscardPipe \/ StartService \/ StartServiceFails \/ UNCHANGED vars
  BY <1>1 DEF Publish, DiscardPipe, StartService, StartServiceFails, vars
<1>2. CASE PipeEmpty \/ StartFrameFails \/ AddPacket \/ LeavePacket
  BY <1>2 DEF PipeEmpty, StartFrameFails, AddPacket, LeavePacket, Available
<1>3. CASE CompleteFrameFails
  BY <1>3 DEF CompleteFrameFails
<1>4. CASE SendFrame \/ SendFails \/ SynchronizeFails
  <2>1. PICK failed \in {0, 1} : \E insecure \in {0, 1} : CompleteFrame(insecure, failed)
    BY <1>4 DEF SendFrame, SendFails, SynchronizeFails
  <2>2. faults' \in Nat
    BY <2>1, FrameFaults
  <2>3. pc' # "finish"
    BY <1>4 DEF SendFrame, SendFails, SynchronizeFails, AfterFrame
  <2> QED
    BY <2>2, <2>3
<1> QED
  BY <1>1, <1>2, <1>3, <1>4 DEF Next, Downlink, FinishFrame

\* The packets that wait are those in the frame, left over and in the pipe.
LEMMA WaitingIs ==
  ASSUME OInv
  PROVE  \A p : p \in Link!Waiting <=> p \in ToSet(frame) \cup Forgotten \cup ToSet(pipe)
<1>1. /\ \A p \in ToSet(sent) : p \notin ToSet(frame) \cup Forgotten \cup ToSet(pipe)
      /\ \A p : p \in OnItsWay \cup lost <=> p \in 1 .. Len(sizes)
      /\ \A p : ~(p \in OnItsWay /\ p \in lost)
  <2>1. \A p \in ToSet(sent) : p \in Nat
    BY InSeq DEF OInv, Queues
  <2> QED
    BY <2>1 DEF OInv, Ordered, Placed, Below
<1> QED
  BY <1>1 DEF Link!Waiting, Link!ToSet, ToSet, OnItsWay

\* Some of them lost after a call failed: what the link allows then.
LEMMA LoseOnLink ==
  ASSUME NEW some, some \subseteq Link!Waiting, lost' = lost \cup some,
         UNCHANGED <<sizes, sent>>, faults' > 0
  PROVE  Link!Disturb \/ Link!Lose
<1>1. CASE some = {}
  BY <1>1 DEF Link!Disturb
<1>2. CASE some # {}
  BY <1>2 DEF Link!Lose
<1> QED
  BY <1>1, <1>2

\* A packet dropped at the pipe: there are as many waiting as it holds.
LEMMA PublishOnLink == ASSUME OInv, Publish PROVE Link!Publish
<1>1. /\ Len(sizes) < MaxPackets /\ Len(sizes') = Len(sizes) + 1
      /\ UNCHANGED <<sent, faults>>
  <2>1. PICK n \in Sizes : sizes' = Append(sizes, n)
    BY DEF Publish
  <2> QED
    BY <2>1 DEF Publish, OInv
<1>2. CASE Len(pipe) < PipeDepth
  BY <1>1, <1>2 DEF Publish, Link!Publish
<1>3. CASE ~(Len(pipe) < PipeDepth)
  <2>1. lost' = lost \cup {Len(sizes')}
    BY <1>1, <1>3 DEF Publish
  <2>2. Cardinality(ToSet(pipe)) = Len(pipe) /\ Len(pipe) \in Nat
    BY ElementsCount DEF OInv, Ordered, Queues
  <2>3. IsFiniteSet(Link!Waiting) /\ ToSet(pipe) \subseteq Link!Waiting
    <3>1. IsFiniteSet(1 .. Len(sizes)) /\ Link!Waiting \subseteq 1 .. Len(sizes)
      BY FS_Interval DEF OInv, Link!Waiting
    <3> QED
      BY <3>1, WaitingIs, FS_Subset
  <2>4. Cardinality(ToSet(pipe)) <= Cardinality(Link!Waiting) /\ Cardinality(Link!Waiting) \in Nat
    BY <2>3, FS_Subset, FS_CardinalityType
  <2>5. Cardinality(Link!Waiting) >= PipeDepth
    BY <1>3, <2>2, <2>4, DownlinkAssumption
  <2>6. Link!Cardinality(Link!Waiting) = Cardinality(Link!Waiting)
    BY DEF Link!Cardinality, Cardinality
  <2> QED
    BY <1>1, <2>1, <2>5, <2>6 DEF Link!Publish
<1> QED
  BY <1>2, <1>3

\* A frame that is sent takes the oldest packets that wait.
LEMMA DeliverOnLink ==
  ASSUME OInv, LinkInv, SendFrame, frame # <<>>
  PROVE  Link!Deliver
<1> DEFINE n == Len(frame)
<1>1. /\ frame \in Seq(Nat) /\ n \in Nat /\ Increasing(frame)
      /\ \A i \in 1 .. n : frame[i] \in ToSet(frame)
      /\ \A x \in ToSet(frame) : \E i \in 1 .. n : frame[i] = x
  BY InSeq DEF OInv, Queues, Ordered
<1>2. n \in 1 .. Len(sizes)
  <2>1. n \in 1 .. n
    BY <1>1, EmptySeq
  <2>2. ToSet(frame) \subseteq 1 .. Len(sizes)
    BY DEF OInv, Placed, OnItsWay
  <2>3. n <= frame[n]
    BY <1>1, <2>1, <2>2, ElementAtLeast
  <2> QED
    BY <1>1, <2>1, <2>2, <2>3 DEF OInv
<1>3. frame \in [1 .. n -> Link!Waiting]
  BY <1>1, WaitingIs
<1>4. \A i, j \in 1 .. n : i < j => frame[i] < frame[j]
  BY <1>1 DEF Increasing
<1>5. \A p \in Link!Waiting : p > frame[n] \/ \E i \in 1 .. n : frame[i] = p
  <2> SUFFICES ASSUME NEW p \in Link!Waiting, p \notin ToSet(frame) PROVE p > frame[n]
    BY <1>1
  <2>1. p \in Forgotten \cup ToSet(pipe) /\ frame[n] \in ToSet(frame)
    BY <1>1, <1>2, WaitingIs
  <2>2. p \in Nat /\ frame[n] \in Nat
    BY <1>1, <2>1, InSeq DEF OInv, Queues, Forgotten
  <2>3. frame[n] < p
    BY <2>1 DEF OInv, Ordered, Below
  <2> QED
    BY <2>2, <2>3
<1>6. sent' = sent \o frame /\ UNCHANGED <<sizes, lost>> /\ faults \in Nat
      /\ (faults' = faults \/ faults' > 0)
  BY FrameFaults DEF SendFrame, CompleteFrame, LinkInv
<1>7. (faults' > 0) \in {faults > 0, TRUE}
  BY <1>6
<1> QED
  BY <1>2, <1>3, <1>4, <1>5, <1>6, <1>7 DEF Link!Deliver

\* What finishing a frame does on the link.
LEMMA FinishOnLink ==
  ASSUME OInv, LinkInv, FinishFrame
  PROVE  [Link!Next]_Link!vars
<1>1. CASE CompleteFrameFails
  <2>1. UNCHANGED <<sizes, sent>> /\ lost' = lost \cup Forgotten /\ Forgotten \subseteq Link!Waiting
    BY <1>1, WaitingIs DEF CompleteFrameFails
  <2>2. CASE faults' > 0
    BY <2>1, <2>2, LoseOnLink DEF Link!Next
  <2>3. CASE ~(faults' > 0)
    <3>1. pc = "finish" /\ ~ready /\ faults' = faults
      BY <1>1, <2>3, DisturbCounts DEF CompleteFrameFails, LinkInv
    <3>2. Forgotten = {}
      BY <2>3, <3>1 DEF LinkInv, Forgotten
    <3> QED
      BY <2>1, <3>1, <3>2 DEF Link!vars
  <2> QED
    BY <2>2, <2>3
<1>2. CASE SendFrame
  <2>1. CASE frame = <<>>
    <3>0. sent \o <<>> = sent
      BY DEF OInv, Queues
    <3>1. sent' = sent /\ UNCHANGED <<sizes, lost>> /\ (faults' = faults \/ faults' > 0)
      BY <1>2, <2>1, <3>0, FrameFaults DEF SendFrame, CompleteFrame
    <3> QED
      BY <3>1 DEF Link!Next, Link!Disturb, Link!vars
  <2> QED
    BY <1>2, <2>1, DeliverOnLink DEF Link!Next
<1>3. CASE SendFails \/ SynchronizeFails
  <2>1. /\ UNCHANGED <<sizes, sent>> /\ faults' > 0
        /\ lost' = lost \cup ToSet(frame) \/ lost' = lost \cup (ToSet(frame) \cup Forgotten)
    BY <1>3, FrameFaults DEF SendFails, SynchronizeFails, CompleteFrame
  <2>2. ToSet(frame) \subseteq Link!Waiting /\ Forgotten \subseteq Link!Waiting
    BY WaitingIs
  <2> QED
    BY <2>1, <2>2, LoseOnLink DEF Link!Next
<1> QED
  BY <1>1, <1>2, <1>3 DEF FinishFrame

LEMMA StepOnLink ==
  ASSUME OInv, LinkInv, [Next]_vars
  PROVE  [Link!Next]_Link!vars
<1>1. CASE Publish
  BY <1>1, PublishOnLink DEF Link!Next
<1>2. CASE DiscardPipe
  <2>1. ToSet(pipe) \subseteq Link!Waiting
    BY WaitingIs
  <2>2. faults' > 0
    BY <1>2, DisturbCounts DEF DiscardPipe, LinkInv
  <2> QED
    BY <1>2, <2>1, <2>2, LoseOnLink DEF DiscardPipe, Link!Next
<1>3. CASE StartServiceFails
  BY <1>3, DisturbCounts DEF StartServiceFails, LinkInv, Link!Next, Link!Disturb
<1>4. CASE StartFrameFails
  <2>1. faults' > 0 /\ UNCHANGED <<sizes, sent>> /\ Available /\ TakeCurrent
    BY <1>4, DisturbCounts DEF StartFrameFails, LinkInv
  <2>2. PICK some : some \subseteq Link!Waiting /\ lost' = lost \cup some
    <3>1. Current \in Link!Waiting
      BY <2>1, TakeFacts, WaitingIs
    <3>2. lost' = lost \cup {Current} \/ lost' = lost \cup {}
      BY <1>4 DEF StartFrameFails
    <3> QED
      BY <3>1, <3>2
  <2> QED
    BY <2>1, <2>2, LoseOnLink DEF Link!Next
<1>5. CASE LeavePacket
  BY <1>5, DisturbCounts DEF LeavePacket, LinkInv, Link!Next, Link!Disturb, Link!vars
<1>6. CASE StartService \/ PipeEmpty \/ AddPacket \/ UNCHANGED vars
  BY <1>6 DEF StartService, PipeEmpty, AddPacket, vars, Link!vars
<1>7. CASE FinishFrame
  BY <1>7, FinishOnLink
<1> QED
  BY <1>1, <1>2, <1>3, <1>4, <1>5, <1>6, <1>7 DEF Next, Downlink

\* As far as safety goes the downlink is the abstract link, for every pipe depth, frame
\* capacity, size of packets and whatever fails: it sends the oldest packets that wait, in
\* their order, and drops one only from a full pipe or after a call that failed.
THEOREM DownlinkIsPacketLink == Spec => Link!Safety
<1>1. Init => Link!Init /\ LinkInv
  BY DEF Init, Link!Init, LinkInv
<1>2. LinkInv /\ [Next]_vars => LinkInv'
  BY LinkStep
<1>3. OInv /\ LinkInv /\ [Next]_vars => [Link!Next]_Link!vars
  BY StepOnLink
<1> QED
  BY <1>1, <1>2, <1>3, OInvariant, PTL DEF Spec, Link!Safety

-----------------------------------------------------------------------------
(* Types, and the end of a poll                                             *)

LEMMA StartedType == ASSUME TypeOK PROVE StartedFree \in 0 .. Capacity /\ StartedFrame \in Seq(Packet)
  BY DownlinkAssumption DEF TypeOK, StartedFree, StartedFrame

\* The packet taken up is one that was published.
LEMMA CurrentType ==
  ASSUME OInv, TypeOK, Available, TakeCurrent
  PROVE  /\ Current \in 1 .. Len(sizes) /\ Current \in Packet /\ sizes[Current] \in Sizes
         /\ pipe' \in Seq(Packet) /\ Len(pipe') <= PipeDepth
<1>1. CASE pending # NoPacket
  <2>1. Current = pending /\ pipe' = pipe
    BY <1>1 DEF Current, TakeCurrent
  <2>2. pending \in OnItsWay
    BY <1>1 DEF OnItsWay, Forgotten
  <2>3. pending \in 1 .. Len(sizes)
    BY <2>2 DEF OInv, Placed
  <2> QED
    BY <2>1, <2>3 DEF TypeOK, Packet
<1>2. CASE pending = NoPacket
  <2>1. pipe # <<>> /\ Current = Head(pipe) /\ pipe' = Tail(pipe)
    BY <1>2 DEF Available, Current, TakeCurrent
  <2>2. /\ Len(pipe) \in Nat /\ Len(pipe) > 0 /\ Head(pipe) = pipe[1]
        /\ pipe' \in Seq(Packet) /\ Len(pipe') = Len(pipe) - 1
    BY <2>1 DEF TypeOK
  <2>3. Current \in ToSet(pipe)
    BY <2>1, <2>2 DEF ToSet
  <2>4. Current \in 1 .. Len(sizes)
    BY <2>3 DEF OInv, Placed, OnItsWay
  <2> QED
    BY <2>2, <2>4, DownlinkAssumption DEF TypeOK, Packet
<1> QED
  BY <1>1, <1>2

LEMMA DisturbType == ASSUME TypeOK, Disturb PROVE faults' \in 0 .. MaxFaults
  BY DownlinkAssumption DEF TypeOK, Disturb, Fail

LEMMA IncType == ASSUME NEW c \in 0 .. CounterMod - 1 PROVE Inc(c) \in 0 .. CounterMod - 1
  BY DownlinkAssumption DEF Inc

LEMMA EnvironmentType == ASSUME TypeOK, Publish \/ DiscardPipe \/ StartService \/ StartServiceFails
                         PROVE  TypeOK'
<1>1. CASE Publish
  <2>1. PICK n \in Sizes : sizes' = Append(sizes, n)
    BY <1>1 DEF Publish
  <2>2. sizes' \in Seq(Sizes) /\ Len(sizes') = Len(sizes) + 1 /\ Len(sizes) + 1 \in Packet
    BY <1>1, <2>1, DownlinkAssumption DEF Publish, TypeOK, Packet
  <2>3. pipe' \in Seq(Packet) /\ Len(pipe') <= PipeDepth /\ lost' \subseteq Packet
    <3>1. pipe \in Seq(Packet) /\ lost \subseteq Packet /\ Len(pipe) <= PipeDepth /\ PipeDepth \in Nat
      BY DownlinkAssumption DEF TypeOK
    <3>2. CASE Len(pipe) < PipeDepth
      <4>1. pipe' = Append(pipe, Len(sizes) + 1) /\ lost' = lost
        BY <1>1, <3>2 DEF Publish
      <4>2. pipe' \in Seq(Packet) /\ Len(pipe') = Len(pipe) + 1
        BY <2>2, <3>1, <4>1
      <4> QED
        BY <3>1, <3>2, <4>1, <4>2
    <3>3. CASE ~(Len(pipe) < PipeDepth)
      BY <1>1, <2>2, <3>1, <3>3 DEF Publish
    <3> QED
      BY <3>2, <3>3
  <2> QED
    BY <1>1, <2>2, <2>3, DownlinkAssumption DEF Publish, TypeOK, counts, Packet
<1>2. CASE DiscardPipe
  <2>1. pipe' \in Seq(Packet) /\ Len(pipe') <= PipeDepth
    BY <1>2, DownlinkAssumption DEF DiscardPipe
  <2>2. ToSet(pipe) \subseteq Packet
    BY DEF ToSet, TypeOK
  <2> QED
    BY <1>2, <2>1, <2>2, DisturbType DEF DiscardPipe, TypeOK, counts
<1>3. CASE StartService
  BY <1>3, StartedType, DownlinkAssumption DEF StartService, TypeOK, counts
<1>4. CASE StartServiceFails
  BY <1>4, DisturbType, IncType DEF StartServiceFails, TypeOK
<1> QED
  BY <1>1, <1>2, <1>3, <1>4

LEMMA PackType == ASSUME OInv, TypeOK, PipeEmpty \/ StartFrameFails \/ AddPacket \/ LeavePacket
                  PROVE  TypeOK'
<1>1. CASE PipeEmpty
  BY <1>1, DownlinkAssumption DEF PipeEmpty, TypeOK, counts
<1>2. CASE StartFrameFails
  BY <1>2, CurrentType, DisturbType, IncType DEF StartFrameFails, TypeOK
<1>3. CASE AddPacket
  <2> DEFINE p == Current
  <2>1. /\ p \in Packet /\ sizes[p] \in Nat /\ sizes[p] < StartedFree
        /\ pipe' \in Seq(Packet) /\ Len(pipe') <= PipeDepth
    BY <1>3, CurrentType, SizesAssumption DEF AddPacket, Fits
  <2>2. frame' = Append(StartedFrame, p) /\ free' = StartedFree - sizes[p]
    BY <1>3 DEF AddPacket
  <2> HIDE DEF p
  <2>3. frame' \in Seq(Packet) /\ free' \in 0 .. Capacity
    BY <2>1, <2>2, StartedType, DownlinkAssumption
  <2>4. pktCount' \in 0 .. MaxTx
    BY <1>3, DownlinkAssumption DEF AddPacket, NextCount, OInv, IInv, WithinLimit
  <2> QED
    BY <1>3, <2>1, <2>3, <2>4 DEF AddPacket, TypeOK, counts
<1>4. CASE LeavePacket
  <2>1. /\ pipe' \in Seq(Packet) /\ Len(pipe') <= PipeDepth /\ pending' \in Packet
        /\ ready' = TRUE /\ free' \in 0 .. Capacity /\ frame' \in Seq(Packet)
    BY <1>4, CurrentType, StartedType DEF LeavePacket, LeftOver
  <2>2. faults' \in 0 .. MaxFaults /\ devErr' \in 0 .. CounterMod - 1
    BY <1>4, DisturbType, IncType DEF LeavePacket, TypeOK
  <2> QED
    BY <1>4, <2>1, <2>2 DEF LeavePacket, TypeOK
<1> QED
  BY <1>1, <1>2, <1>3, <1>4

LEMMA FinishType == ASSUME TypeOK, FinishFrame PROVE TypeOK'
<1>1. CASE CompleteFrameFails
  <2>1. faults' \in 0 .. MaxFaults /\ Forgotten \subseteq Packet
    BY <1>1, DisturbType DEF CompleteFrameFails, TypeOK, Forgotten
  <2>2. free' \in 0 .. Capacity
    BY <1>1, DownlinkAssumption DEF CompleteFrameFails, TypeOK
  <2> QED
    BY <1>1, <2>1, <2>2, IncType DEF CompleteFrameFails, TypeOK
<1>2. CASE SendFrame \/ SendFails \/ SynchronizeFails
  <2>1. PICK insecure \in {0, 1}, failed \in {0, 1} : CompleteFrame(insecure, failed)
    BY <1>2 DEF SendFrame, SendFails, SynchronizeFails
  <2>2. devErr + Errors(insecure, failed) \in Nat
    BY DownlinkAssumption DEF TypeOK, Errors
  <2>3. devErr' \in 0 .. CounterMod - 1
    BY <2>1, <2>2, DownlinkAssumption DEF CompleteFrame
  <2>4. faults' \in 0 .. MaxFaults
    BY <2>1, DownlinkAssumption DEF CompleteFrame, Fail, TypeOK
  <2>5. ready' = FALSE /\ frame' = <<>> /\ UNCHANGED <<sizes, pipe, pktCount, free>>
    BY <2>1 DEF CompleteFrame
  <2>6. /\ sent \o frame \in Seq(Packet) /\ ToSet(frame) \subseteq Packet
        /\ Forgotten \subseteq Packet
    BY DEF TypeOK, ToSet, Forgotten
  <2>7. sent' \in Seq(Packet) /\ lost' \subseteq Packet
    BY <1>2, <2>6 DEF SendFrame, SendFails, SynchronizeFails, TypeOK
  <2>8. pending' \in Packet \cup {NoPacket} /\ pc' \in {"idle", "pack", "finish"}
    BY <1>2 DEF SendFrame, SendFails, SynchronizeFails, AfterFrame, TypeOK
  <2>9. devCount' \in 0 .. CounterMod - 1
    BY <1>2, IncType DEF SendFrame, SendFails, SynchronizeFails, TypeOK
  <2>10. /\ sizes' \in Seq(Sizes) /\ Len(sizes') <= MaxPackets /\ pktCount' \in 0 .. MaxTx
         /\ pipe' \in Seq(Packet) /\ Len(pipe') <= PipeDepth /\ free' \in 0 .. Capacity
    BY <2>5 DEF TypeOK
  <2>11. ready' \in BOOLEAN
    BY <2>5
  <2>12. frame' \in Seq(Packet)
    <3>1. <<>> \in Seq(Packet)
      OBVIOUS
    <3> QED
      BY <2>5, <3>1, Zenon
  <2> QED
    BY <2>3, <2>4, <2>7, <2>8, <2>9, <2>10, <2>11, <2>12 DEF TypeOK, Packet
<1> QED
  BY <1>1, <1>2 DEF FinishFrame

LEMMA TypeStep == ASSUME OInv, TypeOK, [Next]_vars PROVE TypeOK'
<1>1. CASE UNCHANGED vars
  BY <1>1 DEF vars, counts, TypeOK
<1> QED
  BY <1>1, EnvironmentType, PackType, FinishType DEF Next, Downlink

\* Every variable keeps its type; in particular the octets reported free are never
\* negative and a poll never packs more than its limit of packets.
THEOREM TypeCorrect == Spec => []TypeOK
<1>1. ASSUME Init PROVE TypeOK
  <2>1. /\ <<>> \in Seq(Sizes) /\ <<>> \in Seq(Packet) /\ Len(<<>>) = 0
        /\ 0 \in 0 .. CounterMod - 1 /\ 0 \in 0 .. MaxTx /\ 0 \in 0 .. MaxFaults
        /\ 0 \in 0 .. Capacity /\ 0 <= MaxPackets /\ 0 <= PipeDepth
    BY DownlinkAssumption
  <2>2. /\ sizes = <<>> /\ pipe = <<>> /\ pc = "idle" /\ pktCount = 0 /\ pending = NoPacket
        /\ free = 0 /\ frame = <<>> /\ sent = <<>> /\ lost = {}
        /\ devCount = 0 /\ devErr = 0 /\ faults = 0
    BY <1>1 DEF Init
  <2>3. ready \in BOOLEAN
    BY <1>1 DEF Init
  <2> QED
    BY <2>1, <2>2, <2>3 DEF TypeOK
<1> QED
  BY <1>1, TypeStep, OInvariant, PTL DEF Spec

\* No application publishes a packet that an empty frame cannot take.
NoneTooLarge == \A n \in Sizes : n < Capacity

\* What is left below a limit when n of it is used.
LEMMA LeftBelow ==
  ASSUME NEW limit \in Nat, NEW n \in 0 .. limit
  PROVE  limit - n \in Nat
  OBVIOUS

LEMMA LeftType == TypeOK => Left
  BY DownlinkAssumption DEF TypeOK, Left, PacketsLeft, PartsLeft

LEMMA PackLeaves ==
  ASSUME NoneTooLarge, OInv, TypeOK, PipeEmpty \/ StartFrameFails \/ AddPacket \/ LeavePacket
  PROVE  LessIsLeft \/ devErr' # devErr
<1>1. /\ pc = "pack" /\ pktCount \in Nat /\ pktCount < MaxTx /\ ready \in BOOLEAN
      /\ devErr \in 0 .. CounterMod - 1
  BY DEF PipeEmpty, StartFrameFails, AddPacket, LeavePacket, OInv, IInv, WithinLimit, TypeOK
<1>2. Inc(devErr) # devErr
  BY <1>1, CountChanges DEF Inc
<1>3. CASE PipeEmpty
  BY <1>1, <1>3, DownlinkAssumption DEF PipeEmpty, LessIsLeft, PacketsLeft
<1>4. CASE StartFrameFails
  BY <1>2, <1>4 DEF StartFrameFails
<1>5. CASE AddPacket
  BY <1>1, <1>5, DownlinkAssumption DEF AddPacket, NextCount, LessIsLeft, PacketsLeft
<1>6. CASE LeavePacket /\ Fits(Current)
  BY <1>2, <1>6 DEF LeavePacket
<1>7. CASE LeavePacket /\ ~Fits(Current)
  <2>1. UNCHANGED pktCount /\ pc' = "finish" /\ ready' = TRUE
    BY <1>7 DEF LeavePacket
  <2>2. sizes[Current] \in Nat /\ sizes[Current] < Capacity
    BY <1>7, CurrentType, SizesAssumption DEF LeavePacket, NoneTooLarge
  <2>3. ready
    BY <1>7, <2>2, DownlinkAssumption DEF Fits, StartedFree
  <2>4. PartsLeft = 3 /\ PartsLeft' = 2
    BY <1>1, <2>1, <2>3 DEF PartsLeft
  <2> QED
    BY <2>1, <2>4 DEF LessIsLeft, PacketsLeft
<1> QED
  BY <1>3, <1>4, <1>5, <1>6, <1>7

LEMMA FinishLeaves == ASSUME TypeOK, FinishFrame PROVE LessIsLeft
<1>1. pc = "finish" /\ ready \in BOOLEAN /\ pktCount' = pktCount
  BY DEF FinishFrame, CompleteFrameFails, SendFrame, SendFails, SynchronizeFails,
      CompleteFrame, TypeOK
<1>2. PartsLeft' < PartsLeft
  <2>1. CASE CompleteFrameFails
    <3>1. pc' = "idle" /\ ready' = ready
      BY <2>1 DEF CompleteFrameFails
    <3> QED
      BY <1>1, <3>1 DEF PartsLeft
  <2>2. CASE SendFrame \/ SendFails \/ SynchronizeFails
    <3>1. ready /\ ready' = FALSE /\ pc' \in {"pack", "idle"}
      BY <2>2 DEF SendFrame, SendFails, SynchronizeFails, CompleteFrame, AfterFrame
    <3>2. PartsLeft = 2 /\ PartsLeft' \in {0, 1}
      BY <1>1, <3>1 DEF PartsLeft
    <3> QED
      BY <3>2
  <2> QED
    BY <2>1, <2>2 DEF FinishFrame
<1>3. PacketsLeft' = PacketsLeft
  BY <1>1 DEF PacketsLeft
<1> QED
  BY <1>2, <1>3 DEF LessIsLeft

\* When each packet fits in an empty frame, every step of a poll (radio_app.c:1005-1150)
\* brings it nearer to its end or counts an error, for every limit and capacity.  That a poll
\* which counts no error ends is what it says; the runs downlink_oversized and
\* downlink_failing show that both conditions are needed.
THEOREM PollProgress == NoneTooLarge => (Spec => PollAdvances)
<1> DEFINE Advance == Left /\ Left' /\ (LessIsLeft \/ devErr' # devErr)
<1>1. ASSUME NoneTooLarge, OInv, TypeOK, TypeOK', Downlink PROVE Advance
  <2>1. Left
    BY <1>1, LeftType
  <2>2. Left'
    <3>1. /\ pktCount' \in 0 .. MaxTx /\ ready' \in BOOLEAN
          /\ pc' \in {"idle", "pack", "finish"} /\ MaxTx \in Nat
      BY <1>1, DownlinkAssumption DEF TypeOK
    <3>2. PartsLeft' \in 0 .. 3
      BY <3>1 DEF PartsLeft
    <3>3. PacketsLeft' = MaxTx - pktCount'
      BY DEF PacketsLeft
    <3>4. PacketsLeft' \in Nat
      <4>1. MaxTx - pktCount' \in Nat
        BY <3>1, LeftBelow
      <4> QED
        BY <3>3, <4>1
    <3> QED
      BY <3>2, <3>4 DEF Left
  <2>3. LessIsLeft \/ devErr' # devErr
    BY <1>1, PackLeaves, FinishLeaves DEF Downlink
  <2> QED
    BY <2>1, <2>2, <2>3
<1>2. NoneTooLarge /\ OInv /\ TypeOK /\ TypeOK' /\ [Next]_vars => [Downlink => Advance]_vars
  BY <1>1
<1> HIDE DEF Advance
<1>3. SUFFICES ASSUME NoneTooLarge PROVE Spec => [][Downlink => Advance]_vars
  BY DEF Advance, PollAdvances
<1> QED
  BY <1>2, <1>3, TypeCorrect, OInvariant, PTL DEF Spec
=============================================================================
