------------------------- MODULE PacketScan_proofs --------------------------
(***************************************************************************)
(* The scan for space packets, for every width of the length field, every    *)
(* header length and every payload.  The one fact all rests on: a length     *)
(* that wraps around falls below the smallest packet, so the test of the     *)
(* size (radio_app.c:905) refuses exactly the lengths that wrapped.          *)
(***************************************************************************)
EXTENDS PacketScan, TLAPS

\* What lies behind the scan: the packets forwarded end at or before scan_offset.
Behind ==
  \A k \in 1 .. Len(forwarded) :
    /\ HasHeader(forwarded[k])
    /\ forwarded[k] + TrueSize(forwarded[k]) <= offset

\* On a payload of command packets only, the scan is at the beginning of one or at
\* the end, and has forwarded those before.
OnBoundary ==
  \A B \in SUBSET (0 .. Len(pdu)) :
    Boundaries(B) =>
      /\ offset \in B
      /\ \A x : x \in Range(forwarded) <=> x \in B /\ x < offset

AtEnd == state = "done" => ~HasHeader(offset)
Fresh == state = "idle" => pdu = <<>> /\ offset = 0 /\ forwarded = <<>>

IInv == TypeOK /\ Behind /\ Disjoint /\ OnBoundary /\ AtEnd /\ Fresh

USE DEF MinTotal

\* uint16 arithmetic: a sum below twice the modulus wraps at most once.
LEMMA WrapOnce ==
  ASSUME NEW n \in Nat, n < WordMod + WordMod
  PROVE  n % WordMod = IF n < WordMod THEN n ELSE n - WordMod
<1>1. CASE n < WordMod
  BY <1>1, WidthAssumption
<1>2. CASE n >= WordMod
  <2>1. n - WordMod \in 0 .. WordMod - 1 /\ WordMod > 0
    BY <1>2, WidthAssumption
  <2>2. ((n - WordMod) + 1 * WordMod) % WordMod = n - WordMod
    BY <2>1, WidthAssumption
  <2> QED
    BY <1>2, <2>2, WidthAssumption
<1> QED
  BY <1>1, <1>2, WidthAssumption

\* A header holds the octets of two fields of the payload.
LEMMA HeaderType ==
  ASSUME TypeOK, NEW o \in Nat, HasHeader(o)
  PROVE  PacketLen(o) \in 0 .. WordMod - 1 /\ TrueSize(o) \in Nat /\ TrueSize(o) > HdrLen
<1>1. o + HdrLen \in 1 .. Len(pdu)
  BY WidthAssumption DEF HasHeader, TypeOK
<1>2. pdu[o + HdrLen] \in Octets
  BY <1>1 DEF TypeOK
<1>3. PacketLen(o) \in 0 .. WordMod - 1
  BY <1>2, PduAssumption DEF PacketLen
<1> HIDE DEF PacketLen
<1> QED
  BY <1>3, WidthAssumption DEF TrueSize

\* The packet that is accepted has the size its header says, wrapped or not.
LEMMA AcceptedSize ==
  ASSUME TypeOK, NEW o \in Nat, HasHeader(o)
  PROVE  /\ TotalSize(o) \in Nat
         /\ TotalSize(o) >= MinTotal => TotalSize(o) = TrueSize(o)
         /\ TrueSize(o) <= Len(pdu) => TotalSize(o) = TrueSize(o)
<1>1. PacketLen(o) \in 0 .. WordMod - 1 /\ TrueSize(o) = PacketLen(o) + MinTotal
  BY HeaderType DEF TrueSize
<1>2. TotalSize(o) = IF TrueSize(o) < WordMod THEN TrueSize(o) ELSE TrueSize(o) - WordMod
  BY <1>1, WrapOnce, WidthAssumption DEF TotalSize
<1>3. Len(pdu) \in Nat /\ Len(pdu) < WordMod
  BY WidthAssumption, PduAssumption DEF TypeOK
<1> QED
  BY <1>1, <1>2, <1>3, WidthAssumption

LEMMA InitScan == Init => IInv
<1> SUFFICES ASSUME Init PROVE IInv
  OBVIOUS
<1>1. TypeOK
  BY PduAssumption DEF Init, TypeOK
<1>2. OnBoundary
  <2> SUFFICES ASSUME NEW B \in SUBSET (0 .. Len(pdu)), Boundaries(B)
              PROVE  offset \in B /\ \A x : x \in Range(forwarded) <=> x \in B /\ x < offset
    BY DEF OnBoundary
  <2>1. Range(forwarded) = {}
    BY DEF Init, Range
  <2>2. \A b \in B : ~(b < 0)
    BY DEF Init
  <2>3. 0 \in B /\ offset = 0
    BY DEF Init, Boundaries
  <2> QED
    BY <2>1, <2>2, <2>3
<1> QED
  BY <1>1, <1>2 DEF Init, IInv, Behind, Disjoint, AtEnd, Fresh

\* The scan begins anew.
LEMMA BeginKeeps ==
  ASSUME pdu' \in Seq(Octets), Len(pdu') <= MaxPdu, offset' = 0, forwarded' = <<>>,
         state' \in {"idle", "scan"}, state' = "idle" => pdu' = <<>>
  PROVE  IInv'
<1>1. TypeOK' /\ Behind' /\ Disjoint' /\ AtEnd' /\ Fresh'
  BY DEF TypeOK, Behind, Disjoint, AtEnd, Fresh
<1>2. OnBoundary'
  <2> SUFFICES ASSUME NEW B \in SUBSET (0 .. Len(pdu')), Boundaries(B)'
              PROVE  offset' \in B /\ \A x : x \in Range(forwarded') <=> x \in B /\ x < offset'
    BY DEF OnBoundary
  <2>1. Range(forwarded') = {}
    BY DEF Range
  <2>2. \A b \in B : ~(b < 0)
    OBVIOUS
  <2>3. 0 \in B
    BY DEF Boundaries
  <2> QED
    BY <2>1, <2>2, <2>3
<1> QED
  BY <1>1, <1>2 DEF IInv

\* A packet goes to the software bus: it lies behind the others and in the payload.
LEMMA ForwardKeeps == ASSUME IInv, Forward PROVE IInv'
<1> DEFINE o == offset
           size == TrueSize(offset)
<1>1. /\ o \in Nat /\ HasHeader(o) /\ IsPacket(o) /\ TypeOK /\ state = "scan"
      /\ offset' = o + TotalSize(o) /\ forwarded' = Append(forwarded, o)
      /\ pdu' = pdu /\ state' = state
  BY DEF IInv, TypeOK, Forward, NextOffset
<1>2. /\ size \in Nat /\ size > HdrLen /\ TotalSize(o) = size
      /\ o + size <= Len(pdu) /\ offset' = o + size
  BY <1>1, HeaderType, AcceptedSize DEF IsPacket
<1> HIDE DEF size
<1>3. /\ Len(pdu) \in Nat /\ Len(forwarded) \in Nat
      /\ Len(forwarded') = Len(forwarded) + 1
      /\ forwarded'[Len(forwarded) + 1] = o
      /\ \A k \in 1 .. Len(forwarded) : forwarded'[k] = forwarded[k]
      /\ \A k \in 1 .. Len(forwarded') : k = Len(forwarded) + 1 \/ k \in 1 .. Len(forwarded)
  BY <1>1 DEF TypeOK
<1>4. TypeOK'
  BY <1>1, <1>2, <1>3, WidthAssumption DEF TypeOK
<1>5. \A x : HasHeader(x)' = HasHeader(x) /\ TrueSize(x)' = TrueSize(x)
  BY <1>1 DEF HasHeader, TrueSize, PacketLen
<1>6. \A k \in 1 .. Len(forwarded) :
        /\ forwarded[k] \in Nat /\ HasHeader(forwarded[k])
        /\ TrueSize(forwarded[k]) \in Nat /\ forwarded[k] + TrueSize(forwarded[k]) <= o
  BY <1>1, HeaderType DEF IInv, Behind, TypeOK
<1>7. Behind'
  BY <1>1, <1>2, <1>3, <1>5, <1>6, WidthAssumption DEF Behind, size
<1>8. Disjoint'
  BY <1>1, <1>2, <1>3, <1>5, <1>6 DEF IInv, Disjoint
<1>9. OnBoundary'
  <2> SUFFICES ASSUME NEW B \in SUBSET (0 .. Len(pdu)), Boundaries(B)
              PROVE  offset' \in B /\ \A x : x \in Range(forwarded') <=> x \in B /\ x < offset'
    BY <1>1 DEF OnBoundary, Boundaries, HasHeader, Command, TrueSize, PacketLen
  <2>1. o \in B /\ \A x : x \in Range(forwarded) <=> x \in B /\ x < o
    BY DEF IInv, OnBoundary
  <2>2. o # Len(pdu)
    BY <1>1, <1>3, WidthAssumption DEF HasHeader
  <2>3. o + size \in B /\ \A c \in B : c <= o \/ c >= o + size
    BY <2>1, <2>2 DEF Boundaries, size
  <2>4. Range(forwarded') = Range(forwarded) \cup {o}
    <3>1. DOMAIN forwarded = 1 .. Len(forwarded) /\ DOMAIN forwarded' = 1 .. Len(forwarded')
      BY <1>1 DEF TypeOK
    <3> QED
      BY <1>3, <3>1 DEF Range
  <2>5. \A b \in B : b < o + size <=> b < o \/ b = o
    <3>1. \A b \in B : b \in Nat
      OBVIOUS
    <3> HIDE DEF o
    <3> QED
      BY <1>1, <1>2, <2>1, <2>3, <3>1, WidthAssumption
  <2> QED
    BY <1>2, <2>1, <2>3, <2>4, <2>5
<1>10. AtEnd' /\ Fresh'
  BY <1>1 DEF AtEnd, Fresh
<1> QED
  BY <1>4, <1>7, <1>8, <1>9, <1>10 DEF IInv

\* An octet is stepped over, which on a boundary never happens.
LEMMA StepOverKeeps == ASSUME IInv, StepOver PROVE IInv'
<1>1. /\ offset \in Nat /\ HasHeader(offset) /\ ~IsPacket(offset) /\ TypeOK /\ state = "scan"
      /\ offset' = offset + 1 /\ forwarded' = forwarded /\ pdu' = pdu /\ state' = state
  BY DEF IInv, TypeOK, StepOver, PastOther
<1>2. TypeOK'
  BY <1>1, WidthAssumption DEF TypeOK, HasHeader
<1>3. Behind' /\ Disjoint'
  <2>1. \A k \in 1 .. Len(forwarded) :
          /\ HasHeader(forwarded[k]) /\ forwarded[k] \in Nat
          /\ TrueSize(forwarded[k]) \in Nat /\ forwarded[k] + TrueSize(forwarded[k]) <= offset
    BY <1>1, HeaderType DEF IInv, Behind, TypeOK
  <2>2. \A x : HasHeader(x)' = HasHeader(x) /\ TrueSize(x)' = TrueSize(x)
    BY <1>1 DEF HasHeader, TrueSize, PacketLen
  <2> QED
    BY <1>1, <2>1, <2>2 DEF IInv, Behind, Disjoint
<1>4. OnBoundary'
  <2> SUFFICES ASSUME NEW B \in SUBSET (0 .. Len(pdu)), Boundaries(B) PROVE FALSE
    BY <1>1 DEF OnBoundary, Boundaries, HasHeader, Command, TrueSize, PacketLen
  <2>1. offset \in B /\ offset # Len(pdu) /\ Len(pdu) \in Nat
    BY <1>1, WidthAssumption DEF IInv, OnBoundary, HasHeader, TypeOK
  <2>2. Command(offset) /\ offset + TrueSize(offset) \in B
    BY <2>1 DEF Boundaries
  <2>3. offset + TrueSize(offset) <= Len(pdu)
    <3>1. \A b \in B : b \in Nat /\ b <= Len(pdu)
      BY <2>1
    <3> QED
      BY <2>2, <3>1
  <2>4. TotalSize(offset) = TrueSize(offset) /\ TrueSize(offset) >= MinTotal
    BY <1>1, <2>1, <2>3, HeaderType, AcceptedSize, WidthAssumption
  <2> QED
    BY <1>1, <2>2, <2>3, <2>4 DEF IsPacket
<1>5. AtEnd' /\ Fresh'
  BY <1>1 DEF AtEnd, Fresh
<1> QED
  BY <1>2, <1>3, <1>4, <1>5 DEF IInv

LEMMA ScanStep == ASSUME IInv, [Next]_vars PROVE IInv'
<1>1. CASE Decrypt
  <2>1. /\ pdu' \in Seq(Octets) /\ Len(pdu') <= MaxPdu /\ state' = "scan"
        /\ offset' = 0 /\ forwarded' = <<>>
    BY <1>1 DEF Decrypt, BoundedSeq, SeqOf, IInv, Fresh
  <2> QED
    BY <2>1, BeginKeeps
<1>2. CASE Forward
  BY <1>2, ForwardKeeps
<1>3. CASE StepOver
  BY <1>3, StepOverKeeps
<1>4. CASE EndScan
  BY <1>4 DEF EndScan, IInv, TypeOK, Behind, Disjoint, OnBoundary, AtEnd, Fresh, HasHeader,
      TrueSize, PacketLen, Boundaries, Command
<1>5. CASE NextFrame
  <2>1. pdu' = <<>> /\ offset' = 0 /\ forwarded' = <<>> /\ state' = "idle"
    BY <1>5 DEF NextFrame
  <2> QED
    BY <2>1, BeginKeeps, PduAssumption
<1>6. CASE UNCHANGED vars
  BY <1>6 DEF vars, IInv, TypeOK, Behind, Disjoint, OnBoundary, AtEnd, Fresh, HasHeader,
      TrueSize, PacketLen, Boundaries, Command
<1> QED
  BY <1>1, <1>2, <1>3, <1>4, <1>5, <1>6 DEF Next, Scan

LEMMA ScanInvariant == Spec => []IInv
  BY InitScan, ScanStep, PTL DEF Spec

\* For every payload and every width of the fields, what the software bus reads of
\* a packet lies inside the payload (radio_app.c:905).
THEOREM BusReadsInside == Spec => []InsidePdu
<1>1. IInv => InsidePdu
  <2> SUFFICES ASSUME IInv, NEW k \in 1 .. Len(forwarded)
              PROVE  forwarded[k] + TrueSize(forwarded[k]) <= Len(pdu)
    BY DEF InsidePdu
  <2>1. forwarded[k] \in Nat /\ HasHeader(forwarded[k]) /\ TypeOK
    BY DEF IInv, TypeOK, Behind
  <2>2. TrueSize(forwarded[k]) \in Nat /\ forwarded[k] + TrueSize(forwarded[k]) <= offset
    BY <2>1, HeaderType DEF IInv, Behind
  <2>3. offset <= Len(pdu) /\ offset \in Nat /\ Len(pdu) \in Nat
    BY <2>1 DEF TypeOK
  <2> QED
    BY <2>1, <2>2, <2>3
<1> QED
  BY <1>1, ScanInvariant, PTL

\* No octet is taken for part of two packets (radio_app.c:928).
THEOREM PacketsDisjoint == Spec => []Disjoint
<1>1. IInv => Disjoint
  BY DEF IInv
<1> QED
  BY <1>1, ScanInvariant, PTL

\* A payload of command packets is forwarded packet by packet (radio_app.c:893-930).
THEOREM PacketsForwarded == Spec => []StreamForwarded
<1>1. IInv => StreamForwarded
  <2> SUFFICES ASSUME IInv, state = "done", NEW B \in SUBSET (0 .. Len(pdu)), Boundaries(B)
              PROVE  Range(forwarded) = B \ {Len(pdu)}
    BY DEF StreamForwarded
  <2>1. /\ offset \in B
        /\ \A x : x \in Range(forwarded) <=> x \in B /\ x < offset
        /\ offset \in Nat /\ Len(pdu) \in Nat /\ ~HasHeader(offset)
    BY DEF IInv, OnBoundary, TypeOK, AtEnd
  <2>2. offset = Len(pdu)
    BY <2>1 DEF Boundaries
  <2>3. \A b \in B : b \in Nat /\ b <= Len(pdu)
    BY <2>1
  <2>4. \A b \in B : b < offset <=> b # Len(pdu)
    BY <2>1, <2>2, <2>3
  <2> QED
    BY <2>1, <2>4
<1> QED
  BY <1>1, ScanInvariant, PTL

\* For every payload the scan makes at most one turn for each octet (radio_app.c:893), the
\* part of its termination that needs no fairness.
THEOREM ScanProgress == Spec => ScanAdvances
<1> DEFINE Lower == ScanLeft \in Nat /\ ScanLeft' \in Nat /\ ScanLeft' < ScanLeft
<1>1. ASSUME IInv, IInv', Scan PROVE Lower
  <2>1. /\ offset \in Nat /\ Len(pdu) \in Nat /\ offset <= Len(pdu)
        /\ offset' \in Nat /\ offset' <= Len(pdu)'
    BY <1>1 DEF IInv, TypeOK
  <2>2. /\ state = "scan" /\ pdu' = pdu
        /\ \/ state' = "scan" /\ offset' > offset
           \/ state' = "done" /\ offset' = offset
    <3>1. CASE Forward
      <4>1. TotalSize(offset) \in Nat /\ TotalSize(offset) > 0
        BY <1>1, <2>1, <3>1, AcceptedSize, HeaderType, WidthAssumption
           DEF IInv, Forward, IsPacket
      <4> QED
        BY <2>1, <3>1, <4>1 DEF Forward, NextOffset
    <3>2. CASE StepOver
      BY <2>1, <3>2 DEF StepOver, PastOther
    <3>3. CASE EndScan
      BY <3>3 DEF EndScan
    <3> QED
      BY <1>1, <3>1, <3>2, <3>3 DEF Scan
  <2> QED
    BY <2>1, <2>2 DEF ScanLeft
<1>2. IInv /\ IInv' /\ [Next]_vars => [Scan => Lower]_vars
  BY <1>1
<1> HIDE DEF Lower
<1>3. Spec => [][Scan => Lower]_vars
  BY <1>2, ScanInvariant, PTL DEF Spec
<1> QED
  BY <1>3 DEF Lower, ScanAdvances
=============================================================================
