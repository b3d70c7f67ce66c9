------------------------ MODULE RadioUplink_proofs -------------------------
(***************************************************************************)
(* Proofs about RadioUplink for every buffer, header and frame length and   *)
(* any noise, loss, failed read and power cycle.                            *)
(***************************************************************************)
EXTENDS RadioUplink, FiniteSetTheorems, SequenceTheorems, TLAPS

IInv == TypeOK /\ InBounds /\ AlwaysRoom /\ KeptIsPartial

\* The bytes of a frame are bytes, and there are n of them.
LEMMA FrameBytesType ==
  ASSUME NEW f \in 1 .. MaxFrames, NEW n \in FrameLens, NEW c \in BodyClaims
  PROVE  FrameBytes(f, n, c) \in Seq(Byte)
<1>1. n \in 1 .. MaxPayload /\ c \in Claim
  BY SizeAssumption, StreamAssumption DEF Claim
<1>2. \A i \in 1 .. n : FrameBytes(f, n, c)[i] \in Byte
  BY <1>1, SizeAssumption DEF FrameBytes, Byte, Claim
<1> QED BY <1>1, <1>2 DEF FrameBytes

\* A count of bytes is a number.
LEMMA ShareType ==
  ASSUME NEW f, NEW s \in Seq(Byte) PROVE Share(f, s) \in Nat
<1>1. IsFiniteSet(1 .. Len(s))
  BY FS_Interval
<1>2. IsFiniteSet({i \in 1 .. Len(s) : s[i].frame = f})
  BY <1>1, FS_Subset
<1> QED BY <1>2, FS_CardinalityType DEF Share

\* A read takes what fits, and splits the ring in two.
LEMMA ChunkType ==
  ASSUME TypeOK, Len(buf) <= MaxPayload
  PROVE  /\ Chunk \in Seq(Byte) /\ RestOfRing \in Seq(Byte)
         /\ Len(Chunk) <= MaxPayload - Len(buf)
<1>1. Taken \in 0 .. Len(ring) /\ Taken <= MaxPayload - Len(buf)
  BY SizeAssumption DEF Taken, Room, TypeOK
<1> QED BY <1>1 DEF Chunk, RestOfRing, TypeOK

\* The next read or the end of the poll: what Keep and an empty read share.
LEMMA NextTryType ==
  ASSUME TypeOK, pc # "idle", NextTry
  PROVE  /\ tries' \in 0 .. MaxRx /\ pc' \in {"idle", "recv"}
         /\ (pc' # "idle" => tries' > 0)
BY SizeAssumption DEF TypeOK, NextTry

\* An event that is spent is counted.
LEMMA SpendType ==
  ASSUME TypeOK, NEW e \in Event, Spend(e) PROVE spent' \in [Event -> Nat]
<1>1. spent \in [Event -> Nat]
  BY DEF TypeOK
<1>2. spent' = [spent EXCEPT ![e] = spent[e] + 1]
  BY DEF Spend
<1> QED
  BY <1>1, <1>2

\* Keeping what is past o keeps the invariant, if no complete frame is there.
LEMMA KeepStep ==
  ASSUME IInv, pc = "parse", NEW o \in 0 .. Len(buf), Keep(o),
         \/ Len(buf) - o < HdrLen
         \/ ClaimAt(o) >= HdrLen /\ ~CompleteAt(o)
  PROVE  IInv'
<1>1. /\ buf \in Seq(Byte)
      /\ buf' = SubSeq(buf, o + 1, Len(buf)) /\ offset' = 0
      /\ UNCHANGED <<ring, devErr, sent, got, handed, spent>>
  BY DEF Keep, Remainder, IInv, TypeOK
<1>2. /\ buf' \in Seq(Byte) /\ Len(buf') = Len(buf) - o
      /\ \A i \in 1 .. Len(buf) - o : buf'[i] = buf[o + i]
  BY <1>1
<1>3. TypeOK'
  <2>1. /\ tries' \in 0 .. MaxRx /\ pc' \in {"idle", "recv"}
        /\ (pc' # "idle" => tries' > 0)
    BY NextTryType DEF Keep, IInv
  <2> QED BY <1>1, <1>2, <2>1 DEF IInv, TypeOK
<1>4. InBounds'
  <2>1. Len(buf) \in Nat
    BY <1>1
  <2> QED BY <1>1, <1>2, <2>1, SizeAssumption DEF IInv, InBounds
<1>5. CASE Len(buf) - o < HdrLen
  <2>1. Len(buf') < HdrLen /\ Len(buf') < MaxPayload
    BY <1>1, <1>2, <1>5, SizeAssumption
  <2>2. AlwaysRoom' /\ KeptIsPartial'
    BY <2>1 DEF AlwaysRoom, KeptIsPartial
  <2> QED BY <1>3, <1>4, <2>2 DEF IInv
<1>6. CASE /\ ~(Len(buf) - o < HdrLen)
           /\ ClaimAt(o) >= HdrLen /\ ~CompleteAt(o)
  <2>0. Len(buf) \in Nat /\ Len(buf) - o >= 1
    BY <1>1, <1>6, SizeAssumption
  <2>1. buf'[1] = buf[o + 1] /\ buf[o + 1] \in Byte
    BY <1>1, <1>2, <2>0
  <2>a. buf'[1].claim \in 1 .. MaxPayload
    BY <2>1 DEF Byte, Claim
  <2>b. buf'[1].claim >= HdrLen /\ ~(o + buf'[1].claim <= Len(buf))
    BY <1>6, <2>1 DEF ClaimAt, CompleteAt
  <2>2. buf'[1].claim >= HdrLen /\ ~(buf'[1].claim <= Len(buf'))
    BY <1>2, <2>0, <2>a, <2>b
  <2>3. AlwaysRoom'
    BY <1>2, <2>0, <2>a, <2>2, SizeAssumption DEF AlwaysRoom
  <2>4. KeptIsPartial'
    BY <1>2, <2>a, <2>2 DEF KeptIsPartial, ClaimAt, CompleteAt
  <2> QED BY <1>3, <1>4, <2>3, <2>4 DEF IInv
<1> QED BY <1>5, <1>6

LEMMA ReceiveStep == ASSUME IInv, Receive PROVE IInv'
<1>1. /\ Chunk \in Seq(Byte) /\ RestOfRing \in Seq(Byte)
      /\ Len(Chunk) <= MaxPayload - Len(buf)
  BY ChunkType DEF IInv, InBounds
<1>2. /\ ring' \in Seq(Byte) /\ buf' \in Seq(Byte)
      /\ Len(buf') = Len(buf) + Len(Chunk) /\ buf' = buf \o Chunk
      /\ Len(buf') <= MaxPayload
  BY <1>1, SizeAssumption DEF Receive, IInv, TypeOK
<1>3. got' \in [1 .. MaxFrames -> Nat]
  <2>1. \A f \in 1 .. MaxFrames : Share(f, Chunk) \in Nat
    BY <1>1, ShareType
  <2> QED BY <2>1 DEF Receive, IInv, TypeOK
<1>4. CASE Len(buf') > 0 /\ pc' = "parse" /\ UNCHANGED tries
  BY <1>2, <1>3, <1>4 DEF Receive, IInv, TypeOK, InBounds, AlwaysRoom, KeptIsPartial
<1>5. CASE Len(buf') = 0 /\ NextTry
  <2>1. /\ tries' \in 0 .. MaxRx /\ pc' \in {"idle", "recv"}
        /\ (pc' # "idle" => tries' > 0)
    BY <1>5, NextTryType DEF Receive, IInv
  <2>2. TypeOK'
    BY <1>2, <1>3, <2>1 DEF Receive, IInv, TypeOK
  <2>3. Len(buf') < HdrLen /\ Len(buf') < MaxPayload /\ offset' <= Len(buf')
    BY <1>5, SizeAssumption DEF Receive
  <2> QED BY <1>2, <2>2, <2>3 DEF IInv, InBounds, AlwaysRoom, KeptIsPartial
<1> QED BY <1>2, <1>4, <1>5 DEF Receive

LEMMA HandStep == ASSUME IInv, HandFrame PROVE IInv'
<1> DEFINE s == SubSeq(buf, offset + 1, offset + ClaimAt(offset))
<1>1. /\ buf \in Seq(Byte) /\ offset \in Nat
      /\ offset + 1 \in 1 .. Len(buf)
      /\ buf[offset + 1] \in Byte
  BY SizeAssumption DEF HandFrame, Parsing, HeaderAt, IInv, TypeOK, InBounds
<1>2. /\ ClaimAt(offset) \in 1 .. MaxPayload
      /\ offset + ClaimAt(offset) <= Len(buf)
  BY <1>1 DEF HandFrame, CompleteAt, ClaimAt, Byte, Claim
<1>3. s \in Seq(Byte) /\ Len(s) > 0
  <2>1. offset + ClaimAt(offset) \in 1 .. Len(buf)
    BY <1>1, <1>2
  <2>2. offset + ClaimAt(offset) \in (offset + 1) - 1 .. Len(buf)
    BY <1>1, <1>2, <2>1
  <2>3. s \in Seq(Byte)
    BY <1>1, <2>2, SubSeqProperties
  <2>4. Len(s) = ClaimAt(offset)
    BY <1>1, <1>2, <2>1
  <2> QED BY <1>2, <2>3, <2>4
<1>4. FrameOf(s) \in 0 .. MaxFrames
  <2> HIDE DEF s
  <2>1. s[1] \in Byte
    BY <1>3
  <2>2. s[1].frame \in 0 .. MaxFrames /\ 0 \in 0 .. MaxFrames
    BY <2>1, SizeAssumption DEF Byte
  <2> QED BY <2>2 DEF FrameOf
<1>5. handed' \in Seq(0 .. MaxFrames)
  BY <1>4 DEF HandFrame, IInv, TypeOK
<1>6. devErr' \in 0 .. CounterMod - 1
  BY SizeAssumption DEF HandFrame, IInv, TypeOK
<1>7. offset' \in Nat /\ offset' <= Len(buf)
  BY <1>1, <1>2 DEF HandFrame
<1> QED
  BY <1>5, <1>6, <1>7 DEF HandFrame, Parsing, IInv, TypeOK, InBounds, AlwaysRoom, KeptIsPartial

LEMMA EnvironmentStep ==
  ASSUME IInv, GroundSends \/ Noise \/ PowerCycle PROVE IInv'
<1>1. spent' \in [Event -> Nat]
  BY DEF GroundSends, Noise, PowerCycle, Spend, Event, IInv, TypeOK
<1>2. ring' \in Seq(Byte) /\ sent' \in Seq(FrameLens) /\ Len(sent') <= MaxFrames
  <2>1. CASE GroundSends
    <3>1. PICK n \in FrameLens, c \in BodyClaims :
            /\ sent' = Append(sent, n)
            /\ ring' = ring \o FrameBytes(Len(sent) + 1, n, c)
      BY <2>1 DEF GroundSends
    <3>2. Len(sent) + 1 \in 1 .. MaxFrames /\ sent \in Seq(FrameLens)
      BY <2>1, SizeAssumption DEF GroundSends, IInv, TypeOK
    <3>3. FrameBytes(Len(sent) + 1, n, c) \in Seq(Byte)
      BY <3>2, FrameBytesType
    <3> QED BY <3>1, <3>2, <3>3, SizeAssumption DEF IInv, TypeOK
  <2>2. CASE Noise
    <3>1. PICK c \in NoiseClaims : ring' = Append(ring, [claim |-> c, frame |-> 0, pos |-> 0])
      BY <2>2 DEF Noise
    <3>2. [claim |-> c, frame |-> 0, pos |-> 0] \in Byte
      BY SizeAssumption, StreamAssumption DEF Byte
    <3> QED BY <2>2, <3>1, <3>2 DEF Noise, IInv, TypeOK
  <2>3. CASE PowerCycle
    BY <2>3 DEF PowerCycle, IInv, TypeOK
  <2> QED BY <2>1, <2>2, <2>3
<1>3. UNCHANGED <<buf, pc, tries, offset, devErr, got, handed>>
  BY DEF GroundSends, Noise, PowerCycle
<1> QED
  BY <1>1, <1>2, <1>3 DEF IInv, TypeOK, InBounds, AlwaysRoom, KeptIsPartial,
     ClaimAt, CompleteAt

LEMMA StepInv == IInv /\ [Next]_vars => IInv'
<1> SUFFICES ASSUME IInv, [Next]_vars PROVE IInv'
  OBVIOUS
<1> USE SizeAssumption
<1>1. CASE GroundSends \/ Noise \/ PowerCycle
  BY <1>1, EnvironmentStep
<1>2. CASE StartPoll
  BY <1>2 DEF StartPoll, IInv, TypeOK, InBounds, AlwaysRoom, KeptIsPartial, ClaimAt, CompleteAt
<1>3. CASE Receive
  BY <1>3, ReceiveStep
<1>4. CASE ReceiveFails
  <2>1. ring' \in Seq(Byte)
    BY <1>4, ChunkType DEF ReceiveFails, IInv, TypeOK, InBounds
  <2>2. spent' \in [Event -> Nat]
    BY <1>4, SpendType DEF ReceiveFails, IInv, Event
  <2>3. devErr' \in 0 .. CounterMod - 1
    BY <1>4 DEF ReceiveFails, IInv, TypeOK
  <2> QED
    BY <1>4, <2>1, <2>2, <2>3
       DEF ReceiveFails, IInv, TypeOK, InBounds, AlwaysRoom, KeptIsPartial, ClaimAt, CompleteAt
<1>5. CASE HandFrame
  BY <1>5, HandStep
<1>6. CASE Resync
  BY <1>6 DEF Resync, ResyncFrom, PlausibleAt, HeaderAt, Parsing, IInv, TypeOK,
     InBounds, AlwaysRoom, KeptIsPartial
<1>7. CASE DropBuffer
  <2>1. Len(buf) \in 0 .. Len(buf)
    BY DEF IInv, TypeOK
  <2> QED BY <1>7, <2>1, KeepStep DEF DropBuffer, Parsing
<1>8. CASE KeepPartial
  <2>1. offset \in 0 .. Len(buf)
    BY DEF IInv, TypeOK, InBounds
  <2> QED BY <1>8, <2>1, KeepStep DEF KeepPartial, Parsing
<1>9. CASE KeepTail
  <2>1. offset \in 0 .. Len(buf) /\ Len(buf) - offset < HdrLen
    BY <1>9 DEF KeepTail, HeaderAt, IInv, TypeOK, InBounds
  <2> QED BY <1>9, <2>1, KeepStep DEF KeepTail
<1>10. CASE UNCHANGED vars
  BY <1>10 DEF vars, IInv, TypeOK, InBounds, AlwaysRoom, KeptIsPartial, ClaimAt, CompleteAt
<1> QED
  BY <1>1, <1>2, <1>3, <1>4, <1>5, <1>6, <1>7, <1>8, <1>9, <1>10 DEF Next, Poll

LEMMA InitInv == Init => IInv
BY SizeAssumption DEF Init, IInv, TypeOK, InBounds, AlwaysRoom, KeptIsPartial

\* At every moment of every execution IInv holds.
THEOREM Invariance == Spec => []IInv
BY InitInv, StepInv, PTL DEF Spec

\* The parser never leaves the buffer nor the buffer its 1024 bytes.
THEOREM ParserInBounds == Spec => []InBounds
BY Invariance, PTL DEF IInv

\* A read always asks for at least one byte.
THEOREM RoomForRead == Spec => []AlwaysRoom
BY Invariance, PTL DEF IInv

\* No complete frame is left in the buffer between two reads.
THEOREM OnlyPartialKept == Spec => []KeptIsPartial
BY Invariance, PTL DEF IInv

\* The variables keep their types, for every width of the error counter.
THEOREM TypeCorrect == Spec => []TypeOK
BY Invariance, PTL DEF IInv

-----------------------------------------------------------------------------
(* The order of the frames handed over                                      *)

\* The bytes that are still to come, or were read: what a poll works on.
Stream == buf \o ring

\* Bytes of frames are in the order of the ground, and end where their frame ends.
Sorted ==
  \A i, j \in 1 .. Len(Stream) :
    i < j /\ Stream[i].frame # 0 /\ Stream[j].frame # 0 =>
      \/ Stream[i].frame < Stream[j].frame
      \/ Stream[i].frame = Stream[j].frame /\ Stream[i].pos < Stream[j].pos

Known ==
  \A i \in 1 .. Len(Stream) : Stream[i].frame # 0 =>
    Stream[i].frame <= Len(sent) /\ Stream[i].pos <= sent[Stream[i].frame]

\* What was handed over whole is older than every byte the parser has not passed.
Past ==
  \A k \in 1 .. Len(handed) : handed[k] # 0 =>
    /\ handed[k] <= Len(sent)
    /\ \A i \in 1 .. Len(Stream) :
         i > offset /\ Stream[i].frame # 0 => handed[k] < Stream[i].frame

\* Only the parser is inside the buffer.
AtFront == pc # "parse" => offset = 0

HInv == IInv /\ AtFront /\ Sorted /\ Known /\ Past /\ HandedInOrder

\* The buffer first, then the ring.
LEMMA Joined ==
  ASSUME NEW b \in Seq(Byte), NEW r \in Seq(Byte)
  PROVE  /\ b \o r \in Seq(Byte) /\ Len(b \o r) = Len(b) + Len(r)
         /\ Len(b) \in Nat /\ Len(r) \in Nat
         /\ \A i \in 1 .. Len(b) : (b \o r)[i] = b[i]
         /\ \A i \in 1 .. Len(r) : (b \o r)[Len(b) + i] = r[i]
BY ConcatProperties

LEMMA StreamParts ==
  ASSUME TypeOK
  PROVE  /\ Stream \in Seq(Byte) /\ Len(Stream) = Len(buf) + Len(ring)
         /\ Len(buf) \in Nat /\ Len(ring) \in Nat
         /\ \A i \in 1 .. Len(buf) : Stream[i] = buf[i]
         /\ \A i \in 1 .. Len(ring) : Stream[Len(buf) + i] = ring[i]
BY Joined DEF TypeOK, Stream

LEMMA NextStreamParts ==
  ASSUME TypeOK'
  PROVE  /\ Stream' \in Seq(Byte) /\ Len(Stream') = Len(buf') + Len(ring')
         /\ Len(buf') \in Nat /\ Len(ring') \in Nat
         /\ \A i \in 1 .. Len(buf') : Stream'[i] = buf'[i]
         /\ \A i \in 1 .. Len(ring') : Stream'[Len(buf') + i] = ring'[i]
BY Joined DEF TypeOK, Stream

\* Forgetting bytes, and passing bytes, keeps all that is said of the rest: n[i] is where
\* the i-th byte was.
LEMMA Forget ==
  ASSUME HInv, TypeOK', UNCHANGED <<sent, handed>>,
         NEW n \in [1 .. Len(Stream') -> 1 .. Len(Stream)],
         \A i \in 1 .. Len(Stream') : Stream'[i] = Stream[n[i]],
         \A i, j \in 1 .. Len(Stream') : i < j => n[i] < n[j],
         \A i \in 1 .. Len(Stream') : i > offset' => n[i] > offset
  PROVE  Sorted' /\ Known' /\ Past' /\ HandedInOrder'
<1> DEFINE S == Stream
           T == Stream'
<1>1. \A i \in 1 .. Len(T) : T[i] = S[n[i]] /\ n[i] \in 1 .. Len(S)
  OBVIOUS
<1>2. Sorted'
  <2>1. \A i, j \in 1 .. Len(T) :
          i < j /\ T[i].frame # 0 /\ T[j].frame # 0 =>
            T[i].frame < T[j].frame \/ (T[i].frame = T[j].frame /\ T[i].pos < T[j].pos)
    <3> SUFFICES ASSUME NEW i \in 1 .. Len(T), NEW j \in 1 .. Len(T),
                        i < j, T[i].frame # 0, T[j].frame # 0
                 PROVE  T[i].frame < T[j].frame \/ (T[i].frame = T[j].frame /\ T[i].pos < T[j].pos)
      OBVIOUS
    <3>1. /\ n[i] < n[j] /\ T[i] = S[n[i]] /\ T[j] = S[n[j]]
          /\ n[i] \in 1 .. Len(S) /\ n[j] \in 1 .. Len(S)
      BY <1>1
    <3>2. \/ S[n[i]].frame < S[n[j]].frame
          \/ S[n[i]].frame = S[n[j]].frame /\ S[n[i]].pos < S[n[j]].pos
      <4>1. Sorted
        BY DEF HInv
      <4>2. S[n[i]].frame # 0 /\ S[n[j]].frame # 0
        BY <3>1
      <4> QED
        BY <3>1, <4>1, <4>2 DEF Sorted
    <3> QED
      BY <3>1, <3>2
  <2> QED
    BY <2>1 DEF Sorted
<1>3. Known'
  BY <1>1 DEF HInv, Known
<1>4. Past'
  <2> SUFFICES ASSUME NEW k \in 1 .. Len(handed), handed[k] # 0
               PROVE  /\ handed[k] <= Len(sent)
                      /\ \A i \in 1 .. Len(T) :
                           i > offset' /\ T[i].frame # 0 => handed[k] < T[i].frame
    BY DEF Past
  <2> QED
    BY <1>1 DEF HInv, Past
<1>5. HandedInOrder'
  BY DEF HInv, HandedInOrder
<1> QED
  BY <1>2, <1>3, <1>4, <1>5

\* A frame of the ground is put behind what is there.
LEMMA GroundStream ==
  ASSUME TypeOK, GroundSends
  PROVE  \E n \in FrameLens, c \in BodyClaims :
           LET fresh == FrameBytes(Len(sent) + 1, n, c)
           IN  /\ sent' = Append(sent, n) /\ ring' = ring \o fresh
               /\ fresh \in Seq(Byte) /\ Len(fresh) = n /\ Stream \in Seq(Byte)
               /\ Len(Stream') = Len(Stream) + n
               /\ \A i \in 1 .. Len(Stream) : Stream'[i] = Stream[i]
               /\ \A i \in 1 .. n : Stream'[Len(Stream) + i] = fresh[i]
<1> DEFINE new == Len(sent) + 1
<1>1. PICK n \in FrameLens, c \in BodyClaims :
        sent' = Append(sent, n) /\ ring' = ring \o FrameBytes(new, n, c)
  BY DEF GroundSends
<1> DEFINE fresh == FrameBytes(new, n, c)
<1>2. /\ new \in 1 .. MaxFrames /\ n \in Nat /\ buf' = buf
      /\ buf \in Seq(Byte) /\ ring \in Seq(Byte)
  BY SizeAssumption, StreamAssumption DEF GroundSends, TypeOK
<1>3. fresh \in Seq(Byte) /\ Len(fresh) = n
  BY <1>2, FrameBytesType DEF FrameBytes
<1> HIDE DEF fresh
<1>4. Stream' = Stream \o fresh
  <2>1. ring' = ring \o fresh
    BY <1>1 DEF fresh
  <2>2. (buf \o ring) \o fresh = buf \o (ring \o fresh)
    BY <1>2, <1>3, ConcatAssociative
  <2> QED
    BY <1>2, <2>1, <2>2 DEF Stream
<1>5. Stream \in Seq(Byte)
  BY StreamParts
<1>6. /\ Len(Stream') = Len(Stream) + n
      /\ \A i \in 1 .. Len(Stream) : Stream'[i] = Stream[i]
      /\ \A i \in 1 .. n : Stream'[Len(Stream) + i] = fresh[i]
  <2>1. /\ Len(Stream \o fresh) = Len(Stream) + Len(fresh)
        /\ \A i \in 1 .. Len(Stream) : (Stream \o fresh)[i] = Stream[i]
        /\ \A i \in 1 .. Len(fresh) : (Stream \o fresh)[Len(Stream) + i] = fresh[i]
    <3>1. fresh \in Seq(Byte)
      BY <1>3
    <3> HIDE <1>3
    <3> QED
      BY <1>5, <3>1, ConcatProperties
  <2> QED
    BY <1>3, <1>4, <2>1
<1> QED
  BY <1>1, <1>3, <1>5, <1>6 DEF fresh

LEMMA GroundOrder == ASSUME HInv, GroundSends PROVE HInv'
<1>1. IInv' /\ TypeOK
  BY StepInv DEF HInv, IInv, Next
<1> DEFINE new == Len(sent) + 1
<1>2. PICK n \in FrameLens, c \in BodyClaims :
        /\ sent' = Append(sent, n) /\ Stream \in Seq(Byte)
        /\ Len(Stream') = Len(Stream) + n
        /\ \A i \in 1 .. Len(Stream) : Stream'[i] = Stream[i]
        /\ \A i \in 1 .. n : Stream'[Len(Stream) + i] = FrameBytes(new, n, c)[i]
  BY <1>1, GroundStream
<1> DEFINE fresh == FrameBytes(new, n, c)
<1>3. UNCHANGED <<buf, pc, offset, handed>>
  BY DEF GroundSends
<1>4. sent \in Seq(FrameLens) /\ new \in 1 .. MaxFrames /\ n \in Nat
  BY SizeAssumption, StreamAssumption DEF GroundSends, HInv, IInv, TypeOK
<1>5. /\ Len(sent') = new /\ sent'[new] = n
      /\ \A f \in 1 .. Len(sent) : sent'[f] = sent[f]
  BY <1>2, <1>4
<1>6. \A i \in 1 .. n : fresh[i].frame = new /\ fresh[i].pos = i
  BY <1>4 DEF FrameBytes
<1> HIDE DEF fresh
<1>8. /\ Stream \in Seq(Byte) /\ Len(Stream') = Len(Stream) + n /\ Len(Stream) \in Nat
      /\ \A i \in 1 .. Len(Stream) : Stream'[i] = Stream[i]
      /\ \A i \in 1 .. n : Stream'[Len(Stream) + i] = fresh[i]
  BY <1>2 DEF fresh
<1> DEFINE S == Stream
           T == Stream'
           L == Len(Stream)
<1>9. \A i \in 1 .. Len(T) : i > L => T[i].frame = new /\ T[i].pos = i - L /\ i - L <= n
  <2> SUFFICES ASSUME NEW i \in 1 .. Len(T), i > L
               PROVE  T[i].frame = new /\ T[i].pos = i - L /\ i - L <= n
    OBVIOUS
  <2>1. i - L \in 1 .. n /\ L + (i - L) = i
    BY <1>4, <1>8
  <2> QED
    BY <1>6, <1>8, <2>1
<1>10. \A i \in 1 .. Len(T) : i <= L => i \in 1 .. L /\ T[i] = S[i]
  BY <1>8
<1>11. \A i \in 1 .. L : S[i].frame # 0 => S[i].frame \in 1 .. Len(sent) /\ S[i].frame < new
  <2>1. \A i \in 1 .. L : S[i] \in Byte
    BY <1>8
  <2> QED
    BY <1>4, <2>1 DEF HInv, Known, Byte
<1>12. Sorted'
  <2> SUFFICES ASSUME NEW i \in 1 .. Len(T), NEW j \in 1 .. Len(T),
                      i < j, T[i].frame # 0, T[j].frame # 0
               PROVE  T[i].frame < T[j].frame \/ (T[i].frame = T[j].frame /\ T[i].pos < T[j].pos)
    BY DEF Sorted
  <2>1. CASE j <= L
    <3>1. i \in 1 .. L /\ j \in 1 .. L /\ T[i] = S[i] /\ T[j] = S[j]
      BY <1>8, <1>10, <2>1
    <3> QED
      BY <3>1 DEF HInv, Sorted
  <2>2. CASE i <= L /\ j > L
    BY <1>9, <1>10, <1>11, <2>2
  <2>3. CASE i > L /\ j > L
    <3>1. T[i].frame = T[j].frame /\ T[i].pos = i - L /\ T[j].pos = j - L
      BY <1>9, <2>3
    <3> QED
      BY <1>8, <3>1
  <2> QED
    BY <1>8, <2>1, <2>2, <2>3
<1>13. Known'
  <2> SUFFICES ASSUME NEW i \in 1 .. Len(T), T[i].frame # 0
               PROVE  T[i].frame <= Len(sent') /\ T[i].pos <= sent'[T[i].frame]
    BY DEF Known
  <2>1. CASE i <= L
    <3>1. T[i] = S[i] /\ S[i].frame <= Len(sent) /\ S[i].pos <= sent[S[i].frame]
      BY <1>10, <2>1 DEF HInv, Known
    <3>2. S[i].frame \in 1 .. Len(sent) /\ S[i].frame < new
      BY <1>10, <1>11, <2>1
    <3> QED
      BY <1>4, <1>5, <3>1, <3>2
  <2>2. CASE i > L
    BY <1>4, <1>5, <1>9, <2>2
  <2> QED
    BY <1>8, <2>1, <2>2
<1>14. Past'
  <2> SUFFICES ASSUME NEW k \in 1 .. Len(handed), handed[k] # 0
               PROVE  /\ handed[k] <= Len(sent')
                      /\ \A i \in 1 .. Len(T) :
                           i > offset /\ T[i].frame # 0 => handed[k] < T[i].frame
    BY <1>3 DEF Past
  <2>1. handed[k] <= Len(sent) /\ handed[k] \in Nat
    <3>0. handed \in Seq(0 .. MaxFrames)
      BY DEF HInv, IInv, TypeOK
    <3>1. handed[k] \in 0 .. MaxFrames
      <4> DEFINE F == 0 .. MaxFrames
      <4>1. handed \in Seq(F)
        BY <3>0
      <4> HIDE DEF F
      <4>2. handed[k] \in F
        BY <4>1
      <4> QED
        BY <4>2 DEF F
    <3> QED
      BY <3>1, SizeAssumption DEF HInv, Past
  <2>2. handed[k] < new
    BY <1>4, <2>1
  <2>3. ASSUME NEW i \in 1 .. Len(T), i > offset, T[i].frame # 0 PROVE handed[k] < T[i].frame
    <3>1. CASE i <= L
      BY <1>10, <2>3, <3>1 DEF HInv, Past
    <3>2. CASE i > L
      BY <1>9, <2>2, <3>2
    <3> QED
      BY <1>8, <3>1, <3>2
  <2> QED
    BY <1>4, <1>5, <2>1, <2>2, <2>3
<1>15. AtFront' /\ HandedInOrder'
  BY <1>3 DEF HInv, AtFront, HandedInOrder
<1> QED
  BY <1>1, <1>12, <1>13, <1>14, <1>15 DEF HInv

\* Noise belongs to no frame.
LEMMA NoiseOrder == ASSUME HInv, Noise PROVE HInv'
<1>1. IInv' /\ TypeOK'
  BY StepInv DEF HInv, IInv, Next
<1>2. PICK c \in NoiseClaims : ring' = Append(ring, [claim |-> c, frame |-> 0, pos |-> 0])
  BY DEF Noise
<1>3. UNCHANGED <<buf, pc, offset, handed, sent>>
  BY DEF Noise
<1>4. TypeOK /\ ring \in Seq(Byte)
  BY DEF HInv, IInv, TypeOK
<1> DEFINE S == Stream
           T == Stream'
<1>5. /\ Len(ring') = Len(ring) + 1 /\ ring'[Len(ring) + 1].frame = 0
      /\ \A i \in 1 .. Len(ring) : ring'[i] = ring[i]
  BY <1>2, <1>4
<1>6. /\ Len(S) \in Nat /\ Len(T) = Len(S) + 1
      /\ \A i \in 1 .. Len(S) : T[i] = S[i]
      /\ T[Len(S) + 1].frame = 0
  <2>1. /\ Len(S) = Len(buf) + Len(ring) /\ Len(buf) \in Nat /\ Len(ring) \in Nat
        /\ \A i \in 1 .. Len(buf) : S[i] = buf[i]
        /\ \A i \in 1 .. Len(ring) : S[Len(buf) + i] = ring[i]
    BY <1>4, StreamParts
  <2>2. /\ Len(T) = Len(buf) + Len(ring')
        /\ \A i \in 1 .. Len(buf) : T[i] = buf[i]
        /\ \A i \in 1 .. Len(ring') : T[Len(buf) + i] = ring'[i]
    BY <1>1, <1>3, NextStreamParts
  <2>3. ASSUME NEW i \in 1 .. Len(S) PROVE T[i] = S[i]
    <3>1. CASE i \in 1 .. Len(buf)
      BY <2>1, <2>2, <3>1
    <3>2. CASE i \notin 1 .. Len(buf)
      <4>1. i - Len(buf) \in 1 .. Len(ring) /\ Len(buf) + (i - Len(buf)) = i
        BY <2>1, <3>2
      <4>2. i - Len(buf) \in 1 .. Len(ring')
        BY <1>5, <2>1, <4>1
      <4> QED
        BY <1>5, <2>1, <2>2, <4>1, <4>2
    <3> QED
      BY <3>1, <3>2
  <2>4. T[Len(S) + 1].frame = 0
    <3>1. Len(ring) + 1 \in 1 .. Len(ring') /\ Len(S) + 1 = Len(buf) + (Len(ring) + 1)
      BY <1>5, <2>1
    <3> QED
      BY <1>5, <2>2, <3>1
  <2> QED
    BY <1>5, <2>1, <2>2, <2>3, <2>4
<1> HIDE DEF S, T
<1>7. \A i \in 1 .. Len(T) : T[i].frame # 0 => i \in 1 .. Len(S) /\ T[i] = S[i]
  <2> SUFFICES ASSUME NEW i \in 1 .. Len(T), T[i].frame # 0 PROVE i \in 1 .. Len(S)
    BY <1>6
  <2> QED
    BY <1>6
<1>8. Sorted' /\ Known' /\ Past'
  BY <1>3, <1>7 DEF HInv, Sorted, Known, Past, S, T
<1>9. AtFront' /\ HandedInOrder'
  BY <1>3 DEF HInv, AtFront, HandedInOrder
<1> QED
  BY <1>1, <1>8, <1>9 DEF HInv

\* A step after which the stream, what was sent and what was handed over are the same,
\* and the parser is where it was or further on.
LEMMA SameStream ==
  ASSUME HInv, IInv', AtFront', Stream' = Stream, UNCHANGED <<sent, handed>>,
         offset' >= offset
  PROVE  HInv'
<1>1. Sorted' /\ Known' /\ HandedInOrder'
  BY DEF HInv, Sorted, Known, HandedInOrder
<1>2. Past'
  <2>1. \A i \in 1 .. Len(Stream) : i > offset' => i > offset
    <3>1. offset \in Nat /\ offset' \in Nat /\ Len(Stream) \in Nat
      BY StreamParts DEF HInv, IInv, TypeOK
    <3> QED
      BY <3>1
  <2> QED
    BY <2>1 DEF HInv, Past
<1> QED
  BY <1>1, <1>2 DEF HInv

\* What the parser keeps is the end of what it had, and the ring behind it.
LEMMA KeepStream ==
  ASSUME TypeOK, TypeOK', NEW o \in 0 .. Len(buf), Keep(o)
  PROVE  /\ offset' = 0 /\ UNCHANGED <<ring, sent, got, handed>> /\ Len(Stream) \in Nat
         /\ Len(Stream') = Len(Stream) - o
         /\ \A i \in 1 .. Len(Stream') : o + i \in 1 .. Len(Stream) /\ Stream'[i] = Stream[o + i]
<1>1. /\ TypeOK /\ TypeOK' /\ offset' = 0 /\ UNCHANGED <<ring, sent, handed>>
      /\ Len(buf) \in Nat /\ Len(buf') = Len(buf) - o
      /\ \A i \in 1 .. Len(buf') : buf'[i] = buf[o + i]
  <2>1. buf \in Seq(Byte) /\ buf' = SubSeq(buf, o + 1, Len(buf))
    BY DEF Keep, Remainder, TypeOK
  <2> QED
    BY <2>1 DEF Keep
<1>2. /\ Len(Stream) = Len(buf) + Len(ring) /\ Len(ring) \in Nat
      /\ \A i \in 1 .. Len(buf) : Stream[i] = buf[i]
      /\ \A i \in 1 .. Len(ring) : Stream[Len(buf) + i] = ring[i]
  BY <1>1, StreamParts
<1>3. /\ Len(Stream') = Len(buf') + Len(ring)
      /\ \A i \in 1 .. Len(buf') : Stream'[i] = buf'[i]
      /\ \A i \in 1 .. Len(ring) : Stream'[Len(buf') + i] = ring[i]
  BY <1>1, NextStreamParts
<1>4. \A i \in 1 .. Len(Stream') : o + i \in 1 .. Len(Stream) /\ Stream'[i] = Stream[o + i]
  <2> SUFFICES ASSUME NEW i \in 1 .. Len(Stream')
               PROVE  o + i \in 1 .. Len(Stream) /\ Stream'[i] = Stream[o + i]
    OBVIOUS
  <2>1. CASE i \in 1 .. Len(buf')
    <3>1. o + i \in 1 .. Len(buf)
      BY <1>1, <2>1
    <3>2. o + i \in 1 .. Len(Stream)
      BY <1>1, <1>2, <3>1
    <3> QED
      BY <1>1, <1>2, <1>3, <2>1, <3>1, <3>2
  <2>2. CASE i \notin 1 .. Len(buf')
    <3>1. i - Len(buf') \in 1 .. Len(ring) /\ i = Len(buf') + (i - Len(buf'))
      BY <1>1, <1>2, <1>3, <2>2
    <3>2. o + i = Len(buf) + (i - Len(buf'))
      BY <1>1
    <3>3. o + i \in 1 .. Len(Stream)
      BY <1>1, <1>2, <3>1, <3>2
    <3> QED
      BY <1>2, <1>3, <3>1, <3>2, <3>3
  <2> QED
    BY <2>1, <2>2
<1>5. UNCHANGED got /\ Len(Stream) \in Nat /\ Len(Stream') = Len(Stream) - o
  BY <1>1, <1>2, <1>3 DEF Keep
<1> QED
  BY <1>1, <1>4, <1>5

LEMMA KeepOrder ==
  ASSUME HInv, IInv', NEW o \in 0 .. Len(buf), o >= offset, Keep(o)
  PROVE  HInv'
<1>1. TypeOK /\ TypeOK'
  BY DEF HInv, IInv
<1>2. /\ offset' = 0 /\ UNCHANGED <<ring, sent, handed>>
      /\ \A i \in 1 .. Len(Stream') : o + i \in 1 .. Len(Stream) /\ Stream'[i] = Stream[o + i]
  BY <1>1, KeepStream
<1> DEFINE n == [i \in 1 .. Len(Stream') |-> o + i]
<1>3. /\ n \in [1 .. Len(Stream') -> 1 .. Len(Stream)]
      /\ \A i \in 1 .. Len(Stream') : Stream'[i] = Stream[n[i]]
  BY <1>2
<1>4. /\ \A i, j \in 1 .. Len(Stream') : i < j => n[i] < n[j]
      /\ \A i \in 1 .. Len(Stream') : i > offset' => n[i] > offset
  <2>1. offset \in Nat /\ o \in Nat
    BY <1>1 DEF TypeOK
  <2> QED
    BY <2>1
<1> HIDE DEF n
<1>5. Sorted' /\ Known' /\ Past' /\ HandedInOrder'
  BY <1>1, <1>2, <1>3, <1>4, Forget
<1> QED
  BY <1>2, <1>5 DEF HInv, AtFront

\* The radio forgets the first d bytes it had.
LEMMA LoseOrder ==
  ASSUME HInv, IInv', AtFront', UNCHANGED <<buf, sent, handed, offset>>,
         NEW d \in 0 .. Len(ring), Len(ring') = Len(ring) - d,
         \A i \in 1 .. Len(ring') : ring'[i] = ring[d + i]
  PROVE  HInv'
<1>1. TypeOK /\ TypeOK' /\ InBounds
  BY DEF HInv, IInv
<1>2. /\ Len(Stream) = Len(buf) + Len(ring) /\ Len(ring) \in Nat /\ Len(buf) \in Nat
      /\ \A i \in 1 .. Len(buf) : Stream[i] = buf[i]
      /\ \A i \in 1 .. Len(ring) : Stream[Len(buf) + i] = ring[i]
  BY <1>1, StreamParts
<1>3. /\ Len(Stream') = Len(buf) + Len(ring') /\ Len(ring') \in Nat
      /\ \A i \in 1 .. Len(buf) : Stream'[i] = buf[i]
      /\ \A i \in 1 .. Len(ring') : Stream'[Len(buf) + i] = ring'[i]
  BY <1>1, NextStreamParts
<1> DEFINE at(i) == IF i <= Len(buf) THEN i ELSE i + d
           n == [i \in 1 .. Len(Stream') |-> at(i)]
<1>4. \A i \in 1 .. Len(Stream') : at(i) \in 1 .. Len(Stream) /\ Stream'[i] = Stream[at(i)]
  <2> SUFFICES ASSUME NEW i \in 1 .. Len(Stream')
               PROVE  at(i) \in 1 .. Len(Stream) /\ Stream'[i] = Stream[at(i)]
    OBVIOUS
  <2>1. CASE i \in 1 .. Len(buf)
    <3>1. i \in 1 .. Len(Stream) /\ at(i) = i
      BY <1>2, <2>1
    <3> QED
      BY <1>2, <1>3, <2>1, <3>1
  <2>2. CASE i \notin 1 .. Len(buf)
    <3>1. i - Len(buf) \in 1 .. Len(ring') /\ i = Len(buf) + (i - Len(buf))
      BY <1>2, <1>3, <2>2
    <3>2. at(i) = Len(buf) + (d + (i - Len(buf))) /\ d + (i - Len(buf)) \in 1 .. Len(ring)
      BY <1>2, <2>2, <3>1
    <3>3. at(i) \in 1 .. Len(Stream)
      BY <1>2, <3>2
    <3> HIDE DEF at
    <3>4. Stream'[i] = ring'[i - Len(buf)]
      BY <1>3, <3>1
    <3>5. Stream[at(i)] = ring[d + (i - Len(buf))]
      BY <1>2, <3>2
    <3> QED
      BY <3>1, <3>3, <3>4, <3>5
  <2> QED
    BY <2>1, <2>2
<1>5. /\ n \in [1 .. Len(Stream') -> 1 .. Len(Stream)]
      /\ \A i \in 1 .. Len(Stream') : Stream'[i] = Stream[n[i]]
  <2> HIDE DEF at
  <2> QED
    BY <1>4
<1>6. /\ \A i, j \in 1 .. Len(Stream') : i < j => n[i] < n[j]
      /\ \A i \in 1 .. Len(Stream') : i > offset' => n[i] > offset
  <2>1. offset \in Nat /\ offset' = offset /\ Len(buf) \in Nat /\ d \in Nat
    BY <1>1, <1>2 DEF TypeOK
  <2> QED
    BY <2>1
<1> HIDE DEF n
<1>7. Sorted' /\ Known' /\ Past' /\ HandedInOrder'
  BY <1>1, <1>5, <1>6, Forget
<1> QED
  BY <1>7 DEF HInv

\* A read splits what the radio has in two.
LEMMA SplitRing ==
  ASSUME TypeOK, Len(buf) <= MaxPayload
  PROVE  /\ ring = Chunk \o RestOfRing /\ Taken \in 0 .. Len(ring)
         /\ Len(RestOfRing) = Len(ring) - Taken
         /\ \A i \in 1 .. Len(RestOfRing) : RestOfRing[i] = ring[Taken + i]
<1>1. ring \in Seq(Byte) /\ Len(ring) \in Nat /\ Taken \in 0 .. Len(ring)
  BY SizeAssumption DEF Taken, Room, TypeOK
<1>2. /\ Len(RestOfRing) = Len(ring) - Taken
      /\ \A i \in 1 .. Len(RestOfRing) : RestOfRing[i] = ring[Taken + i]
  BY <1>1 DEF RestOfRing
<1>3. ring = Chunk \o RestOfRing
  <2>1. 1 \in 1 .. Len(ring) + 1 /\ Taken \in 1 - 1 .. Len(ring) /\ Len(ring) \in Taken .. Len(ring)
    BY <1>1
  <2>2. SubSeq(ring, 1, Taken) \o SubSeq(ring, Taken + 1, Len(ring)) = SubSeq(ring, 1, Len(ring))
    BY <1>1, <2>1, ConcatAdjacentSubSeq
  <2> QED
    BY <1>1, <2>2, SubSeqFull DEF Chunk, RestOfRing
<1> QED
  BY <1>1, <1>2, <1>3

\* A read moves bytes from the ring to the buffer.
LEMMA ReceiveStream ==
  ASSUME TypeOK, Len(buf) <= MaxPayload, Receive PROVE Stream' = Stream
<1>1. buf \in Seq(Byte) /\ Chunk \in Seq(Byte) /\ RestOfRing \in Seq(Byte)
  BY ChunkType DEF TypeOK
<1>2. (buf \o Chunk) \o RestOfRing = buf \o (Chunk \o RestOfRing)
  BY <1>1, ConcatAssociative
<1>3. ring = Chunk \o RestOfRing
  BY SplitRing
<1> QED
  BY <1>2, <1>3 DEF Receive, Stream

LEMMA ReceiveOrder == ASSUME HInv, Receive PROVE HInv'
<1>1. IInv' /\ TypeOK /\ Len(buf) <= MaxPayload
  BY StepInv DEF HInv, IInv, InBounds, Next, Poll
<1>2. offset = 0 /\ offset' = 0 /\ AtFront'
  BY DEF Receive, HInv, AtFront
<1>3. Stream' = Stream
  BY <1>1, ReceiveStream
<1>4. UNCHANGED <<sent, handed>>
  BY DEF Receive
<1> QED
  BY <1>1, <1>2, <1>3, <1>4, SameStream

LEMMA ReceiveFailsOrder == ASSUME HInv, ReceiveFails PROVE HInv'
<1>1. IInv' /\ TypeOK /\ Len(buf) <= MaxPayload
  BY StepInv DEF HInv, IInv, InBounds, Next, Poll
<1>2. UNCHANGED <<buf, offset, sent, handed>> /\ AtFront'
  BY DEF ReceiveFails, HInv, AtFront
<1>3. CASE ring' = RestOfRing
  <2>1. /\ Taken \in 0 .. Len(ring) /\ Len(ring') = Len(ring) - Taken
        /\ \A i \in 1 .. Len(ring') : ring'[i] = ring[Taken + i]
    BY <1>1, <1>3, SplitRing
  <2> QED
    BY <1>1, <1>2, <2>1, LoseOrder
<1>4. CASE UNCHANGED ring
  <2>1. Stream' = Stream /\ offset' >= offset
    BY <1>1, <1>2, <1>4 DEF Stream, TypeOK
  <2> QED
    BY <1>1, <1>2, <2>1, SameStream
<1> QED
  BY <1>3, <1>4 DEF ReceiveFails

LEMMA PowerCycleOrder == ASSUME HInv, PowerCycle PROVE HInv'
<1>1. IInv' /\ TypeOK
  BY StepInv DEF HInv, IInv, Next
<1>2. UNCHANGED <<buf, offset, sent, handed>> /\ AtFront' /\ ring' = <<>>
  BY DEF PowerCycle, HInv, AtFront
<1>3. /\ Len(ring) \in 0 .. Len(ring) /\ Len(ring') = Len(ring) - Len(ring)
      /\ \A i \in 1 .. Len(ring') : ring'[i] = ring[Len(ring) + i]
  BY <1>1, <1>2 DEF TypeOK
<1> QED
  BY <1>1, <1>2, <1>3, LoseOrder

\* What is handed over is the part of the stream from the parser on, as long as the
\* header there claims.
LEMMA HandFacts ==
  ASSUME IInv, HandFrame
  PROVE  LET len == ClaimAt(offset)
             s == SubSeq(buf, offset + 1, offset + len)
         IN  /\ UNCHANGED <<buf, ring, sent, pc, got>> /\ Stream' = Stream /\ pc = "parse"
             /\ offset' = offset + len /\ handed' = Append(handed, FrameOf(s))
             /\ offset \in Nat /\ len \in Nat \ {0} /\ Len(buf) \in Nat
             /\ offset + len <= Len(buf)
             /\ len = Stream[offset + 1].claim
             /\ Len(s) = len /\ \A i \in 1 .. len : s[i] = Stream[offset + i]
             /\ Len(Stream) \in Nat /\ Len(buf) <= Len(Stream)
             /\ \A i \in 1 .. Len(buf) :
                  i \in 1 .. Len(Stream) /\ Stream[i] = buf[i] /\ buf[i] \in Byte
<1> DEFINE len == ClaimAt(offset)
           s == SubSeq(buf, offset + 1, offset + len)
           end == offset + len
<1>1. TypeOK
  BY DEF IInv
<1>2. /\ UNCHANGED <<buf, ring, sent, pc, got>> /\ offset' = end
      /\ handed' = Append(handed, FrameOf(s)) /\ pc = "parse"
  BY DEF HandFrame, Parsing
<1>3. Stream' = Stream
  BY <1>2 DEF Stream
<1>4. /\ buf \in Seq(Byte) /\ Len(buf) \in Nat /\ offset \in Nat /\ len \in Nat \ {0}
      /\ end <= Len(buf)
  <2>1. /\ buf \in Seq(Byte) /\ offset \in Nat /\ offset + 1 \in 1 .. Len(buf)
    BY <1>1, SizeAssumption DEF HandFrame, Parsing, HeaderAt, TypeOK
  <2>2. buf[offset + 1] \in Byte
    BY <2>1
  <2>3. len = buf[offset + 1].claim /\ offset + len <= Len(buf)
    BY DEF HandFrame, CompleteAt, ClaimAt
  <2>4. len \in 1 .. MaxPayload
    BY <2>2, <2>3 DEF Byte, Claim
  <2> HIDE DEF len
  <2> QED
    BY <2>1, <2>3, <2>4
<1> HIDE DEF len
<1>5. /\ Len(s) = len /\ \A i \in 1 .. len : s[i] = buf[offset + i]
  <2> DEFINE a == offset + 1
  <2>1. a \in 1 .. Len(buf) + 1 /\ end \in a - 1 .. Len(buf) /\ end - a + 1 = len
    BY <1>4
  <2>2. \A i \in 1 .. len : a + i - 1 = offset + i
    BY <1>4
  <2> HIDE DEF a, end
  <2>3. /\ Len(SubSeq(buf, a, end)) = end - a + 1
        /\ \A i \in 1 .. end - a + 1 : SubSeq(buf, a, end)[i] = buf[a + i - 1]
    BY <1>4, <2>1, SubSeqProperties
  <2> QED
    BY <2>1, <2>2, <2>3 DEF a, end
<1>6. /\ Len(Stream) \in Nat /\ Len(buf) <= Len(Stream)
      /\ \A i \in 1 .. Len(buf) : i \in 1 .. Len(Stream) /\ Stream[i] = buf[i] /\ buf[i] \in Byte
  BY <1>1, <1>4, StreamParts
<1> HIDE DEF s
<1>7. /\ \A i \in 1 .. len : s[i] = Stream[offset + i]
      /\ len = Stream[offset + 1].claim
  <2>1. offset + 1 \in 1 .. Len(buf) /\ \A i \in 1 .. len : offset + i \in 1 .. Len(buf)
    BY <1>4
  <2>2. len = buf[offset + 1].claim
    BY DEF len, ClaimAt
  <2> QED
    BY <1>5, <1>6, <2>1, <2>2
<1> QED
  BY <1>2, <1>3, <1>4, <1>5, <1>6, <1>7 DEF s, len

\* A frame handed over is younger than those before it, and every byte behind it is of a
\* younger frame.
LEMMA HandOrder == ASSUME HInv, HandFrame PROVE HInv'
<1>1. IInv' /\ TypeOK
  BY StepInv DEF HInv, IInv, Next, Poll
<1> DEFINE len == ClaimAt(offset)
           s == SubSeq(buf, offset + 1, offset + len)
           g == FrameOf(s)
           end == offset + len
<1>2. /\ UNCHANGED <<buf, ring, sent, pc>> /\ offset' = end /\ handed' = Append(handed, g)
      /\ pc = "parse"
  BY HandFacts DEF HInv
<1>3. Stream' = Stream
  BY HandFacts DEF HInv
<1>4. Len(buf) \in Nat /\ offset \in Nat /\ len \in Nat \ {0} /\ end <= Len(buf)
  BY HandFacts DEF HInv
<1>5. Len(s) = len /\ \A i \in 1 .. len : s[i] = Stream[offset + i]
  BY HandFacts DEF HInv
<1>6. /\ Len(Stream) \in Nat /\ Len(buf) <= Len(Stream)
      /\ \A i \in 1 .. Len(buf) : i \in 1 .. Len(Stream) /\ Stream[i] = buf[i] /\ buf[i] \in Byte
  BY HandFacts DEF HInv
<1> HIDE DEF len
<1> HIDE DEF s
<1>7. ASSUME g # 0
      PROVE  /\ g <= Len(sent)
             /\ Stream[offset + 1].frame = g /\ offset + 1 \in 1 .. Len(Stream)
             /\ Stream[end].frame = g /\ Stream[end].pos = sent[g] /\ end \in 1 .. Len(Stream)
  <2>1. /\ g = s[1].frame /\ Len(s) = sent[g]
        /\ \A i \in 1 .. Len(s) : s[i].frame = g /\ s[i].pos = i
    BY <1>7 DEF FrameOf
  <2>2. 1 \in 1 .. len /\ len \in 1 .. len /\ offset + 1 \in 1 .. Len(buf) /\ end \in 1 .. Len(buf)
    BY <1>4
  <2>3. Stream[offset + 1] = s[1] /\ Stream[end] = s[len]
    BY <1>5, <1>6, <2>2
  <2>4. Stream[offset + 1].frame = g /\ Stream[end].frame = g /\ Stream[end].pos = sent[g]
    BY <1>5, <2>1, <2>2, <2>3
  <2>5. g <= Len(sent)
    BY <1>6, <1>7, <2>2, <2>4 DEF HInv, Known
  <2> QED
    BY <1>6, <2>2, <2>4, <2>5
<1>8. ASSUME g # 0, NEW i \in 1 .. Len(Stream), i > end, Stream[i].frame # 0
      PROVE  g < Stream[i].frame
  <2>1. \/ Stream[end].frame < Stream[i].frame
        \/ Stream[end].frame = Stream[i].frame /\ Stream[end].pos < Stream[i].pos
    BY <1>7, <1>8 DEF HInv, Sorted
  <2>2. Stream[i].frame = g => ~(sent[g] < Stream[i].pos)
    <3>1. /\ Stream[i].pos <= sent[Stream[i].frame]
          /\ Stream[i].frame <= Len(sent)
      BY <1>8 DEF HInv, Known
    <3>2. Stream[i].pos \in Nat /\ Stream[i].frame \in Nat \ {0}
      <4>1. Stream[i] \in Byte
        BY <1>1, StreamParts
      <4> QED
        BY <1>8, <4>1 DEF Byte
    <3>3. Stream[i].frame \in 1 .. Len(sent) /\ sent \in Seq(Nat)
      <4>1. sent \in Seq(FrameLens) /\ Len(sent) \in Nat
        BY <1>1 DEF TypeOK
      <4>2. FrameLens \subseteq Nat
        BY StreamAssumption, SizeAssumption
      <4>3. sent \in Seq(Nat)
        BY <4>1, <4>2, SeqMonotonic
      <4>4. Stream[i].frame \in 1 .. Len(sent)
        BY <3>1, <3>2, <4>1
      <4> QED
        BY <4>3, <4>4
    <3>4. sent[Stream[i].frame] \in Nat
      BY <3>3
    <3> QED
      BY <3>1, <3>2, <3>4
  <2> QED
    BY <1>7, <1>8, <2>1, <2>2
<1>9. ASSUME g # 0, NEW k \in 1 .. Len(handed), handed[k] # 0 PROVE handed[k] < g
  <2>1. offset + 1 > offset /\ offset + 1 \in 1 .. Len(Stream) /\ Stream[offset + 1].frame = g
    BY <1>4, <1>7, <1>9
  <2> QED
    BY <1>9, <2>1 DEF HInv, Past
<1> HIDE DEF g, end
<1>10. /\ Len(handed') = Len(handed) + 1 /\ Len(handed) \in Nat
       /\ \A k \in 1 .. Len(handed) : handed'[k] = handed[k]
       /\ handed'[Len(handed) + 1] = g
  <2>1. handed \in Seq(0 .. MaxFrames)
    BY <1>1 DEF TypeOK
  <2> QED
    BY <1>2, <2>1
<1>11. \A k \in 1 .. Len(handed') :
         \/ k \in 1 .. Len(handed) /\ handed'[k] = handed[k]
         \/ k = Len(handed) + 1 /\ handed'[k] = g
  BY <1>10
<1>12. Sorted' /\ Known'
  BY <1>2, <1>3 DEF HInv, Sorted, Known
<1>13. Past'
  <2> SUFFICES ASSUME NEW k \in 1 .. Len(handed'), handed'[k] # 0
               PROVE  /\ handed'[k] <= Len(sent)
                      /\ \A i \in 1 .. Len(Stream) :
                           i > end /\ Stream[i].frame # 0 => handed'[k] < Stream[i].frame
    BY <1>2, <1>3 DEF Past
  <2>1. CASE k \in 1 .. Len(handed) /\ handed'[k] = handed[k]
    <3>1. \A i \in 1 .. Len(Stream) : i > end => i > offset
      BY <1>4, <1>6 DEF end
    <3> QED
      BY <2>1, <3>1 DEF HInv, Past
  <2>2. CASE k = Len(handed) + 1 /\ handed'[k] = g
    BY <1>7, <1>8, <2>2
  <2> QED
    BY <1>11, <2>1, <2>2
<1>14. HandedInOrder'
  <2> SUFFICES ASSUME NEW i \in 1 .. Len(handed'), NEW j \in 1 .. Len(handed'),
                      i < j, handed'[i] # 0, handed'[j] # 0
               PROVE  handed'[i] < handed'[j]
    BY DEF HandedInOrder
  <2>1. i \in 1 .. Len(handed) /\ handed'[i] = handed[i]
    BY <1>10
  <2>2. CASE j \in 1 .. Len(handed) /\ handed'[j] = handed[j]
    BY <2>1, <2>2 DEF HInv, HandedInOrder
  <2>3. CASE j = Len(handed) + 1 /\ handed'[j] = g
    BY <1>9, <2>1, <2>3
  <2> QED
    BY <1>11, <2>2, <2>3
<1>15. AtFront'
  BY <1>2 DEF AtFront
<1> QED
  BY <1>1, <1>12, <1>13, <1>14, <1>15 DEF HInv

LEMMA OrderStep == ASSUME HInv, [Next]_vars PROVE HInv'
<1>1. IInv' /\ TypeOK /\ InBounds
  BY StepInv DEF HInv, IInv
<1>2. CASE GroundSends
  BY <1>2, GroundOrder
<1>3. CASE Noise
  BY <1>3, NoiseOrder
<1>4. CASE PowerCycle
  BY <1>4, PowerCycleOrder
<1>5. CASE Receive
  BY <1>5, ReceiveOrder
<1>6. CASE ReceiveFails
  BY <1>6, ReceiveFailsOrder
<1>7. CASE HandFrame
  BY <1>7, HandOrder
<1>8. CASE StartPoll \/ Resync \/ UNCHANGED vars
  <2>1. Stream' = Stream /\ UNCHANGED <<sent, handed>>
    BY <1>8 DEF StartPoll, Resync, vars, Stream
  <2>2. AtFront' /\ offset' >= offset
    BY <1>1, <1>8 DEF StartPoll, Resync, ResyncFrom, Parsing, vars, HInv, AtFront, TypeOK
  <2> QED
    BY <1>1, <2>1, <2>2, SameStream
<1>9. CASE DropBuffer \/ KeepPartial \/ KeepTail
  <2>1. PICK o \in {offset, Len(buf)} : Keep(o)
    BY <1>9 DEF DropBuffer, KeepPartial, KeepTail
  <2>2. o \in 0 .. Len(buf) /\ o >= offset
    BY <1>1 DEF TypeOK, InBounds
  <2> QED
    BY <1>1, <2>1, <2>2, KeepOrder
<1> QED
  BY <1>2, <1>3, <1>4, <1>5, <1>6, <1>7, <1>8, <1>9 DEF Next, Poll

LEMMA InitOrder == Init => HInv
<1> SUFFICES ASSUME Init PROVE HInv
  OBVIOUS
<1>1. IInv
  BY InitInv
<1>2. ring = <<>> /\ buf = <<>> /\ handed = <<>> /\ offset = 0
  BY DEF Init
<1>3. Len(Stream) = 0
  BY <1>1, <1>2, StreamParts DEF IInv
<1> QED
  BY <1>1, <1>2, <1>3 DEF HInv, AtFront, Sorted, Known, Past, HandedInOrder

\* Whatever noise, loss and power cycles do to the stream, and however the reads cut it,
\* whole frames come out in the order they were sent and none twice, for every buffer,
\* header and frame length.
THEOREM FramesInOrder == Spec => []HandedInOrder
<1>1. Init => HInv
  BY InitOrder
<1>2. HInv /\ [Next]_vars => HInv'
  BY OrderStep
<1>3. HInv => HandedInOrder
  BY DEF HInv
<1> QED
  BY <1>1, <1>2, <1>3, PTL DEF Spec
-----------------------------------------------------------------------------
(* The bytes of one frame, counted                                          *)

LEMMA FiniteShare ==
  ASSUME NEW f, NEW s PROVE Len(s) \in Nat => IsFiniteSet({i \in 1 .. Len(s) : s[i].frame = f})
<1> SUFFICES ASSUME Len(s) \in Nat PROVE IsFiniteSet({i \in 1 .. Len(s) : s[i].frame = f})
  OBVIOUS
<1>1. IsFiniteSet(1 .. Len(s))
  BY FS_Interval
<1> QED
  BY <1>1, FS_Subset

\* What is counted in two pieces is counted in the whole.
LEMMA ShareJoins ==
  ASSUME NEW f, NEW s \in Seq(Byte), NEW t \in Seq(Byte)
  PROVE  Share(f, s \o t) = Share(f, s) + Share(f, t)
<1> DEFINE A == {i \in 1 .. Len(s) : s[i].frame = f}
           B == {i \in 1 .. Len(t) : t[i].frame = f}
           C == {i \in 1 .. Len(s \o t) : (s \o t)[i].frame = f}
           D == C \ A
           shift == [i \in B |-> Len(s) + i]
<1>1. /\ Len(s) \in Nat /\ Len(t) \in Nat /\ Len(s \o t) = Len(s) + Len(t)
      /\ \A i \in 1 .. Len(s) : (s \o t)[i] = s[i]
      /\ \A i \in 1 .. Len(t) : (s \o t)[Len(s) + i] = t[i]
  BY Joined
<1>2. IsFiniteSet(A) /\ IsFiniteSet(B) /\ IsFiniteSet(C)
  <2>1. Len(s \o t) \in Nat
    BY <1>1
  <2> QED
    BY <1>1, <2>1, FiniteShare
<1>3. \A i : i \in C <=> i \in A \/ \E j \in B : i = Len(s) + j
  <2>1. ASSUME NEW i \in C PROVE i \in A \/ \E j \in B : i = Len(s) + j
    <3>1. CASE i \in 1 .. Len(s)
      BY <1>1, <3>1
    <3>2. CASE i - Len(s) \in 1 .. Len(t) /\ i = Len(s) + (i - Len(s))
      BY <1>1, <3>2
    <3> QED
      BY <1>1, <3>1, <3>2
  <2>2. ASSUME NEW i \in A PROVE i \in C
    BY <1>1
  <2>3. ASSUME NEW j \in B PROVE Len(s) + j \in C
    BY <1>1
  <2> QED
    BY <2>1, <2>2, <2>3
<1>4. \A i \in D : \E j \in B : i = Len(s) + j
  BY <1>3
<1>5. \A j \in B : Len(s) + j \in D /\ j \in Nat
  BY <1>1, <1>3
<1> HIDE DEF A, B, C, D
<1>6. shift \in Bijection(B, D)
  <2>1. shift \in [B -> D]
    BY <1>5
  <2>2. \A i, j \in B : shift[i] = shift[j] => i = j
    BY <1>1, <1>5
  <2>3. \A d \in D : \E i \in B : shift[i] = d
    BY <1>4
  <2> QED
    BY <2>1, <2>2, <2>3 DEF Bijection, Injection, IsInjective, Surjection
<1>7. IsFiniteSet(D) /\ Cardinality(D) = Cardinality(B)
  BY <1>2, <1>6, FS_Bijection DEF ExistsBijection
<1>8. C = A \cup D /\ A \cap D = {}
  BY <1>3 DEF D
<1>9. Cardinality(C) = Cardinality(A) + Cardinality(D) - Cardinality(A \cap D)
  BY <1>2, <1>7, <1>8, FS_Union
<1>10. Cardinality(A \cap D) = 0 /\ Cardinality(A) \in Nat /\ Cardinality(D) \in Nat
  BY <1>2, <1>7, <1>8, FS_EmptySet, FS_CardinalityType
<1>11. Cardinality(C) = Cardinality(A) + Cardinality(B)
  BY <1>7, <1>9, <1>10
<1> QED
  BY <1>11 DEF Share, A, B, C

\* Of a frame that is n bytes long there are n bytes, and none of any other.
LEMMA ShareOfFrame ==
  ASSUME NEW new, NEW f, NEW n \in Nat, NEW c
  PROVE  Share(f, FrameBytes(new, n, c)) = IF f = new THEN n ELSE 0
<1> DEFINE fresh == FrameBytes(new, n, c)
           A == {i \in 1 .. Len(fresh) : fresh[i].frame = f}
<1>1. Len(fresh) = n /\ \A i \in 1 .. n : fresh[i].frame = new
  BY DEF FrameBytes
<1> HIDE DEF fresh
<1>2. A = (IF f = new THEN 1 .. n ELSE {})
  BY <1>1
<1>3. Cardinality(1 .. n) = n
  BY FS_Interval
<1> HIDE DEF A
<1>4. Cardinality(A) = IF f = new THEN n ELSE 0
  BY <1>2, <1>3, FS_EmptySet
<1> QED
  BY <1>4 DEF Share, A, fresh

\* Where a byte of f is, there is some of f.
LEMMA ShareOfByte ==
  ASSUME NEW f, NEW s \in Seq(Byte), NEW i \in 1 .. Len(s), s[i].frame = f
  PROVE  Share(f, s) # 0
<1> DEFINE A == {j \in 1 .. Len(s) : s[j].frame = f}
<1>1. IsFiniteSet(A) /\ A # {}
  <2>1. i \in A /\ Len(s) \in Nat
    OBVIOUS
  <2> QED
    BY <2>1, FiniteShare
<1> HIDE DEF A
<1>2. Cardinality(A) # 0
  BY <1>1, FS_EmptySet
<1> QED
  BY <1>2 DEF Share, A

-----------------------------------------------------------------------------
(* The link that loses nothing                                              *)

\* No noise, no lost reply, and no power cycle between two polls.  Reads may fail.
Undisturbed == Limit["noise"] = 0 /\ Limit["loss"] = 0 /\ Limit["powercycle"] = 0

\* In S the frames h + 1 .. m, of the lengths given, lie one behind the other, each of
\* them whole, and fill the bytes past the first from up to to: frame f lies behind the
\* first at[f] bytes.
Lines(at, h, m, lens, S, from, to) ==
  /\ at[h + 1] = from /\ at[m + 1] = to
  /\ \A f \in h + 1 .. m :
       /\ at[f + 1] = at[f] + lens[f]
       /\ \A g \in f + 1 .. m + 1 : at[f] + lens[f] <= at[g]
       /\ \A q \in 1 .. lens[f] :
            LET b == S[at[f] + q]
            IN  b.frame = f /\ b.pos = q /\ (q = 1 => b.claim = lens[f])

LEMMA LineBounds ==
  ASSUME NEW h \in Nat, NEW m \in Nat, NEW at \in [Nat -> Int], NEW lens, NEW S,
         NEW from, NEW to, Lines(at, h, m, lens, S, from, to),
         \A f \in h + 1 .. m : lens[f] \in Nat, NEW f \in h + 1 .. m
  PROVE  from <= at[f] /\ at[f] + lens[f] <= to /\ at[f] \in Int
<1>1. f \in Nat /\ at[f] \in Int
  OBVIOUS
<1>2. at[f] + lens[f] <= to
  <2>1. m + 1 \in f + 1 .. m + 1
    OBVIOUS
  <2> QED
    BY <2>1 DEF Lines
<1>3. CASE f = h + 1
  BY <1>1, <1>2, <1>3 DEF Lines
<1>4. CASE f # h + 1
  <2>1. h + 1 \in h + 1 .. m /\ f \in (h + 1) + 1 .. m + 1
    BY <1>4
  <2>2. at[h + 1] + lens[h + 1] <= at[f] /\ at[h + 1] = from
    BY <2>1 DEF Lines
  <2>3. lens[h + 1] \in Nat /\ at[h + 1] \in Int
    BY <2>1
  <2> QED
    BY <1>1, <1>2, <2>2, <2>3
<1> QED
  BY <1>3, <1>4

\* One frame more at the end, n bytes long.
OneMore(h, m, lens, S, to, n, longer, T) ==
  /\ longer[m + 1] = n /\ \A f \in h + 1 .. m : longer[f] = lens[f]
  /\ \A i \in 1 .. to : T[i] = S[i]
  /\ \A q \in 1 .. n :
       T[to + q].frame = m + 1 /\ T[to + q].pos = q /\ (q = 1 => T[to + q].claim = n)

LEMMA LineGrows ==
  ASSUME NEW h \in Nat, NEW m \in Nat, h <= m, NEW at \in [Nat -> Int], NEW lens, NEW S,
         NEW from \in Nat, NEW to \in Nat, Lines(at, h, m, lens, S, from, to),
         \A f \in h + 1 .. m : lens[f] \in Nat,
         NEW n \in Nat, NEW longer, NEW T, OneMore(h, m, lens, S, to, n, longer, T)
  PROVE  \E next \in [Nat -> Int] : Lines(next, h, m + 1, longer, T, from, to + n)
<1> USE DEF OneMore
<1> DEFINE next == [at EXCEPT ![m + 2] = to + n]
<1>1. /\ next \in [Nat -> Int] /\ next[m + 2] = to + n
      /\ \A f \in Nat : f <= m + 1 => next[f] = at[f]
  OBVIOUS
<1>2. at[h + 1] = from /\ at[m + 1] = to
  BY DEF Lines
<1> HIDE DEF next
<1>3. next[h + 1] = from /\ next[m + 1] = to /\ next[(m + 1) + 1] = to + n
  BY <1>1, <1>2
<1>4. ASSUME NEW f \in h + 1 .. m
      PROVE  /\ next[f + 1] = next[f] + longer[f]
             /\ \A g \in f + 1 .. (m + 1) + 1 : next[f] + longer[f] <= next[g]
             /\ \A q \in 1 .. longer[f] :
                  LET b == T[next[f] + q]
                  IN  b.frame = f /\ b.pos = q /\ (q = 1 => b.claim = longer[f])
  <2>1. from <= at[f] /\ at[f] + lens[f] <= to /\ at[f] \in Int /\ lens[f] \in Nat
    BY LineBounds
  <2>2. /\ at[f + 1] = at[f] + lens[f]
        /\ \A g \in f + 1 .. m + 1 : at[f] + lens[f] <= at[g]
        /\ \A q \in 1 .. lens[f] :
             LET b == S[at[f] + q]
             IN  b.frame = f /\ b.pos = q /\ (q = 1 => b.claim = lens[f])
    BY DEF Lines
  <2>3. next[f] = at[f] /\ next[f + 1] = at[f + 1] /\ longer[f] = lens[f]
    <3>1. f \in Nat /\ f + 1 \in Nat /\ f <= m + 1 /\ f + 1 <= m + 1
      OBVIOUS
    <3> QED
      BY <1>1, <3>1
  <2>4. ASSUME NEW g \in f + 1 .. (m + 1) + 1 PROVE at[f] + lens[f] <= next[g]
    <3>1. CASE g = (m + 1) + 1
      BY <1>3, <2>1, <3>1
    <3>2. CASE g # (m + 1) + 1
      <4>1. g \in f + 1 .. m + 1 /\ g \in Nat /\ g <= m + 1
        BY <3>2
      <4> QED
        BY <1>1, <2>2, <4>1
    <3> QED
      BY <3>1, <3>2
  <2>5. ASSUME NEW q \in 1 .. lens[f] PROVE T[at[f] + q] = S[at[f] + q]
    <3>1. at[f] + q \in 1 .. to
      BY <2>1
    <3> QED
      BY <3>1
  <2> QED
    BY <2>2, <2>3, <2>4, <2>5
<1>5. /\ \A g \in (m + 1) + 1 .. (m + 1) + 1 : next[m + 1] + longer[m + 1] <= next[g]
      /\ next[(m + 1) + 1] = next[m + 1] + longer[m + 1]
      /\ \A q \in 1 .. longer[m + 1] :
           LET b == T[next[m + 1] + q]
           IN  b.frame = m + 1 /\ b.pos = q /\ (q = 1 => b.claim = longer[m + 1])
  BY <1>3
<1>6. ASSUME NEW f \in h + 1 .. m + 1
      PROVE  /\ next[f + 1] = next[f] + longer[f]
             /\ \A g \in f + 1 .. (m + 1) + 1 : next[f] + longer[f] <= next[g]
             /\ \A q \in 1 .. longer[f] :
                  LET b == T[next[f] + q]
                  IN  b.frame = f /\ b.pos = q /\ (q = 1 => b.claim = longer[f])
  <2>1. CASE f \in h + 1 .. m
    BY <1>4, <2>1
  <2>2. CASE f = m + 1
    BY <1>5, <2>2
  <2> QED
    BY <2>1, <2>2
<1>7. Lines(next, h, m + 1, longer, T, from, to + n)
  BY <1>3, <1>6 DEF Lines
<1> QED
  BY <1>1, <1>7

\* The first frame is passed.
LEMMA LineShrinks ==
  ASSUME NEW h \in Nat, NEW m \in Nat, h < m, NEW at \in [Nat -> Int], NEW lens, NEW S,
         NEW from, NEW to, Lines(at, h, m, lens, S, from, to)
  PROVE  Lines(at, h + 1, m, lens, S, from + lens[h + 1], to)
<1>1. h + 1 \in h + 1 .. m /\ \A f \in (h + 1) + 1 .. m : f \in h + 1 .. m
  OBVIOUS
<1> QED
  BY <1>1 DEF Lines

\* The first o bytes are forgotten.
LEMMA LineMoves ==
  ASSUME NEW h \in Nat, NEW m \in Nat, h <= m, NEW at \in [Nat -> Int], NEW lens, NEW S,
         NEW from \in Nat, NEW to \in Nat, Lines(at, h, m, lens, S, from, to),
         \A f \in h + 1 .. m : lens[f] \in Nat,
         NEW T, \A i \in 1 .. to - from : T[i] = S[from + i]
  PROVE  \E next \in [Nat -> Int] : Lines(next, h, m, lens, T, 0, to - from)
<1> DEFINE next == [f \in Nat |-> at[f] - from]
<1>1. next \in [Nat -> Int] /\ \A f \in Nat : next[f] = at[f] - from
  OBVIOUS
<1>2. at[h + 1] = from /\ at[m + 1] = to
  BY DEF Lines
<1> HIDE DEF next
<1>3. next[h + 1] = 0 /\ next[m + 1] = to - from
  BY <1>1, <1>2
<1>4. ASSUME NEW f \in h + 1 .. m
      PROVE  /\ next[f + 1] = next[f] + lens[f]
             /\ \A g \in f + 1 .. m + 1 : next[f] + lens[f] <= next[g]
             /\ \A q \in 1 .. lens[f] :
                  LET b == T[next[f] + q]
                  IN  b.frame = f /\ b.pos = q /\ (q = 1 => b.claim = lens[f])
  <2>1. from <= at[f] /\ at[f] + lens[f] <= to /\ at[f] \in Int /\ lens[f] \in Nat
    BY LineBounds
  <2>2. /\ at[f + 1] = at[f] + lens[f]
        /\ \A g \in f + 1 .. m + 1 : at[f] + lens[f] <= at[g]
        /\ \A q \in 1 .. lens[f] :
             LET b == S[at[f] + q]
             IN  b.frame = f /\ b.pos = q /\ (q = 1 => b.claim = lens[f])
    BY DEF Lines
  <2>3. f \in Nat /\ f + 1 \in Nat /\ next[f] = at[f] - from /\ next[f + 1] = at[f + 1] - from
    BY <1>1
  <2>4. ASSUME NEW g \in f + 1 .. m + 1 PROVE next[f] + lens[f] <= next[g]
    <3>1. g \in Nat /\ at[g] \in Int /\ next[g] = at[g] - from
      BY <1>1
    <3> QED
      BY <2>1, <2>2, <2>3, <3>1
  <2>5. ASSUME NEW q \in 1 .. lens[f] PROVE T[next[f] + q] = S[at[f] + q]
    <3>1. next[f] + q \in 1 .. to - from /\ from + (next[f] + q) = at[f] + q
      BY <2>1, <2>3
    <3> QED
      BY <3>1
  <2> QED
    BY <2>1, <2>2, <2>3, <2>4, <2>5
<1> QED
  BY <1>1, <1>3, <1>4 DEF Lines

\* The frames sent and not handed over fill what the parser has not passed.
Laid(at) == Lines(at, Len(handed), Len(sent), sent, Stream, offset, Len(Stream))

InLine == \E at \in [Nat -> Int] : Laid(at)

\* All that is handed over is a frame, and no frame is left out.
Numbered == Len(handed) <= Len(sent) /\ \A k \in 1 .. Len(handed) : handed[k] = k

\* A byte of a frame has reached the buffer or is in the ring.
Accounted ==
  \A f \in 1 .. MaxFrames :
    IF f <= Len(sent)
    THEN got[f] + Share(f, ring) = sent[f]
    ELSE got[f] = 0 /\ Share(f, ring) = 0

CInv == HInv /\ InLine /\ Numbered /\ Accounted

LEMMA SentTyped ==
  ASSUME TypeOK
  PROVE  /\ Len(sent) \in Nat /\ Len(sent) <= MaxFrames /\ Len(handed) \in Nat
         /\ \A f \in 1 .. Len(sent) : sent[f] \in Nat \ {0} /\ sent[f] >= HdrLen
<1>1. \A n \in FrameLens : n \in Nat \ {0} /\ n >= HdrLen
  BY SizeAssumption, StreamAssumption
<1>2. \A f \in 1 .. Len(sent) : sent[f] \in FrameLens
  BY DEF TypeOK
<1> QED
  BY <1>1, <1>2 DEF TypeOK

\* The frame at the parser is the next one, if there is a byte at all.
LEMMA NextFrame ==
  ASSUME CInv, offset < Len(Stream)
  PROVE  LET f == Len(handed) + 1
         IN  /\ f \in 1 .. Len(sent) /\ sent[f] \in Nat \ {0} /\ sent[f] >= HdrLen
             /\ offset + sent[f] <= Len(Stream)
             /\ \A q \in 1 .. sent[f] :
                  LET b == Stream[offset + q]
                  IN  b.frame = f /\ b.pos = q /\ (q = 1 => b.claim = sent[f])
<1> DEFINE f == Len(handed) + 1
<1>1. PICK at \in [Nat -> Int] : Laid(at)
  BY DEF CInv, InLine
<1>2. TypeOK /\ Numbered /\ Len(Stream) \in Nat
  BY StreamParts DEF CInv, HInv, IInv
<1>3. f \in 1 .. Len(sent)
  <2>1. Len(handed) # Len(sent)
    BY <1>1 DEF Laid, Lines
  <2> QED
    BY <1>2, <2>1, SentTyped DEF Numbered
<1>4. sent[f] \in Nat \ {0} /\ sent[f] >= HdrLen
  BY <1>2, <1>3, SentTyped
<1>5. f \in Len(handed) + 1 .. Len(sent) /\ at[f] = offset
  BY <1>1, <1>2, <1>3, SentTyped DEF Laid, Lines
<1>6. at[f] + sent[f] <= Len(Stream)
  <2>1. \A g \in Len(handed) + 1 .. Len(sent) : sent[g] \in Nat
    BY <1>2, SentTyped
  <2>2. Len(handed) \in Nat /\ Len(sent) \in Nat
    BY <1>2, SentTyped
  <2>3. Lines(at, Len(handed), Len(sent), sent, Stream, offset, Len(Stream))
    BY <1>1 DEF Laid
  <2> HIDE DEF f
  <2> QED
    BY <1>5, <2>1, <2>2, <2>3, LineBounds
<1>7. \A q \in 1 .. sent[f] :
        LET b == Stream[at[f] + q] IN b.frame = f /\ b.pos = q /\ (q = 1 => b.claim = sent[f])
  BY <1>1, <1>5 DEF Laid, Lines
<1> QED
  BY <1>3, <1>4, <1>5, <1>6, <1>7

\* Steps that move neither the stream nor the parser, the read among them.
LEMMA SameLine ==
  ASSUME InLine, Stream' = Stream, UNCHANGED <<offset, sent, handed>>
  PROVE  InLine'
BY DEF InLine, Laid

LEMMA InitClean == Init => CInv
<1> SUFFICES ASSUME Init PROVE CInv
  OBVIOUS
<1>1. HInv
  BY InitOrder
<1>2. /\ ring = <<>> /\ buf = <<>> /\ sent = <<>> /\ handed = <<>> /\ offset = 0
      /\ got = [f \in 1 .. MaxFrames |-> 0]
  BY DEF Init
<1>3. Len(sent) = 0 /\ Len(handed) = 0 /\ Len(ring) = 0
  BY <1>2
<1>4. Len(Stream) = 0
  BY <1>1, <1>2, StreamParts DEF HInv, IInv
<1>5. InLine
  <2> DEFINE at == [f \in Nat |-> 0]
  <2>1. Laid(at)
    BY <1>2, <1>3, <1>4 DEF Laid, Lines
  <2>2. at \in [Nat -> Int]
    OBVIOUS
  <2> HIDE DEF at
  <2> QED
    BY <2>1, <2>2 DEF InLine
<1>6. \A f : Share(f, ring) = 0
  <2>1. \A f : {i \in 1 .. Len(ring) : ring[i].frame = f} = {}
    BY <1>3
  <2> QED
    BY <2>1, FS_EmptySet DEF Share
<1>7. Numbered /\ Accounted
  BY <1>2, <1>3, <1>6, SizeAssumption DEF Numbered, Accounted
<1> QED
  BY <1>1, <1>5, <1>7 DEF CInv

\* A frame of the ground is laid behind the last one.
LEMMA GroundClean == ASSUME CInv, GroundSends PROVE CInv'
<1>1. HInv' /\ TypeOK /\ TypeOK' /\ Len(handed) <= Len(sent)
  BY OrderStep DEF CInv, HInv, IInv, Next, Numbered
<1> DEFINE new == Len(sent) + 1
<1>2. PICK n \in FrameLens, c \in BodyClaims :
        /\ sent' = Append(sent, n) /\ ring' = ring \o FrameBytes(new, n, c)
        /\ FrameBytes(new, n, c) \in Seq(Byte)
        /\ Stream \in Seq(Byte) /\ Len(Stream') = Len(Stream) + n
        /\ \A i \in 1 .. Len(Stream) : Stream'[i] = Stream[i]
        /\ \A i \in 1 .. n : Stream'[Len(Stream) + i] = FrameBytes(new, n, c)[i]
  BY <1>1, GroundStream
<1>3. /\ n \in Nat \ {0} /\ new \in 1 .. MaxFrames /\ Len(sent) \in Nat /\ Len(handed) \in Nat
      /\ \A f \in 1 .. Len(sent) : sent[f] \in Nat
  <2>1. n \in Nat \ {0}
    BY SizeAssumption, StreamAssumption
  <2>2. Len(sent) < MaxFrames
    BY DEF GroundSends
  <2> QED
    BY <1>1, <2>1, <2>2, SentTyped, SizeAssumption
<1>4. UNCHANGED <<offset, handed, got>> /\ offset \in Nat /\ Len(Stream) \in Nat
  BY <1>1, <1>2 DEF GroundSends, TypeOK
<1>5. /\ Len(sent') = new /\ sent'[new] = n
      /\ \A f \in 1 .. Len(sent) : sent'[f] = sent[f]
  <2>1. sent \in Seq(FrameLens)
    BY <1>1 DEF TypeOK
  <2> QED
    BY <1>2, <2>1
<1>6. InLine'
  <2> DEFINE h == Len(handed)
             m == Len(sent)
             to == Len(Stream)
  <2>1. PICK at \in [Nat -> Int] : Lines(at, h, m, sent, Stream, offset, to)
    BY DEF CInv, InLine, Laid
  <2>2. \A f \in h + 1 .. m : sent[f] \in Nat /\ sent'[f] = sent[f]
    BY <1>3, <1>5
  <2>3. \A q \in 1 .. n :
          /\ Stream'[to + q].frame = m + 1
          /\ Stream'[to + q].pos = q
          /\ q = 1 => Stream'[to + q].claim = n
    BY <1>2 DEF FrameBytes
  <2>4. h \in Nat /\ m \in Nat /\ h <= m /\ offset \in Nat /\ to \in Nat /\ n \in Nat
    BY <1>1, <1>3, <1>4
  <2>5. sent'[m + 1] = n /\ \A i \in 1 .. to : Stream'[i] = Stream[i]
    BY <1>2, <1>5
  <2>6. Len(handed') = h /\ Len(sent') = m + 1 /\ offset' = offset /\ Len(Stream') = to + n
    BY <1>2, <1>4, <1>5
  <2> HIDE DEF h, m, to
  <2>7. \E next \in [Nat -> Int] : Lines(next, h, m + 1, sent', Stream', offset, to + n)
    <3>1. OneMore(h, m, sent, Stream, to, n, sent', Stream')
      BY <2>2, <2>3, <2>5 DEF OneMore
    <3> QED
      BY <2>1, <2>2, <2>4, <3>1, LineGrows
  <2> QED
    BY <2>6, <2>7 DEF InLine, Laid
<1>7. Numbered'
  BY <1>3, <1>4, <1>5 DEF CInv, Numbered
<1>8. Accounted'
  <2> SUFFICES ASSUME NEW f \in 1 .. MaxFrames
               PROVE  IF f <= Len(sent')
                      THEN got'[f] + Share(f, ring') = sent'[f]
                      ELSE got'[f] = 0 /\ Share(f, ring') = 0
    BY DEF Accounted
  <2>1. Share(f, ring') = Share(f, ring) + IF f = new THEN n ELSE 0
    <3>1. Share(f, FrameBytes(new, n, c)) = IF f = new THEN n ELSE 0
      BY <1>3, ShareOfFrame
    <3>2. ring \in Seq(Byte)
      BY <1>1 DEF TypeOK
    <3> QED
      BY <1>2, <3>1, <3>2, ShareJoins
  <2>2. IF f <= Len(sent) THEN got[f] + Share(f, ring) = sent[f] ELSE got[f] = 0 /\ Share(f, ring) = 0
    BY DEF CInv, Accounted
  <2>3. got[f] \in Nat /\ Share(f, ring) \in Nat
    BY <1>1, ShareType DEF TypeOK
  <2> QED
    BY <1>3, <1>4, <1>5, <2>1, <2>2, <2>3
<1> QED
  BY <1>1, <1>6, <1>7, <1>8 DEF CInv

LEMMA LaidLine ==
  ASSUME TypeOK, NEW at \in [Nat -> Int], Laid(at)
  PROVE  /\ Lines(at, Len(handed), Len(sent), sent, Stream, offset, Len(Stream))
         /\ Len(handed) \in Nat /\ Len(sent) \in Nat /\ offset \in Nat /\ Len(Stream) \in Nat
         /\ \A f \in Len(handed) + 1 .. Len(sent) : sent[f] \in Nat
<1>1. Len(handed) \in Nat /\ Len(sent) \in Nat /\ \A f \in 1 .. Len(sent) : sent[f] \in Nat
  BY SentTyped
<1>2. offset \in Nat /\ Len(Stream) \in Nat
  BY StreamParts DEF TypeOK
<1> QED
  BY <1>1, <1>2 DEF Laid

\* What is handed over is the next frame.
LEMMA HandedNext ==
  ASSUME CInv, HandFrame
  PROVE  LET f == Len(handed) + 1
         IN  /\ f \in 1 .. Len(sent) /\ handed' = Append(handed, f)
             /\ offset' = offset + sent[f]
<1> DEFINE len == ClaimAt(offset)
           s == SubSeq(buf, offset + 1, offset + len)
           f == Len(handed) + 1
<1>1. /\ IInv /\ offset' = offset + len /\ handed' = Append(handed, FrameOf(s))
      /\ offset \in Nat /\ len \in Nat \ {0} /\ Len(buf) \in Nat /\ offset + len <= Len(buf)
      /\ len = Stream[offset + 1].claim
      /\ Len(s) = len /\ \A i \in 1 .. len : s[i] = Stream[offset + i]
      /\ Len(Stream) \in Nat /\ Len(buf) <= Len(Stream)
  BY HandFacts DEF CInv, HInv
<1> HIDE DEF len, s
<1>2. offset < Len(Stream)
  BY <1>1
<1>3. /\ f \in 1 .. Len(sent) /\ sent[f] \in Nat \ {0}
      /\ \A q \in 1 .. sent[f] :
           LET b == Stream[offset + q]
           IN  b.frame = f /\ b.pos = q /\ (q = 1 => b.claim = sent[f])
  BY <1>2, NextFrame
<1> HIDE DEF f
<1>4. len = sent[f] /\ 1 \in 1 .. len
  <2>1. 1 \in 1 .. sent[f]
    BY <1>3
  <2> QED
    BY <1>1, <1>3, <2>1
<1>5. \A i \in 1 .. len : s[i].frame = f /\ s[i].pos = i
  BY <1>1, <1>3, <1>4
<1>6. FrameOf(s) = f
  <2>1. s[1].frame = f /\ f # 0
    BY <1>3, <1>4, <1>5
  <2> QED
    BY <1>1, <1>4, <1>5, <2>1 DEF FrameOf
<1> QED
  BY <1>1, <1>3, <1>4, <1>6 DEF f

LEMMA HandClean == ASSUME CInv, HandFrame PROVE CInv'
<1> DEFINE h == Len(handed)
<1>1. HInv' /\ TypeOK
  BY OrderStep DEF CInv, HInv, IInv, Next, Poll
<1>2. /\ h + 1 \in 1 .. Len(sent) /\ handed' = Append(handed, h + 1)
      /\ offset' = offset + sent[h + 1]
  BY HandedNext
<1>3. UNCHANGED <<buf, ring, sent, got>> /\ Stream' = Stream
  BY HandFacts DEF CInv, HInv
<1>4. /\ h \in Nat /\ Len(sent) \in Nat /\ Len(handed') = h + 1
      /\ \A k \in 1 .. h : handed'[k] = handed[k]
      /\ handed'[h + 1] = h + 1
  <2>1. handed \in Seq(0 .. MaxFrames) /\ Len(sent) \in Nat
    BY <1>1, SentTyped DEF TypeOK
  <2> QED
    BY <1>2, <2>1
<1>5. InLine'
  <2>1. PICK at \in [Nat -> Int] : Laid(at)
    BY DEF CInv, InLine
  <2>2. Lines(at, h, Len(sent), sent, Stream, offset, Len(Stream))
    BY <2>1 DEF Laid
  <2>3. h < Len(sent)
    BY <1>2, <1>4
  <2>4. Lines(at, h + 1, Len(sent), sent, Stream, offset + sent[h + 1], Len(Stream))
    BY <1>4, <2>2, <2>3, LineShrinks
  <2> QED
    BY <1>2, <1>3, <1>4, <2>4 DEF InLine, Laid
<1>6. Numbered'
  <2>1. \A k \in 1 .. Len(handed') : handed'[k] = k
    <3>1. \A k \in 1 .. h : handed[k] = k
      BY DEF CInv, Numbered
    <3>2. \A k \in 1 .. Len(handed') : k \in 1 .. h \/ k = h + 1
      BY <1>4
    <3> QED
      BY <1>4, <3>1, <3>2
  <2>2. Len(handed') <= Len(sent')
    BY <1>2, <1>3, <1>4
  <2> QED
    BY <2>1, <2>2 DEF Numbered
<1>7. Accounted'
  BY <1>3 DEF CInv, Accounted
<1> QED
  BY <1>1, <1>5, <1>6, <1>7 DEF CInv

\* The header at the parser, if there is one, is that of a frame.
LEMMA HeaderIsFrame == ASSUME CInv, Parsing PROVE ClaimAt(offset) >= HdrLen
<1> DEFINE f == Len(handed) + 1
<1>1. TypeOK /\ offset \in Nat /\ offset + 1 \in 1 .. Len(buf)
  BY SizeAssumption DEF CInv, HInv, IInv, TypeOK, Parsing, HeaderAt
<1>2. offset < Len(Stream) /\ Stream[offset + 1] = buf[offset + 1]
  BY <1>1, StreamParts
<1>3. /\ sent[f] \in Nat \ {0} /\ sent[f] >= HdrLen
      /\ \A q \in 1 .. sent[f] :
           LET b == Stream[offset + q]
           IN  b.frame = f /\ b.pos = q /\ (q = 1 => b.claim = sent[f])
  BY <1>2, NextFrame
<1> HIDE DEF f
<1>4. 1 \in 1 .. sent[f]
  BY <1>3
<1>5. Stream[offset + 1].claim = sent[f]
  BY <1>3, <1>4
<1> QED
  BY <1>2, <1>3, <1>5 DEF ClaimAt

LEMMA KeepClean == ASSUME CInv, HInv', Keep(offset) PROVE CInv'
<1>1. TypeOK /\ TypeOK' /\ offset \in 0 .. Len(buf)
  BY DEF CInv, HInv, IInv, TypeOK, InBounds
<1>2. /\ offset' = 0 /\ UNCHANGED <<ring, sent, got, handed>> /\ Len(Stream) \in Nat
      /\ Len(Stream') = Len(Stream) - offset
      /\ \A i \in 1 .. Len(Stream') : Stream'[i] = Stream[offset + i]
  BY <1>1, KeepStream
<1>3. InLine'
  <2> DEFINE h == Len(handed)
             m == Len(sent)
             to == Len(Stream)
  <2>1. PICK at \in [Nat -> Int] : Laid(at)
    BY DEF CInv, InLine
  <2>2. /\ Lines(at, h, m, sent, Stream, offset, to)
        /\ h \in Nat /\ m \in Nat /\ offset \in Nat /\ to \in Nat
        /\ \A f \in h + 1 .. m : sent[f] \in Nat
    BY <1>1, <2>1, LaidLine
  <2>3. h <= m
    BY DEF CInv, Numbered
  <2>4. \A i \in 1 .. to - offset : Stream'[i] = Stream[offset + i]
    BY <1>2
  <2> HIDE DEF h, m, to
  <2>5. \E next \in [Nat -> Int] : Lines(next, h, m, sent, Stream', 0, to - offset)
    BY <2>2, <2>3, <2>4, LineMoves
  <2> QED
    BY <1>2, <2>5 DEF InLine, Laid, h, m, to
<1>4. Numbered' /\ Accounted'
  BY <1>2 DEF CInv, Numbered, Accounted
<1> QED
  BY <1>3, <1>4 DEF CInv

LEMMA ReceiveClean == ASSUME CInv, Receive PROVE CInv'
<1>1. HInv' /\ TypeOK /\ TypeOK' /\ Len(buf) <= MaxPayload
  BY OrderStep DEF CInv, HInv, IInv, InBounds, Next, Poll
<1>2. Stream' = Stream /\ UNCHANGED <<offset, sent, handed>>
  BY <1>1, ReceiveStream DEF Receive, CInv, HInv, AtFront
<1>3. InLine' /\ Numbered'
  BY <1>2, SameLine DEF CInv, Numbered
<1>4. Accounted'
  <2> SUFFICES ASSUME NEW f \in 1 .. MaxFrames
               PROVE  got'[f] + Share(f, ring') = got[f] + Share(f, ring)
                      /\ got'[f] \in Nat /\ Share(f, ring') \in Nat
                      /\ got[f] \in Nat /\ Share(f, ring) \in Nat
    BY <1>2 DEF CInv, Accounted
  <2>1. ring = Chunk \o ring' /\ Chunk \in Seq(Byte) /\ ring' \in Seq(Byte) /\ ring \in Seq(Byte)
    BY <1>1, SplitRing, ChunkType DEF Receive, TypeOK
  <2>2. Share(f, ring) = Share(f, Chunk) + Share(f, ring')
    BY <2>1, ShareJoins
  <2>3. got'[f] = got[f] + Share(f, Chunk)
    BY <1>1 DEF Receive, TypeOK
  <2>4. got[f] \in Nat /\ Share(f, Chunk) \in Nat /\ Share(f, ring') \in Nat
    BY <1>1, <2>1, ShareType DEF TypeOK
  <2> QED
    BY <2>2, <2>3, <2>4
<1> QED
  BY <1>1, <1>3, <1>4 DEF CInv

LEMMA CleanStep == ASSUME Undisturbed, CInv, [Next]_vars PROVE CInv'
<1>1. HInv' /\ TypeOK
  BY OrderStep DEF CInv, HInv, IInv
<1>2. \A e \in {"noise", "loss", "powercycle"} : ~Spend(e)
  <2>1. \A e \in {"noise", "loss", "powercycle"} : Limit[e] = 0 /\ spent[e] \in Nat
    BY <1>1 DEF Undisturbed, TypeOK, Event
  <2> QED
    BY <2>1 DEF Spend
<1>3. CASE GroundSends
  BY <1>3, GroundClean
<1>4. CASE Noise \/ PowerCycle
  BY <1>2, <1>4 DEF Noise, PowerCycle
<1>5. CASE Receive
  BY <1>5, ReceiveClean
<1>6. CASE HandFrame
  BY <1>6, HandClean
<1>7. CASE StartPoll \/ ReceiveFails \/ UNCHANGED vars
  <2>1. UNCHANGED <<ring, buf, offset, sent, got, handed>>
    BY <1>2, <1>7 DEF StartPoll, ReceiveFails, vars
  <2>2. InLine'
    BY <2>1, SameLine DEF CInv, Stream
  <2> QED
    BY <1>1, <2>1, <2>2 DEF CInv, Numbered, Accounted
<1>8. CASE Resync \/ DropBuffer
  <2>1. Parsing /\ ClaimAt(offset) < HdrLen
    BY <1>8 DEF Resync, DropBuffer
  <2>2. ClaimAt(offset) \in Nat
    <3>1. offset + 1 \in 1 .. Len(buf) /\ buf \in Seq(Byte)
      BY <1>1, <2>1, SizeAssumption DEF TypeOK, Parsing, HeaderAt
    <3>2. buf[offset + 1] \in Byte
      BY <3>1
    <3> QED
      BY <3>2 DEF ClaimAt, Byte, Claim
  <2> QED
    BY <2>1, <2>2, HeaderIsFrame, SizeAssumption
<1>9. CASE KeepPartial \/ KeepTail
  BY <1>1, <1>9, KeepClean DEF KeepPartial, KeepTail
<1> QED
  BY <1>3, <1>4, <1>5, <1>6, <1>7, <1>8, <1>9 DEF Next, Poll

\* A frame that is in the buffer to its last byte is not left there by a poll.
LEMMA CleanIsHanded == ASSUME CInv PROVE ReceivedIsHanded
<1>1. SUFFICES ASSUME pc = "idle", NEW f \in 1 .. Len(sent), got[f] = sent[f],
                      \A i \in 1 .. Len(handed) : handed[i] # f
               PROVE  FALSE
  BY DEF ReceivedIsHanded
<1> DEFINE h == Len(handed)
           m == Len(sent)
<1>2. TypeOK /\ offset = 0 /\ KeptIsPartial
  BY <1>1 DEF CInv, HInv, IInv, AtFront
<1>3. h \in Nat /\ m \in Nat /\ m <= MaxFrames /\ \A g \in 1 .. m : sent[g] \in Nat /\ sent[g] >= HdrLen
  BY <1>2, SentTyped
<1>4. f \in h + 1 .. m /\ f \in Nat /\ f \in 1 .. MaxFrames
  BY <1>1, <1>3, SizeAssumption DEF CInv, Numbered
<1>5. PICK at \in [Nat -> Int] : Laid(at)
  BY DEF CInv, InLine
<1>6. Lines(at, h, m, sent, Stream, 0, Len(Stream)) /\ \A g \in h + 1 .. m : sent[g] \in Nat
  BY <1>2, <1>5, LaidLine
<1>7. /\ Len(Stream) = Len(buf) + Len(ring) /\ Len(buf) \in Nat /\ Len(ring) \in Nat
      /\ \A i \in 1 .. Len(buf) : Stream[i] = buf[i]
      /\ \A i \in 1 .. Len(ring) : Stream[Len(buf) + i] = ring[i]
  BY <1>2, StreamParts
<1>8. 0 <= at[f] /\ at[f] + sent[f] <= Len(Stream) /\ at[f] \in Int
  <2> HIDE DEF h, m
  <2> QED
    BY <1>3, <1>4, <1>6, LineBounds
<1> DEFINE a == at[f]
           n == sent[f]
           first == sent[h + 1]
           read == Len(buf)
           left == Len(ring)
<1>9. /\ h + 1 \in h + 1 .. m /\ h + 1 \in 1 .. m
      /\ n \in Nat /\ n >= HdrLen /\ first \in Nat /\ first >= HdrLen
  <2>1. h + 1 \in h + 1 .. m /\ h + 1 \in 1 .. m
    BY <1>3, <1>4
  <2> HIDE DEF h
  <2> QED
    BY <1>3, <2>1
<1>10. HdrLen \in Nat \ {0} /\ read \in Nat /\ left \in Nat
  BY <1>7, SizeAssumption
<1>11. 0 <= a /\ a + n <= read + left /\ a \in Int
  BY <1>7, <1>8
<1>12. Stream[a + n].frame = f
  <2>1. n \in 1 .. sent[f]
    BY <1>9, <1>10
  <2> QED
    BY <1>4, <1>6, <2>1 DEF Lines
<1>13. first <= a + n
  <2>1. at[h + 1] = 0
    BY <1>6 DEF Lines
  <2>2. CASE f = h + 1
    <3>1. a = 0 /\ n = first
      BY <2>1, <2>2
    <3> HIDE DEF a, n, first
    <3> QED
      BY <1>9, <3>1
  <2>3. CASE f # h + 1
    <3>1. f \in (h + 1) + 1 .. m + 1
      BY <1>3, <1>4, <2>3
    <3>2. at[h + 1] + first <= a
      BY <1>6, <1>9, <3>1 DEF Lines
    <3> HIDE DEF a, n, first
    <3> QED
      BY <1>9, <1>11, <2>1, <3>2
  <2> QED
    BY <2>2, <2>3
<1>14. ASSUME NEW i \in 1 .. left, a + n = read + i PROVE FALSE
  <2>1. ring[i].frame = f
    BY <1>7, <1>12, <1>14
  <2>2. Share(f, ring) # 0 /\ Share(f, ring) \in Nat
    BY <1>2, <2>1, ShareOfByte, ShareType DEF TypeOK
  <2>3. got[f] + Share(f, ring) = n /\ got[f] = n
    BY <1>1, <1>3, <1>4 DEF CInv, Accounted
  <2> HIDE DEF n
  <2> QED
    BY <1>9, <2>2, <2>3
<1>15. ASSUME read >= 1, read >= HdrLen PROVE first > read
  <2>1. at[h + 1] = 0 /\ 1 \in 1 .. first /\ 1 \in 1 .. read
    <3> HIDE DEF first, read
    <3>1. 1 \in 1 .. first /\ 1 \in 1 .. read
      BY <1>9, <1>10, <1>15
    <3> QED
      BY <1>6, <3>1 DEF Lines
  <2>2. Stream[at[h + 1] + 1].claim = first
    BY <1>6, <1>9, <2>1 DEF Lines
  <2>3. ClaimAt(0) = first
    BY <1>7, <2>1, <2>2 DEF ClaimAt
  <2>4. read < HdrLen \/ ~(0 + first <= read)
    BY <1>1, <1>2, <2>3 DEF KeptIsPartial, CompleteAt
  <2> HIDE DEF first, read
  <2> QED
    BY <1>9, <1>10, <1>15, <2>4
<1> HIDE DEF h, m, a, n, first, read, left
<1>16. a + n <= read
  <2>1. a + n > read => (a + n) - read \in 1 .. left /\ a + n = read + ((a + n) - read)
    BY <1>9, <1>10, <1>11
  <2> QED
    BY <1>9, <1>10, <1>11, <1>14, <2>1
<1> QED
  BY <1>9, <1>10, <1>11, <1>13, <1>15, <1>16

LEMMA CleanInvariance == Undisturbed => (Spec => []CInv)
<1> SUFFICES ASSUME Undisturbed PROVE Spec => []CInv
  OBVIOUS
<1>1. Init => CInv
  BY InitClean
<1>2. CInv /\ [Next]_vars => CInv'
  BY CleanStep
<1> QED
  BY <1>1, <1>2, PTL DEF Spec

\* On a link that loses nothing and adds nothing, whatever reads fail and however they cut
\* the stream, a poll does not end with a frame in the buffer that came in whole: it was
\* handed to CryptoLib.
THEOREM NoFrameKeptBack == Undisturbed => (Spec => []ReceivedIsHanded)
<1> SUFFICES ASSUME Undisturbed PROVE Spec => []ReceivedIsHanded
  OBVIOUS
<1>1. CInv => ReceivedIsHanded
  BY CleanIsHanded
<1> QED
  BY <1>1, CleanInvariance, PTL

\* On such a link the uplink is the abstract one as far as safety goes: every step of it
\* is a frame sent, the next frame handed over whole, or none of the two.
THEOREM UplinkIsFrameLink == Undisturbed => (Spec => Link!Safety)
<1> SUFFICES ASSUME Undisturbed PROVE Spec => Link!Safety
  OBVIOUS
<1>1. Init => Link!Init
  BY DEF Init, Link!Init
<1>2. CInv /\ [Next]_vars => [Link!Next]_Link!vars
  <2> SUFFICES ASSUME CInv, [Next]_vars PROVE [Link!Next]_Link!vars
    OBVIOUS
  <2>1. CASE GroundSends
    BY <2>1 DEF GroundSends, Link!Next, Link!Send
  <2>2. CASE HandFrame
    <3>1. TypeOK /\ Len(handed) + 1 \in 1 .. Len(sent) /\ handed' = Append(handed, Len(handed) + 1)
      BY <2>2, HandedNext DEF CInv, HInv, IInv
    <3>2. Len(handed) < Len(sent)
      BY <3>1, SentTyped
    <3> QED
      BY <2>2, <3>1, <3>2 DEF HandFrame, Link!Next, Link!Deliver
  <2>3. CASE Noise \/ PowerCycle \/ StartPoll \/ Receive \/ ReceiveFails \/ Resync \/ DropBuffer
             \/ KeepPartial \/ KeepTail \/ UNCHANGED vars
    BY <2>3 DEF Noise, PowerCycle, StartPoll, Receive, ReceiveFails, Resync, DropBuffer,
       KeepPartial, KeepTail, Keep, vars, Link!vars
  <2> QED
    BY <2>1, <2>2, <2>3 DEF Next, Poll
<1> QED
  BY <1>1, <1>2, CleanInvariance, PTL DEF Spec, Link!Safety

-----------------------------------------------------------------------------
(* The end of a poll                                                        *)

LEMMA LeftType == IInv => Left
  BY SizeAssumption DEF IInv, TypeOK, InBounds, Left, ReadsLeft, PartsLeft, BytesLeft

LEMMA NextTryLeaves == ASSUME IInv, pc # "idle", NextTry PROVE LessIsLeft
  BY DEF IInv, TypeOK, NextTry, LessIsLeft, ReadsLeft

\* The parser that goes on has gone past a byte.
LEMMA ParserLeaves ==
  ASSUME IInv, UNCHANGED <<buf, pc, tries>>, offset' \in offset + 1 .. Len(buf)
  PROVE  LessIsLeft
<1>1. ReadsLeft' = ReadsLeft /\ PartsLeft' = PartsLeft
  BY DEF ReadsLeft, PartsLeft
<1>2. offset \in Nat /\ Len(buf) \in Nat
  BY DEF IInv, TypeOK
<1>3. BytesLeft = Len(buf) - offset /\ BytesLeft' = Len(buf) - offset'
  BY DEF BytesLeft
<1>4. \A o \in offset + 1 .. Len(buf) : Len(buf) - o < Len(buf) - offset
  BY <1>2
<1>5. BytesLeft' < BytesLeft
  BY <1>3, <1>4
<1> QED
  BY <1>1, <1>5 DEF LessIsLeft

LEMMA PollLeaves == ASSUME IInv, Poll PROVE LessIsLeft
<1>1. CASE Receive
  <2>1. CASE NextTry
    BY <1>1, <2>1, NextTryLeaves DEF Receive
  <2>2. CASE pc' = "parse" /\ UNCHANGED tries
    BY <1>1, <2>2 DEF Receive, IInv, TypeOK, LessIsLeft, ReadsLeft, PartsLeft
  <2> QED
    BY <1>1, <2>1, <2>2 DEF Receive
<1>2. CASE ReceiveFails
  BY <1>2 DEF ReceiveFails, IInv, TypeOK, LessIsLeft, ReadsLeft, PartsLeft
<1>3. CASE HandFrame
  <2>1. ClaimAt(offset) \in Nat /\ ClaimAt(offset) >= HdrLen
    <3>1. offset + 1 \in 1 .. Len(buf) /\ buf \in Seq(Byte)
      BY <1>3, SizeAssumption DEF HandFrame, Parsing, HeaderAt, IInv, TypeOK
    <3>2. buf[offset + 1] \in Byte
      BY <3>1
    <3>3. buf[offset + 1].claim \in 1 .. MaxPayload
      BY <3>2 DEF Byte, Claim
    <3> QED
      BY <1>3, <3>3, SizeAssumption DEF HandFrame, ClaimAt
  <2>2. offset + ClaimAt(offset) \in offset + 1 .. Len(buf)
    BY <1>3, <2>1, SizeAssumption DEF HandFrame, CompleteAt, IInv, TypeOK
  <2> QED
    BY <1>3, <2>2, ParserLeaves DEF HandFrame
<1>4. CASE Resync
  BY <1>4, ParserLeaves DEF Resync, ResyncFrom
<1>5. CASE DropBuffer \/ KeepPartial \/ KeepTail
  BY <1>5, NextTryLeaves DEF DropBuffer, KeepPartial, KeepTail, Parsing, Keep
<1> QED
  BY <1>1, <1>2, <1>3, <1>4, <1>5 DEF Poll

\* For every buffer, header and frame length, each step of a poll brings it nearer to its end,
\* whatever bytes arrive (radio_app.c:750-958).
THEOREM PollProgress == Spec => PollAdvances
<1> DEFINE Advance == Left /\ LessIsLeft /\ Left'
<1>1. ASSUME IInv, IInv', Poll PROVE Advance
  <2>1. Left
    BY <1>1, LeftType
  <2>2. Left'
    <3>1. /\ tries' \in 0 .. MaxRx /\ pc' \in {"idle", "recv", "parse"}
          /\ Len(buf') \in Nat /\ Len(buf') <= MaxPayload /\ offset' \in Nat /\ offset' <= Len(buf')
      BY <1>1 DEF IInv, TypeOK, InBounds
    <3>2. ReadsLeft' \in 0 .. MaxRx /\ PartsLeft' \in 0 .. 2
      BY <3>1 DEF ReadsLeft, PartsLeft
    <3>3. BytesLeft' = Len(buf') - offset'
      BY DEF BytesLeft
    <3>4. \A n \in Nat, o \in Nat : n <= MaxPayload /\ o <= n => n - o \in 0 .. MaxPayload
      BY SizeAssumption
    <3> QED
      BY <3>1, <3>2, <3>3, <3>4 DEF Left
  <2>3. LessIsLeft
    BY <1>1, PollLeaves
  <2> QED
    BY <2>1, <2>2, <2>3
<1>2. IInv /\ IInv' /\ [Next]_vars => [Poll => Advance]_vars
  BY <1>1
<1> HIDE DEF Advance
<1>3. Spec => [][Poll => Advance]_vars
  BY <1>2, Invariance, PTL DEF Spec
<1> QED
  BY <1>3 DEF Advance, PollAdvances
=============================================================================
