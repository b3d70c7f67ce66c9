--------------------------- MODULE RadioDownlink ---------------------------
(***************************************************************************)
(* RADIO_ServiceDownlink: packs the packets of the downlink pipe into TM    *)
(* frames and sends each frame to the radio.  A packet is its number in the *)
(* order of publication, with a size; a frame is the sequence of packets in *)
(* it and the octets still free.  The library calls and the SPI write may   *)
(* each fail: MaxFaults times in all, or without end.  Operators named      *)
(* Faulty... are plausible bugs, to show which property notices each; no    *)
(* action uses them.                                                        *)
(***************************************************************************)
EXTENDS Naturals, Sequences, SequencesExt

CONSTANTS
  MaxTx,       \* RADIO_CFG_MAX_TX_MSGS_PER_POLL: 50
  Capacity,    \* free octets of a frame that was just started
  Sizes,       \* sizes of the packets applications publish
  PipeDepth,   \* RADIO_DOWNLINK_PIPE_DEPTH: 50
  CounterMod,  \* DeviceCount and DeviceErrorCount are uint8: 256
  MaxPackets,  \* bound on the packets published
  MaxFaults,   \* bound on the disturbances, failing calls and polls without a downlink
  Persistent   \* TRUE: the bound is only on those counted, and calls may fail without end

ASSUME DownlinkAssumption ==
  /\ MaxTx \in Nat \ {0} /\ Capacity \in Nat \ {0} /\ PipeDepth \in Nat \ {0}
  /\ CounterMod \in Nat \ {0, 1, 2} /\ MaxPackets \in Nat /\ MaxFaults \in Nat
  /\ Persistent \in BOOLEAN /\ Persistent => MaxFaults > 0
ASSUME SizesAssumption == Sizes \subseteq Nat \ {0}

VARIABLES
  sizes,     \* history: size of each packet published so far
  pipe,      \* packets in RADIO_DownlinkPipe
  pc,        \* "idle", "pack" (inner loop), "finish" (frame complete)
  pktCount,  \* pkt_count
  pending,   \* the packet of SBBufPtr while pkt_len # 0, NoPacket otherwise
  ready,     \* radio_frame_info.isReady
  free,      \* radio_frame_info.freeOctets
  frame,     \* packets in the frame being filled
  sent,      \* history: packets whose frame the radio took, in order
  lost,      \* history: packets that are in none of these any more
  devCount, devErr,  \* HkTelemetryPkt.DeviceCount and DeviceErrorCount
  faults     \* history: disturbances so far, of which Persistent counts the first MaxFaults

counts == <<devCount, devErr>>
vars == <<sizes, pipe, pc, pktCount, pending, ready, free, frame, sent, lost, counts,
          faults>>

NoPacket == 0
Inc(c) == (c + 1) % CounterMod

Init ==
  /\ sizes = <<>> /\ pipe = <<>> /\ pc = "idle" /\ pktCount = 0 /\ pending = NoPacket
  /\ ready = FALSE /\ free = 0 /\ frame = <<>>
  /\ sent = <<>> /\ lost = {} /\ devCount = 0 /\ devErr = 0 /\ faults = 0

\* n calls fail.
Fail(n) ==
  \/ faults + n <= MaxFaults /\ faults' = faults + n
  \/ Persistent /\ faults + n > MaxFaults /\ faults' = MaxFaults

Disturb == Fail(1)

-----------------------------------------------------------------------------
(* Applications and the other half of RADIO_Service                         *)

\* Another application publishes a packet the table subscribes to; the software
\* bus drops it when the pipe is full (external).
Publish ==
  /\ Len(sizes) < MaxPackets
  /\ \E n \in Sizes : sizes' = Append(sizes, n)
  /\ IF Len(pipe) < PipeDepth
     THEN pipe' = Append(pipe, Len(sizes) + 1) /\ UNCHANGED lost
     ELSE lost' = lost \cup {Len(sizes) + 1} /\ UNCHANGED pipe
  /\ UNCHANGED <<pc, pktCount, pending, ready, free, frame, sent, counts, faults>>

\* RADIO_Service while the device is disabled or not in a mode that transmits.
DiscardPipe ==
  /\ pc = "idle" /\ Disturb
  /\ lost' = lost \cup ToSet(pipe)
  /\ pipe' = <<>>
  /\ UNCHANGED <<sizes, pc, pktCount, pending, ready, free, frame, sent, counts>>

-----------------------------------------------------------------------------
(* The frame                                                                *)

\* A frame that was just started has only what the last one left free.
FaultyStartedFree == free

\* TM_SDLP_StartFrame, called when the frame is not ready, empties it; what the
\* frame then has free and holds (external).
StartedFree  == IF ready THEN free ELSE Capacity
StartedFrame == IF ready THEN frame ELSE <<>>

StartService ==
  /\ pc = "idle"
  /\ ready' = TRUE /\ free' = StartedFree /\ frame' = StartedFrame
  /\ pc' = "pack" /\ pktCount' = 0 /\ pending' = NoPacket
  /\ UNCHANGED <<sizes, pipe, sent, lost, counts, faults>>

\* TM_SDLP_InitChannel or the first TM_SDLP_StartFrame fails.
StartServiceFails ==
  /\ pc = "idle" /\ ~ready /\ Disturb
  /\ devErr' = Inc(devErr)
  /\ UNCHANGED <<sizes, pipe, pc, pktCount, pending, ready, free, frame, sent, lost,
                 devCount>>

\* The packet this turn of the inner loop works on: the one left over from the
\* last frame, or the head of the pipe.
Available == pending # NoPacket \/ pipe # <<>>

\* The packet left over waits until the pipe is empty.
FaultyCurrent == IF pipe # <<>> THEN Head(pipe) ELSE pending

Current == IF pending # NoPacket THEN pending ELSE Head(pipe)

\* The packet is used but stays in the pipe.
FaultyTakeCurrent == UNCHANGED pipe

TakeCurrent == pipe' = (IF pending # NoPacket THEN pipe ELSE Tail(pipe))

PipeEmpty ==
  /\ pc = "pack" /\ ~Available
  /\ pktCount' = MaxTx
  /\ pc' = "finish"
  /\ UNCHANGED <<sizes, pipe, pending, ready, free, frame, sent, lost, counts, faults>>

\* The frame cannot be started.  pkt_len is still 0 for a packet just read, so
\* nothing remembers it.
StartFrameFails ==
  /\ pc = "pack" /\ Available /\ ~ready /\ Disturb
  /\ TakeCurrent
  /\ lost' = (IF pending = NoPacket THEN lost \cup {Current} ELSE lost)
  /\ devErr' = Inc(devErr)
  /\ pc' = "finish"
  /\ UNCHANGED <<sizes, pktCount, pending, ready, free, frame, sent, devCount>>

\* A packet may leave the frame without a free octet.
FaultyFits(p) == sizes[p] <= StartedFree

Fits(p) == sizes[p] < StartedFree

NextCount == pktCount + 1

AddPacket ==
  /\ pc = "pack" /\ Available
  /\ TakeCurrent
  /\ Fits(Current)
  /\ ready' = TRUE
  /\ frame' = Append(StartedFrame, Current)
  /\ free' = StartedFree - sizes[Current]
  /\ pending' = NoPacket
  /\ pktCount' = NextCount
  /\ pc' = (IF NextCount < MaxTx THEN "pack" ELSE "finish")
  /\ UNCHANGED <<sizes, sent, lost, counts, faults>>

\* The packet that has to wait is dropped.
FaultyLeftOver == NoPacket

LeftOver == Current

\* The packet is left for the next frame: it does not fit, or adding it fails.
LeavePacket ==
  /\ pc = "pack" /\ Available
  /\ TakeCurrent
  /\ ready' = TRUE /\ free' = StartedFree /\ frame' = StartedFrame
  /\ pending' = LeftOver
  /\ pc' = "finish"
  /\ \/ ~Fits(Current) /\ UNCHANGED <<devErr, faults>>
     \/ Fits(Current) /\ Disturb /\ devErr' = Inc(devErr)
  /\ UNCHANGED <<sizes, pktCount, sent, lost, devCount>>

-----------------------------------------------------------------------------
(* Finishing a frame                                                        *)

AfterFrame == IF pktCount < MaxTx THEN "pack" ELSE "idle"

\* An early return forgets the packet left for the next frame.
Forgotten == IF pending = NoPacket THEN {} ELSE {pending}

\* TM_SDLP_CompleteFrame fails, as it does on a frame that was not started.  A frame that
\* was started has nothing free any more if TM_SDLP_AddIdlePacket filled it, which may
\* fail too: its result is not looked at.
CompleteFrameFails ==
  /\ pc = "finish"
  /\ IF ready THEN Disturb ELSE UNCHANGED faults
  /\ devErr' = Inc(devErr)
  /\ lost' = lost \cup Forgotten
  /\ pending' = NoPacket
  /\ pc' = "idle"
  /\ free' \in (IF ready THEN {free, 0} ELSE {free})
  /\ UNCHANGED <<sizes, pipe, pktCount, ready, frame, sent, devCount>>

\* A frame that is not sent is not counted.
FaultyErrors(insecure, failed) == insecure

Errors(insecure, failed) == insecure + failed

\* A finished frame, of which the security could not be applied if insecure is 1
\* and the sending fails if failed is 1.
CompleteFrame(insecure, failed) ==
  /\ pc = "finish" /\ ready
  /\ ready' = FALSE /\ frame' = <<>>
  /\ Fail(insecure + failed)
  /\ devErr' = (devErr + Errors(insecure, failed)) % CounterMod
  /\ UNCHANGED <<sizes, pipe, pktCount, free>>

\* A frame whose security could not be applied is sent all the same.
SendFrame ==
  /\ \E insecure \in {0, 1} : CompleteFrame(insecure, 0)
  /\ sent' = sent \o frame
  /\ pc' = AfterFrame
  /\ devCount' = Inc(devCount)
  /\ UNCHANGED <<pending, lost>>

SendFails ==
  /\ \E insecure \in {0, 1} : CompleteFrame(insecure, 1)
  /\ lost' = lost \cup ToSet(frame)
  /\ pc' = AfterFrame
  /\ UNCHANGED <<sent, pending, devCount>>

SynchronizeFails ==
  /\ \E insecure \in {0, 1} : CompleteFrame(insecure, 1)
  /\ lost' = lost \cup ToSet(frame) \cup Forgotten
  /\ pending' = NoPacket
  /\ pc' = "idle"
  /\ UNCHANGED <<sent, devCount>>

FinishFrame == CompleteFrameFails \/ SendFrame \/ SendFails \/ SynchronizeFails

Downlink ==
  \/ PipeEmpty \/ StartFrameFails \/ AddPacket \/ LeavePacket \/ FinishFrame

Next == Publish \/ DiscardPipe \/ StartService \/ StartServiceFails \/ Downlink

Spec == Init /\ [][Next]_vars

\* A started poll goes on, and the scheduler keeps asking for service.
FairSpec == Spec /\ WF_vars(Downlink) /\ WF_vars(StartService)

-----------------------------------------------------------------------------
(* Properties                                                               *)

Packet == 1 .. MaxPackets

\* Types of the variables.
TypeOK ==
  /\ sizes \in Seq(Sizes) /\ Len(sizes) <= MaxPackets
  /\ pipe \in Seq(Packet) /\ Len(pipe) <= PipeDepth
  /\ pc \in {"idle", "pack", "finish"}
  /\ pktCount \in 0 .. MaxTx
  /\ pending \in Packet \cup {NoPacket}
  /\ ready \in BOOLEAN /\ free \in 0 .. Capacity
  /\ frame \in Seq(Packet) /\ sent \in Seq(Packet)
  /\ lost \subseteq Packet
  /\ devCount \in 0 .. CounterMod - 1 /\ devErr \in 0 .. CounterMod - 1
  /\ faults \in 0 .. MaxFaults

\* All that is on its way, oldest first.
Inflight == sent \o frame \o (IF pending = NoPacket THEN <<>> ELSE <<pending>>) \o pipe

\* Whatever fails, packets are sent in the order they were published, none is
\* sent twice, and the frame, the packet left over and the pipe continue it.
InOrder ==
  \A i, j \in 1 .. Len(Inflight) : i < j => Inflight[i] < Inflight[j]

\* Every packet published is on its way, sent or lost, and no lost packet is
\* also on its way.
Conserved ==
  /\ ToSet(Inflight) \cup lost = 1 .. Len(sizes)
  /\ ToSet(Inflight) \cap lost = {}

SizeSum(s) == FoldSeq(LAMBDA p, n : sizes[p] + n, 0, s)

\* Packets never take the last octet of a frame, and the octets reported free are those they
\* leave, or none once an idle packet has filled a frame that then could not be completed:
\* a frame retried in a later poll takes no packet into octets that are used.
FrameFits ==
  ready => /\ SizeSum(frame) < Capacity
           /\ free = 0 \/ free + SizeSum(frame) = Capacity

\* Once a poll is over no packet is left in its hands.
NothingLeftOver == pc = "idle" => pending = NoPacket

\* A packet the downlink takes out of the pipe and loses is counted as a device
\* error; only the software bus and a poll without downlink lose silently.
LossIsCounted ==
  [][lost' # lost /\ pc # "idle" /\ sizes' = sizes => devErr' # devErr]_vars

\* Calls fail finitely often: each one that does is counted.
FailuresEnd == <>[][UNCHANGED devErr]_vars

\* However often calls fail, the downlink is a link of packets that keeps their order and
\* drops one only when the pipe is full or a call failed; unless they fail without end, it
\* keeps none back for ever.
Link == INSTANCE PacketLink WITH
  published <- Len(sizes), delivered <- sent, disturbed <- faults > 0
ImplementsPacketLink == Link!Safety /\ (FailuresEnd => Link!Progress)

\* "Packet too large to fit in frame, leave for next frame" (radio_app.c:1057):
\* the packet that is left is taken up again.
LeftIsTaken == pending # NoPacket ~> pending = NoPacket

\* What is left of a poll: packets up to the limit, and the parts of the frame being
\* filled.  A frame that was just begun takes any packet.
PacketsLeft == MaxTx - pktCount
PartsLeft ==
  CASE pc = "pack" /\ ready -> 3
    [] pc = "finish" /\ ready -> 2
    [] pc # "idle" /\ ~ready -> 1
    [] pc = "idle" -> 0

Left == PacketsLeft \in Nat /\ PartsLeft \in 0 .. 3

\* Less is left than before: the first of the two that changes is lower.
LessIsLeft ==
  \/ PacketsLeft' < PacketsLeft
  \/ PacketsLeft' = PacketsLeft /\ PartsLeft' < PartsLeft

\* While each packet fits in an empty frame, every step of a poll brings it nearer to its
\* end or counts a device error: the two loops go round for nothing only as long as calls
\* fail, and never silently.
PollAdvances == [][Downlink => Left /\ Left' /\ (LessIsLeft \/ devErr' # devErr)]_vars
=============================================================================
