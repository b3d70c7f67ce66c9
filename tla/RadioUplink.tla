---------------------------- MODULE RadioUplink ----------------------------
(***************************************************************************)
(* RADIO_ServiceUplink: polls the radio for bytes, cuts the byte stream     *)
(* into TC transfer frames and hands each to CryptoLib.  A byte is          *)
(* abstracted to the one thing the parser reads off it: the frame length a  *)
(* TC header starting at that byte would claim.  A byte also knows which    *)
(* frame of the ground it is part of, so that what is handed over can be    *)
(* compared with what was sent; the parser never looks at that.             *)
(*                                                                         *)
(* The ground and the buffer of the radio are external here: frames arrive  *)
(* while the application polls.  Limit says how many bytes of noise, failed *)
(* reads, lost reads and power cycles a run may have.  Operators named      *)
(* Faulty... are plausible bugs, to show which property notices each; no    *)
(* action uses them.                                                        *)
(***************************************************************************)
EXTENDS Naturals, Sequences, FiniteSets

CONSTANTS
  HdrLen,      \* length of a TC primary header: 5
  MaxPayload,  \* RADIO_MAX_PAYLOAD_SIZE, the size of ReceiveBuffer: 1024, which
               \* is also the longest frame the 10-bit length field can claim
  MaxRx,       \* RADIO_CFG_MAX_RX_MSGS_PER_POLL: 10
  CounterMod,  \* DeviceErrorCount is a uint8: 256
  FrameLens,   \* lengths of the frames the ground sends
  MaxFrames,   \* bound on the frames the ground sends
  BodyClaims,  \* lengths that bytes inside a frame would claim
  NoiseClaims, \* lengths that bytes outside any frame would claim
  RingSize,    \* bytes the radio can buffer
  Limit        \* bounds on the events of the environment

Event == {"noise", "failure", "loss", "powercycle"}
Claim == 1 .. MaxPayload

ASSUME SizeAssumption ==
  /\ HdrLen \in Nat \ {0} /\ MaxPayload \in Nat /\ HdrLen <= MaxPayload
  /\ MaxRx \in Nat \ {0} /\ CounterMod \in Nat \ {0, 1}
  /\ MaxFrames \in Nat /\ RingSize \in Nat
ASSUME StreamAssumption ==
  /\ FrameLens \subseteq HdrLen .. MaxPayload
  /\ BodyClaims \subseteq Claim /\ NoiseClaims \subseteq Claim
ASSUME LimitAssumption == Limit \in [Event -> Nat]

VARIABLES
  ring,     \* bytes waiting in the radio (external)
  buf,      \* ReceiveBuffer[0 .. ReceiveBuffLength)
  pc,       \* "idle" (no poll), "recv" (loop head), "parse" (inner loop)
  tries,    \* max_rx_transactions, the reads left in this poll
  offset,   \* offset of the parser in the buffer
  devErr,   \* HkTelemetryPkt.DeviceErrorCount
  sent,     \* history: lengths of the frames sent
  got,      \* history: bytes of each frame that reached the buffer
  handed,   \* history: for each call of CryptoLib the frame it was, 0 if none
  spent     \* history: events of the environment so far

vars == <<ring, buf, pc, tries, offset, devErr, sent, got, handed, spent>>

Byte == [claim : Claim, frame : 0 .. MaxFrames, pos : 0 .. MaxPayload]

Init ==
  /\ ring = <<>> /\ buf = <<>>
  /\ pc = "idle" /\ tries = 0 /\ offset = 0 /\ devErr = 0
  /\ sent = <<>> /\ got = [f \in 1 .. MaxFrames |-> 0] /\ handed = <<>>
  /\ spent = [e \in Event |-> 0]

Spend(e) ==
  /\ spent[e] < Limit[e]
  /\ spent' = [spent EXCEPT ![e] = @ + 1]

-----------------------------------------------------------------------------
(* The environment                                                          *)

\* The n bytes of frame f, whose inner bytes would claim length c.
FrameBytes(f, n, c) ==
  [i \in 1 .. n |-> [claim |-> IF i = 1 THEN n ELSE c, frame |-> f, pos |-> i]]

GroundSends ==
  /\ Len(sent) < MaxFrames
  /\ \E n \in FrameLens, c \in BodyClaims :
       /\ Len(ring) + n <= RingSize
       /\ sent' = Append(sent, n)
       /\ ring' = ring \o FrameBytes(Len(sent) + 1, n, c)
  /\ UNCHANGED <<buf, pc, tries, offset, devErr, got, handed, spent>>

Noise ==
  /\ Spend("noise")
  /\ Len(ring) < RingSize
  /\ \E c \in NoiseClaims : ring' = Append(ring, [claim |-> c, frame |-> 0, pos |-> 0])
  /\ UNCHANGED <<buf, pc, tries, offset, devErr, sent, got, handed>>

\* RADIO_Disable and RADIO_Enable, between two polls: the radio forgets what it
\* has buffered, the application does not.
PowerCycle ==
  /\ pc = "idle"
  /\ Spend("powercycle")
  /\ ring' = <<>>
  /\ UNCHANGED <<buf, pc, tries, offset, devErr, sent, got, handed>>

-----------------------------------------------------------------------------
(* The poll                                                                 *)

\* RADIO_SERVICE_CC with the device enabled and receiving.
StartPoll ==
  /\ pc = "idle"
  /\ pc' = "recv" /\ tries' = MaxRx
  /\ UNCHANGED <<ring, buf, offset, devErr, sent, got, handed, spent>>

Room == MaxPayload - Len(buf)

\* All there is, even if the buffer has no room for it.
FaultyTaken == Len(ring)

\* What RADIO_RECEIVE gets out of the radio: as much as there is and as fits.
Taken == IF Len(ring) < Room THEN Len(ring) ELSE Room

Chunk == SubSeq(ring, 1, Taken)

\* The radio keeps what it sent.
FaultyRestOfRing == ring

RestOfRing == SubSeq(ring, Taken + 1, Len(ring))

\* The reads are not counted.
FaultyNextTry == pc' = "recv" /\ UNCHANGED tries

\* The end of one turn of the outer loop.
NextTry ==
  /\ tries' = tries - 1
  /\ pc' = (IF tries = 1 THEN "idle" ELSE "recv")

\* How many bytes of frame f there are in s.
Share(f, s) == Cardinality({i \in 1 .. Len(s) : s[i].frame = f})

Receive ==
  /\ pc = "recv"
  /\ ring' = RestOfRing
  /\ buf' = buf \o Chunk
  /\ got' = [f \in DOMAIN got |-> got[f] + Share(f, Chunk)]
  /\ \/ Len(buf \o Chunk) > 0 /\ pc' = "parse" /\ UNCHANGED tries
     \/ Len(buf \o Chunk) = 0 /\ NextTry
  /\ offset' = 0
  /\ UNCHANGED <<devErr, sent, handed, spent>>

\* RADIO_ReceiveData failed.  The radio either never saw the request, or took
\* the bytes out of its buffer for a reply that did not get through.
ReceiveFails ==
  /\ pc = "recv"
  /\ \/ Spend("failure") /\ UNCHANGED ring
     \/ Spend("loss") /\ ring' = RestOfRing
  /\ devErr' = (devErr + 1) % CounterMod
  /\ pc' = "idle"
  /\ UNCHANGED <<buf, tries, offset, sent, got, handed>>

-----------------------------------------------------------------------------
(* The parser                                                               *)

\* A header, or a frame, that ends where the buffer ends is taken for a partial one.
FaultyHeaderAt(o) == o + HdrLen < Len(buf)
HeaderAt(o) == o + HdrLen <= Len(buf)

ClaimAt(o) == buf[o + 1].claim

FaultyCompleteAt(o) == o + ClaimAt(o) < Len(buf)
CompleteAt(o) == o + ClaimAt(o) <= Len(buf)

PlausibleAt(o) == HeaderAt(o) /\ ClaimAt(o) >= HdrLen /\ CompleteAt(o)

Parsing == pc = "parse" /\ HeaderAt(offset)

\* The frame that s is, 0 if it is none.
FrameOf(s) ==
  IF /\ s[1].frame # 0
     /\ Len(s) = sent[s[1].frame]
     /\ \A i \in 1 .. Len(s) : s[i].frame = s[1].frame /\ s[i].pos = i
  THEN s[1].frame ELSE 0

\* Crypto_TC_ProcessSecurity accepts the frame or does not.
HandFrame ==
  /\ Parsing
  /\ ClaimAt(offset) >= HdrLen /\ CompleteAt(offset)
  /\ handed' = Append(handed, FrameOf(SubSeq(buf, offset + 1, offset + ClaimAt(offset))))
  /\ devErr' \in {devErr, (devErr + 1) % CounterMod}
  /\ offset' = offset + ClaimAt(offset)
  /\ UNCHANGED <<ring, buf, pc, tries, sent, got, spent>>

\* The scan for a plausible header begins one byte further on.
ResyncFrom(o) == o + 1

Resync ==
  /\ Parsing /\ ClaimAt(offset) < HdrLen
  /\ \E o \in ResyncFrom(offset) .. Len(buf) :
       /\ PlausibleAt(o)
       /\ \A q \in ResyncFrom(offset) .. o - 1 : ~PlausibleAt(q)
       /\ offset' = o
  /\ UNCHANGED <<ring, buf, pc, tries, devErr, sent, got, handed, spent>>

\* A partial frame is thrown away.
FaultyRemainder(o) == <<>>

Remainder(o) == SubSeq(buf, o + 1, Len(buf))

\* What the parser leaves is moved to the front of the buffer.
Keep(o) ==
  /\ buf' = Remainder(o)
  /\ offset' = 0
  /\ NextTry
  /\ UNCHANGED <<ring, devErr, sent, got, handed, spent>>

\* The garbage is kept for the next read.
FaultyDropBuffer ==
  /\ Parsing /\ ClaimAt(offset) < HdrLen
  /\ \A o \in ResyncFrom(offset) .. Len(buf) : ~PlausibleAt(o)
  /\ Keep(offset)

DropBuffer ==
  /\ Parsing /\ ClaimAt(offset) < HdrLen
  /\ \A o \in ResyncFrom(offset) .. Len(buf) : ~PlausibleAt(o)
  /\ Keep(Len(buf))

KeepPartial ==
  /\ Parsing /\ ClaimAt(offset) >= HdrLen /\ ~CompleteAt(offset)
  /\ Keep(offset)

KeepTail ==
  /\ pc = "parse" /\ ~HeaderAt(offset)
  /\ Keep(offset)

Poll == Receive \/ ReceiveFails \/ HandFrame \/ Resync \/ DropBuffer \/ KeepPartial \/ KeepTail

Next == GroundSends \/ Noise \/ PowerCycle \/ StartPoll \/ Poll

Spec == Init /\ [][Next]_vars

\* A started poll runs to its end, and the scheduler keeps asking for service.
FairSpec == Spec /\ WF_vars(Poll) /\ WF_vars(StartPoll)

-----------------------------------------------------------------------------
(* Properties                                                               *)

\* Types of the variables.
TypeOK ==
  /\ ring \in Seq(Byte) /\ buf \in Seq(Byte)
  /\ pc \in {"idle", "recv", "parse"}
  /\ tries \in 0 .. MaxRx /\ (pc # "idle" => tries > 0)
  /\ offset \in Nat
  /\ devErr \in 0 .. CounterMod - 1
  /\ sent \in Seq(FrameLens) /\ Len(sent) <= MaxFrames
  /\ got \in [1 .. MaxFrames -> Nat]
  /\ handed \in Seq(0 .. MaxFrames)
  /\ spent \in [Event -> Nat]

\* The parser stays inside what was received, and what was received inside
\* ReceiveBuffer: the check for overflow after the read never fires, and no
\* header or frame is read past the end, whatever bytes arrive.
InBounds ==
  /\ offset <= Len(buf)
  /\ Len(buf) <= MaxPayload

\* When it reads, the application always has room: a full buffer with a frame
\* that never completes would ask for zero bytes for ever.
AlwaysRoom == pc \in {"idle", "recv"} => Len(buf) < MaxPayload

\* What is kept between reads is less than a frame: no complete frame waits in
\* the buffer for bytes that belong to the next one.
KeptIsPartial ==
  pc \in {"idle", "recv"} =>
    \/ Len(buf) < HdrLen
    \/ ClaimAt(0) >= HdrLen /\ ~CompleteAt(0)

\* README.md:84, "data received during the radio service will be placed on the
\* software bus": when a poll is over, every frame whose bytes all reached the
\* buffer has been handed over whole.
ReceivedIsHanded ==
  pc = "idle" =>
    \A f \in 1 .. Len(sent) :
      got[f] = sent[f] => \E i \in 1 .. Len(handed) : handed[i] = f

\* Whatever disturbs the stream, the frames that are handed over whole are in
\* the order they were sent and none of them comes twice.
HandedInOrder ==
  \A i, j \in 1 .. Len(handed) : i < j /\ handed[i] # 0 /\ handed[j] # 0 =>
    handed[i] < handed[j]

\* The undisturbed uplink is a reliable link of frames.
Link == INSTANCE FrameLink WITH delivered <- handed
ImplementsFrameLink == Link!Spec

\* Every poll ends, whatever bytes arrive.
PollEnds == pc # "idle" ~> pc = "idle"

\* What is left of a poll: reads, the parts of one turn of the outer loop, and the bytes the
\* parser has not passed.
ReadsLeft == tries
PartsLeft == CASE pc = "recv" -> 2 [] pc = "parse" -> 1 [] pc = "idle" -> 0
BytesLeft == Len(buf) - offset

\* Less is left than before: the first of the three that changes is lower.
LessIsLeft ==
  \/ ReadsLeft' < ReadsLeft
  \/ ReadsLeft' = ReadsLeft /\ PartsLeft' < PartsLeft
  \/ ReadsLeft' = ReadsLeft /\ PartsLeft' = PartsLeft /\ BytesLeft' < BytesLeft

Left == ReadsLeft \in 0 .. MaxRx /\ PartsLeft \in 0 .. 2 /\ BytesLeft \in 0 .. MaxPayload

\* Every step of a poll brings it nearer to its end, whatever bytes arrive meanwhile and
\* whatever they claim to be: the parser never stays where it is, and a turn of the outer
\* loop uses up a read, of which there are MaxRx.
PollAdvances == [][Poll => Left /\ LessIsLeft /\ Left']_vars
=============================================================================
