---------------------------- MODULE PacketScan -----------------------------
(***************************************************************************)
(* What RADIO_ServiceUplink does with one transfer frame: CryptoLib turns it *)
(* into a payload (tc_pdu), in which a scan looks for space packets that are *)
(* commands and hands each to the software bus.  The scan trusts nothing but *)
(* the header it finds: a packet steps over its own length, anything else    *)
(* steps one octet further.  The widths are scaled: an octet is a number     *)
(* below WordMod, the first octet of a header tells whether it is a command  *)
(* (version 0, type 1) and the last one holds packet_len; total_packet_size  *)
(* wraps at WordMod.  Operators named Faulty... are plausible bugs, to show  *)
(* which property notices each; no action uses them.                         *)
(***************************************************************************)
EXTENDS Naturals, Sequences, SequencesExt

CONSTANTS
  HdrLen,         \* octets of a space packet header: 6
  WordMod,        \* values of a uint16: 2^16
  Octets,         \* octets of a payload
  CommandOctets,  \* first octets that say version 0 and type 1
  MaxPdu          \* bound on the length of a payload

ASSUME WidthAssumption == HdrLen \in Nat \ {0} /\ WordMod \in Nat /\ WordMod > HdrLen + 1
ASSUME PduAssumption ==
  /\ Octets \subseteq 0 .. WordMod - 1 /\ CommandOctets \subseteq Octets
  /\ MaxPdu \in 0 .. WordMod - 1

VARIABLES
  state,      \* "idle" between two frames, "scan" in the loop, "done" after it
  pdu,        \* tc_pdu
  offset,     \* scan_offset
  forwarded   \* offsets of the packets handed to the software bus, in order

vars == <<state, pdu, offset, forwarded>>

MinTotal == HdrLen + 1

Init == state = "idle" /\ pdu = <<>> /\ offset = 0 /\ forwarded = <<>>

\* Crypto_TC_ProcessSecurity accepts the frame (external); a frame it refuses
\* leaves everything as it is, except for a counter.
Decrypt ==
  /\ state = "idle"
  /\ pdu' \in BoundedSeq(Octets, MaxPdu)
  /\ state' = "scan"
  /\ UNCHANGED <<offset, forwarded>>

-----------------------------------------------------------------------------
(* A header at offset o                                                     *)

\* There are octets enough for a header.
HasHeader(o) == o + HdrLen <= Len(pdu)

Command(o) == pdu[o + 1] \in CommandOctets
PacketLen(o) == pdu[o + HdrLen]

\* total_packet_size is a uint16 and wraps.
TotalSize(o) == (PacketLen(o) + MinTotal) % WordMod

\* A size that wrapped is not noticed.
FaultyIsPacket(o) == Command(o) /\ o + TotalSize(o) <= Len(pdu)

IsPacket(o) ==
  /\ Command(o)
  /\ TotalSize(o) >= MinTotal
  /\ o + TotalSize(o) <= Len(pdu)

\* The scan goes on inside the packet, or one octet too far: the loop's own
\* increment is forgotten.
FaultyNextOffset(o) == o + 1
FaultyAfterPacket(o) == o + TotalSize(o) + 1

\* The increment of the loop included.
NextOffset(o) == o + TotalSize(o)

\* The length of a packet that is refused is stepped over too.
FaultyPastOther(o) == o + TotalSize(o)

PastOther(o) == o + 1

-----------------------------------------------------------------------------
(* The scan                                                                 *)

Forward ==
  /\ state = "scan" /\ HasHeader(offset) /\ IsPacket(offset)
  /\ forwarded' = Append(forwarded, offset)
  /\ offset' = NextOffset(offset)
  /\ UNCHANGED <<state, pdu>>

StepOver ==
  /\ state = "scan" /\ HasHeader(offset) /\ ~IsPacket(offset)
  /\ offset' = PastOther(offset)
  /\ UNCHANGED <<state, pdu, forwarded>>

EndScan ==
  /\ state = "scan" /\ ~HasHeader(offset)
  /\ state' = "done"
  /\ UNCHANGED <<pdu, offset, forwarded>>

Scan == Forward \/ StepOver \/ EndScan

\* offset += frame_len: the next frame of the receive buffer.
NextFrame ==
  /\ state = "done"
  /\ state' = "idle" /\ pdu' = <<>> /\ offset' = 0 /\ forwarded' = <<>>

Next == Decrypt \/ Scan \/ NextFrame

Spec == Init /\ [][Next]_vars

\* The loop is code that runs on.
FairSpec == Spec /\ WF_vars(Scan)

-----------------------------------------------------------------------------
(* Properties                                                               *)

\* Types of the variables.
TypeOK ==
  /\ state \in {"idle", "scan", "done"}
  /\ pdu \in Seq(Octets) /\ Len(pdu) <= MaxPdu
  /\ offset \in 0 .. Len(pdu)
  /\ forwarded \in Seq(0 .. Len(pdu))

\* The octets the software bus reads for a packet: CFE_SB_TransmitMsg takes the
\* length from the header and does not wrap it (external).
TrueSize(o) == PacketLen(o) + MinTotal

\* Whatever the payload holds, the software bus never reads beyond its end.
InsidePdu == \A k \in 1 .. Len(forwarded) : forwarded[k] + TrueSize(forwarded[k]) <= Len(pdu)

\* No octet is part of two packets: a header inside a packet that was forwarded is
\* not taken for another packet.
Disjoint ==
  \A j, k \in 1 .. Len(forwarded) :
    j < k => forwarded[j] + TrueSize(forwarded[j]) <= forwarded[k]

\* B are the boundaries of a payload that is nothing but command packets, one
\* after the other: the packets begin at B but for the last, which is the end.
Boundaries(B) ==
  /\ {0, Len(pdu)} \subseteq B
  /\ \A b \in B \ {Len(pdu)} :
       /\ HasHeader(b) /\ Command(b)
       /\ b + TrueSize(b) \in B
       /\ \A c \in B : c <= b \/ c >= b + TrueSize(b)

\* A payload that is nothing but command packets is forwarded packet by packet,
\* none left out and none made up of parts of others.
StreamForwarded ==
  \A B \in SUBSET (0 .. Len(pdu)) :
    state = "done" /\ Boundaries(B) => Range(forwarded) = B \ {Len(pdu)}

\* The scan comes to its end on every payload.
ScanEnds == state = "scan" ~> state = "done"

\* The octets that lie before the scan, and the end of it.
ScanLeft == (Len(pdu) - offset) + (IF state = "scan" THEN 1 ELSE 0)

\* Each turn of the loop, and its end, lowers a natural number: the scan makes at most
\* one turn for each octet of the payload, whatever the octets say.
ScanAdvances == [][Scan => ScanLeft \in Nat /\ ScanLeft' \in Nat /\ ScanLeft' < ScanLeft]_vars
=============================================================================
