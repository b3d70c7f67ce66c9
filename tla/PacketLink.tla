---------------------------- MODULE PacketLink -----------------------------
(***************************************************************************)
(* What the downlink promises the other applications: the packets they       *)
(* publish reach the radio in order and each at most once, some number of    *)
(* them at a time; a packet is dropped only when the pipe is full or after a *)
(* disturbance; and none is kept back for ever.  Packets are numbered in the *)
(* order they are published; frames and polls are hidden.                    *)
(***************************************************************************)
EXTENDS Naturals, FiniteSets, Sequences, SequencesExt

CONSTANTS
  MaxPackets,  \* bound on the packets of one run
  PipeDepth    \* packets that may wait without a loss

VARIABLES
  published,   \* number of packets published so far
  delivered,   \* numbers of the packets sent to the radio so far
  lost,        \* numbers of the packets that will not be sent
  disturbed    \* TRUE once a call failed or a poll had no downlink

vars == <<published, delivered, lost, disturbed>>

Init == published = 0 /\ delivered = <<>> /\ lost = {} /\ disturbed = FALSE

Waiting == 1 .. published \ (ToSet(delivered) \cup lost)

Publish ==
  /\ published < MaxPackets
  /\ published' = published + 1
  /\ \/ UNCHANGED lost
     \/ Cardinality(Waiting) >= PipeDepth /\ lost' = lost \cup {published'}
  /\ UNCHANGED <<delivered, disturbed>>

Disturb == disturbed' = TRUE /\ UNCHANGED <<published, delivered, lost>>

\* The oldest n packets, which share a frame.
Deliver ==
  /\ \E n \in 1 .. published :
       \E batch \in [1 .. n -> Waiting] :
         /\ \A i, j \in 1 .. n : i < j => batch[i] < batch[j]
         /\ \A p \in Waiting : p > batch[n] \/ \E i \in 1 .. n : batch[i] = p
         /\ delivered' = delivered \o batch
  /\ disturbed' \in {disturbed, TRUE}
  /\ UNCHANGED <<published, lost>>

Lose ==
  /\ \E some \in (SUBSET Waiting) \ {{}} : lost' = lost \cup some
  /\ disturbed' = TRUE
  /\ UNCHANGED <<published, delivered>>

Next == Publish \/ Disturb \/ Deliver \/ Lose

\* What happens is allowed, and each packet is sent or lost in the end.
Safety == Init /\ [][Next]_vars
Progress == WF_vars(Deliver \/ Lose)

Spec == Safety /\ Progress
=============================================================================
