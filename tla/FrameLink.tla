----------------------------- MODULE FrameLink -----------------------------
(***************************************************************************)
(* What the uplink promises the ground on a link that loses nothing: the    *)
(* frames sent are handed to CryptoLib whole, in order and once each, and   *)
(* none is kept back for ever.  Frames are numbered in the order they are   *)
(* sent; nothing is said of reads, buffers or polls.                        *)
(***************************************************************************)
EXTENDS Naturals, Sequences

CONSTANTS
  FrameLens,  \* the lengths a frame may have
  MaxFrames   \* bound on the frames of one run

VARIABLES
  sent,       \* lengths of the frames sent so far
  delivered   \* numbers of the frames handed over so far

Init == sent = <<>> /\ delivered = <<>>

Send ==
  /\ Len(sent) < MaxFrames
  /\ \E n \in FrameLens : sent' = Append(sent, n)
  /\ UNCHANGED delivered

Deliver ==
  /\ Len(delivered) < Len(sent)
  /\ delivered' = Append(delivered, Len(delivered) + 1)
  /\ UNCHANGED sent

Next == Send \/ Deliver

vars == <<sent, delivered>>

\* What happens is allowed; Spec adds that what is sent is delivered in the end.
Safety == Init /\ [][Next]_vars

Spec == Safety /\ WF_vars(Deliver)
=============================================================================
