------------------------------ MODULE RxQueue ------------------------------
(***************************************************************************)
(* What the simulated radio's receive buffer promises: a bounded queue of   *)
(* the ground's octets.  A burst that arrives is cut when the queue is      *)
(* full, the flight software takes octets from the front in order of        *)
(* arrival and each once, and a power cut empties the queue.                *)
(***************************************************************************)
EXTENDS Naturals, Sequences

CONSTANTS
  Room,     \* octets the queue holds
  Bursts,   \* sizes of the bursts the ground sends
  MaxBytes  \* bound on the octets of one run

VARIABLES
  arrived,    \* number of octets that have arrived; an octet is its number
  queue,      \* octets that wait, oldest first
  delivered   \* octets the flight software has taken

vars == <<arrived, queue, delivered>>

Init == arrived = 0 /\ queue = <<>> /\ delivered = <<>>

Arrive ==
  \E n \in Bursts, kept \in 0 .. Room :
    /\ arrived + n <= MaxBytes
    /\ kept = IF n <= Room - Len(queue) THEN n ELSE Room - Len(queue)
    /\ queue' = queue \o [i \in 1 .. kept |-> arrived + i]
    /\ arrived' = arrived + n
    /\ UNCHANGED delivered

Take ==
  \E n \in 1 .. Len(queue) :
    /\ delivered' = delivered \o SubSeq(queue, 1, n)
    /\ queue' = SubSeq(queue, n + 1, Len(queue))
    /\ UNCHANGED arrived

Cut == queue' = <<>> /\ UNCHANGED <<arrived, delivered>>

Next == Arrive \/ Take \/ Cut

Spec == Init /\ [][Next]_vars
=============================================================================
