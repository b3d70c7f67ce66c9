-------------------------- MODULE RadioSim_proofs ---------------------------
(***************************************************************************)
(* For every ring size and every input, under every interleaving of the two  *)
(* threads: the mode in housekeeping is the mode in force; what the radio    *)
(* acquires is there as long as a thread uses it and is released in the end; *)
(* and the ring buffer implements the queue of RxQueue.                      *)
(***************************************************************************)
EXTENDS RadioSim, SequenceTheorems, TLAPS

-----------------------------------------------------------------------------
(* The mode in housekeeping                                                 *)

\* Only the shape of hk strengthens the property: an update of a field that is not there
\* would be no update.
HasMode == "mode" \in DOMAIN hk

IInv == HasMode /\ HkMirrorsMode

\* The radio starts in duplex mode, in its configuration and in housekeeping
\* (radio_sim_init).
LEMMA InitMirrors == Init => IInv
  BY DEF Init, IInv, HasMode, HkMirrorsMode

\* What the UDP thread does never touches the mode.
LEMMA UdpMirrors == ASSUME IInv, UdpThread PROVE IInv'
<1>1. UNCHANGED <<hk, config, tick>>
  BY DEF UdpThread, NoDatagram, AcceptDatagram, LockBuffer, StoreDatagram, StopUdp, device
<1> QED
  BY <1>1 DEF IInv, HasMode, HkMirrorsMode

\* Neither does the life cycle.
LEMMA LifeMirrors == ASSUME IInv, LifeCycle PROVE IInv'
<1>1. UNCHANGED <<hk, config, tick>>
  BY DEF LifeCycle, Acquire, AcquireFails, StopRunning, Cleanup, device
<1> QED
  BY <1>1 DEF IInv, HasMode, HkMirrorsMode

\* Counting a command (radio_sim.c:425) leaves the mode of housekeeping alone.
LEMMA CountedMode ==
  ASSUME NEW h, "mode" \in DOMAIN h
  PROVE  "mode" \in DOMAIN Counted(h) /\ Counted(h).mode = h.mode
  BY DEF Counted

\* Each command that changes a mode changes both, and the others neither.
LEMMA SpiMirrors == ASSUME IInv, ServeSpi PROVE IInv'
<1> USE DEF IInv, HasMode, HkMirrorsMode, Goto, Serve
<1>1. CASE NoCommand
  BY <1>1 DEF NoCommand, device
<1>2. CASE Noop
  BY <1>2, CountedMode DEF Noop
<1>3. CASE SetConfig
  <2>1. PICK m \in ConfigModes, s \in Settings :
          /\ config' = [mode |-> m, setting |-> s]
          /\ hk' = Counted([hk EXCEPT !.mode = m, !.setting = s])
    BY <1>3 DEF SetConfig
  <2> DEFINE set == [hk EXCEPT !.mode = m, !.setting = s]
  <2>2. "mode" \in DOMAIN set /\ set.mode = m
    OBVIOUS
  <2>3. "mode" \in DOMAIN Counted(set) /\ Counted(set).mode = m
    <3> HIDE DEF set
    <3> QED BY <2>2, CountedMode
  <2> QED
    BY <2>1, <2>3
<1>4. CASE Receive
  <2>1. PICK n : hk' = Counted([hk EXCEPT !.sent = (@ + n) % WordMod])
    BY <1>4 DEF Receive
  <2> DEFINE taken == [hk EXCEPT !.sent = (@ + n) % WordMod]
  <2>2. "mode" \in DOMAIN taken /\ taken.mode = hk.mode
    OBVIOUS
  <2>3. "mode" \in DOMAIN Counted(taken) /\ Counted(taken).mode = hk.mode
    <3> HIDE DEF taken
    <3> QED BY <2>2, CountedMode
  <2> QED
    BY <1>4, <2>1, <2>3 DEF Receive
<1>5. CASE SendData
  <2>1. PICK n : hk' = Counted([hk EXCEPT !.received = (@ + Payload) % WordMod,
                                          !.sent = (@ + n) % WordMod])
    BY <1>5 DEF SendData
  <2> DEFINE sent == [hk EXCEPT !.received = (@ + Payload) % WordMod,
                                !.sent = (@ + n) % WordMod]
  <2>2. "mode" \in DOMAIN sent /\ sent.mode = hk.mode
    OBVIOUS
  <2>3. "mode" \in DOMAIN Counted(sent) /\ Counted(sent).mode = hk.mode
    <3> HIDE DEF sent
    <3> QED BY <2>2, CountedMode
  <2> QED
    BY <1>5, <2>1, <2>3 DEF SendData
<1>6. CASE RequestHk
  BY <1>6 DEF RequestHk, Snapshot
<1>7. CASE SendHousekeeping
  BY <1>7, CountedMode DEF SendHousekeeping, device
<1> QED
  BY <1>1, <1>2, <1>3, <1>4, <1>5, <1>6, <1>7 DEF ServeSpi

\* A power-off leaves the two modes apart until it has put both to sleep.
LEMMA PinsMirror == ASSUME IInv, ServePins PROVE IInv'
<1> USE DEF IInv, HasMode, HkMirrorsMode, Goto
<1>1. CASE KeepPower
  BY <1>1 DEF KeepPower
<1>2. CASE PowerOn
  BY <1>2 DEF PowerOn
<1>3. CASE PowerOff
  BY <1>3 DEF PowerOff
<1>4. CASE ClearBuffer
  BY <1>4 DEF ClearBuffer
<1>5. CASE ClearConfig
  BY <1>5 DEF ClearConfig, Asleep
<1>6. CASE EndTick
  BY <1>6 DEF EndTick
<1> QED
  BY <1>1, <1>2, <1>3, <1>4, <1>5, <1>6 DEF ServePins

\* No step of either thread, and no stutter, makes the modes disagree.
LEMMA StepMirrors == ASSUME IInv, [Next]_vars PROVE IInv'
<1>1. CASE UdpThread
  BY <1>1, UdpMirrors
<1>2. CASE StartTick \/ StartTickWithUpdate
  BY <1>2 DEF StartTick, StartTickWithUpdate, Goto, IInv, HasMode, HkMirrorsMode, device
<1>3. CASE ServeSpi
  BY <1>3, SpiMirrors
<1>4. CASE ServePins
  BY <1>4, PinsMirror
<1>5. CASE UNCHANGED vars
  BY <1>5 DEF vars, device, IInv, HasMode, HkMirrorsMode
<1>6. CASE LifeCycle
  BY <1>6, LifeMirrors
<1> QED
  BY <1>1, <1>2, <1>3, <1>4, <1>5, <1>6 DEF Next, TickThread

\* However the UDP thread and the tick thread interleave, the mode the housekeeping
\* reports is the mode in force outside a power-off (radio_sim.c:309, 511).
THEOREM ModeMirrored == Spec => []HkMirrorsMode
<1>1. Init => IInv
  BY InitMirrors
<1>2. IInv /\ [Next]_vars => IInv'
  BY StepMirrors
<1>3. IInv => HkMirrorsMode
  BY DEF IInv
<1> QED
  BY <1>1, <1>2, <1>3, PTL DEF Spec

-----------------------------------------------------------------------------
(* Initialisation and cleanup                                               *)

\* While it starts, the radio holds what the branch of the step to come would release;
\* the UDP thread exists only after that.
HeldInv ==
  /\ stage \in DOMAIN After \cup {"running", "join", "over"}
  /\ stage \in DOMAIN After => held = Released[stage] /\ udp = "none"
  /\ stage \in {"running", "join"} => held = Resource
  /\ stage = "over" => held = {} /\ udp \in {"none", "stopped"}

\* Each branch of radio_sim_init releases one resource more than the branch before it,
\* the one that was acquired in between.
LEMMA ReleasedGrows ==
  ASSUME NEW s \in DOMAIN After
  PROVE  /\ After[s] \in DOMAIN After =>
              Released[After[s]] = Released[s] \cup ({s} \cap Resource)
         /\ After[s] = "running" => Released[s] \cup ({s} \cap Resource) = Resource
         /\ After[s] \in DOMAIN After \cup {"running"}
         /\ s = "thread" <=> After[s] = "running"
<1> DEFINE Steps == {"mutex", "spi", "powerPin", "interruptPin", "rx", "tx", "bind", "thread"}
<1>1. s \in Steps /\ DOMAIN After = Steps
  BY DEF After
<1>2. /\ After["mutex"] = "spi" /\ After["spi"] = "powerPin" /\ After["powerPin"] = "interruptPin"
      /\ After["interruptPin"] = "rx" /\ After["rx"] = "tx" /\ After["tx"] = "bind"
      /\ After["bind"] = "thread" /\ After["thread"] = "running"
  BY DEF After
<1>3. /\ Released["mutex"] = {} /\ Released["spi"] = {"mutex"}
      /\ Released["powerPin"] = {"spi", "mutex"}
      /\ Released["interruptPin"] = {"powerPin", "spi", "mutex"}
      /\ Released["rx"] = {"interruptPin", "powerPin", "spi", "mutex"}
      /\ Released["tx"] = {"rx", "interruptPin", "powerPin", "spi", "mutex"}
      /\ Released["bind"] = Resource /\ Released["thread"] = Resource
  BY DEF Released, Resource
<1>4. After[s] \in Steps \cup {"running"} /\ (s = "thread" <=> After[s] = "running")
  BY <1>1, <1>2
<1>5. Released["mutex"] \cup ({"mutex"} \cap Resource) = Released["spi"]
  BY <1>3 DEF Resource
<1>6. Released["spi"] \cup ({"spi"} \cap Resource) = Released["powerPin"]
  BY <1>3 DEF Resource
<1>7. Released["powerPin"] \cup ({"powerPin"} \cap Resource) = Released["interruptPin"]
  BY <1>3 DEF Resource
<1>8. Released["interruptPin"] \cup ({"interruptPin"} \cap Resource) = Released["rx"]
  BY <1>3 DEF Resource
<1>9. Released["rx"] \cup ({"rx"} \cap Resource) = Released["tx"]
  BY <1>3 DEF Resource
<1>10. Released["tx"] \cup ({"tx"} \cap Resource) = Released["bind"]
  BY <1>3 DEF Resource
<1>11. Released["bind"] \cup ({"bind"} \cap Resource) = Released["thread"]
  BY <1>3 DEF Resource
<1>12. Released["thread"] \cup ({"thread"} \cap Resource) = Resource
  BY <1>3 DEF Resource
<1> QED
  BY <1>1, <1>2, <1>4, <1>5, <1>6, <1>7, <1>8, <1>9, <1>10, <1>11, <1>12

LEMMA InitHeld == Init => HeldInv
  BY DEF Init, HeldInv, After, Released

LEMMA LifeHeld == ASSUME HeldInv, LifeCycle PROVE HeldInv'
<1>0. "running" \notin DOMAIN After /\ "join" \notin DOMAIN After /\ "over" \notin DOMAIN After
  BY DEF After
<1>1. CASE Acquire
  <2>1. stage \in DOMAIN After /\ held = Released[stage] /\ udp = "none"
    BY <1>1 DEF Acquire, HeldInv
  <2>2. stage' = After[stage] /\ held' = Released[stage] \cup ({stage} \cap Resource)
    BY <1>1, <2>1 DEF Acquire
  <2>3. stage # "thread" => udp' = "none"
    BY <1>1, <2>1 DEF Acquire
  <2> QED
    BY <1>0, <2>1, <2>2, <2>3, ReleasedGrows DEF HeldInv
<1>2. CASE AcquireFails
  BY <1>0, <1>2 DEF AcquireFails, HeldInv, udpVars
<1>3. CASE StopRunning
  BY <1>0, <1>3 DEF StopRunning, HeldInv
<1>4. CASE Cleanup
  BY <1>0, <1>4 DEF Cleanup, Joined, HeldInv, udpVars
<1> QED
  BY <1>1, <1>2, <1>3, <1>4 DEF LifeCycle

LEMMA UdpHeld == ASSUME HeldInv, UdpThread PROVE HeldInv'
<1>1. udp \notin {"none", "stopped"} /\ UNCHANGED <<stage, held>>
  BY DEF UdpThread, NoDatagram, AcceptDatagram, LockBuffer, StoreDatagram, StopUdp, Udp, life
<1> QED
  BY <1>1 DEF HeldInv

LEMMA TickHeld == ASSUME HeldInv, TickThread PROVE HeldInv'
<1>1. UNCHANGED <<stage, held, udp>>
  <2>1. CASE StartTick \/ StartTickWithUpdate
    BY <2>1 DEF StartTick, StartTickWithUpdate, Goto, life, udpVars
  <2>2. CASE ServeSpi
    BY <2>2 DEF ServeSpi, NoCommand, Noop, SetConfig, Receive, SendData, RequestHk,
       SendHousekeeping, Serve, Goto, life, udpVars
  <2>3. CASE ServePins
    BY <2>3 DEF ServePins, KeepPower, PowerOn, PowerOff, ClearBuffer, ClearConfig, EndTick,
       Goto, life, udpVars
  <2> QED
    BY <2>1, <2>2, <2>3 DEF TickThread
<1> QED
  BY <1>1 DEF HeldInv

LEMMA StepHeld == ASSUME HeldInv, [Next]_vars PROVE HeldInv'
<1>1. CASE UNCHANGED vars
  BY <1>1 DEF vars, life, udpVars, HeldInv
<1> QED
  BY <1>1, LifeHeld, UdpHeld, TickHeld DEF Next

LEMMA HeldInvariance == Spec => []HeldInv
  BY InitHeld, StepHeld, PTL DEF Spec

\* Whatever step of radio_sim_init fails and whenever radio_sim_cleanup runs, the UDP thread
\* has its socket and its mutex: the join at radio_sim.c:715 comes before the close.
THEOREM ResourcesSafe == Spec => []ThreadHasResources
<1>1. HeldInv => ThreadHasResources
  BY DEF HeldInv, ThreadHasResources, Resource
<1> QED
  BY <1>1, HeldInvariance, PTL

\* Each failure branch of radio_sim_init and the cleanup release all that was acquired.
THEOREM AllReleased == Spec => []NothingLeftHeld
<1>1. HeldInv => NothingLeftHeld
  BY DEF HeldInv, NothingLeftHeld
<1> QED
  BY <1>1, HeldInvariance, PTL

-----------------------------------------------------------------------------
(* Arithmetic of the ring                                                   *)

LEMMA Wrap ==
  ASSUME NEW n \in Nat, n < 2 * Size
  PROVE  n % Size = (IF n < Size THEN n ELSE n - Size) /\ n % Size \in Cells
<1>1. Size \in Nat /\ Size > 1
  BY RingAssumption
<1>2. CASE n < Size
  BY <1>1, <1>2 DEF Cells
<1>3. CASE n >= Size
  <2>1. n % Size = n - Size
    BY <1>1, <1>3
  <2> QED
    BY <1>1, <1>3, <2>1 DEF Cells
<1> QED
  BY <1>1, <1>2, <1>3

LEMMA Distance ==
  ASSUME NEW a \in Cells, NEW b \in Cells
  PROVE  (a - b) % Size = (IF a >= b THEN a - b ELSE a - b + Size)
<1>1. Size \in Nat /\ Size > 1 /\ a \in Int /\ b \in Int
  BY RingAssumption DEF Cells
<1>2. CASE a >= b
  BY <1>1, <1>2 DEF Cells
<1>3. CASE a < b
  <2>1. a - b + Size \in Cells
    BY <1>1, <1>3 DEF Cells
  <2>2. (a - b) % Size = a - b + Size
    BY <1>1, <1>3, <2>1 DEF Cells
  <2> QED
    BY <1>1, <1>3, <2>2
<1> QED
  BY <1>1, <1>2, <1>3

\* The distance from the tail to the head, the long way round if need be.
Waiting(h, t) == IF h >= t THEN h - t ELSE (Size - t) + h

LEMMA WordIsWide ==
  ASSUME NEW h \in Cells, NEW t \in Cells
  PROVE  /\ (IF h >= t THEN (h - t) % WordMod ELSE (Size - t) + h) = Waiting(h, t)
         /\ Waiting(h, t) \in Cells
<1>1. /\ Size \in Nat /\ Size > 1 /\ WordMod \in Nat /\ WordMod > Size
      /\ h \in Nat /\ t \in Nat /\ h < Size /\ t < Size
  BY RingAssumption DEF Cells
<1>2. CASE h >= t
  <2>1. (h - t) % WordMod = h - t
    BY <1>1, <1>2
  <2> QED
    BY <1>1, <1>2, <2>1 DEF Waiting, Cells
<1>3. CASE h < t
  BY <1>1, <1>3 DEF Waiting, Cells
<1> QED
  BY <1>1, <1>2, <1>3

LEMMA CountIs ==
  ASSUME head \in Cells, tail \in Cells
  PROVE  Count = Waiting(head, tail) /\ Count \in Cells
BY WordIsWide DEF Count, CountRead

LEMMA NextCountIs ==
  ASSUME head' \in Cells, tail' \in Cells
  PROVE  Count' = Waiting(head', tail') /\ Count' \in Cells
BY WordIsWide DEF Count, CountRead

\* The cell of the i-th octet that waits.
Cell(i) == (tail + i - 1) % Size

RingTyped ==
  /\ ring \in [Cells -> 0 .. MaxBytes] /\ head \in Cells /\ tail \in Cells
  /\ bytesReceived \in 0 .. MaxBytes

\* The i-th octet is i - 1 cells behind the tail, and as far ahead of the head as the
\* ring and the count of the octets leave.
LEMMA CellIs ==
  ASSUME RingTyped, NEW i \in 1 .. Size - 1
  PROVE  /\ Cell(i) \in Cells
         /\ (Cell(i) - head) % Size =
              (IF i <= Count THEN Size - Count + (i - 1) ELSE i - 1 - Count)
<1>1. /\ Size \in Nat /\ Size > 1 /\ head \in Nat /\ tail \in Nat /\ head < Size /\ tail < Size
  BY RingAssumption DEF RingTyped, Cells
<1>2. Count = Waiting(head, tail) /\ Count \in Cells
  BY CountIs DEF RingTyped
<1>3. /\ Cell(i) = (IF tail + i - 1 < Size THEN tail + i - 1 ELSE tail + i - 1 - Size)
      /\ Cell(i) \in Cells
  <2> DEFINE n == tail + i - 1
  <2>1. n \in Nat /\ n < 2 * Size
    BY <1>1
  <2> HIDE DEF n
  <2>2. n % Size = (IF n < Size THEN n ELSE n - Size) /\ n % Size \in Cells
    BY <2>1, Wrap
  <2>3. Cell(i) = n % Size
    BY DEF Cell, n
  <2>4. Cell(i) = (IF n < Size THEN n ELSE n - Size) /\ Cell(i) \in Cells
    BY <2>2, <2>3
  <2> QED
    BY <1>1, <2>4 DEF n
<1>4. (Cell(i) - head) % Size = (IF Cell(i) >= head THEN Cell(i) - head ELSE Cell(i) - head + Size)
  BY <1>3, Distance DEF RingTyped
<1> HIDE DEF Cell
<1>5. CASE head >= tail
  BY <1>1, <1>2, <1>3, <1>4, <1>5 DEF Waiting
<1>6. CASE head < tail
  BY <1>1, <1>2, <1>3, <1>4, <1>6 DEF Waiting
<1> QED
  BY <1>1, <1>5, <1>6

\* What a write keeps fits.
LEMMA StoredFits ==
  ASSUME RingTyped, datagram \in Nat
  PROVE  /\ Stored \in Nat /\ Stored <= datagram /\ Count + Stored <= Size - 1 /\ Count \in Nat
         /\ Stored = IF datagram <= Size - 1 - Count THEN datagram ELSE Size - 1 - Count
<1>1. Count \in Nat /\ Count <= Size - 1 /\ Size \in Nat
  BY CountIs, RingAssumption DEF RingTyped, Cells
<1> QED
  BY <1>1 DEF Stored, AtMost

LEMMA WriteCount ==
  ASSUME RingTyped, datagram \in Nat, WriteToRxBuffer, UNCHANGED tail
  PROVE  head' \in Cells /\ Count' = Count + Stored
<1>1. /\ Stored \in Nat /\ Count + Stored <= Size - 1
      /\ Count = Waiting(head, tail) /\ Count \in Nat
  BY StoredFits, CountIs DEF RingTyped
<1>2. /\ Size \in Nat /\ Size > 1 /\ head \in Nat /\ tail \in Nat /\ head < Size /\ tail < Size
  BY RingAssumption DEF RingTyped, Cells
<1>3. /\ head' = (IF head + Stored < Size THEN head + Stored ELSE head + Stored - Size)
      /\ head' \in Cells
  <2>1. head' = (head + Stored) % Size
    BY DEF WriteToRxBuffer
  <2> DEFINE n == head + Stored
  <2>2. n \in Nat /\ n < 2 * Size
    BY <1>1, <1>2
  <2> HIDE DEF n
  <2>3. n % Size = (IF n < Size THEN n ELSE n - Size) /\ n % Size \in Cells
    BY <2>2, Wrap
  <2>4. head' = n % Size
    BY <2>1 DEF n
  <2>5. head' = (IF n < Size THEN n ELSE n - Size) /\ head' \in Cells
    BY <2>3, <2>4
  <2> QED
    BY <1>1, <1>2, <2>5 DEF n
<1>4. Count' = Waiting(head', tail)
  <2>1. head' \in Cells /\ tail' \in Cells
    BY <1>3 DEF RingTyped
  <2> QED
    BY <2>1, NextCountIs
<1>5. Waiting(head', tail) = Count + Stored
  BY <1>1, <1>2, <1>3 DEF Waiting
<1> QED
  BY <1>3, <1>4, <1>5

LEMMA ReadCount ==
  ASSUME RingTyped, NEW n \in 0 .. Count, tail' = (tail + n) % Size, UNCHANGED head
  PROVE  /\ tail' \in Cells /\ Count' = Count - n
         /\ \A i \in 1 .. Count - n : Cell(i)' = Cell(n + i)
<1>1. Count = Waiting(head, tail) /\ Count \in Cells
  BY CountIs DEF RingTyped
<1>2. /\ Size \in Nat /\ Size > 1 /\ head \in Nat /\ tail \in Nat /\ head < Size /\ tail < Size
      /\ Count \in Nat /\ Count < Size /\ n \in Nat /\ n <= Count
  BY <1>1, RingAssumption DEF RingTyped, Cells
<1>3. tail' = (IF tail + n < Size THEN tail + n ELSE tail + n - Size) /\ tail' \in Cells
  <2> DEFINE m == tail + n
  <2>1. m \in Nat /\ m < 2 * Size
    BY <1>2
  <2> HIDE DEF m
  <2>2. m % Size = (IF m < Size THEN m ELSE m - Size) /\ m % Size \in Cells
    BY <2>1, Wrap
  <2>3. tail' = m % Size
    BY DEF m
  <2>4. tail' = (IF m < Size THEN m ELSE m - Size) /\ tail' \in Cells
    BY <2>2, <2>3
  <2> QED
    BY <1>2, <2>4 DEF m
<1>4. Count' = Waiting(head, tail')
  BY <1>3, NextCountIs DEF RingTyped
<1>5. Count' = Count - n
  BY <1>1, <1>2, <1>3, <1>4 DEF Waiting
<1>6. ASSUME NEW i \in 1 .. Count - n PROVE Cell(i)' = Cell(n + i)
  <2> DEFINE a == tail + (n + i) - 1
             b == tail' + i - 1
  <2>1. a \in Nat /\ b \in Nat /\ a < 2 * Size /\ b < 2 * Size
    BY <1>2, <1>3 DEF Cells
  <2>2. a = b \/ (a = b + Size /\ tail + n >= Size)
    BY <1>2, <1>3
  <2>3. Cell(n + i) = a % Size /\ Cell(i)' = b % Size
    BY DEF Cell
  <2>4. b < Size \/ a = b
    BY <1>2, <1>3
  <2> HIDE DEF a, b
  <2>5. /\ a % Size = (IF a < Size THEN a ELSE a - Size)
        /\ b % Size = (IF b < Size THEN b ELSE b - Size)
    BY <2>1, Wrap
  <2> QED
    BY <1>2, <2>1, <2>2, <2>3, <2>4, <2>5
<1> QED
  BY <1>3, <1>5, <1>6

-----------------------------------------------------------------------------
(* The octets that wait                                                     *)

LEMMA ContentsIs ==
  ASSUME RingTyped
  PROVE  /\ Contents = [i \in 1 .. Count |-> ring[Cell(i)]] /\ Count \in Nat
         /\ Contents \in Seq(0 .. MaxBytes) /\ Len(Contents) = Count
         /\ \A i \in 1 .. Count : Contents[i] = ring[Cell(i)] /\ i \in 1 .. Size - 1
<1>1. Count \in Nat /\ Count <= Size - 1 /\ Size \in Nat
  BY CountIs, RingAssumption DEF RingTyped, Cells
<1>2. Contents = [i \in 1 .. Count |-> ring[Cell(i)]]
  BY DEF Contents, Cell
<1>3. \A i \in 1 .. Count : i \in 1 .. Size - 1 /\ ring[Cell(i)] \in 0 .. MaxBytes
  <2>1. \A i \in 1 .. Count : i \in 1 .. Size - 1
    BY <1>1
  <2>2. \A i \in 1 .. Count : Cell(i) \in Cells
    BY <2>1, CellIs
  <2> QED
    BY <2>1, <2>2 DEF RingTyped
<1> HIDE DEF Contents
<1>4. Contents \in Seq(0 .. MaxBytes) /\ Len(Contents) = Count
  <2> DEFINE B == 0 .. MaxBytes
  <2>1. \A i \in 1 .. Count : ring[Cell(i)] \in B
    BY <1>3
  <2> HIDE DEF B
  <2>2. Contents \in Seq(B) /\ Len(Contents) = Count
    BY <1>1, <1>2, <2>1
  <2> QED
    BY <2>2 DEF B
<1> QED
  BY <1>1, <1>2, <1>3, <1>4

LEMMA NextContentsIs ==
  ASSUME RingTyped'
  PROVE  /\ Contents' \in Seq(0 .. MaxBytes) /\ Len(Contents') = Count' /\ Count' \in Nat
         /\ \A i \in 1 .. Count' : Contents'[i] = ring'[Cell(i)']
<1>1. Count' \in Cells /\ head' \in Cells /\ tail' \in Cells /\ ring' \in [Cells -> 0 .. MaxBytes]
  BY NextCountIs DEF RingTyped
<1>2. Count' \in Nat /\ Count' < Size /\ tail' \in Nat /\ tail' < Size /\ Size \in Nat
  BY <1>1, RingAssumption DEF Cells
<1>3. Contents' = [i \in 1 .. Count' |-> ring'[Cell(i)']]
  BY DEF Contents, Cell
<1>4. ASSUME NEW i \in 1 .. Count' PROVE ring'[Cell(i)'] \in 0 .. MaxBytes
  <2> DEFINE n == tail' + i - 1
             c == Count'
             t == tail'
  <2>0. c \in Nat /\ c < Size /\ t \in Nat /\ t < Size /\ Size \in Nat /\ i \in 1 .. c
    BY <1>2
  <2>1. n \in Nat /\ n < 2 * Size
    <3> SUFFICES t + i - 1 \in Nat /\ t + i - 1 < 2 * Size
      BY DEF t, n
    <3> HIDE DEF c, t, n
    <3> QED
      BY <2>0
  <2> HIDE DEF n
  <2>2. n % Size \in Cells
    BY <2>1, Wrap
  <2>3. Cell(i)' = n % Size
    BY DEF Cell, n
  <2> QED
    BY <1>1, <2>2, <2>3
<1>5. Contents' \in Seq(0 .. MaxBytes) /\ Len(Contents') = Count'
  <2> DEFINE B == 0 .. MaxBytes
             R(i) == ring'[Cell(i)']
  <2>1. \A i \in 1 .. Count' : R(i) \in B
    BY <1>4
  <2>2. Contents' = [i \in 1 .. Count' |-> R(i)]
    BY <1>3
  <2> DEFINE c == Count'
             s == Contents'
  <2>3. s = [i \in 1 .. c |-> R(i)] /\ c \in Nat /\ \A i \in 1 .. c : R(i) \in B
    BY <1>2, <2>1, <2>2
  <2> HIDE DEF B, R, c, s
  <2>4. s \in Seq(B) /\ Len(s) = c
    BY <2>3
  <2> QED
    BY <2>4 DEF B, c, s
<1> QED
  BY <1>2, <1>3, <1>5

\* The octets a datagram brings.
News == [i \in 1 .. Stored |-> bytesReceived + i]

LEMMA NewsIs ==
  ASSUME RingTyped, datagram \in Nat, bytesReceived + datagram <= MaxBytes
  PROVE  /\ News \in Seq(1 .. MaxBytes) /\ Len(News) = Stored
         /\ \A i \in 1 .. Stored : News[i] = bytesReceived + i
<1>1. Stored \in Nat /\ Stored <= datagram
  BY StoredFits
<1>2. \A i \in 1 .. Stored : bytesReceived + i \in 1 .. MaxBytes
  BY <1>1, InputAssumption DEF RingTyped
<1> DEFINE B == 1 .. MaxBytes
<1>3. \A i \in 1 .. Stored : bytesReceived + i \in B
  BY <1>2
<1> HIDE DEF B
<1>4. News \in Seq(B) /\ Len(News) = Stored
  BY <1>1, <1>3 DEF News
<1> QED
  BY <1>1, <1>4 DEF News, B

\* A write adds the octets it keeps at the end, and touches none that waits.
LEMMA WriteContents ==
  ASSUME RingTyped, datagram \in Nat, bytesReceived + datagram <= MaxBytes,
         WriteToRxBuffer, UNCHANGED tail, bytesReceived' \in 0 .. MaxBytes
  PROVE  RingTyped' /\ Contents' = Contents \o News
<1>1. /\ Stored \in Nat /\ Stored <= datagram /\ Count + Stored <= Size - 1 /\ Count \in Nat
      /\ Size \in Nat
  BY StoredFits, RingAssumption
<1>2. head' \in Cells /\ Count' = Count + Stored
  BY WriteCount
<1>3. ring' = [c \in Cells |-> IF (c - head) % Size < Stored
                               THEN bytesReceived + ((c - head) % Size) + 1 ELSE ring[c]]
  BY DEF WriteToRxBuffer
<1>4. \A c \in Cells : (c - head) % Size \in Nat
  <2>1. \A c \in Cells : c \in Nat /\ c < Size
    BY <1>1 DEF Cells
  <2>2. head \in Cells
    BY DEF RingTyped
  <2>3. ASSUME NEW c \in Cells PROVE (c - head) % Size \in Nat
    <3>1. (c - head) % Size = (IF c >= head THEN c - head ELSE c - head + Size)
      BY <2>2, Distance
    <3> QED
      BY <1>1, <2>1, <2>2, <3>1
  <2> QED
    BY <2>3
<1>5. RingTyped'
  <2> SUFFICES ring' \in [Cells -> 0 .. MaxBytes]
    BY <1>2 DEF RingTyped
  <2>1. ASSUME NEW c \in Cells PROVE ring'[c] \in 0 .. MaxBytes
    <3> DEFINE k == (c - head) % Size
    <3>1. k \in Nat
      BY <1>4
    <3>2. ring'[c] = IF k < Stored THEN bytesReceived + k + 1 ELSE ring[c]
      BY <1>3
    <3> HIDE DEF k
    <3>3. bytesReceived \in Nat /\ MaxBytes \in Nat /\ ring[c] \in 0 .. MaxBytes
      BY InputAssumption DEF RingTyped
    <3> QED
      BY <1>1, <3>1, <3>2, <3>3
  <2> QED
    BY <1>3, <2>1
<1>6. ASSUME NEW i \in 1 .. Count + Stored
      PROVE  /\ Contents'[i] = ring'[Cell(i)]
             /\ Cell(i) \in Cells
             /\ (Cell(i) - head) % Size =
                  (IF i <= Count THEN Size - Count + (i - 1) ELSE i - 1 - Count)
  <2>1. i \in 1 .. Size - 1
    BY <1>1
  <2>2. Contents' = [j \in 1 .. Count' |-> ring'[Cell(j)]]
    BY DEF Contents, Cell
  <2> QED
    BY <1>2, <2>1, <2>2, CellIs
<1>7. \A i \in 1 .. Count : Contents'[i] = Contents[i]
  <2> SUFFICES ASSUME NEW i \in 1 .. Count PROVE Contents'[i] = Contents[i]
    OBVIOUS
  <2>1. i \in 1 .. Count + Stored
    BY <1>1
  <2>2. (Cell(i) - head) % Size = Size - Count + (i - 1)
    BY <1>6, <2>1
  <2>3. ~(Size - Count + (i - 1) < Stored)
    BY <1>1
  <2>4. ring'[Cell(i)] = ring[Cell(i)]
    BY <1>3, <1>6, <2>1, <2>2, <2>3
  <2> QED
    BY <1>6, <2>1, <2>4, ContentsIs
<1>8. \A i \in 1 .. Stored : Contents'[Count + i] = News[i]
  <2> SUFFICES ASSUME NEW i \in 1 .. Stored PROVE Contents'[Count + i] = News[i]
    OBVIOUS
  <2>1. Count + i \in 1 .. Count + Stored /\ ~(Count + i <= Count) /\ Count + i - 1 - Count = i - 1
    BY <1>1
  <2>2. (Cell(Count + i) - head) % Size = i - 1 /\ Cell(Count + i) \in Cells
    <3> DEFINE m == Count + i
    <3>1. m \in 1 .. Count + Stored /\ ~(m <= Count) /\ m - 1 - Count = i - 1
      BY <1>1, <2>1
    <3> HIDE DEF m
    <3>2. (Cell(m) - head) % Size = i - 1 /\ Cell(m) \in Cells
      BY <1>6, <3>1
    <3> QED
      BY <3>2 DEF m
  <2>3. i - 1 < Stored
    BY <1>1
  <2>4. ring'[Cell(Count + i)] = bytesReceived + (i - 1) + 1
    <3> DEFINE d == Cell(Count + i)
    <3>1. d \in Cells /\ (d - head) % Size = i - 1
      BY <2>2
    <3> HIDE DEF d
    <3>2. ring'[d] = bytesReceived + ((d - head) % Size) + 1
      BY <1>3, <2>3, <3>1
    <3> QED
      BY <3>1, <3>2 DEF d
  <2>5. bytesReceived + (i - 1) + 1 = bytesReceived + i
    BY DEF RingTyped
  <2> QED
    BY <1>6, <2>1, <2>4, <2>5, NewsIs
<1>9. Contents' = Contents \o News
  <2> DEFINE B == 0 .. MaxBytes
  <2>1. Contents \in Seq(B) /\ Len(Contents) = Count
    BY ContentsIs
  <2>2. Contents' \in Seq(B) /\ Len(Contents') = Count + Stored
    BY <1>2, <1>5, NextContentsIs
  <2>3. News \in Seq(B) /\ Len(News) = Stored
    <3>1. News \in Seq(1 .. MaxBytes) /\ Len(News) = Stored
      BY NewsIs
    <3>2. 1 .. MaxBytes \subseteq B
      BY InputAssumption
    <3> QED
      BY <3>1, <3>2, SeqMonotonic
  <2> HIDE DEF B
  <2>4. /\ Contents \o News \in Seq(B) /\ Len(Contents \o News) = Count + Stored
        /\ \A i \in 1 .. Len(Contents) + Len(News) : (Contents \o News)[i] =
              IF i <= Len(Contents) THEN Contents[i] ELSE News[i - Len(Contents)]
    BY <2>1, <2>3, ConcatProperties
  <2>5. ASSUME NEW i \in 1 .. Len(Contents') PROVE Contents'[i] = (Contents \o News)[i]
    <3>1. CASE i <= Count
      <4>1. i \in 1 .. Count /\ i \in 1 .. Count + Stored
        BY <1>1, <2>2, <3>1
      <4> QED
        BY <1>7, <2>1, <2>3, <2>4, <3>1, <4>1
    <3>2. CASE i > Count
      <4>1. i - Count \in 1 .. Stored /\ Count + (i - Count) = i /\ i \in 1 .. Count + Stored
        BY <1>1, <2>2, <3>2
      <4>2. Contents'[Count + (i - Count)] = News[i - Count]
        BY <1>8, <4>1
      <4>3. (Contents \o News)[i] = News[i - Count]
        BY <1>1, <2>1, <2>3, <2>4, <3>2, <4>1
      <4> QED
        BY <4>1, <4>2, <4>3
    <3>3. Count \in Nat /\ Stored \in Nat /\ i \in 1 .. Count + Stored
      BY <1>1, <2>2
    <3>4. i <= Count \/ i > Count
      BY <3>3
    <3> QED
      BY <3>1, <3>2, <3>4
  <2> QED
    BY <2>2, <2>4, <2>5, SeqEqual
<1> QED
  BY <1>5, <1>9

\* A read takes octets from the front.
LEMMA ReadContents ==
  ASSUME RingTyped, NEW n \in 0 .. Count, tail' = (tail + n) % Size, UNCHANGED <<ring, head>>,
         UNCHANGED bytesReceived
  PROVE  /\ RingTyped' /\ Count' = Count - n
         /\ Contents' = SubSeq(Contents, n + 1, Len(Contents))
<1>1. tail' \in Cells /\ Count' = Count - n /\ \A i \in 1 .. Count - n : Cell(i)' = Cell(n + i)
  BY ReadCount
<1>2. RingTyped'
  BY <1>1 DEF RingTyped
<1> DEFINE B == 0 .. MaxBytes
           S == SubSeq(Contents, n + 1, Len(Contents))
<1>3. /\ Contents \in Seq(B) /\ Len(Contents) = Count /\ Count \in Nat
      /\ \A i \in 1 .. Count : Contents[i] = ring[Cell(i)]
  BY ContentsIs
<1>4. /\ Contents' \in Seq(B) /\ Len(Contents') = Count - n
      /\ \A i \in 1 .. Count - n : Contents'[i] = ring[Cell(n + i)]
  BY <1>1, <1>2, NextContentsIs
<1> HIDE DEF B
<1>5. S \in Seq(B) /\ Len(S) = Count - n /\ \A i \in 1 .. Count - n : S[i] = Contents[n + i]
  BY <1>3
<1>6. \A i \in 1 .. Count - n : n + i \in 1 .. Count
  BY <1>3
<1> HIDE DEF S
<1>7. Contents' = S
  <2>1. \A i \in 1 .. Len(Contents') : Contents'[i] = S[i]
    BY <1>3, <1>4, <1>5, <1>6
  <2> QED
    BY <1>4, <1>5, <2>1, SeqEqual
<1> QED
  BY <1>1, <1>2, <1>7 DEF S

-----------------------------------------------------------------------------
(* What a step does to the ring                                             *)

\* A datagram between the test of power and the write is one that may arrive.
Pending ==
  udp \in {"accepted", "writing"} =>
    datagram \in Datagrams /\ bytesReceived + datagram <= MaxBytes

Waits == Contents \in Seq(1 .. MaxBytes)

Handed == delivered \in Seq(1 .. MaxBytes)

QueueInv == RingTyped /\ Pending /\ Waits /\ Handed

Wrote ==
  /\ udp = "writing" /\ WriteToRxBuffer /\ bytesReceived' = (bytesReceived + datagram) % WordMod
  /\ UNCHANGED <<tail, delivered>>

Took ==
  /\ \E n \in 0 .. Count : ReadFromRxBuffer(n)
  /\ UNCHANGED <<ring, head, bytesReceived>>

Emptied == EmptyRing /\ UNCHANGED <<ring, bytesReceived, delivered>>

Left == UNCHANGED <<buffer, bytesReceived, delivered>>

\* Of all steps, one writes, one reads and one empties the ring.
LEMMA RingSteps ==
  ASSUME RingTyped, [Next]_vars
  PROVE  \/ StoreDatagram /\ Wrote
         \/ Receive /\ Took
         \/ ClearBuffer /\ Emptied
         \/ Left
<1>1. CASE LifeCycle
  BY <1>1 DEF LifeCycle, Acquire, AcquireFails, StopRunning, Cleanup, device, history, Left
<1>2. CASE StoreDatagram
  BY <1>2 DEF StoreDatagram, Wrote, Udp, history
<1>3. CASE NoDatagram \/ AcceptDatagram \/ LockBuffer \/ StopUdp
  BY <1>3 DEF NoDatagram, AcceptDatagram, LockBuffer, StopUdp, device, history, Left
<1>4. CASE StartTick \/ StartTickWithUpdate
  BY <1>4 DEF StartTick, StartTickWithUpdate, device, history, Left
<1>5. CASE Receive
  <2>1. PICK n : n \in 0 .. Count /\ ReadFromRxBuffer(n)
    <3>1. PICK requested \in Requests : ReadFromRxBuffer(AtMost(requested, Count))
      BY <1>5 DEF Receive
    <3>2. Count \in Nat /\ requested \in Nat
      BY CountIs, RingAssumption, InputAssumption DEF RingTyped, Cells
    <3>3. AtMost(requested, Count) \in 0 .. Count
      BY <3>2 DEF AtMost
    <3> QED
      BY <3>1, <3>3
  <2> QED
    BY <1>5, <2>1 DEF Receive, Took, Serve
<1>6. CASE NoCommand \/ Noop \/ SetConfig \/ SendData \/ RequestHk \/ SendHousekeeping
  BY <1>6 DEF NoCommand, Noop, SetConfig, SendData, RequestHk, SendHousekeeping, Serve,
     device, history, Left
<1>7. CASE ClearBuffer
  BY <1>7 DEF ClearBuffer, Emptied, history
<1>8. CASE KeepPower \/ PowerOn \/ PowerOff \/ ClearConfig \/ EndTick
  BY <1>8 DEF KeepPower, PowerOn, PowerOff, ClearConfig, EndTick, EndOfSpi, history, Left
<1>9. CASE UNCHANGED vars
  BY <1>9 DEF vars, device, history, Left
<1> QED
  BY <1>1, <1>2, <1>3, <1>4, <1>5, <1>6, <1>7, <1>8, <1>9
     DEF Next, UdpThread, TickThread, ServeSpi, ServePins

\* StoreDatagram appends what it keeps.
LEMMA WroteAppends ==
  ASSUME QueueInv, Wrote
  PROVE  /\ RingTyped' /\ Waits' /\ Contents' = Contents \o News
         /\ bytesReceived' = bytesReceived + datagram
         /\ datagram \in Datagrams /\ datagram \in Nat /\ bytesReceived + datagram <= MaxBytes
         /\ Count' = Count + Stored
<1>1. datagram \in Datagrams /\ datagram \in Nat /\ bytesReceived + datagram <= MaxBytes
  BY InputAssumption DEF QueueInv, Pending, Wrote
<1>2. bytesReceived' = bytesReceived + datagram /\ bytesReceived' \in 0 .. MaxBytes
  <2> DEFINE n == bytesReceived + datagram
  <2>1. n \in 0 .. MaxBytes /\ MaxBytes \in Nat /\ WordMod \in Nat /\ MaxBytes < WordMod
    BY <1>1, InputAssumption, RingAssumption DEF QueueInv, RingTyped
  <2>2. bytesReceived' = n % WordMod
    BY DEF Wrote
  <2> HIDE DEF n
  <2>3. bytesReceived' = n /\ bytesReceived' \in 0 .. MaxBytes
    BY <2>1, <2>2
  <2> QED
    BY <2>3 DEF n
<1>3. RingTyped' /\ Contents' = Contents \o News /\ Count' = Count + Stored
  BY <1>1, <1>2, WriteContents, WriteCount DEF QueueInv, Wrote
<1>4. Waits'
  <2> DEFINE B == 1 .. MaxBytes
  <2>1. Contents \in Seq(B) /\ News \in Seq(B)
    BY <1>1, NewsIs DEF QueueInv, Waits
  <2> HIDE DEF B
  <2>2. Contents \o News \in Seq(B)
    BY <2>1, ConcatProperties
  <2> QED
    BY <1>3, <2>2 DEF Waits, B
<1> QED
  BY <1>1, <1>2, <1>3, <1>4

\* A RECEIVE takes the octets at the front.
LEMMA TookFront ==
  ASSUME QueueInv, NEW n \in 0 .. Count, ReadFromRxBuffer(n),
         UNCHANGED <<ring, head, bytesReceived>>
  PROVE  /\ RingTyped' /\ Waits' /\ Count' = Count - n
         /\ Contents' = SubSeq(Contents, n + 1, Len(Contents))
         /\ SubSeq(Contents, 1, n) \in Seq(1 .. MaxBytes) /\ Len(SubSeq(Contents, 1, n)) = n
         /\ delivered' = delivered \o SubSeq(Contents, 1, n)
         /\ Len(Contents) = Count /\ Count \in Nat
<1>1. tail' = (tail + n) % Size /\ delivered' = delivered \o SubSeq(Contents, 1, n)
  BY DEF ReadFromRxBuffer
<1>2. RingTyped' /\ Count' = Count - n /\ Contents' = SubSeq(Contents, n + 1, Len(Contents))
  BY <1>1, ReadContents DEF QueueInv
<1>3. Len(Contents) = Count /\ Count \in Nat
  BY ContentsIs DEF QueueInv
<1> DEFINE B == 1 .. MaxBytes
           s == Contents
<1>4. s \in Seq(B) /\ n \in 0 .. Len(s)
  BY <1>3 DEF QueueInv, Waits
<1> HIDE DEF B, s
<1>5. SubSeq(s, 1, n) \in Seq(B) /\ Len(SubSeq(s, 1, n)) = n /\ SubSeq(s, n + 1, Len(s)) \in Seq(B)
  BY <1>4
<1> QED
  BY <1>1, <1>2, <1>3, <1>5 DEF Waits, B, s

LEMMA TookExtends ==
  ASSUME QueueInv, Took
  PROVE  Handed' /\ Len(delivered') + Count' = Len(delivered) + Count
<1>1. PICK n \in 0 .. Count : ReadFromRxBuffer(n)
  BY DEF Took
<1> DEFINE B == 1 .. MaxBytes
           s == SubSeq(Contents, 1, n)
<1>2. /\ s \in Seq(B) /\ Len(s) = n /\ delivered' = delivered \o s /\ delivered \in Seq(B)
      /\ Count' = Count - n /\ Count \in Nat
  BY <1>1, TookFront DEF Took, QueueInv, Handed
<1> HIDE DEF B, s
<1>3. delivered \o s \in Seq(B) /\ Len(delivered \o s) = Len(delivered) + n
  BY <1>2, ConcatProperties
<1> QED
  BY <1>2, <1>3, LenProperties DEF Handed, B

\* An empty ring holds nothing.
LEMMA EmptyIsEmpty ==
  ASSUME RingTyped', head' = tail'
  PROVE  Count' = 0 /\ Contents' = <<>>
<1>1. Count' = Waiting(head', tail') /\ head' \in Nat
  BY NextCountIs DEF RingTyped, Cells
<1>2. Count' = 0
  <2> DEFINE h == head'
  <2>1. h \in Nat /\ Count' = Waiting(h, h)
    BY <1>1
  <2> HIDE DEF h
  <2>2. h >= h /\ h - h = 0
    BY <2>1
  <2> QED
    BY <2>1, <2>2 DEF Waiting
<1>3. Contents' \in Seq(0 .. MaxBytes) /\ Len(Contents') = 0
  BY <1>2, NextContentsIs
<1> QED
  BY <1>2, <1>3, EmptySeq

LEMMA EmptiedIsEmpty ==
  ASSUME RingTyped, Emptied
  PROVE  RingTyped' /\ Count' = 0 /\ Contents' = <<>> /\ Waits'
<1>1. RingTyped'
  BY RingAssumption DEF Emptied, EmptyRing, RingTyped, Cells
<1>2. Count' = 0 /\ Contents' = <<>>
  BY <1>1, EmptyIsEmpty DEF Emptied, EmptyRing
<1> QED
  BY <1>1, <1>2 DEF Waits

LEMMA LeftAlone ==
  ASSUME Left
  PROVE  Contents' = Contents /\ Count' = Count /\ (RingTyped => RingTyped') /\ (Waits => Waits')
<1>1. Count' = Count
  BY DEF Left, buffer, Count, CountRead
<1>2. Contents' = Contents
  BY <1>1 DEF Left, buffer, Contents
<1> QED
  BY <1>1, <1>2 DEF Left, buffer, RingTyped, Waits

\* Only the UDP thread touches its datagram.
LEMMA PendingKept == ASSUME QueueInv, [Next]_vars PROVE Pending'
<1>1. CASE UNCHANGED vars
  BY <1>1 DEF vars, device, udpVars, QueueInv, Pending
<1>2. CASE LifeCycle
  BY <1>2 DEF LifeCycle, Acquire, AcquireFails, StopRunning, Cleanup, device, udpVars,
     QueueInv, Pending
<1>3. CASE UdpThread
  BY <1>3 DEF UdpThread, NoDatagram, AcceptDatagram, LockBuffer, StoreDatagram, StopUdp, Udp, Loop,
     device, QueueInv, Pending
<1>4. CASE TickThread
  <2>1. UNCHANGED <<udpVars, bytesReceived>>
    BY <1>4 DEF TickThread, StartTick, StartTickWithUpdate, ServeSpi, NoCommand, Noop, SetConfig,
       Receive, SendData, RequestHk, SendHousekeeping, Serve, ServePins, KeepPower, PowerOn,
       PowerOff, ClearBuffer, ClearConfig, EndTick, device
  <2> QED
    BY <2>1 DEF udpVars, QueueInv, Pending
<1> QED
  BY <1>1, <1>2, <1>3, <1>4 DEF Next

LEMMA InitQueue == Init => QueueInv /\ Contents = <<>> /\ Count = 0
<1> SUFFICES ASSUME Init PROVE QueueInv /\ Contents = <<>> /\ Count = 0
  OBVIOUS
<1>1. RingTyped /\ head = 0 /\ tail = 0
  BY RingAssumption, InputAssumption DEF Init, RingTyped, Cells
<1>2. Count = 0
  <2>1. Count = Waiting(0, 0)
    BY <1>1, CountIs DEF RingTyped
  <2> QED
    BY <2>1 DEF Waiting
<1>3. Contents \in Seq(0 .. MaxBytes) /\ Len(Contents) = 0
  BY <1>1, <1>2, ContentsIs
<1>4. Contents = <<>>
  BY <1>3, EmptySeq
<1> QED
  BY <1>1, <1>2, <1>4 DEF Init, QueueInv, Pending, Waits, Handed

LEMMA StepQueue == ASSUME QueueInv, [Next]_vars PROVE QueueInv'
<1>1. Pending'
  BY PendingKept
<1>2. RingTyped' /\ Waits' /\ Handed'
  <2>1. CASE Wrote
    BY <2>1, WroteAppends DEF Wrote, QueueInv, Handed
  <2>2. CASE Took
    BY <2>2, TookExtends, TookFront DEF Took
  <2>3. CASE Emptied
    BY <2>3, EmptiedIsEmpty DEF Emptied, QueueInv, Handed
  <2>4. CASE Left
    BY <2>4, LeftAlone DEF Left, QueueInv, Handed
  <2> QED
    BY <2>1, <2>2, <2>3, <2>4, RingSteps DEF QueueInv
<1> QED
  BY <1>1, <1>2 DEF QueueInv

-----------------------------------------------------------------------------
(* The ring implements the queue                                            *)

LEMMA StepImplements == ASSUME QueueInv, [Next]_vars PROVE [Queue!Next]_(Queue!vars)
<1>1. CASE Wrote
  <2>1. /\ Contents' = Contents \o News /\ bytesReceived' = bytesReceived + datagram
        /\ datagram \in Datagrams /\ datagram \in Nat /\ bytesReceived + datagram <= MaxBytes
    BY <1>1, WroteAppends
  <2>2. /\ Stored = IF datagram <= Size - 1 - Count THEN datagram ELSE Size - 1 - Count
        /\ Stored \in Nat /\ Count + Stored <= Size - 1 /\ Count \in Nat /\ Len(Contents) = Count
    BY <2>1, StoredFits, ContentsIs DEF QueueInv
  <2>3. Stored \in 0 .. Size - 1
    BY <2>2, RingAssumption
  <2> QED
    BY <1>1, <2>1, <2>2, <2>3 DEF Queue!Next, Queue!Arrive, News, Wrote
<1>2. CASE Took
  <2>1. PICK n \in 0 .. Count : ReadFromRxBuffer(n)
    BY <1>2 DEF Took
  <2>2. /\ Contents' = SubSeq(Contents, n + 1, Len(Contents))
        /\ delivered' = delivered \o SubSeq(Contents, 1, n)
        /\ Len(Contents) = Count /\ Count \in Nat
    BY <1>2, <2>1, TookFront DEF Took
  <2>3. CASE n = 0
    <3>1. /\ UNCHANGED <<ring, head, bytesReceived>> /\ tail' = (tail + n) % Size
          /\ tail \in Cells /\ Size \in Nat /\ Size > 1
      BY <1>2, <2>1, RingAssumption DEF Took, ReadFromRxBuffer, QueueInv, RingTyped
    <3>2. tail' = tail
      <4>1. tail + n = tail /\ tail \in Nat /\ tail < 2 * Size /\ tail < Size
        BY <2>3, <3>1 DEF Cells
      <4> QED
        BY <3>1, <4>1, Wrap
    <3>3. Contents' = Contents
      BY <3>1, <3>2 DEF Contents, Count, CountRead
    <3>4. delivered' = delivered
      <4> DEFINE B == 1 .. MaxBytes
                 s == SubSeq(Contents, 1, n)
      <4>1. s \in Seq(B) /\ Len(s) = 0 /\ delivered' = delivered \o s /\ delivered \in Seq(B)
        BY <1>2, <2>1, <2>3, TookFront DEF Took, QueueInv, Handed
      <4> HIDE DEF B, s
      <4> QED
        BY <4>1, EmptySeq, ConcatEmptySeq
    <3> QED
      BY <3>1, <3>3, <3>4 DEF Queue!vars
  <2>4. CASE n # 0
    <3>1. n \in 1 .. Len(Contents)
      BY <2>2, <2>4
    <3> QED
      BY <1>2, <2>2, <3>1 DEF Queue!Next, Queue!Take, Took
  <2> QED
    BY <2>3, <2>4
<1>3. CASE Emptied
  BY <1>3, EmptiedIsEmpty DEF Queue!Next, Queue!Cut, Emptied, QueueInv
<1>4. CASE Left
  BY <1>4, LeftAlone DEF Queue!vars, Left
<1> QED
  BY <1>1, <1>2, <1>3, <1>4, RingSteps DEF QueueInv

\* Whatever the sizes and however the threads interleave, the ring of
\* radio_sim_write_to_rx_buffer and radio_sim_read_from_rx_buffer behaves as a bounded
\* queue: octets leave it once and in the order of arrival (radio_sim.c:133, 169).
THEOREM RingIsQueue == Spec => ImplementsRxQueue
<1>1. Init => QueueInv /\ Queue!Init
  BY InitQueue DEF Queue!Init, Init
<1>2. QueueInv /\ [Next]_vars => QueueInv' /\ [Queue!Next]_(Queue!vars)
  BY StepQueue, StepImplements
<1> QED
  BY <1>1, <1>2, PTL DEF Spec, ImplementsRxQueue, Queue!Spec

-----------------------------------------------------------------------------
(* Types                                                                    *)

HkType == [mode : Nat, setting : Nat, inRx : Cells, received : Nat, sent : Nat,
           commands : 0 .. MaxCommands]

\* A reply that is on its way is counted when it is sent.
ToReport == tick = "report" => hk.commands < MaxCommands

Flags ==
  /\ asserted \in {0, 1} /\ pin \in {0, 1} /\ power \in {0, 1}
  /\ running \in {0, 1}
  /\ stage \in DOMAIN After \cup {"running", "join", "over"} /\ held \subseteq Resource
  /\ udp \in {"none", "recv", "accepted", "writing", "stopped"}
  /\ datagram \in Datagrams \cup {0}
  /\ tick \in {"idle", "spi", "report", "power", "off", "offRest", "gpio"}

Radio ==
  /\ config \in [mode : Nat, setting : Nat] /\ hk \in HkType /\ ToReport /\ bytesSent \in Nat
  /\ reported \in 0 .. WordMod - 1

TypeInv == QueueInv /\ Flags /\ Radio

LEMMA ModIsNat == ASSUME NEW n \in Nat PROVE n % WordMod \in Nat
BY RingAssumption

LEMMA CountedTyped ==
  ASSUME NEW h \in HkType, h.commands < MaxCommands
  PROVE  Counted(h) \in HkType
<1>1. h.commands + 1 \in 0 .. MaxCommands
  BY InputAssumption DEF HkType
<1> QED
  BY <1>1 DEF HkType, Counted

\* A count from two readings of the head is a word, whatever they are.
LEMMA CountReadIsWord ==
  ASSUME NEW first \in Cells, NEW second \in Cells, tail \in Cells
  PROVE  CountRead(first, second) \in 0 .. WordMod - 1
<1>1. /\ Size \in Nat /\ WordMod \in Nat /\ WordMod > 2 * Size /\ WordMod > 0
      /\ first \in Nat /\ second \in Nat /\ tail \in Nat
      /\ second < Size /\ tail < Size
  BY RingAssumption DEF Cells
<1>2. (second - tail) % WordMod \in 0 .. WordMod - 1
  BY <1>1
<1>3. (Size - tail) + second \in 0 .. WordMod - 1
  BY <1>1
<1> QED
  BY <1>2, <1>3 DEF CountRead

LEMMA HeadOnTheWay ==
  ASSUME QueueInv, NEW i \in 0 .. InProgress
  PROVE  (head + i) % Size \in Cells
<1>1. InProgress \in Nat /\ InProgress <= Size - 1
  <2>1. CASE udp = "writing"
    <3>1. datagram \in Nat
      BY <2>1, InputAssumption DEF QueueInv, Pending
    <3>2. Stored \in Nat /\ Count + Stored <= Size - 1 /\ Count \in Nat
      BY <3>1, StoredFits DEF QueueInv
    <3> QED
      BY <2>1, <3>2, RingAssumption DEF InProgress
  <2>2. CASE udp # "writing"
    BY <2>2, RingAssumption DEF InProgress
  <2> QED
    BY <2>1, <2>2
<1> DEFINE n == head + i
<1>2. n \in Nat /\ n < 2 * Size
  BY <1>1, RingAssumption DEF QueueInv, RingTyped, Cells
<1> HIDE DEF n
<1>3. n % Size \in Cells
  BY <1>2, Wrap
<1> QED
  BY <1>3 DEF n

LEMMA InitTyped == Init => TypeInv
<1> SUFFICES ASSUME Init PROVE TypeInv
  OBVIOUS
<1>1. Flags
  BY DEF Init, Flags, After
<1>2. Radio
  <2>1. 0 \in Cells /\ 0 \in 0 .. MaxCommands /\ 0 \in 0 .. WordMod - 1
    BY RingAssumption, InputAssumption DEF Cells
  <2> QED
    BY <2>1 DEF Init, Radio, HkType, ToReport, Duplex
<1> QED
  BY <1>1, <1>2, InitQueue DEF TypeInv

LEMMA InterruptTyped ==
  ASSUME NEW n, UpdateInterrupt(n), asserted \in {0, 1}, pin \in {0, 1}
  PROVE  asserted' \in {0, 1} /\ pin' \in {0, 1}
BY DEF UpdateInterrupt

LEMMA LifeTyped == ASSUME TypeInv, LifeCycle PROVE Flags' /\ Radio'
<1>1. UNCHANGED <<device, datagram, tick, history>>
  BY DEF LifeCycle, Acquire, AcquireFails, StopRunning, Cleanup, udpVars
<1>2. Radio'
  BY <1>1 DEF TypeInv, Radio, ToReport, device, history
<1>3. /\ running' \in {0, 1} /\ udp' \in {"none", "recv", "accepted", "writing", "stopped"}
      /\ held' \subseteq Resource /\ stage' \in DOMAIN After \cup {"running", "join", "over"}
  <2>1. CASE Acquire
    <3>1. After[stage] \in DOMAIN After \cup {"running"}
      BY <2>1 DEF Acquire, After
    <3> QED
      BY <2>1, <3>1 DEF Acquire, TypeInv, Flags
  <2>2. CASE AcquireFails
    BY <2>2 DEF AcquireFails, TypeInv, Flags, udpVars
  <2>3. CASE StopRunning
    BY <2>3 DEF StopRunning, TypeInv, Flags, udpVars
  <2>4. CASE Cleanup
    BY <2>4 DEF Cleanup, TypeInv, Flags, udpVars
  <2> QED
    BY <2>1, <2>2, <2>3, <2>4 DEF LifeCycle
<1> QED
  BY <1>1, <1>2, <1>3 DEF TypeInv, Flags, device, interrupt

LEMMA UdpTyped == ASSUME TypeInv, UdpThread PROVE Flags' /\ Radio'
<1>1. UNCHANGED <<power, config, hk, bytesSent, tick, history, life>>
  BY DEF UdpThread, NoDatagram, AcceptDatagram, LockBuffer, StoreDatagram, StopUdp, Udp, device
<1>2. Radio'
  BY <1>1 DEF TypeInv, Radio, ToReport, history
<1>3. Flags'
  <2>1. CASE StoreDatagram
    <3>1. asserted' \in {0, 1} /\ pin' \in {0, 1}
      BY <2>1, InterruptTyped DEF StoreDatagram, TypeInv, Flags
    <3> QED
      BY <1>1, <2>1, <3>1 DEF StoreDatagram, Udp, Loop, TypeInv, Flags, life
  <2>2. CASE NoDatagram \/ AcceptDatagram \/ LockBuffer \/ StopUdp
    BY <1>1, <2>2 DEF NoDatagram, AcceptDatagram, LockBuffer, StopUdp, Udp, Loop, TypeInv, Flags,
       life, device, interrupt
  <2> QED
    BY <2>1, <2>2 DEF UdpThread
<1> QED
  BY <1>2, <1>3

LEMMA SpiTyped == ASSUME TypeInv, ServeSpi PROVE Flags' /\ Radio'
<1>1. UNCHANGED <<interrupt, power, bytesReceived, udpVars, life>>
  BY DEF ServeSpi, NoCommand, Noop, SetConfig, Receive, SendData, RequestHk, SendHousekeeping,
     Serve, Goto, device
<1>2. tick' \in {"power", "report"}
  BY DEF ServeSpi, NoCommand, Noop, SetConfig, Receive, SendData, RequestHk, SendHousekeeping,
     Goto
<1>3. Flags'
  BY <1>1, <1>2 DEF TypeInv, Flags, interrupt, udpVars, life
<1> SUFFICES Radio'
  BY <1>3
<1> USE DEF TypeInv, Radio, ToReport, Goto
<1>4. CASE NoCommand
  BY <1>4 DEF NoCommand, device, history
<1>5. CASE Noop
  BY <1>5, CountedTyped DEF Noop, Serve
<1>6. CASE SetConfig
  <2>1. PICK m \in ConfigModes, s \in Settings :
          /\ config' = [mode |-> m, setting |-> s]
          /\ hk' = Counted([hk EXCEPT !.mode = m, !.setting = s])
    BY <1>6 DEF SetConfig
  <2>2. m \in Nat /\ s \in Nat
    BY InputAssumption
  <2> DEFINE h == [hk EXCEPT !.mode = m, !.setting = s]
  <2>3. h \in HkType /\ h.commands = hk.commands
    BY <2>2 DEF HkType
  <2>4. hk' = Counted(h) /\ hk.commands < MaxCommands
    BY <1>6, <2>1 DEF SetConfig, Serve
  <2> HIDE DEF h
  <2>5. hk' \in HkType
    BY <2>3, <2>4, CountedTyped
  <2> QED
    BY <1>6, <2>1, <2>2, <2>5 DEF SetConfig
<1>7. CASE Receive
  <2>1. PICK requested \in Requests :
          hk' = Counted([hk EXCEPT !.sent = (@ + AtMost(requested, Count)) % WordMod])
    BY <1>7 DEF Receive
  <2>2. AtMost(requested, Count) \in Nat
    <3>1. Count \in Nat /\ requested \in Nat
      BY CountIs, InputAssumption DEF QueueInv, RingTyped, Cells
    <3> QED
      BY <3>1 DEF AtMost
  <2> DEFINE h == [hk EXCEPT !.sent = (@ + AtMost(requested, Count)) % WordMod]
  <2>3. h \in HkType /\ h.commands = hk.commands
    <3>1. hk.sent + AtMost(requested, Count) \in Nat
      BY <2>2 DEF HkType
    <3>2. (hk.sent + AtMost(requested, Count)) % WordMod \in Nat
      BY <3>1, ModIsNat
    <3> QED
      BY <3>2 DEF HkType
  <2>4. hk' = Counted(h) /\ hk.commands < MaxCommands
    BY <1>7, <2>1 DEF Receive, Serve
  <2> HIDE DEF h
  <2>5. hk' \in HkType
    BY <2>3, <2>4, CountedTyped
  <2> QED
    BY <1>7, <2>5 DEF Receive
<1>8. CASE SendData
  <2>1. PICK sent \in {0, Payload} :
          /\ bytesSent' = (bytesSent + sent) % WordMod
          /\ hk' = Counted([hk EXCEPT !.received = (@ + Payload) % WordMod,
                                      !.sent = (@ + sent) % WordMod])
    BY <1>8 DEF SendData
  <2>2. sent \in Nat /\ Payload \in Nat
    BY InputAssumption
  <2> DEFINE h == [hk EXCEPT !.received = (@ + Payload) % WordMod, !.sent = (@ + sent) % WordMod]
  <2>3. h \in HkType /\ h.commands = hk.commands
    <3>1. hk.received + Payload \in Nat /\ hk.sent + sent \in Nat
      BY <2>2 DEF HkType
    <3>2. (hk.received + Payload) % WordMod \in Nat /\ (hk.sent + sent) % WordMod \in Nat
      BY <3>1, ModIsNat
    <3> QED
      BY <3>2 DEF HkType
  <2>4. hk' = Counted(h) /\ hk.commands < MaxCommands
    BY <1>8, <2>1 DEF SendData, Serve
  <2> HIDE DEF h
  <2>5. hk' \in HkType
    BY <2>3, <2>4, CountedTyped
  <2>6. bytesSent' \in Nat
    BY <2>1, <2>2, ModIsNat
  <2> QED
    BY <1>8, <2>5, <2>6 DEF SendData
<1>9. CASE RequestHk
  <2>1. hk' \in HkType /\ hk'.commands = hk.commands
    <3>1. Count \in Cells /\ bytesReceived \in Nat /\ bytesSent \in Nat
      BY CountIs DEF QueueInv, RingTyped
    <3> QED
      BY <1>9, <3>1 DEF RequestHk, Snapshot, HkType
  <2> QED
    BY <1>9, <2>1 DEF RequestHk, Serve
<1>10. CASE SendHousekeeping
  <2>1. reported' \in 0 .. WordMod - 1
    <3>1. PICK i \in 0 .. InProgress : \E j \in i .. InProgress :
            reported' = CountRead((head + i) % Size, (head + j) % Size)
      BY <1>10 DEF SendHousekeeping
    <3>2. PICK j \in i .. InProgress :
            reported' = CountRead((head + i) % Size, (head + j) % Size)
      BY <3>1
    <3>3. j \in 0 .. InProgress
      BY <3>1, <3>2
    <3>4. (head + i) % Size \in Cells /\ (head + j) % Size \in Cells /\ tail \in Cells
      BY <3>3, HeadOnTheWay DEF QueueInv, RingTyped
    <3> QED
      BY <3>2, <3>4, CountReadIsWord
  <2> QED
    BY <1>10, <2>1, CountedTyped DEF SendHousekeeping
<1> QED
  BY <1>4, <1>5, <1>6, <1>7, <1>8, <1>9, <1>10 DEF ServeSpi

LEMMA PinsTyped == ASSUME TypeInv, ServePins PROVE Flags' /\ Radio'
<1>1. bytesSent' = bytesSent /\ UNCHANGED <<udpVars, life>>
  BY DEF ServePins, KeepPower, PowerOn, PowerOff, ClearBuffer, ClearConfig, EndTick, Goto
<1>2. reported' \in 0 .. WordMod - 1
  BY RingAssumption DEF ServePins, KeepPower, PowerOn, PowerOff, ClearBuffer, ClearConfig, EndTick,
     EndOfSpi, history, TypeInv, Radio
<1>3. config' \in [mode : Nat, setting : Nat] /\ hk' \in HkType
  BY DEF ServePins, KeepPower, PowerOn, PowerOff, ClearBuffer, ClearConfig, EndTick, Asleep, Sleep,
     TypeInv, Radio, HkType
<1>4. asserted' \in {0, 1} /\ pin' \in {0, 1} /\ power' \in {0, 1}
  BY InputAssumption DEF ServePins, KeepPower, PowerOn, PowerOff, ClearBuffer, ClearConfig, EndTick,
     interrupt, TypeInv, Flags
<1>5. tick' \in {"gpio", "off", "offRest", "idle"}
  BY DEF ServePins, KeepPower, PowerOn, PowerOff, ClearBuffer, ClearConfig, EndTick, Goto
<1> QED
  BY <1>1, <1>2, <1>3, <1>4, <1>5 DEF TypeInv, Flags, Radio, ToReport, udpVars, life

LEMMA StepTyped == ASSUME TypeInv, [Next]_vars PROVE TypeInv'
<1>1. QueueInv'
  BY StepQueue DEF TypeInv
<1>2. CASE UNCHANGED vars
  BY <1>1, <1>2 DEF vars, device, interrupt, life, udpVars, history, TypeInv, Flags, Radio, ToReport
<1>3. CASE StartTick \/ StartTickWithUpdate
  <2>1. asserted' \in {0, 1} /\ pin' \in {0, 1}
    BY <1>3, InterruptTyped DEF StartTick, StartTickWithUpdate, TypeInv, Flags, device, interrupt
  <2> QED
    BY <1>1, <1>3, <2>1 DEF StartTick, StartTickWithUpdate, Goto, device, life, udpVars, history,
       TypeInv, Flags, Radio, ToReport
<1> QED
  BY <1>1, <1>2, <1>3, LifeTyped, UdpTyped, SpiTyped, PinsTyped DEF Next, TickThread, TypeInv

\* Head and tail stay in the ring, and every other variable keeps its type, for every
\* size and input.
THEOREM TypeCorrect == Spec => []TypeOK
<1>1. Init => TypeInv
  BY InitTyped
<1>2. TypeInv /\ [Next]_vars => TypeInv'
  BY StepTyped
<1>3. TypeInv => TypeOK
  BY DEF TypeInv, QueueInv, RingTyped, Handed, Flags, Radio, HkType, TypeOK
<1> QED
  BY <1>1, <1>2, <1>3, PTL DEF Spec

-----------------------------------------------------------------------------
(* What housekeeping counts                                                 *)

\* What was handed out and what waits was received.
Balance == Len(delivered) + Count <= bytesReceived

SnapInv == TypeInv /\ Balance /\ SnapshotConsistent

LEMMA StepBalance == ASSUME QueueInv, Balance, [Next]_vars PROVE Balance'
<1>1. /\ Len(delivered) \in Nat /\ Count \in Nat /\ bytesReceived \in Nat
  BY CountIs, LenProperties DEF QueueInv, Handed, RingTyped, Cells
<1>2. CASE Wrote
  <2>1. /\ bytesReceived' = bytesReceived + datagram /\ datagram \in Nat
        /\ Count' = Count + Stored /\ delivered' = delivered
    BY <1>2, WroteAppends DEF Wrote
  <2>2. Stored \in Nat /\ Stored <= datagram
    BY <2>1, StoredFits DEF QueueInv
  <2> QED
    BY <1>1, <2>1, <2>2 DEF Balance
<1>3. CASE Took
  BY <1>3, TookExtends DEF Balance, Took
<1>4. CASE Emptied
  <2>1. Count' = 0 /\ delivered' = delivered /\ bytesReceived' = bytesReceived
    BY <1>4, EmptiedIsEmpty DEF Emptied, QueueInv
  <2> QED
    BY <1>1, <2>1 DEF Balance
<1>5. CASE Left
  BY <1>5, LeftAlone DEF Left, Balance
<1> QED
  BY <1>2, <1>3, <1>4, <1>5, RingSteps DEF QueueInv

\* The snapshot is taken in one piece, under the mutex, and stays until it is sent.
LEMMA StepSnapshot ==
  ASSUME TypeInv, Balance, SnapshotConsistent, [Next]_vars
  PROVE  SnapshotConsistent'
<1>1. CASE UNCHANGED <<hk, delivered, tick>>
  BY <1>1 DEF SnapshotConsistent
<1>2. CASE tick' # "report"
  BY <1>2 DEF SnapshotConsistent
<1>3. CASE RequestHk
  <2>1. hk' = Snapshot /\ delivered' = delivered
    BY <1>3 DEF RequestHk
  <2>2. hk'.inRx = Count /\ hk'.received = bytesReceived
    BY <2>1 DEF Snapshot, TypeInv, Radio, HkType
  <2>3. Len(delivered) \in Nat /\ Count \in Nat
    BY CountIs, LenProperties DEF TypeInv, QueueInv, Handed, RingTyped, Cells
  <2>4. hk'.inRx + Len(delivered') <= hk'.received
    BY <2>1, <2>2, <2>3 DEF Balance
  <2> QED
    BY <2>4 DEF SnapshotConsistent
<1>4. CASE LifeCycle \/ UdpThread \/ UNCHANGED vars
  BY <1>1, <1>4 DEF LifeCycle, Acquire, AcquireFails, StopRunning, Cleanup,
     UdpThread, NoDatagram, AcceptDatagram, LockBuffer, StoreDatagram, StopUdp,
     device, history, vars
<1>5. CASE TickThread /\ ~RequestHk
  BY <1>2, <1>5 DEF TickThread, StartTick, StartTickWithUpdate, ServeSpi, NoCommand, Noop, SetConfig,
     Receive, SendData, SendHousekeeping, ServePins, KeepPower, PowerOn,
     PowerOff, ClearBuffer, ClearConfig, EndTick, Goto
<1> QED
  BY <1>3, <1>4, <1>5 DEF Next

\* The housekeeping reply counts in two steps, with and without the mutex: the copy
\* made under the mutex fits together, whatever arrives meanwhile (radio_sim.c:319).
THEOREM SnapshotFits == Spec => []SnapshotConsistent
<1>1. Init => SnapInv
  <2>1. Init => Balance
    BY InitQueue, InputAssumption DEF Init, Balance
  <2> QED
    BY <2>1, InitTyped DEF SnapInv, Init, SnapshotConsistent
<1>2. SnapInv /\ [Next]_vars => SnapInv'
  BY StepTyped, StepBalance, StepSnapshot DEF SnapInv, TypeInv
<1>3. SnapInv => SnapshotConsistent
  BY DEF SnapInv
<1> QED
  BY <1>1, <1>2, <1>3, PTL DEF Spec

-----------------------------------------------------------------------------
(* What a power cut leaves                                                  *)

\* While the power is off and the buffer was cleared, either nothing waits yet, or the
\* datagram that was on its way has arrived and no other is.
LateInv ==
  power = 0 /\ tick # "off" =>
    \/ Count = 0
    \/ udp \notin {"accepted", "writing"} /\ \E n \in Datagrams : Count <= n

LEMMA LifeLate == ASSUME TypeInv, LateInv, LifeCycle PROVE LateInv'
<1>1. UNCHANGED <<power, tick>> /\ Left
  BY DEF LifeCycle, Acquire, AcquireFails, StopRunning, Cleanup, device, history, Left
<1>2. udp' = udp \/ udp' = "recv"
  BY DEF LifeCycle, Acquire, AcquireFails, StopRunning, Cleanup, udpVars
<1> QED
  BY <1>1, <1>2, LeftAlone DEF LateInv

LEMMA UdpLate == ASSUME TypeInv, LateInv, UdpThread PROVE LateInv'
<1>1. UNCHANGED <<power, tick>>
  BY DEF UdpThread, NoDatagram, AcceptDatagram, LockBuffer, StoreDatagram, StopUdp, device
<1>2. CASE StoreDatagram
  <2>1. udp = "writing" /\ udp' \notin {"accepted", "writing"} /\ Wrote
    BY <1>2 DEF StoreDatagram, Udp, Loop, Wrote, history
  <2>2. Count' = Count + Stored /\ datagram \in Datagrams /\ datagram \in Nat
    BY <2>1, WroteAppends DEF TypeInv
  <2>3. Stored \in Nat /\ Stored <= datagram /\ Count \in Nat
    BY <2>2, StoredFits DEF TypeInv, QueueInv
  <2>4. Count = 0 => Count' <= datagram
    BY <2>2, <2>3
  <2> QED
    BY <1>1, <2>1, <2>2, <2>4 DEF LateInv
<1>3. CASE NoDatagram \/ LockBuffer \/ StopUdp
  <2>1. Left /\ (udp' \in {"accepted", "writing"} => udp \in {"accepted", "writing"})
    BY <1>3 DEF NoDatagram, LockBuffer, StopUdp, Udp, Loop, device, history, Left
  <2> QED
    BY <1>1, <2>1, LeftAlone DEF LateInv
<1>4. CASE AcceptDatagram
  BY <1>1, <1>4 DEF AcceptDatagram, LateInv
<1> QED
  BY <1>2, <1>3, <1>4 DEF UdpThread

LEMMA TickLate == ASSUME TypeInv, LateInv, TickThread PROVE LateInv'
<1>1. UNCHANGED udpVars
  BY DEF TickThread, StartTick, StartTickWithUpdate, ServeSpi, NoCommand, Noop, SetConfig,
     Receive, SendData, RequestHk, SendHousekeeping, Serve, ServePins, KeepPower, PowerOn,
     PowerOff, ClearBuffer, ClearConfig, EndTick
<1>2. CASE ClearBuffer
  <2>1. Count' = 0
    BY <1>2, EmptiedIsEmpty DEF ClearBuffer, Emptied, history, TypeInv, QueueInv
  <2> QED
    BY <2>1 DEF LateInv
<1>3. CASE PowerOn \/ PowerOff \/ Receive
  BY <1>3 DEF PowerOn, PowerOff, Receive, Serve, Goto, LateInv
<1>4. CASE \/ StartTick \/ StartTickWithUpdate \/ NoCommand \/ Noop \/ SetConfig \/ SendData
           \/ RequestHk \/ SendHousekeeping \/ KeepPower \/ ClearConfig \/ EndTick
  <2>1. Left /\ power' = power /\ tick # "off"
    BY <1>4 DEF StartTick, StartTickWithUpdate, NoCommand, Noop, SetConfig, SendData, RequestHk,
       SendHousekeeping, Serve, KeepPower, ClearConfig, EndTick, EndOfSpi, Goto, device, history,
       Left
  <2> QED
    BY <1>1, <2>1, LeftAlone DEF LateInv, udpVars
<1> QED
  BY <1>2, <1>3, <1>4 DEF TickThread, ServeSpi, ServePins

\* The test of power takes no lock (radio_sim.c:241, 501): one datagram can pass it before
\* a power cut and be stored after it, but no more than one.
THEOREM LateDatagram == Spec => []OneLateDatagram
<1>1. Init => TypeInv /\ LateInv
  BY InitTyped, InitQueue DEF LateInv
<1>2. TypeInv /\ LateInv /\ [Next]_vars => (TypeInv /\ LateInv)'
  <2>1. ASSUME LateInv, UNCHANGED vars PROVE LateInv'
    <3>1. Left /\ UNCHANGED <<power, tick, udp>>
      BY <2>1 DEF vars, device, udpVars, history, Left
    <3> QED
      BY <2>1, <3>1, LeftAlone DEF LateInv
  <2> QED
    BY <2>1, StepTyped, LifeLate, UdpLate, TickLate DEF Next
<1>3. TypeInv /\ LateInv => OneLateDatagram
  <2>1. TypeInv => 0 <= Count /\ Count \in Nat
    BY CountIs DEF TypeInv, QueueInv, RingTyped, Cells
  <2> QED
    BY <2>1 DEF LateInv, OneLateDatagram
<1> QED
  BY <1>1, <1>2, <1>3, PTL DEF Spec
=============================================================================
