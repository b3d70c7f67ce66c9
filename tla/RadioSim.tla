----------------------------- MODULE RadioSim ------------------------------
(***************************************************************************)
(* The radio simulator: the UDP thread puts the ground's datagrams in a     *)
(* ring buffer, and the tick thread serves the SPI commands, the power pin  *)
(* and the interrupt pin, at most one message of each in a tick.  A mutex   *)
(* guards the ring, but not every access takes it.  An octet is its number  *)
(* in the order of arrival; the four speed and wavelength settings are one  *)
(* value; a message a tick finds waiting is any message.  Simulith (which   *)
(* is external) initialises the radio, ticks it, and cleans it up between   *)
(* two ticks; what it acquires is a set of resources.  Operators named      *)
(* Faulty... are plausible bugs, to show which property notices each; no    *)
(* action uses them.                                                        *)
(***************************************************************************)
EXTENDS Integers, Sequences

CONSTANTS
  Size,         \* RADIO_SIM_RX_BUFFER_SIZE
  Threshold,    \* RADIO_SIM_INTERRUPT_THRESHOLD
  WordMod,      \* uint32_t: 2^32
  ConfigModes,  \* modes a SET_CFG command carries; none is refused
  Settings,     \* settings a SET_CFG command carries; 0 is what memset leaves
  Datagrams,    \* lengths of the datagrams of the ground
  Requests,     \* lengths a RECEIVE command asks for
  Payload,      \* length of the payload of a SEND command
  PinWrites,    \* values the host writes to the interrupt pin
  MaxBytes,     \* bound on the octets accepted from the ground
  MaxCommands   \* bound on the SPI commands that are counted

ASSUME RingAssumption ==
  /\ Size \in Nat \ {0, 1} /\ Threshold \in 1 .. Size - 1
  /\ WordMod \in Nat /\ WordMod > 2 * Size /\ WordMod > MaxBytes
ASSUME InputAssumption ==
  /\ ConfigModes \subseteq Nat /\ Settings \subseteq Nat
  /\ Datagrams \subseteq Nat \ {0} /\ Requests \subseteq Nat /\ Payload \in Nat \ {0}
  /\ PinWrites \subseteq {0, 1} /\ MaxBytes \in Nat /\ MaxCommands \in Nat

VARIABLES
  ring, head, tail,  \* rx_buffer, rx_buffer_head, rx_buffer_tail
  asserted,          \* interrupt_asserted
  pin,               \* gpio_interrupt_state.value
  power,             \* gpio_power_state.value
  config,            \* config: mode and settings
  hk,                \* hk: mode, setting, inRx, received, sent, commands
  bytesReceived, bytesSent,
  stage,             \* what radio_sim_init acquires next, "running", "join" or "over"
  held,              \* resources that are acquired and not released
  running,           \* udp_thread_running
  udp,               \* UDP thread: "none", "recv", "accepted", "writing", "stopped"
  datagram,          \* length of the datagram in its buffer
  tick,              \* tick thread: "idle", "spi", "report", "power", "off", "offRest", "gpio"
  delivered,         \* history: octets handed out by RECEIVE
  reported           \* history: octets in the buffer by the HK reply of this tick

buffer == <<ring, head, tail>>
interrupt == <<asserted, pin>>
device == <<buffer, interrupt, power, config, hk, bytesReceived, bytesSent>>
life == <<stage, held, running>>
udpVars == <<udp, datagram>>
history == <<delivered, reported>>
vars == <<device, life, udpVars, tick, history>>

Cells == 0 .. Size - 1
Resource == {"mutex", "spi", "powerPin", "interruptPin", "rx", "tx"}
Sleep == 0
Tx == 1
Rx == 2
Duplex == 3

\* Power is off or on in the first tick, depending on the GPIO library (external).
\* What radio_sim_init stores before it starts the thread is there from the start.
Init ==
  /\ ring = [i \in Cells |-> 0] /\ head = 0 /\ tail = 0
  /\ asserted = 0 /\ pin = 0 /\ power \in {0, 1}
  /\ config = [mode |-> Duplex, setting |-> 0]
  /\ hk = [mode |-> Duplex, setting |-> 0, inRx |-> 0, received |-> 0, sent |-> 0,
           commands |-> 0]
  /\ bytesReceived = 0 /\ bytesSent = 0
  /\ stage = "mutex" /\ held = {} /\ running = 0
  /\ udp = "none" /\ datagram = 0 /\ tick = "idle"
  /\ delivered = <<>> /\ reported = 0

-----------------------------------------------------------------------------
(* Initialisation and cleanup                                               *)

\* What radio_sim_init does after each of its steps has succeeded.
After == [mutex |-> "spi", spi |-> "powerPin", powerPin |-> "interruptPin",
          interruptPin |-> "rx", rx |-> "tx", tx |-> "bind", bind |-> "thread",
          thread |-> "running"]

\* The branch for the TX socket forgets the RX socket.
FaultyReleased ==
  [mutex |-> {}, spi |-> {"mutex"}, powerPin |-> {"spi", "mutex"},
   interruptPin |-> {"powerPin", "spi", "mutex"}, rx |-> Resource \ {"rx", "tx"},
   tx |-> Resource \ {"rx", "tx"}, bind |-> Resource, thread |-> Resource]

\* What the branch of a step that fails releases, as each of them lists it.
Released ==
  [mutex |-> {}, spi |-> {"mutex"}, powerPin |-> {"spi", "mutex"},
   interruptPin |-> {"powerPin", "spi", "mutex"}, rx |-> Resource \ {"rx", "tx"},
   tx |-> Resource \ {"tx"}, bind |-> Resource, thread |-> Resource]

Acquire ==
  /\ stage \in DOMAIN After
  /\ stage' = After[stage]
  /\ held' = held \cup ({stage} \cap Resource)
  /\ IF stage = "thread" THEN udp' = "recv" /\ running' = 1 ELSE UNCHANGED <<udp, running>>
  /\ UNCHANGED <<device, datagram, tick, history>>

AcquireFails ==
  /\ stage \in DOMAIN After
  /\ stage' = "over"
  /\ held' = held \ Released[stage]
  /\ UNCHANGED <<device, running, udpVars, tick, history>>

\* radio_sim_cleanup up to the join.
StopRunning ==
  /\ stage = "running" /\ tick = "idle"
  /\ stage' = "join" /\ running' = 0
  /\ UNCHANGED <<device, held, udpVars, tick, history>>

\* The thread is not waited for.
FaultyJoined == TRUE

Joined == udp = "stopped"

\* The rest of it: everything is closed, and the state is freed.
Cleanup ==
  /\ stage = "join" /\ Joined
  /\ stage' = "over" /\ held' = {}
  /\ UNCHANGED <<device, running, udpVars, tick, history>>

LifeCycle == Acquire \/ AcquireFails \/ StopRunning \/ Cleanup

-----------------------------------------------------------------------------
(* The ring                                                                 *)

\* radio_sim_get_rx_buffer_count, which reads the head twice: once to compare it
\* with the tail, once to compute.
CountRead(first, second) ==
  IF first >= tail THEN (second - tail) % WordMod ELSE (Size - tail) + second
Count == CountRead(head, head)

\* The octets waiting, oldest first.
Contents == [i \in 1 .. Count |-> ring[(tail + i - 1) % Size]]

AtMost(n, limit) == IF n > limit THEN limit ELSE n

\* The cell that tells a full ring from an empty one is used too.
FaultyStored == AtMost(datagram, Size - Count)

\* How much of the datagram radio_sim_write_to_rx_buffer keeps.
Stored == AtMost(datagram, Size - Count - 1)

WriteToRxBuffer ==
  /\ ring' = [i \in Cells |-> LET k == (i - head) % Size
                              IN  IF k < Stored THEN bytesReceived + k + 1 ELSE ring[i]]
  /\ head' = (head + Stored) % Size

\* The tail does not wrap.
FaultyReadFromRxBuffer(n) ==
  /\ delivered' = delivered \o SubSeq(Contents, 1, n)
  /\ tail' = tail + n

ReadFromRxBuffer(n) ==
  /\ delivered' = delivered \o SubSeq(Contents, 1, n)
  /\ tail' = (tail + n) % Size

\* radio_sim_update_interrupt for a buffer of n octets.
UpdateInterrupt(n) ==
  /\ asserted' = (IF n >= Threshold THEN 1 ELSE 0)
  /\ pin' = (IF asserted' # asserted THEN 1 ELSE pin)

-----------------------------------------------------------------------------
(* The UDP thread                                                           *)

Udp(from, to) == udp = from /\ udp' = to /\ UNCHANGED life

\* The loop does not look at udp_thread_running.
FaultyLoop == "recv"

\* Where the thread goes at the end of the loop's body.
Loop == IF running = 1 THEN "recv" ELSE "stopped"

\* select times out or is interrupted, recvfrom fails, or the datagram does not pass
\* the test of power and mode and is forgotten.
NoDatagram ==
  /\ Udp("recv", Loop)
  /\ UNCHANGED <<device, datagram, tick, history>>

\* A datagram that passes the test of power and mode, which takes no lock.
AcceptDatagram ==
  /\ Udp("recv", "accepted")
  /\ power = 1 /\ config.mode \in {Rx, Duplex}
  /\ \E n \in Datagrams : datagram' = n /\ bytesReceived + n <= MaxBytes
  /\ UNCHANGED <<device, tick, history>>

LockBuffer ==
  /\ Udp("accepted", "writing")
  /\ UNCHANGED <<device, datagram, tick, history>>

StoreDatagram ==
  /\ Udp("writing", Loop)
  /\ WriteToRxBuffer
  /\ bytesReceived' = (bytesReceived + datagram) % WordMod
  /\ UpdateInterrupt(Count + Stored)
  /\ datagram' = 0
  /\ UNCHANGED <<tail, power, config, hk, bytesSent, tick, history>>

\* select fails with anything but EINTR.
StopUdp ==
  /\ Udp("recv", "stopped")
  /\ UNCHANGED <<device, datagram, tick, history>>

UdpThread == NoDatagram \/ AcceptDatagram \/ LockBuffer \/ StoreDatagram \/ StopUdp

-----------------------------------------------------------------------------
(* The tick thread: start of a tick, SPI                                    *)

MutexFree == udp # "writing"

Goto(from, to) == stage = "running" /\ tick = from /\ tick' = to /\ UNCHANGED life

\* The update is not due yet.
StartTick ==
  /\ Goto("idle", "spi")
  /\ UNCHANGED <<device, udpVars, history>>

StartTickWithUpdate ==
  /\ Goto("idle", "spi")
  /\ MutexFree
  /\ UpdateInterrupt(Count)
  /\ UNCHANGED <<buffer, power, config, hk, bytesReceived, bytesSent, udpVars, history>>

\* No message, one that is malformed, or one for a radio that is off.
NoCommand ==
  /\ Goto("spi", "power")
  /\ UNCHANGED <<device, udpVars, history>>

\* A well-formed message reaches the switch, and is counted whatever it holds.
Counted(h) == [h EXCEPT !.commands = @ + 1]
Serve ==
  /\ power = 1 /\ hk.commands < MaxCommands
  /\ UNCHANGED <<power, bytesReceived, udpVars>>

\* A no-operation; an unknown command code and a payload whose length is not the
\* command's have the same effect.
Noop ==
  /\ Goto("spi", "power") /\ Serve
  /\ hk' = Counted(hk)
  /\ UNCHANGED <<buffer, interrupt, config, bytesSent, delivered, reported>>

SetConfig ==
  /\ Goto("spi", "power") /\ Serve
  /\ \E m \in ConfigModes, s \in Settings :
       /\ config' = [mode |-> m, setting |-> s]
       /\ hk' = Counted([hk EXCEPT !.mode = m, !.setting = s])
  /\ UNCHANGED <<buffer, interrupt, bytesSent, delivered, reported>>

Receive ==
  /\ Goto("spi", "power") /\ Serve
  /\ MutexFree
  /\ \E requested \in Requests :
       LET n == AtMost(requested, Count)
       IN  /\ ReadFromRxBuffer(n)
           /\ hk' = Counted([hk EXCEPT !.sent = (@ + n) % WordMod])
  /\ UNCHANGED <<ring, head, interrupt, config, bytesSent, reported>>

\* sendto takes the whole payload or fails.
SendData ==
  /\ Goto("spi", "power") /\ Serve
  /\ \E sent \in {0, Payload} :
       /\ sent > 0 => config.mode \in {Tx, Duplex} /\ MutexFree
       /\ bytesSent' = (bytesSent + sent) % WordMod
       /\ hk' = Counted([hk EXCEPT !.received = (@ + Payload) % WordMod,
                                   !.sent = (@ + sent) % WordMod])
  /\ UNCHANGED <<buffer, interrupt, config, delivered, reported>>

\* The octets received are not refreshed.
FaultySnapshot == [hk EXCEPT !.inRx = Count, !.sent = bytesSent]

Snapshot == [hk EXCEPT !.inRx = Count, !.received = bytesReceived, !.sent = bytesSent]

\* REQ_HK, the part under the mutex.
RequestHk ==
  /\ Goto("spi", "report") /\ Serve
  /\ MutexFree
  /\ hk' = Snapshot
  /\ UNCHANGED <<buffer, interrupt, config, bytesSent, delivered, reported>>

\* radio_sim_send_housekeeping counts the octets again, without the mutex: the head
\* may be anywhere on the way of a write in progress, and move between its reads.
InProgress == IF udp = "writing" THEN Stored ELSE 0
SendHousekeeping ==
  /\ Goto("report", "power")
  /\ \E i \in 0 .. InProgress : \E j \in i .. InProgress :
       reported' = CountRead((head + i) % Size, (head + j) % Size)
  /\ hk' = Counted(hk)
  /\ UNCHANGED <<buffer, interrupt, power, config, bytesReceived, bytesSent, udpVars,
                 delivered>>

ServeSpi ==
  \/ NoCommand \/ Noop \/ SetConfig \/ Receive \/ SendData
  \/ RequestHk \/ SendHousekeeping

-----------------------------------------------------------------------------
(* The tick thread: power and interrupt pins                                *)

EndOfSpi == reported' = 0 /\ UNCHANGED delivered

\* No power message, a read, or a write of the value the pin has.
KeepPower ==
  /\ Goto("power", "gpio") /\ EndOfSpi
  /\ UNCHANGED <<buffer, interrupt, power, config, hk, bytesReceived, bytesSent, udpVars>>

PowerOn ==
  /\ Goto("power", "gpio") /\ EndOfSpi
  /\ power = 0 /\ power' = 1
  /\ UNCHANGED <<buffer, interrupt, config, hk, bytesReceived, bytesSent, udpVars>>

PowerOff ==
  /\ Goto("power", "off") /\ EndOfSpi
  /\ power = 1 /\ power' = 0
  /\ UNCHANGED <<buffer, interrupt, config, hk, bytesReceived, bytesSent, udpVars>>

\* Only one end of the ring goes back.
FaultyEmptyRing == tail' = 0 /\ UNCHANGED head

EmptyRing == head' = 0 /\ tail' = 0

ClearBuffer ==
  /\ Goto("off", "offRest")
  /\ MutexFree
  /\ EmptyRing /\ asserted' = 0
  /\ UNCHANGED <<ring, pin, power, config, hk, bytesReceived, bytesSent, udpVars, history>>

\* Housekeeping keeps the mode the radio had.
FaultyAsleep(h) == h

Asleep(h) == [h EXCEPT !.mode = Sleep]

ClearConfig ==
  /\ Goto("offRest", "gpio")
  /\ pin' = 0
  /\ config' = [mode |-> Sleep, setting |-> 0]
  /\ hk' = Asleep(hk)
  /\ UNCHANGED <<buffer, asserted, power, bytesReceived, bytesSent, udpVars, history>>

\* No interrupt message, a read, or a write.
EndTick ==
  /\ Goto("gpio", "idle")
  /\ pin' \in {pin} \cup PinWrites
  /\ UNCHANGED <<buffer, asserted, power, config, hk, bytesReceived, bytesSent, udpVars,
                 history>>

ServePins == KeepPower \/ PowerOn \/ PowerOff \/ ClearBuffer \/ ClearConfig \/ EndTick

TickThread == StartTick \/ StartTickWithUpdate \/ ServeSpi \/ ServePins

Next == LifeCycle \/ UdpThread \/ TickThread

Spec == Init /\ [][Next]_vars

\* The threads run on, a thread leaves the critical section, select returns within
\* 100 ms, and simulated time passes.  Simulith need not ever start or stop the radio.
FairSpec ==
  /\ Spec
  /\ WF_vars(TickThread)
  /\ WF_vars(NoDatagram) /\ WF_vars(LockBuffer) /\ WF_vars(StoreDatagram)
  /\ WF_vars(Cleanup)

-----------------------------------------------------------------------------
(* Properties                                                               *)

\* Types of the variables; the head and the tail stay inside the buffer.
TypeOK ==
  /\ ring \in [Cells -> 0 .. MaxBytes] /\ head \in Cells /\ tail \in Cells
  /\ asserted \in {0, 1} /\ pin \in {0, 1} /\ power \in {0, 1}
  /\ config \in [mode : Nat, setting : Nat]
  /\ hk \in [mode : Nat, setting : Nat, inRx : Cells, received : Nat, sent : Nat,
             commands : 0 .. MaxCommands]
  /\ bytesReceived \in 0 .. MaxBytes /\ bytesSent \in Nat
  /\ stage \in DOMAIN After \cup {"running", "join", "over"}
  /\ held \subseteq Resource /\ running \in {0, 1}
  /\ udp \in {"none", "recv", "accepted", "writing", "stopped"}
  /\ datagram \in Datagrams \cup {0}
  /\ tick \in {"idle", "spi", "report", "power", "off", "offRest", "gpio"}
  /\ delivered \in Seq(1 .. MaxBytes) /\ reported \in 0 .. WordMod - 1

\* A power cut leaves nothing behind, except at most one datagram that passed the
\* test of power before it and got the mutex after it.
OneLateDatagram ==
  power = 0 /\ tick # "off" => \E n \in Datagrams \cup {0} : Count <= n

\* Outside the power-off sequence the housekeeping mode is the mode in force.
HkMirrorsMode == tick \notin {"off", "offRest"} => hk.mode = config.mode

\* The counts that REQ_HK copies under the mutex fit together: what waits and what
\* was handed out has been received.
SnapshotConsistent ==
  tick = "report" => hk.inRx + Len(delivered) <= hk.received

\* The ring is a bounded queue, whatever its head and tail do and whichever thread
\* touches it.
Queue == INSTANCE RxQueue WITH
  Room <- Size - 1, Bursts <- Datagrams, arrived <- bytesReceived, queue <- Contents
ImplementsRxQueue == Queue!Spec

\* The UDP thread never runs without its socket and its mutex: nothing it uses is
\* released before it was joined, and it is not started before all is there.
ThreadHasResources == udp \notin {"none", "stopped"} => {"rx", "mutex"} \subseteq held

\* Whatever step of the initialisation fails, and when the radio is cleaned up,
\* everything acquired is released, and no thread is left.
NothingLeftHeld == stage = "over" => held = {} /\ udp \in {"none", "stopped"}

\* A cleanup ends, whatever the UDP thread was doing and the ground is sending.
CleanupEnds == stage = "join" ~> stage = "over"

\* "Bytes in received buffer" (radio_device.h:47): what housekeeping reports is a
\* number of octets the buffer can hold.
ReportedFits == reported < Size
=============================================================================
