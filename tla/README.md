# Formal models of the TrySpace radio component

TLA+ specifications of `src/`, checked with TLC on small instances, with theorems
that TLAPS checks for every value of the constants. Paths below are relative to
`src/`; `A` is `src/radio_app.c`, `D` is `shared/radio_device.c`, `S` is
`sim/radio_sim.c`, `C` is `cli/radio_cli.c`.

## 1. The system

A cFS application flies a radio that hangs on SPI, a power GPIO and an interrupt
GPIO. On the ground the radio is a simulator, a library loaded by the director. A
command line program can take the application's place.

```
 software bus            SPI, GPIO                   UDP
 commands  --> RADIO app ---driver---> simulated radio <--> ground station
 packets  <--->  uplink: bytes -> TC frames -> CryptoLib -> packets
                 downlink: packets -> TM frames -> bytes
 prompt    --> radio_cli ---driver---> (the same radio)
```

| component | state it keeps | operations | modules |
|---|---|---|---|
| application life cycle, commands, requests (`A`) | run status, `HkTelemetryPkt` (counters, `DeviceEnabled`, cached device housekeeping), the three device handles | initialise, one message per pass of the loop, shut down | `RadioApp` |
| uplink service (`A:744-960`) | `ReceiveBuffer`, `ReceiveBuffLength` across polls; offset and reads left within one; the decrypted payload and the scan's offset | read, parse, hand a frame to CryptoLib, resynchronise, keep a partial frame; scan the payload, forward its packets | `RadioUplink`, abstractly `FrameLink`; `PacketScan` |
| downlink service (`A:965-1151`) | `radio_frame_info` across polls; `pkt_count`, `pkt_len`, `SBBufPtr` within one; the pipe | pack, leave a packet for the next frame, finish and send a frame | `RadioDownlink`, abstractly `PacketLink` |
| device driver (`D`) | handles only | open, power on/off, request housekeeping, configure, receive, send, check the interrupt | `RadioLink`; as its callers see it, in `RadioApp` and `RadioUplink` |
| simulator (`S`) | resources, ring buffer, configuration, housekeeping, interrupt flag, pins | initialise, clean up; UDP thread: store a datagram; tick thread: SPI command, power pin, interrupt pin | `RadioSim`, abstractly `RxQueue`; against the driver, `RadioLink` |
| command line (`cli/`) | the handles that are open, the way to the end | start, one command after the other, end | `RadioCli` |
| subscription table, ids, XTCE, tests, build files | constant data | none | not modelled |

How they interact. The application calls the driver, which is stateless but for
its handles and talks to the radio by SPI exchanges and GPIO levels; the simulator
answers on ticks of simulated time. The application and the ground meet only
through the radio's ring buffer and `sendto`. Other applications meet it in the
downlink pipe, a bounded queue of the software bus. Inside the simulator two
threads share the ring, the configuration, the housekeeping and the pins;
`buffer_mutex` covers some of these accesses. The command line program calls the driver
too, one function after the other.

What is hard here:

* *Failures half way.* Every driver, library and bus call may fail, and each
  handler has its own idea of what to undo: enable opens three devices and then
  powers the radio, a downlink poll has five places to fail between taking a packet
  and sending its frame, the simulator's start has eight steps with a list of releases
  each.
* *Streams cut anywhere.* The uplink gets bytes in reads that know nothing of
  frames, on a channel with noise, lost replies and power cycles.
* *Replies that come late.* A driver call waits for a limited time, and nothing in a
  reply tells which request it answers.
* *Three channels, one order.* A tick looks at SPI before the power pin, so messages of
  different channels overtake each other.
* *Threads.* The UDP thread tests power and mode before it takes the mutex; the
  power-off is several steps of which one holds it; housekeeping counts the ring twice,
  once without it; the cleanup meets the thread anywhere in its loop.
* *Copies that go stale.* The mode is kept in the radio, in the simulator's
  configuration, in its housekeeping and in the application's telemetry.
* *Loops that must end.* A poll is bounded by a count that not every turn moves.

What makes each component correct:

* application: an enabled device is open and powered; no handle leaks; every change
  of the hardware is counted once; a refused message touches nothing; the cached mode
  catches up with the radio's, whatever replies were left waiting;
* uplink: on a link that loses nothing, each frame is handed over whole, once and
  in order; on any link the parser stays inside its buffer, always keeps room to
  read on, and ends its poll; the scan of a payload forwards what is a packet and never
  sends the software bus past the payload;
* downlink: packets are sent in order, none twice, none lost without a count;
  frames fit; the poll advances or counts an error, and leaves nothing behind;
* driver and radio: a reply is that of the call that reads it, a power-on costs few
  commands however slow the radio is, housekeeping reports the last configuration, octets
  arrive once and in order;
* simulator: the ring is a bounded queue whatever the threads do; a power cut empties
  it; housekeeping agrees with it; nothing is used after it was released;
* command line: it writes to open devices only and leaves the radio off.

## 2. The modules and the code

`PROJECT.json` maps every definition to its lines. In every module an action is a whole
handler, or the stretch of a thread between two points where another actor may
step in. Operators named `Faulty...` are plausible programming errors (a dropped
guard, an off-by-one, a forgotten reset). No action uses them; put in the place of the operator
that follows them, they show that a property can fail.

### RadioApp

One action per pass of the main loop of `RADIO_AppMain` (`A:25-95`): the message is
any command, with a right or wrong length, any request, or one of an unknown id, and
the handler runs to its end with any outcome of its driver calls. `InitDevice` opens
a prefix of SPI, power, interrupt (`D:6-44`), so `isOpen` and the handles the library
really holds (`held`) may part. `hkMode` is the cached mode, `radioMode` the mode of
the radio; after a failed SPI write the radio may or may not have the new mode.
`RADIO_RequestHK` stores the mode of the oldest reply in the channel (`D:195-221`), which need not
be its own: `waiting` are the replies that no call has read, left by requests whose read gave
up and by `RADIO_ReceiveData`, whose replies pass for housekeeping with any octet as a mode. A
request the radio has not looked at yet when its power goes is dropped, or answered after the
next power-on (`WaitingAfterPower`). `behind` counts how many successful requests it takes until the
cached mode must be current; `ModeCatchesUp` says that then it is. The start-up's many early
returns in `RADIO_AppInit` have one effect, the error status, and are one choice. The services are
abstracted to what they do to the counters (any number of errors, and frames for a downlink) and, for an
uplink, to the replies: it takes any number of those that wait, and may leave some of its own.

### RadioUplink, FrameLink, MCRadioUplink

`RADIO_ServiceUplink`, one action per turn of its loops. The parser reads one thing
off a byte, the frame length that a header starting there would claim (the length
field plus one); a byte is that number, plus the identity of the ground's frame it
belongs to, which only the properties see. `Receive` moves what the radio has, and what
fits, behind what was kept; `HandFrame`, `Resync`, `DropBuffer`, `KeepPartial`
and `KeepTail` are the ways a turn of the parser ends. The ground, the noise and the
power cycle are the environment; `Limit` bounds how often each disturbs a run.
`FrameLink` is the promise: frames sent are delivered in order, once, eventually.

### PacketScan

What follows `HandFrame` for one frame (`A:884-930`): `Decrypt` is CryptoLib's payload, any
sequence of octets (a frame it refuses only counts an error), and each turn of the scan
forwards a packet or steps one octet on. The widths are scaled down: the first octet of a
header says whether it is a command, the last one holds `packet_len`, and
`total_packet_size` wraps at `WordMod` as the `uint16` does at 2^16. What
`CFE_SB_TransmitMsg` reads is external and does not wrap; the difference is the point of `InsidePdu`.

### RadioDownlink, PacketLink

`RADIO_ServiceDownlink`, one action per turn of the inner loop and one for each way to
finish a frame; other applications publish at any point. A packet is its number and
its size, a frame the packets in it. TM_SDLP, TM_SYNC and CryptoLib are external and
known from their calls: starting a frame empties it, adding a packet takes its size
of the free octets, adding an idle packet takes what is left, each call may fail. A frame that
could not be completed (`A:1068`) stays ready and is retried in the next poll, with what it held or,
after the idle packet of `A:1063`, with nothing free (`CompleteFrameFails`). With `Persistent` the calls fail
as often as they like, otherwise `MaxFaults` times. `DiscardPipe` is the other branch of
`RADIO_Service`. `PacketLink` is the promise: published packets are delivered in order
and once, some at a time; one is dropped only when the pipe is full or a call failed; and,
unless calls fail without end (`FailuresEnd`), none is kept back for ever.

### RadioLink

The driver against the simulated radio over the three channels between them. A driver
call is an action up to its write (`SetConfiguration`, `RequestHK`, ...), and one for its
return: the delay is over, a reply is there, or it gives up. The radio is a tick that
serves one message of SPI, then one of the power pin, then one of the interrupt pin
(`S:454`, in the order of `radio_sim_tick`). The channels are external: they keep the order
and keep a reply until a read takes it, of whichever call. So a call that gives up (`late`)
leaves a reply to the next one, and the model reads it as the driver does: `RADIO_ReceiveData` takes
the command counter of a housekeeping reply for a length, `RADIO_RequestHK` an octet of
data for a mode. `believed`, `wanted` and `intended` are what a careful host may conclude.
`OwnReply`, `ReadYourWrites` and `NothingLost` have `late = 0` as their condition: they say what holds as long as every
call waited for the radio. `RADIO_PowerOn` waits `RADIO_CFG_MS_TIMEOUT / 100` (`D:64`), which guarantees
no tick, so no promise is made that a command after it finds the radio on; `FewDropped` bounds what
that can cost (`dropped`, `levels`), with or without late calls.

### RadioCli

`main` of the command line program, on top of `RadioLink` (EXTENDS): each of its driver calls
is a `RadioLink` action, so every run of it is a run of that module. `stage` is the place in
`main`; `InitDevice` leaves a prefix of the devices open; `DriverCommand` and
`OtherCommand` are what the user types; `Check` is the look at the interrupt after each;
`CloseSpi` and `SwitchOff` are the end (`C:414-433`), which closes what is open and switches off
through the power pin before it is closed.

### RadioSim, RxQueue

The simulator from `radio_sim_init` to the end of `radio_sim_cleanup`. `Acquire` and
`AcquireFails` take the eight steps of the initialisation (`stage` is the next one), with the releases of
each failing branch in `Released` as the code lists them; `StopRunning` and `Cleanup` are
the two sides of the join at `S:715`. The UDP thread tests power and mode (`AcceptDatagram`), takes
the mutex (`LockBuffer`), writes and leaves (`StoreDatagram`). A tick is: update of the
interrupt when due, one SPI command, one power message, one interrupt message; the
tick thread's accesses under the mutex wait for `MutexFree`. Choices worth knowing:

* the director calls initialisation, ticks and cleanup on one thread, so a cleanup starts
  between two ticks (external);
* power and mode are read in one step. Reading them apart gives nothing new: power
  is 0 before the configuration is cleared, and only the tick thread writes either;
* a datagram that fails that test changes nothing and is `NoDatagram`;
* `SendHousekeeping` counts the ring without the mutex while a write may be in
  progress, and `radio_sim_get_rx_buffer_count` reads the head twice: the two values
  are any two, in order, on the way of that write;
* a no-operation, an unknown code and a payload of the wrong length all do one thing,
  count, and are one action;
* the four speed and wavelength settings are one value; octets are numbered in the
  order of arrival, so that order and loss are visible.

`RxQueue` is the promise: a queue with room for `Size - 1` octets, cut at the limit,
emptied by a power cut.

## 3. What the runs check

| run | states | what it shows |
|---|---|---|
| `app` | 7.4 million | types, an enabled application is ready, no leak without a failed enable, the cached mode catches up past late replies, changes of the hardware are counted, and a rejection touches nothing, over any sequence of messages and failures |
| `uplink_clean` | 13 thousand | every frame received is handed over, and `FrameLink` implemented, while reads cut the stream at will and one read fails |
| `uplink_noisy` | 252 thousand | bounds, room, partial frames, order and termination under two bytes of noise, a lost reply and a power cycle |
| `scan` | 131 thousand | on every payload, reads inside it, disjoint packets, streams of packets forwarded completely, termination |
| `downlink` | 983 thousand | `PacketLink` implemented, order, conservation, fitting frames (retried ones too), losses counted, and every step of a poll that counts no error nearer to its end, with calls that fail as often as they like |
| `link` | 486 thousand | own replies and the mode as configured while no call gave up; with late calls too, few commands dropped by a power-on, octets in order, and the level last written takes effect |
| `cli` | 62 thousand | writes go to open devices only, and the program ends with the radio off, however the start fails and whatever is typed |
| `sim` | 254 thousand | the ring implements `RxQueue`, one late datagram at most after a power cut, housekeeping agrees with the ring, resources outlive their use and are all released, the cleanup ends |

The other runs each check one sentence that the repository says of itself and that
the code does not keep; TLC's shortest trace is the explanation:

| run | the sentence | what happens |
|---|---|---|
| `app_service_mode` | `A:1168` "Service downlink if enabled and in correct mode" | the cached mode decides, and only a housekeeping request refreshes it |
| `uplink_power` | `README.md:84` received data reaches the software bus | a partial frame kept over a power cycle spoils the frame after it |
| `downlink_oversized` | `A:1057` "leave for next frame" | a packet as large as an empty frame is left for ever and the loop never ends |
| `sim_report` | `shared/radio_device.h:47` "Bytes in received buffer" | a head that wraps between two reads gives a count of nearly 2^32 |

Met while modelling, represented in the models as the code has it, and not worth a
run each:

* `A:598`: an enable that fails half way leaves devices open, and `A:82` "Disable component,
  which cleans up the interface, upon exit" is a disable that is rejected then, so they stay
  open. `NoLeakWithoutFailure` has this as its condition.
* `A:636` drops the result of `RADIO_PowerOff`; the disable counts and reports a success
  although the radio keeps its power.
* `README.md:79` lists a request (1) that services the radio; `A:476` knows
  only the housekeeping request and counts an invalid command.
* `S:55` tests power and mode before the mutex is taken, so a datagram may be stored in a
  radio that is off by then (`OneLateDatagram` says that it is at most one). Stored before
  `S:508`, it sets the flag of the interrupt, and that line then lowers the pin: after the next power-on the
  buffer may be half full with the flag set, and no update raises the pin.
* `S:88` sets the pin to 1 on every change of the flag, where `S:96` logs "Interrupt cleared" and
  `README.md:9` has the line notify of a half-full buffer: once raised, the line stays up when the buffer is
  drained, until the power goes. The models have this as it is, and no property says that the line follows the buffer.
* `A:1042`: when `TM_SDLP_AddPacket` fails, the packet is left for the next frame and `pkt_count` does not grow. As
  long as the call refuses that packet the poll goes round, frame after frame, past
  `support/device_config.yaml:12` "max_tx_msgs_per_poll: 50"; each turn counts an error (`PollAdvances`), and nothing else ends it.
* `S:509` clears the settings and `S:511` mirrors only the mode, so housekeeping goes on
  reporting the old speeds and wavelengths.
* `S:425` counts rejected commands too, where `shared/radio_device.h:40` says "Number of
  commands accepted".
* `S:557` publishes the state in `g_state` before the steps that may fail and free it; nothing
  reads it then, because each tick sets it again (`S:750`).
* `D:195`: after a call gave up, a housekeeping reply may pass for received data and the other way
  round; there is no sequence number to tell. `OwnReply` has this as its condition.
* `D:64`: the delay of `RADIO_PowerOn` waits for no tick, and the tick looks at SPI first: a
  command sent right after it may be dropped. `FewDropped` bounds how many.
* `D:79`: SPI commands that still wait when the power pin goes low are dropped or served after the next
  power-on, whichever tick takes them.
* `C:421`: the power pin's handle is marked closed without `gpio_close`.
* `README.md` lists "bytes in transmit buffer" in the housekeeping reply; the reply has no such field.

### Bounds, and why they are enough

* `CounterMod` 2 or 3 instead of 256: a counter is only ever incremented, compared
  with itself or cleared, and 3 is the least width at which one increment, two
  increments and none are told apart.
* `MaxOpen` 2: a leak shows as a second handle; a third adds nothing.
* `MaxWaiting` 2: one reply of each kind, in both orders, and a channel from which two must be taken
  before the next is its own.
* Uplink: header 2, buffer 4, ring 6. A frame is a bare header, has one byte of body, or fills the buffer;
  a partial frame can be less than a header, exactly a header, or all but one byte; up to
  three frames make one complete, one partial and one waiting in the ring. Two reads a
  poll give a partial frame that is completed within the poll and one that is completed in the
  next.
* Scan: header 2, words of 3 bits, payloads to 7 octets of four kinds: a command or not, a
  length that is exact, too long, and that wraps. Two packets and what lies between them
  fit, and every payload is tried.
* Downlink: capacity 4 and sizes 1 to 3 give frames of one to three packets, and every
  way to not fit; two packets a poll and pipe depth 2 make both the poll's limit and
  the pipe's overflow happen with four packets. `Persistent` is TRUE: any call may fail at any time, and `faults` only remembers
  that one did. It is FALSE, without any fault, in `downlink_oversized`, which is about packets that are too large.
* Link: four calls allow a power cycle around a configuration and the request that reads
  it; one late call leaves a reply to the next, and one after that; two octets show order.
  `HkSize` 6 lets a reply of data be as long as a housekeeping reply, and shorter.
* Command line: six calls are the power-on, a command with its check, a second one, and the end.
* Simulator: 4 cells, datagrams of 1 and 2, five octets: the ring fills, overflows and wraps.
  Two SPI commands make every pair (configure then receive, receive twice, ...). Three in
  `sim_report`, whose trace needs it.
* `MaxFrames`, `MaxPackets`, `MaxCalls`, `MaxLate`, `MaxOctets`, `MaxBytes`, `MaxCommands`, `Limit` and `MaxFaults` bound
  histories, so the environment may stop at the bound: that is why deadlock is not checked
  in the uplink, the downlink and the simulator, whose cleanup ends the run besides. `RadioApp`
  really stops, when the application exits. `PacketScan`, `RadioLink` and `RadioCli` are checked for deadlock.

### Fairness, and why the code justifies it

* `RadioUplink`, `RadioDownlink`: weak fairness of the steps of a started poll (a
  sequential function runs on; the calls it makes return) and of starting one (the
  scheduler sends the service command periodically). None of the environment.
* `PacketScan`: weak fairness of the scan, a loop without calls that wait.
* `RadioLink`: weak fairness of the tick (the director calls it at every tick of simulated time)
  and of the return of a call (every read and delay has a limit). None of the calls.
* `RadioCli`: the same, and of the program while it does not wait for the user.
* `RadioSim`: weak fairness of the tick thread, of
  `LockBuffer` and `StoreDatagram` (the tick thread's critical sections end, and the UDP thread is
  scheduled), of `NoDatagram` (`select` returns within 100 ms) and of `Cleanup` once the thread was
  asked to stop; none of the rate-limited update, which no
  property needs. None of the ground, of any particular command, or of the start or the end of the radio.

## 4. What is proved

Every theorem holds for all values of the constants that satisfy the `ASSUME`s of its
module: counters at least two wide (three in the downlink, where one step may count two
errors), at least one handle, positive sizes, a header no longer than the
buffer, a word wider than twice the ring and than the octets of a run (2^32 in the code), a payload no longer than its
length field can say.

* `RadioApp_proofs`: `TypeCorrect`, `EnabledReady`, `NoLeak`, `ModeRecovers`, and the
  action properties `InterfaceCounted` and `RejectionHarmless`. The first five share one inductive invariant: the types; that nothing
  is open before the start-up; `EnabledMeansReady`; `OpenMeansHeld`;
  `NoLeakWithoutFailure`; and for the mode that, of the replies that wait, those from number `behind` on report
  the mode of the radio, the cached one too when `behind` is 0. `NoLeakWithoutFailure` is not inductive
  alone: a disable closes what the flags say is open, so it returns every handle only because
  an enabled application has all three flags set; and closing is a subtraction within the
  naturals only because an open device has a handle. There is one lemma per handler.
  `RejectionHarmless` needs no invariant: it holds of every step.
* `RadioUplink_proofs`: `TypeCorrect`, `ParserInBounds`, `RoomForRead`, `OnlyPartialKept`, `FramesInOrder`, `PollProgress`, under any
  noise, failure and power cycle. The first invariant is the types with the three of
  them: a read fits because the buffer had room; there is room because what
  is kept is less than a frame; what is kept is less than a frame because no frame
  claims more than the buffer, and because the parser stops only on a partial frame,
  a tail shorter than a header, or an empty buffer. For the order (`HInv`) the frames to which the bytes
  in the buffer and behind it in the ring belong never decrease, and none of them was handed on
  already. `NoFrameKeptBack` and `UplinkIsFrameLink` have a hypothesis, `Undisturbed`: the limits on noise, lost
  replies and power cycles are 0. It is the link the two promises are about, and no weaker one will do: the
  run `uplink_power` shows the first broken by a power cycle. The reads may still fail and cut the
  stream anywhere. The invariant (`CInv`): the frames sent and not yet handed on lie one behind the
  other, each of them whole, and fill the buffer and the ring from the parser's offset to the end (`InLine`);
  those handed on are the first ones sent, in order (`Numbered`); and each byte of a frame
  is in the ring or has reached the buffer (`Accounted`). `PollProgress`: each step of a poll uses up a read, or ends one part
  of the turn, or takes the parser past a byte; the measure is ordered in this order, and it is the bounds that
  keep it from falling below 0.
* `PacketScan_proofs`: `BusReadsInside`, `PacketsDisjoint`, `PacketsForwarded`, `ScanProgress`. The one fact they rest on is
  that a size that wraps falls below the smallest packet, so that the test at `A:905` refuses exactly the
  sizes that wrapped. The invariant: packets forwarded lie behind the offset, and on a payload of nothing
  but packets the offset is on the boundary of one. `ScanProgress` needs it once more: a packet that is accepted has a size above 0.
* `RadioDownlink_proofs`: `NoneLeftOver`, `PacketsInOrder`, `PacketsConserved`, `LossCounted`, `FrameNeverOverfull`,
  `DownlinkIsPacketLink`, `TypeCorrect`, `PollProgress`. Between polls no packet is in the local
  variables, where it would vanish uncounted: the packing loop runs
  below the limit, and a poll at its limit leaves nothing for a frame it will not
  have. On top of that, the packets sent, in the frame, left over and in the pipe are each increasing and
  each below the next, a frame that was not started is empty, and each packet is in one of these places or lost. A loss shows
  in the counter because a step counts one or two errors and a counter of three or more values changes with both.
  The octets of a frame are a sum over it, to which a packet adds its size whatever the order the sum is
  taken in; a frame that was started either accounts for every octet or reports none free, which a retry relies on. For the refinement every action is a step of `PacketLink` or a stutter: what waits there is what is in the frame, left
  over or in the pipe; a sent frame is the oldest of it because of the order; a full pipe means that many packets wait because an
  increasing sequence has as many elements as places; and a packet is lost without a new failure only when a frame that
  could not be started is finished, which a failure came before (`LinkInv`). `PollProgress` has a hypothesis, `NoneTooLarge`: each packet is smaller than an empty
  frame. It says `PollAdvances`: a step that counts no error and packs no packet takes the frame one part further, because a packet that is left
  over fits in the frame after it. That is all that can be said: the run `downlink_oversized` shows that without the hypothesis the
  loop turns for ever, and it does so too while a call goes on failing.
* `RadioLink_proofs`: `TypeCorrect`, `DropsAreFew`, `PowerSettles`, `RepliesOwn`, `ReadsWrites`, `OctetsOrdered`, `NoOctetLost`. The power
  is what the messages still in its channel will make of it (`PowerFollows`), late calls or not, which gives `PowerSettles`. For
  `DropsAreFew`: a tick takes one command and then one level, so each command dropped since the
  last level was written has been followed by a level, save the last, and those left still wait (`DropsBounded`); and while the
  radio is off although it is wanted on, a level does wait. As long as no call gave up: a channel holds at most the message or the reply of the call in
  progress (`Alone`); and the mode that the messages
  under way lead to is the one intended (`Converges`). For the octets (`OctetInv`): those delivered, in each reply and in the radio's buffer
  increase, and each place goes on where the one before it ends, however late the calls were (`OctetOrder`); while none was late, a reply is as long as its
  call takes (`Fitting`), so none is refused and no octet dropped (`Covered`).
* `RadioCli_proofs`: `CliImplementsLink`, hence `CliDropsAreFew` by the theorem of `RadioLink`; `WritesOnlyOpen`: at
  each place in `main` the devices used there are open; and `EndsOff`: whoever has called the driver still has the power pin
  open at the end, so `main` switches off, and `PowerSettles` says that the radio follows.
* `RadioSim_proofs`: `ModeMirrored`: the mode in housekeeping is the mode in force under
  every interleaving; the invariant adds only that the field exists, because updating a
  missing field would change nothing. `ResourcesSafe`, `AllReleased`: what is held at each step of the start is
  what the branch of the next step would release, which is the argument for eight lists written by hand.
  `TypeCorrect`, `RingIsQueue`, `SnapshotFits`, `LateDatagram`: the arithmetic of head, tail and count modulo the
  size gives three lemmas: a write appends what it keeps and overwrites nothing that
  waits, a read takes from the front, and resetting both ends empties. Of all steps one writes, one reads and one empties
  (`RingSteps`), so each maps to a step of `RxQueue` or to a stutter, a RECEIVE of nothing
  included. For the snapshot: what was handed out and what waits was received. For the late datagram: once the
  power is off and the ring was cleared, either nothing waits, or the UDP thread has stored its datagram and passes the
  test of power no more.
* `SequenceFacts`: no theorem about the code, but the lemmas on sequences of numbers that the
  downlink and the link share: elements and order when a sequence grows, shrinks, is split or joined. `FlattenSeq` and `FoldSeq`
  compute by recursion, and the library's induction theorems are out of the provers' reach; the induction is carried out
  instead by the least element of a set of numbers (`CountUp`) or of sizes of sets (`SetsUp`), which
  the theorem that a well-founded order has minimal elements gives.

Model-checked only: liveness (`PollEnds` of the uplink, `ScanEnds`, `LevelTakesEffect`, `ExitTurnsOff`, `CleanupEnds`), which
rests on fairness and `ENABLED`, out of the provers' reach, and the properties that do not hold. What the first four need besides
fairness is proved: the falling measures of `PollProgress` and `ScanProgress`, and the safety halves `PowerSettles` and `EndsOff`.
Of the refinements `ImplementsFrameLink` and `ImplementsPacketLink` the part that says that what is sent is
delivered or lost in the end is checked only, that of `PacketLink` for calls that fail finitely often; their safety parts are `UplinkIsFrameLink` and `DownlinkIsPacketLink`.

## 5. What is not modelled, and why

* The individual failures of `RADIO_AppInit`, which have one effect.
* CryptoLib, TM_SDLP, TM_SYNC, the software bus, Simulith and the HWLIB transports: not in this
  repository; modelled as far as the code here relies on them, and marked external.
* The text of the command line, of events and of logs; how a command line is split into tokens and numbers (`C:340-410`): formatting that
  decides which command is meant, and nothing else.
* Byte layout of frames and telemetry, tables, identifiers, XTCE, build files and
  tests: no behaviour. Their limits are the constants of the modules.

* The fixed buffers of a transfer, `tx_buf[4096]` (`S:339`) and `rx_buffer[2048]` (`D:296`): only a request for more octets than
  they hold reaches their ends, and no host in this repository makes one.

## 6. Plan

In order of importance; the first five are done.

1. `RadioApp`, `RadioUplink`/`FrameLink`, `RadioDownlink`/`PacketLink`, `RadioSim`/`RxQueue`,
   with their proofs.
2. `PacketScan`, `RadioLink`, `RadioCli`, and the life cycle of `RadioSim`.
3. Order and conservation of the downlink, the order of the uplink, and the ring as a queue, proved.
4. Frame boundaries of the uplink on a clean link, what fits in a frame, the octets of the link, and the step simulations of
   `FrameLink` and `PacketLink` without their fairness, proved.
5. That every turn of a poll and of a scan lowers a measure, and that the power settles: the part of
   liveness that needs no fairness, proved.
6. A composition of the application with `RadioLink`, for what spans them: the cached mode against the
   simulator's, when calls give up early.

To run: `tlc -config RadioSim.cfg RadioSim`, `tlapm RadioApp_proofs.tla`, and so
on; the table of runs in `PROJECT.json` pairs each module with its configurations.
