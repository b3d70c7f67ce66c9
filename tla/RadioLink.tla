----------------------------- MODULE RadioLink ------------------------------
(***************************************************************************)
(* The driver (radio_device.c) and the simulated radio over the three        *)
(* channels between them: SPI, the power pin and the interrupt pin.  The     *)
(* host makes one driver call after the other, in any order.  A tick of the  *)
(* radio takes at most one message of each channel, SPI first.  The channels *)
(* are external: they keep the order of messages, and keep a reply until a   *)
(* read takes it, be it the read of another call.  A call is known by its    *)
(* number; of the radio only the power, the mode and the octets that wait    *)
(* for RECEIVE are kept.  Operators named Faulty... are plausible bugs, to   *)
(* show which property notices each; no action uses them.                    *)
(***************************************************************************)
EXTENDS Naturals, Sequences, SequencesExt

CONSTANTS
  Modes,      \* modes a configuration may set
  Lengths,    \* max_length of RADIO_ReceiveData
  HkSize,     \* RADIO_DEVICE_HK_SIZE: 22
  MaxCalls,   \* bound on the driver calls
  MaxLate,    \* bound on the calls that return before the radio has answered
  MaxOctets   \* bound on the octets from the ground

ASSUME LinkAssumption ==
  /\ Modes \subseteq 0 .. 255 /\ Lengths \subseteq Nat /\ HkSize \in Nat
  /\ MaxCalls \in Nat /\ MaxLate \in Nat /\ MaxOctets \in Nat

VARIABLES
  calls,      \* number of driver calls so far
  phase,      \* of the last call: "idle" (returned), "delay", "reading"
  call,       \* what it reads: channel, operation and length
  result,     \* the reply it accepted: number of the call it answers, and mode
  requests,   \* messages to the radio, per channel
  replies,    \* messages from the radio, per channel
  tick,       \* the channel the tick looks at next
  power, mode,  \* gpio_power_state.value, config.Mode
  ring,       \* octets in the radio's receive buffer, numbered as they arrive
  arrived,    \* number of octets so far
  cleared,    \* history: octets a power-off deleted
  delivered,  \* history: octets RADIO_ReceiveData returned, 0 for one that is none
  believed,   \* history: 1 from the return of a power-on to the next power-off
  wanted,     \* history: the last level written to the power pin
  intended,   \* history: the mode the host may expect
  late,       \* history: calls that returned before the radio had answered
  dropped,    \* history: commands dropped since the power pin was last written
  levels      \* history: levels that then waited for the radio, the written one included

hostVars == <<calls, phase, call, result>>
channels == <<requests, replies>>
radioVars == <<power, mode, ring, arrived, cleared>>
beliefs == <<believed, wanted, intended>>
losses == <<dropped, levels>>
vars == <<hostVars, channels, tick, radioVars, delivered, beliefs, late, losses>>

Channel == {"spi", "power", "interrupt"}
Sleep == 0
Rx == 2
Duplex == 3
Unknown == 256
NoCall == [channel |-> "spi", op |-> "none", length |-> 0]
NoResult == [answers |-> 0, mode |-> Unknown]

Init ==
  /\ calls = 0 /\ phase = "idle" /\ call = NoCall /\ result = NoResult
  /\ requests = [c \in Channel |-> <<>>] /\ replies = [c \in Channel |-> <<>>]
  /\ tick = "spi" /\ power \in {0, 1} /\ mode = Duplex
  /\ ring = <<>> /\ arrived = 0 /\ cleared = {} /\ delivered = <<>>
  /\ believed = 0 /\ wanted = power /\ intended = Unknown /\ late = 0
  /\ dropped = 0 /\ levels = 0

-----------------------------------------------------------------------------
(* The driver up to its write                                               *)

Start ==
  /\ phase = "idle" /\ calls < MaxCalls
  /\ calls' = calls + 1 /\ result' = NoResult
  /\ UNCHANGED <<replies, tick, radioVars, delivered, late>>

Write(c, op, arg) ==
  requests' = [requests EXCEPT ![c] = Append(@, [op |-> op, arg |-> arg, id |-> calls + 1])]

Read(c, op, length) ==
  phase' = "reading" /\ call' = [channel |-> c, op |-> op, length |-> length]

Return == UNCHANGED <<phase, call>>

\* The write fails, and with it the call.
WriteFails == Start /\ Return /\ UNCHANGED <<requests, beliefs, losses>>

\* The command asks for an answer that nobody reads.
FaultyCommandDevice == Start /\ Write("spi", "hk", 0) /\ Return /\ UNCHANGED <<beliefs, losses>>

\* A no-operation, or RADIO_SendData: a command without an answer.
CommandDevice == Start /\ Write("spi", "command", 0) /\ Return /\ UNCHANGED <<beliefs, losses>>

ConfigurationWaits == \E i \in 1 .. Len(requests["spi"]) : requests["spi"][i].op = "configure"

\* A configuration counts for certain when the radio is known to be on.
SetConfiguration ==
  \E m \in Modes :
    /\ Start /\ Write("spi", "configure", m) /\ Return
    /\ intended' = (IF believed = 1 THEN m ELSE Unknown)
    /\ UNCHANGED <<believed, wanted, losses>>

RequestHK == Start /\ Write("spi", "hk", 0) /\ Read("spi", "hk", 0) /\ UNCHANGED <<beliefs, losses>>

ReceiveData ==
  \E n \in Lengths :
    Start /\ Write("spi", "receive", n) /\ Read("spi", "receive", n) /\ UNCHANGED <<beliefs, losses>>

CheckInterrupt ==
  /\ Start /\ Write("interrupt", "pin", 0) /\ Read("interrupt", "pin", 0)
  /\ UNCHANGED <<beliefs, losses>>

Delay == phase' = "delay" /\ UNCHANGED believed

SetLevel(v) ==
  /\ Start /\ Write("power", "level", v)
  /\ wanted' = v /\ dropped' = 0 /\ levels' = Len(requests'["power"])

PowerOn ==
  /\ SetLevel(1) /\ Delay
  /\ UNCHANGED <<call, intended>>

\* A configuration that still waits may be dropped, or served after the next power-on.
PowerOff ==
  /\ SetLevel(0) /\ Return
  /\ believed' = 0
  /\ intended' = (IF ConfigurationWaits THEN Unknown
                  ELSE IF believed = 1 THEN Sleep ELSE intended)

-----------------------------------------------------------------------------
(* The driver after its write                                               *)

\* The radio has still to look at a message, or its reply waits.
Outstanding(c) == requests[c] # <<>> \/ replies[c] # <<>>

CountLate(c) ==
  /\ late' = (IF Outstanding(c) THEN late + 1 ELSE late)
  /\ late' <= MaxLate

\* OS_TaskDelay has passed.
DelayOver ==
  /\ phase = "delay" /\ phase' = "idle"
  /\ CountLate("power")
  /\ believed' = 1
  /\ UNCHANGED <<calls, call, result, channels, tick, radioVars, delivered, wanted, intended,
                 losses>>

\* spi_read or gpio_read fails, or waits no longer.
GiveUp ==
  /\ phase = "reading" /\ phase' = "idle"
  /\ CountLate(call.channel)
  /\ UNCHANGED <<calls, call, result, channels, tick, radioVars, delivered, beliefs, losses>>

\* The reply at the head of the channel, whichever call it answers.
Oldest == Head(replies[call.channel])

Accept(m) == result' = [answers |-> Oldest.id, mode |-> m]
Reject == UNCHANGED result

TakeReply ==
  /\ phase = "reading" /\ phase' = "idle"
  /\ replies[call.channel] # <<>>
  /\ replies' = [replies EXCEPT ![call.channel] = Tail(@)]
  /\ UNCHANGED <<calls, call, requests, tick, radioVars, beliefs, late, losses>>

\* The reply of a RECEIVE is as long as the length it was asked for, and holds the
\* octet RADIO_RequestHK looks at if it is long enough; that octet may be any.
ReadHK ==
  /\ TakeReply /\ call.op = "hk"
  /\ \/ Oldest.op = "hk" /\ Accept(Oldest.arg)
     \/ Oldest.op = "receive" /\ Oldest.arg + 4 >= HkSize /\ Accept(Unknown)
     \/ Oldest.op = "receive" /\ Reject
  /\ UNCHANGED delivered

\* RADIO_ReceiveData reads the command counter of a housekeeping reply as a length.
ReadData ==
  /\ TakeReply /\ call.op = "receive"
  /\ \/ /\ Oldest.op = "receive" /\ Len(Oldest.data) <= call.length
        /\ Accept(Unknown) /\ delivered' = delivered \o Oldest.data
     \/ /\ Oldest.op = "receive" /\ Len(Oldest.data) > call.length
        /\ Reject /\ UNCHANGED delivered
     \/ /\ Oldest.op = "hk" /\ Accept(Unknown)
        /\ \E n \in 0 .. call.length : delivered' = delivered \o [i \in 1 .. n |-> 0]
     \/ Oldest.op = "hk" /\ Reject /\ UNCHANGED delivered

ReadInterrupt == TakeReply /\ call.op = "pin" /\ Accept(Unknown) /\ UNCHANGED delivered

Driver ==
  \/ WriteFails \/ CommandDevice \/ SetConfiguration \/ RequestHK \/ ReceiveData
  \/ CheckInterrupt \/ PowerOn \/ PowerOff

Answered == DelayOver \/ GiveUp \/ ReadHK \/ ReadData \/ ReadInterrupt

-----------------------------------------------------------------------------
(* The radio                                                                *)

\* What the UDP thread stores of the ground's octets.
Arrive ==
  /\ power = 1 /\ mode \in {Rx, Duplex} /\ arrived < MaxOctets
  /\ arrived' = arrived + 1
  /\ ring' = Append(ring, arrived + 1)
  /\ UNCHANGED <<hostVars, channels, tick, power, mode, cleared, delivered, beliefs, late,
                 losses>>

\* The tick takes all the commands that wait before it looks at the power pin.
FaultySuccessor ==
  [spi |-> IF Len(requests["spi"]) > 1 THEN "spi" ELSE "power",
   power |-> "interrupt", interrupt |-> "spi"]

Successor == [spi |-> "power", power |-> "interrupt", interrupt |-> "spi"]

\* A radio that is off drops the command it takes.
Dropping == tick = "spi" /\ power = 0 /\ requests["spi"] # <<>>

Turn(c) ==
  /\ tick = c /\ tick' = Successor[c]
  /\ dropped' = (IF Dropping THEN dropped + 1 ELSE dropped)
  /\ UNCHANGED <<hostVars, arrived, delivered, beliefs, late, levels>>

NoMessage ==
  /\ requests[tick] = <<>> /\ Turn(tick)
  /\ UNCHANGED <<channels, power, mode, ring, cleared>>

Take(c) ==
  /\ Turn(c) /\ requests[c] # <<>>
  /\ requests' = [requests EXCEPT ![c] = Tail(@)]

Reply(c, arg, data) ==
  replies' = [replies EXCEPT
    ![c] = Append(@, [op |-> Head(requests[c]).op, arg |-> arg, data |-> data,
                      id |-> Head(requests[c]).id])]

DropCommand ==
  /\ power = 0 /\ Take("spi")
  /\ UNCHANGED <<replies, power, mode, ring, cleared>>

Serve(op) == power = 1 /\ Take("spi") /\ Head(requests["spi"]).op = op

ServeCommand == Serve("command") /\ UNCHANGED <<replies, power, mode, ring, cleared>>

ServeConfiguration ==
  /\ Serve("configure")
  /\ mode' = Head(requests["spi"]).arg
  /\ UNCHANGED <<replies, power, ring, cleared>>

\* The mirror of the mode is not updated.
FaultyReported == Duplex

Reported == mode

ServeHK ==
  /\ Serve("hk")
  /\ Reply("spi", Reported, <<>>)
  /\ UNCHANGED <<power, mode, ring, cleared>>

\* All that waits is sent, or it is sent and kept.
FaultyHanded(n) == Len(ring)
FaultyKept(n) == ring

Handed(n) == IF n < Len(ring) THEN n ELSE Len(ring)
Kept(n) == SubSeq(ring, n + 1, Len(ring))

ServeReceive ==
  LET asked == Head(requests["spi"]).arg
  IN  /\ Serve("receive")
      /\ Reply("spi", asked, SubSeq(ring, 1, Handed(asked)))
      /\ ring' = Kept(Handed(asked))
      /\ UNCHANGED <<power, mode, cleared>>

\* The switch-on is missed.
FaultyLevel(p, v) == IF v = 0 THEN 0 ELSE p

Level(p, v) == v

\* A power-off empties the buffer and puts the radio to sleep; writing the level
\* the pin has does nothing.
ServePower ==
  LET v == Head(requests["power"]).arg
      off == power = 1 /\ v = 0
  IN  /\ Take("power")
      /\ power' = Level(power, v)
      /\ mode' = (IF off THEN Sleep ELSE mode)
      /\ ring' = (IF off THEN <<>> ELSE ring)
      /\ cleared' = (IF off THEN cleared \cup ToSet(ring) ELSE cleared)
      /\ UNCHANGED replies

ServeInterrupt ==
  /\ Take("interrupt") /\ Reply("interrupt", 0, <<>>)
  /\ UNCHANGED <<power, mode, ring, cleared>>

ServeSpi == DropCommand \/ ServeCommand \/ ServeConfiguration \/ ServeHK \/ ServeReceive

Tick == NoMessage \/ ServeSpi \/ ServePower \/ ServeInterrupt

Next == Driver \/ Answered \/ Arrive \/ Tick

Spec == Init /\ [][Next]_vars

\* Simulith keeps ticking, and no driver call waits for ever.
FairSpec == Spec /\ WF_vars(Tick) /\ WF_vars(Answered)

-----------------------------------------------------------------------------
(* Properties                                                               *)

Octet == 1 .. MaxOctets
Id == 1 .. MaxCalls
Op == {"command", "configure", "hk", "receive", "level", "pin"}

\* Types of the variables.
TypeOK ==
  /\ calls \in 0 .. MaxCalls /\ phase \in {"idle", "delay", "reading"}
  /\ call \in [channel : Channel, op : Op \cup {"none"}, length : Nat]
  /\ result \in [answers : 0 .. MaxCalls, mode : Nat]
  /\ requests \in [Channel -> Seq([op : Op, arg : Nat, id : Id])]
  /\ \A i \in 1 .. Len(requests["power"]) : requests["power"][i].arg \in {0, 1}
  /\ replies \in [Channel -> Seq([op : Op, arg : Nat, data : Seq(Octet), id : Id])]
  /\ tick \in Channel /\ power \in {0, 1} /\ mode \in Nat
  /\ ring \in Seq(Octet) /\ arrived \in 0 .. MaxOctets /\ cleared \subseteq Octet
  /\ delivered \in Seq(Octet \cup {0})
  /\ believed \in {0, 1} /\ wanted \in {0, 1} /\ intended \in Nat
  /\ late \in 0 .. MaxLate /\ dropped \in Nat /\ levels \in Nat

\* As long as every call waited for the radio, no call takes the reply of another:
\* nothing in the frames tells whose reply it is.
OwnReply == late = 0 /\ result.answers # 0 => result.answers = calls

\* A tick looks at SPI before it looks at the power pin, and RADIO_PowerOn does not wait for
\* a tick: commands that follow it may find the radio off.  However late the radio is, and
\* however many commands wait, it drops no more of them than there were levels to look at
\* when the power-on was written, a command before each.
FewDropped == wanted = 1 => dropped <= levels

\* As long as every call waited for the radio, the power-on included, housekeeping reports
\* the last configuration, or sleep after a power cycle that overtook none.
ReadYourWrites ==
  late = 0 /\ believed = 1 /\ phase = "idle" /\ call.op = "hk" /\ result.answers # 0
    => intended \in {result.mode, Unknown}

\* What came and comes to the host, oldest first: the octets of the ground, and zeros
\* for what was none.
OnTheWay == delivered \o FlattenSeq([i \in 1 .. Len(replies["spi"]) |-> replies["spi"][i].data])
              \o ring

\* Late or not, the host receives the octets in their order and none twice.
OctetsInOrder ==
  \A i, j \in 1 .. Len(OnTheWay) :
    i < j /\ OnTheWay[i] # 0 /\ OnTheWay[j] # 0 => OnTheWay[i] < OnTheWay[j]

\* Unless a call gave up, every octet is delivered or waits; only a power-off
\* deletes any.
NothingLost == late = 0 => (ToSet(OnTheWay) \ {0}) \cup cleared = 1 .. arrived

\* Once the host is silent the radio has the power state that was last asked for.
LevelTakesEffect == <>[](power = wanted)
=============================================================================
