------------------------- MODULE RadioLink_proofs ---------------------------
(***************************************************************************)
(* What a host may rely on as long as each of its calls waited for the radio *)
(* to answer, whatever the sequence of calls and the interleaving of the     *)
(* ticks: replies are its own, the power is what it believes, housekeeping   *)
(* reports the mode it configured.                                           *)
(***************************************************************************)
EXTENDS RadioLink, SequenceFacts

Request == [op : Op, arg : Nat, id : Id]
Answer == [op : Op, arg : Nat, data : Seq(Octet), id : Id]

USE DEF Channel, Sleep, Rx, Duplex, Unknown, NoCall, NoResult

-----------------------------------------------------------------------------
(* Types                                                                    *)

\* The two ends of a queue.
LEMMA AppendFacts ==
  ASSUME NEW S, NEW q \in Seq(S), NEW e
  PROVE  /\ Append(q, e) # <<>> /\ Len(Append(q, e)) = Len(q) + 1 /\ Len(q) \in Nat
         /\ Append(q, e)[Len(q) + 1] = e
         /\ \A i \in 1 .. Len(q) : Append(q, e)[i] = q[i]
  OBVIOUS

LEMMA TailFacts ==
  ASSUME NEW S, NEW q \in Seq(S), q # <<>>
  PROVE  /\ Len(Tail(q)) = Len(q) - 1 /\ Len(q) \in Nat \ {0}
         /\ \A i \in 1 .. Len(Tail(q)) : Tail(q)[i] = q[i + 1] /\ i + 1 \in 1 .. Len(q)
         /\ Tail(q) = <<>> => Len(q) = 1
         /\ Tail(q) # <<>> => Len(Tail(q)) \in 1 .. Len(Tail(q))
<1>1. Len(q) \in Nat \ {0}
  BY EmptySeq
<1>2. Tail(q) \in Seq(S) /\ Len(Tail(q)) = Len(q) - 1
  BY HeadTailProperties
<1>3. \A i \in 1 .. Len(Tail(q)) : Tail(q)[i] = q[i + 1] /\ i + 1 \in 1 .. Len(q)
  BY <1>1, <1>2, HeadTailProperties
<1>4. Tail(q) = <<>> <=> Len(Tail(q)) = 0
  BY <1>2, EmptySeq
<1> QED
  BY <1>1, <1>2, <1>3, <1>4

\* Every state of a channel after a write, after the radio took a message and after
\* it replied is again a sequence of messages.
LEMMA WriteType ==
  ASSUME TypeOK, Start, NEW c \in Channel, NEW op \in Op, NEW arg \in Nat, Write(c, op, arg)
  PROVE  /\ requests' \in [Channel -> Seq(Request)]
         /\ requests'[c] = Append(requests[c], [op |-> op, arg |-> arg, id |-> calls + 1])
         /\ \A d \in Channel : d # c => requests'[d] = requests[d]
<1>1. [op |-> op, arg |-> arg, id |-> calls + 1] \in Request
  BY LinkAssumption DEF TypeOK, Start, Request, Id
<1>2. requests \in [Channel -> Seq(Request)]
  BY DEF TypeOK, Request
<1> QED
  BY <1>1, <1>2 DEF Write

LEMMA TakeType ==
  ASSUME TypeOK, NEW c \in Channel, Take(c)
  PROVE  /\ requests' \in [Channel -> Seq(Request)]
         /\ requests'[c] = Tail(requests[c]) /\ requests[c] # <<>>
         /\ requests[c] \in Seq(Request) /\ Head(requests[c]) \in Request
         /\ Head(requests[c]) = requests[c][1] /\ tick' \in Channel
         /\ \A d \in Channel : d # c => requests'[d] = requests[d]
<1>1. requests \in [Channel -> Seq(Request)]
  BY DEF TypeOK, Request
<1> QED
  BY <1>1 DEF Take, Turn, Successor

LEMMA ReplyType ==
  ASSUME TypeOK, NEW c \in Channel, Take(c), NEW arg \in Nat, NEW data \in Seq(Octet),
         Reply(c, arg, data)
  PROVE  /\ replies' \in [Channel -> Seq(Answer)]
         /\ replies'[c] = Append(replies[c],
              [op |-> Head(requests[c]).op, arg |-> arg, data |-> data,
               id |-> Head(requests[c]).id])
         /\ \A d \in Channel : d # c => replies'[d] = replies[d]
<1>1. Head(requests[c]) \in Request
  BY TakeType
<1>2. [op |-> Head(requests[c]).op, arg |-> arg, data |-> data, id |-> Head(requests[c]).id]
        \in Answer
  BY <1>1 DEF Request, Answer
<1>3. replies \in [Channel -> Seq(Answer)]
  BY DEF TypeOK, Answer
<1> QED
  BY <1>2, <1>3 DEF Reply

LEMMA HeadType ==
  ASSUME TypeOK, TakeReply
  PROVE  /\ call.channel \in Channel /\ replies[call.channel] \in Seq(Answer)
         /\ replies[call.channel] # <<>>
         /\ Oldest \in Answer /\ Oldest = replies[call.channel][1]
         /\ replies' \in [Channel -> Seq(Answer)]
         /\ replies'[call.channel] = Tail(replies[call.channel])
         /\ \A d \in Channel : d # call.channel => replies'[d] = replies[d]
<1>1. replies \in [Channel -> Seq(Answer)] /\ call.channel \in Channel
  BY DEF TypeOK, Answer
<1> QED
  BY <1>1 DEF TakeReply, Oldest

\* Only the two levels are ever written to the power pin.
Levels(q) == \A i \in 1 .. Len(q) : q[i].arg \in {0, 1}

LEMMA DriverTyped == ASSUME TypeOK, Driver PROVE TypeOK'
<1> SUFFICES /\ calls' \in 0 .. MaxCalls /\ phase' \in {"idle", "delay", "reading"}
             /\ call' \in [channel : Channel, op : Op \cup {"none"}, length : Nat]
             /\ requests' \in [Channel -> Seq(Request)] /\ Levels(requests'["power"])
             /\ believed' \in {0, 1} /\ wanted' \in {0, 1} /\ intended' \in Nat
             /\ dropped' \in Nat /\ levels' \in Nat
             /\ Start
  <2>1. result' \in [answers : 0 .. MaxCalls, mode : Nat]
    BY LinkAssumption DEF Start, NoResult, Unknown
  <2>2. UNCHANGED <<replies, tick, power, mode, ring, arrived, cleared, delivered, late>>
    BY DEF Start, radioVars
  <2>3. \A i \in 1 .. Len(requests'["power"]) : requests'["power"][i].arg \in {0, 1}
    BY DEF Levels
  <2> QED
    BY <2>1, <2>2, <2>3 DEF TypeOK, Request
<1>1. Start => calls' \in 0 .. MaxCalls
  BY LinkAssumption DEF Start, TypeOK
<1>2. /\ requests \in [Channel -> Seq(Request)] /\ Levels(requests["power"])
      /\ phase \in {"idle", "delay", "reading"}
      /\ call \in [channel : Channel, op : Op \cup {"none"}, length : Nat]
      /\ believed \in {0, 1} /\ wanted \in {0, 1} /\ intended \in Nat
      /\ dropped \in Nat /\ levels \in Nat
  BY DEF TypeOK, Request, Levels
<1> USE DEF beliefs, losses, Return
<1>3. CASE WriteFails
  BY <1>1, <1>2, <1>3 DEF WriteFails
<1>4. CASE CommandDevice
  BY <1>1, <1>2, <1>4, WriteType DEF CommandDevice, Op
<1>5. CASE SetConfiguration
  <2>1. PICK m \in Modes : /\ Start /\ Write("spi", "configure", m) /\ Return
                           /\ intended' = (IF believed = 1 THEN m ELSE Unknown)
                           /\ UNCHANGED <<believed, wanted, losses>>
    BY <1>5 DEF SetConfiguration
  <2>2. m \in Nat
    BY LinkAssumption
  <2>3. requests' \in [Channel -> Seq(Request)] /\ requests'["power"] = requests["power"]
    BY <2>1, <2>2, WriteType DEF Op
  <2> QED
    BY <1>1, <1>2, <2>1, <2>2, <2>3
<1>6. CASE RequestHK
  BY <1>1, <1>2, <1>6, WriteType DEF RequestHK, Read, Op
<1>7. CASE ReceiveData
  <2>1. PICK n \in Lengths : /\ Start /\ Write("spi", "receive", n)
                             /\ Read("spi", "receive", n) /\ UNCHANGED <<beliefs, losses>>
    BY <1>7 DEF ReceiveData
  <2>2. n \in Nat
    BY LinkAssumption
  <2>3. requests' \in [Channel -> Seq(Request)] /\ requests'["power"] = requests["power"]
    BY <2>1, <2>2, WriteType DEF Op
  <2> QED
    BY <1>1, <1>2, <2>1, <2>2, <2>3 DEF Read, Op
<1>8. CASE CheckInterrupt
  BY <1>1, <1>2, <1>8, WriteType DEF CheckInterrupt, Read, Op
<1>9. ASSUME Start, NEW v \in {0, 1}, Write("power", "level", v)
      PROVE  /\ requests' \in [Channel -> Seq(Request)] /\ Levels(requests'["power"])
             /\ Len(requests'["power"]) \in Nat
  <2>1. /\ requests' \in [Channel -> Seq(Request)]
        /\ requests'["power"] = Append(requests["power"],
                                       [op |-> "level", arg |-> v, id |-> calls + 1])
    BY <1>9, WriteType DEF Op
  <2> QED
    BY <1>2, <2>1 DEF Levels
<1>10. CASE PowerOn
  BY <1>1, <1>2, <1>9, <1>10 DEF PowerOn, SetLevel, Delay
<1>11. CASE PowerOff
  <2>1. Start /\ Write("power", "level", 0) /\ Return /\ wanted' = 0 /\ believed' = 0
        /\ intended' \in {Unknown, Sleep, intended}
        /\ dropped' = 0 /\ levels' = Len(requests'["power"])
    BY <1>11 DEF PowerOff, SetLevel
  <2> QED
    BY <1>1, <1>2, <1>9, <2>1
<1> QED
  BY <1>3, <1>4, <1>5, <1>6, <1>7, <1>8, <1>10, <1>11 DEF Driver

LEMMA AnsweredTyped == ASSUME TypeOK, Answered PROVE TypeOK'
<1>1. CASE DelayOver
  BY <1>1, LinkAssumption DEF DelayOver, CountLate, TypeOK, channels, radioVars, losses
<1>2. CASE GiveUp
  BY <1>2, LinkAssumption DEF GiveUp, CountLate, TypeOK, channels, radioVars, beliefs, losses
<1>3. ASSUME TakeReply, delivered' \in Seq(Octet \cup {0}),
             Reject \/ \E m \in Nat : Accept(m)
      PROVE  TypeOK'
  <2>1. Oldest.id \in 0 .. MaxCalls
    BY <1>3, HeadType, LinkAssumption DEF Answer, Id
  <2>2. result' \in [answers : 0 .. MaxCalls, mode : Nat]
    BY <1>3, <2>1 DEF Accept, Reject, TypeOK
  <2>3. replies' \in [Channel -> Seq(Answer)]
    BY <1>3, HeadType
  <2> QED
    BY <1>3, <2>2, <2>3 DEF TakeReply, TypeOK, radioVars, beliefs, losses, Answer
<1>4. CASE ReadHK
  <2>1. TakeReply /\ delivered' = delivered
    BY <1>4 DEF ReadHK
  <2>2. delivered \in Seq(Octet \cup {0})
    BY DEF TypeOK
  <2>3. Oldest.arg \in Nat
    BY <2>1, HeadType DEF Answer
  <2>4. Reject \/ \E m \in Nat : Accept(m)
    BY <1>4, <2>3 DEF ReadHK
  <2> QED
    BY <1>3, <2>1, <2>2, <2>4
<1>5. CASE ReadData
  <2>1. TakeReply /\ Oldest.data \in Seq(Octet)
    BY <1>5, HeadType DEF ReadData, Answer
  <2>2. delivered \in Seq(Octet \cup {0}) /\ call.length \in Nat
    BY DEF TypeOK
  <2>3. Reject \/ \E m \in Nat : Accept(m)
    BY <1>5 DEF ReadData
  <2>4. \A n \in 0 .. call.length : [i \in 1 .. n |-> 0] \in Seq(Octet \cup {0})
    BY <2>2
  <2>5. Oldest.data \in Seq(Octet \cup {0})
    BY <2>1
  <2>6. \/ delivered' \in {delivered, delivered \o Oldest.data}
        \/ \E n \in 0 .. call.length : delivered' = delivered \o [i \in 1 .. n |-> 0]
    BY <1>5 DEF ReadData
  <2>7. \A s \in Seq(Octet \cup {0}) : delivered \o s \in Seq(Octet \cup {0})
    BY <2>2
  <2>8. delivered' \in Seq(Octet \cup {0})
    BY <2>2, <2>4, <2>5, <2>6, <2>7
  <2> QED
    BY <1>3, <2>1, <2>3, <2>8
<1>6. CASE ReadInterrupt
  <2>1. TakeReply /\ delivered' = delivered /\ Accept(Unknown)
    BY <1>6 DEF ReadInterrupt
  <2> QED
    BY <1>3, <2>1 DEF TypeOK
<1> QED
  BY <1>1, <1>2, <1>4, <1>5, <1>6 DEF Answered

LEMMA TickTyped == ASSUME TypeOK, Tick PROVE TypeOK'
<1>1. ASSUME NEW c \in Channel, Take(c), Levels(requests'["power"]),
             replies' \in [Channel -> Seq(Answer)], power' \in {0, 1}, mode' \in Nat,
             ring' \in Seq(Octet), cleared' \subseteq Octet
      PROVE  TypeOK'
  <2>1. requests' \in [Channel -> Seq(Request)] /\ tick' \in Channel
    BY <1>1, TakeType
  <2> QED
    <3>1. dropped' \in Nat /\ levels' \in Nat
      BY <1>1 DEF Take, Turn, TypeOK
    <3> QED
      BY <1>1, <2>1, <3>1 DEF Take, Turn, TypeOK, hostVars, beliefs, Request, Answer, Levels
<1>2. /\ replies \in [Channel -> Seq(Answer)] /\ power \in {0, 1} /\ mode \in Nat
      /\ ring \in Seq(Octet) /\ cleared \subseteq Octet /\ Levels(requests["power"])
  BY DEF TypeOK, Answer, Levels
<1>3. ASSUME NEW c \in {"spi", "interrupt"}, Take(c) PROVE Levels(requests'["power"])
  BY <1>2, <1>3, TakeType
<1>4. CASE NoMessage
  BY <1>4 DEF NoMessage, Turn, Successor, TypeOK, hostVars, beliefs, losses, channels
<1>5. CASE DropCommand \/ ServeCommand
  BY <1>1, <1>2, <1>3, <1>5 DEF DropCommand, ServeCommand, Serve
<1>6. CASE ServeConfiguration
  <2>1. mode' \in Nat /\ Take("spi")
    BY <1>6, TakeType DEF ServeConfiguration, Serve, Request
  <2> QED
    BY <1>1, <1>2, <1>3, <1>6, <2>1 DEF ServeConfiguration
<1>7. CASE ServeHK
  <2>1. Take("spi") /\ replies' \in [Channel -> Seq(Answer)]
    <3>1. Take("spi") /\ Reply("spi", mode, <<>>) /\ mode \in Nat /\ <<>> \in Seq(Octet)
      BY <1>2, <1>7 DEF ServeHK, Serve, Reported
    <3> QED
      BY <3>1, ReplyType
  <2> QED
    BY <1>1, <1>2, <1>3, <1>7, <2>1 DEF ServeHK
<1>8. CASE ServeReceive
  <2> DEFINE asked == Head(requests["spi"]).arg
             n == Handed(asked)
  <2>1. Take("spi") /\ asked \in Nat
    BY <1>8, TakeType DEF ServeReceive, Serve, Request
  <2>2. n \in 0 .. Len(ring) /\ Len(ring) \in Nat
    BY <1>2, <2>1 DEF Handed
  <2>3. /\ Reply("spi", asked, SubSeq(ring, 1, n)) /\ ring' = SubSeq(ring, n + 1, Len(ring))
        /\ power' = power /\ mode' = mode /\ cleared' = cleared
    BY <1>8 DEF ServeReceive, Kept
  <2> HIDE DEF asked, n
  <2>4. SubSeq(ring, 1, n) \in Seq(Octet) /\ ring' \in Seq(Octet)
    BY <1>2, <2>2, <2>3
  <2>5. replies' \in [Channel -> Seq(Answer)]
    BY <2>1, <2>3, <2>4, ReplyType
  <2> QED
    BY <1>1, <1>2, <1>3, <2>1, <2>3, <2>4, <2>5
<1>9. CASE ServePower
  <2>1. /\ Take("power") /\ replies' = replies
        /\ power' = Head(requests["power"]).arg
        /\ mode' \in {Sleep, mode} /\ ring' \in {<<>>, ring}
        /\ cleared' \in {cleared \cup ToSet(ring), cleared}
    BY <1>9 DEF ServePower, Level
  <2>2. /\ requests'["power"] = Tail(requests["power"])
        /\ requests["power"] \in Seq(Request) /\ requests["power"] # <<>>
        /\ Head(requests["power"]) = requests["power"][1]
    BY <2>1, TakeType
  <2>3. power' \in {0, 1} /\ Levels(requests'["power"])
    BY <1>2, <2>1, <2>2 DEF Levels
  <2>4. mode' \in Nat
    BY <1>2, <2>1
  <2>5. ring' \in Seq(Octet)
    <3>1. <<>> \in Seq(Octet) /\ ring \in Seq(Octet) /\ (ring' = <<>> \/ ring' = ring)
      BY <1>2, <2>1
    <3> QED
      BY <3>1
  <2>6. ToSet(ring) \subseteq Octet
    BY <1>2 DEF ToSet
  <2>7. cleared' \subseteq Octet
    BY <1>2, <2>1, <2>6
  <2> QED
    BY <1>1, <1>2, <2>1, <2>3, <2>4, <2>5, <2>7
<1>10. CASE ServeInterrupt
  <2>1. Take("interrupt") /\ replies' \in [Channel -> Seq(Answer)]
    <3>1. Take("interrupt") /\ Reply("interrupt", 0, <<>>) /\ <<>> \in Seq(Octet)
      BY <1>10 DEF ServeInterrupt
    <3> QED
      BY <3>1, ReplyType
  <2> QED
    BY <1>1, <1>2, <1>3, <1>10, <2>1 DEF ServeInterrupt
<1> QED
  BY <1>4, <1>5, <1>6, <1>7, <1>8, <1>9, <1>10 DEF Tick, ServeSpi

LEMMA StepTyped == ASSUME TypeOK, [Next]_vars PROVE TypeOK'
<1>1. CASE Arrive
  <2>1. arrived + 1 \in Octet /\ arrived' = arrived + 1 /\ ring' = Append(ring, arrived + 1)
    BY <1>1, LinkAssumption DEF Arrive, TypeOK, Octet
  <2>2. ring' \in Seq(Octet) /\ arrived' \in 0 .. MaxOctets
    BY <2>1, LinkAssumption DEF TypeOK, Octet
  <2> QED
    BY <1>1, <2>2 DEF Arrive, TypeOK, hostVars, channels, beliefs, losses
<1>2. CASE UNCHANGED vars
  BY <1>2 DEF vars, TypeOK, hostVars, channels, radioVars, beliefs, losses
<1> QED
  BY <1>1, <1>2, DriverTyped, AnsweredTyped, TickTyped DEF Next

LEMMA InitTyped == Init => TypeOK
  BY LinkAssumption DEF Init, TypeOK

\* Types, for every bound and every set of modes and lengths.
THEOREM TypeCorrect == Spec => []TypeOK
  BY InitTyped, StepTyped, PTL DEF Spec

-----------------------------------------------------------------------------
(* The power                                                                *)

\* The power pin ends up at the level written last, and the host believes the radio
\* is on only when no other level is on its way.
PowerFollows ==
  LET q == requests["power"]
  IN  /\ q = <<>> => power = wanted
      /\ q # <<>> => q[Len(q)].arg = wanted
      /\ phase = "delay" => wanted = 1
      /\ late = 0 /\ believed = 1 =>
           power = 1 /\ wanted = 1 /\ \A i \in 1 .. Len(q) : q[i].arg = 1

LEMMA PowerFollowsInit == Init => PowerFollows
  BY DEF Init, PowerFollows

\* A step that writes nothing to the power pin and leaves the beliefs alone.
LEMMA PowerUntouched ==
  ASSUME PowerFollows, requests'["power"] = requests["power"], power' = power, late' = late,
         UNCHANGED <<believed, wanted>>, phase' = "delay" => phase = "delay"
  PROVE  PowerFollows'
  BY DEF PowerFollows

LEMMA PowerFollowsDriver == ASSUME TypeOK, PowerFollows, Driver PROVE PowerFollows'
<1> USE DEF beliefs, losses, Return, radioVars
<1>1. ASSUME NEW c \in {"spi", "interrupt"}, NEW op \in Op, NEW arg \in Nat,
             Start, Write(c, op, arg), UNCHANGED <<believed, wanted>>,
             phase' = "delay" => phase = "delay"
      PROVE  PowerFollows'
  <2>1. requests'["power"] = requests["power"]
    BY <1>1, WriteType
  <2> QED
    BY <1>1, <2>1, PowerUntouched DEF Start
<1>2. CASE WriteFails
  BY <1>2, PowerUntouched DEF WriteFails, Start
<1>3. CASE CommandDevice
  BY <1>1, <1>3 DEF CommandDevice, Op
<1>4. CASE SetConfiguration
  BY <1>1, <1>4, LinkAssumption DEF SetConfiguration, Op
<1>5. CASE RequestHK
  BY <1>1, <1>5 DEF RequestHK, Read, Op
<1>6. CASE ReceiveData
  BY <1>1, <1>6, LinkAssumption DEF ReceiveData, Read, Op
<1>7. CASE CheckInterrupt
  BY <1>1, <1>7 DEF CheckInterrupt, Read, Op
<1>8. ASSUME NEW v \in {0, 1}, Start, Write("power", "level", v)
      PROVE  LET q == requests["power"]
             IN  /\ q \in Seq(Request)
                 /\ requests'["power"] # <<>>
                 /\ Len(requests'["power"]) = Len(q) + 1
                 /\ requests'["power"][Len(q) + 1].arg = v
                 /\ \A i \in 1 .. Len(q) : requests'["power"][i] = q[i]
  <2>1. requests["power"] \in Seq(Request)
    BY DEF TypeOK, Request
  <2>2. requests'["power"] = Append(requests["power"],
                                    [op |-> "level", arg |-> v, id |-> calls + 1])
    BY <1>8, WriteType DEF Op
  <2>3. [op |-> "level", arg |-> v, id |-> calls + 1].arg = v
    OBVIOUS
  <2> QED
    BY <2>1, <2>2, <2>3, AppendFacts
<1>9. CASE PowerOn
  <2>1. /\ Start /\ Write("power", "level", 1) /\ wanted' = 1 /\ believed' = believed
        /\ power' = power /\ late' = late
    BY <1>9 DEF PowerOn, SetLevel, Delay, Start
  <2>2. LET q == requests["power"]
        IN  /\ q \in Seq(Request)
            /\ requests'["power"] # <<>>
            /\ Len(requests'["power"]) = Len(q) + 1
            /\ requests'["power"][Len(q) + 1].arg = 1
            /\ \A i \in 1 .. Len(q) : requests'["power"][i] = q[i]
    BY <1>8, <2>1
  <2> QED
    BY <2>1, <2>2 DEF PowerFollows
<1>10. CASE PowerOff
  <2>1. /\ Start /\ Write("power", "level", 0) /\ wanted' = 0 /\ believed' = 0
        /\ phase' = "idle"
    BY <1>10 DEF PowerOff, SetLevel, Start
  <2>2. LET q == requests["power"]
        IN  /\ requests'["power"] # <<>>
            /\ Len(requests'["power"]) = Len(q) + 1
            /\ requests'["power"][Len(q) + 1].arg = 0
    BY <1>8, <2>1
  <2> QED
    BY <2>1, <2>2 DEF PowerFollows
<1> QED
  BY <1>2, <1>3, <1>4, <1>5, <1>6, <1>7, <1>9, <1>10 DEF Driver

LEMMA PowerFollowsAnswered == ASSUME TypeOK, PowerFollows, Answered PROVE PowerFollows'
<1> USE DEF beliefs, losses, radioVars, channels
<1>1. CASE DelayOver
  <2>1. late' = 0 => late = 0 /\ requests["power"] = <<>>
    BY <1>1 DEF DelayOver, CountLate, Outstanding, TypeOK
  <2> QED
    BY <1>1, <2>1 DEF DelayOver, PowerFollows
<1>2. CASE GiveUp
  <2>1. late' = 0 => late = 0
    BY <1>2 DEF GiveUp, CountLate, TypeOK
  <2> QED
    BY <1>2, <2>1 DEF GiveUp, PowerFollows
<1>3. ASSUME TakeReply PROVE PowerFollows'
  BY <1>3, PowerUntouched DEF TakeReply
<1> QED
  BY <1>1, <1>2, <1>3 DEF Answered, ReadHK, ReadData, ReadInterrupt

LEMMA PowerFollowsTick == ASSUME TypeOK, PowerFollows, Tick PROVE PowerFollows'
<1> USE DEF beliefs, losses, hostVars, channels
<1>1. CASE NoMessage
  BY <1>1, PowerUntouched DEF NoMessage, Turn
<1>2. ASSUME NEW c \in {"spi", "interrupt"}, Take(c), power' = power PROVE PowerFollows'
  <2>1. requests'["power"] = requests["power"]
    BY <1>2, TakeType
  <2> QED
    BY <1>2, <2>1, PowerUntouched DEF Take, Turn
<1>3. CASE ServeSpi
  BY <1>2, <1>3 DEF ServeSpi, DropCommand, ServeCommand, ServeConfiguration, ServeHK,
     ServeReceive, Serve
<1>4. CASE ServePower
  <2> DEFINE q == requests["power"]
  <2>1. /\ Take("power") /\ power' = Head(q).arg
        /\ UNCHANGED <<believed, wanted, late, phase>>
    BY <1>4 DEF ServePower, Level, Take, Turn
  <2>2. /\ q \in Seq(Request) /\ q # <<>> /\ requests'["power"] = Tail(q) /\ Head(q) = q[1]
    BY <2>1, TakeType
  <2>3. /\ Len(Tail(q)) = Len(q) - 1 /\ Len(q) \in Nat \ {0}
        /\ \A i \in 1 .. Len(Tail(q)) : Tail(q)[i] = q[i + 1] /\ i + 1 \in 1 .. Len(q)
        /\ Tail(q) = <<>> => Len(q) = 1
        /\ Tail(q) # <<>> => Len(Tail(q)) \in 1 .. Len(Tail(q))
    BY <2>2, TailFacts
  <2> QED
    BY <2>1, <2>2, <2>3 DEF PowerFollows
<1>5. CASE ServeInterrupt
  BY <1>2, <1>5 DEF ServeInterrupt
<1> QED
  BY <1>1, <1>3, <1>4, <1>5 DEF Tick

LEMMA PowerFollowsStep == ASSUME TypeOK, PowerFollows, [Next]_vars PROVE PowerFollows'
<1>1. CASE Arrive
  BY <1>1, PowerUntouched DEF Arrive, hostVars, channels, beliefs, losses
<1>2. CASE UNCHANGED vars
  BY <1>2, PowerUntouched DEF vars, hostVars, channels, radioVars, beliefs, losses
<1> QED
  BY <1>1, <1>2, PowerFollowsDriver, PowerFollowsAnswered, PowerFollowsTick DEF Next

\* The power pin at rest.
PowerSettled == requests["power"] = <<>> => power = wanted

\* Once no level is on its way to the radio, its power is the one the host asked for last,
\* however many were on their way and whichever call gave up: what LevelTakesEffect
\* needs besides a radio that goes on.
THEOREM PowerSettles == Spec => []PowerSettled
<1>1. Init => TypeOK /\ PowerFollows
  BY InitTyped, PowerFollowsInit
<1>2. TypeOK /\ PowerFollows /\ [Next]_vars => (TypeOK /\ PowerFollows)'
  BY StepTyped, PowerFollowsStep
<1>3. PowerFollows => PowerSettled
  BY DEF PowerFollows, PowerSettled
<1> QED
  BY <1>1, <1>2, <1>3, PTL DEF Spec

\* Each command dropped was taken before a level, one of which may still wait for this tick.
Bounded(drops, waiting, limit) == drops + waiting <= limit

DropsBounded ==
  LET n == Len(requests["power"])
  IN  wanted = 1 => \/ Bounded(dropped, n, levels)
                    \/ tick = "power" /\ n > 0 /\ Bounded(dropped, n, levels + 1)

\* How the bound moves: a command dropped, a level taken, nothing dropped after a power-on.
LEMMA BoundMoves ==
  ASSUME NEW d \in Nat, NEW n \in Nat, NEW l \in Nat
  PROVE  /\ Bounded(d, n, l) => Bounded(d + 1, n, l + 1) /\ d <= l
         /\ n > 0 /\ Bounded(d, n, l + 1) => Bounded(d, n - 1, l) /\ d <= l
         /\ n > 0 /\ Bounded(d, n, l) => Bounded(d, n - 1, l)
         /\ Bounded(0, n, n)
  BY DEF Bounded

LEMMA LevelsWait ==
  ASSUME TypeOK
  PROVE  LET q == requests["power"]
         IN  /\ q \in Seq(Request) /\ Len(q) \in Nat /\ (q # <<>> <=> Len(q) > 0)
             /\ dropped \in Nat /\ levels \in Nat
<1>1. requests["power"] \in Seq(Request)
  BY DEF TypeOK, Request, Channel
<1> QED BY <1>1 DEF TypeOK

\* A step that takes and writes no level, and drops nothing.
LEMMA DropsUntouched ==
  ASSUME DropsBounded, requests'["power"] = requests["power"], UNCHANGED <<wanted, losses>>,
         tick = "power" => tick' = "power"
  PROVE  DropsBounded'
  BY DEF DropsBounded, losses

LEMMA DropsDriver == ASSUME TypeOK, DropsBounded, Driver PROVE DropsBounded'
<1> USE DEF beliefs, Return
<1>1. ASSUME NEW c \in {"spi", "interrupt"}, NEW op \in Op, NEW arg \in Nat,
             Start, Write(c, op, arg), UNCHANGED <<wanted, losses>>
      PROVE  DropsBounded'
  <2>1. requests'["power"] = requests["power"]
    BY <1>1, WriteType
  <2> QED
    BY <1>1, <2>1, DropsUntouched DEF Start
<1>2. CASE WriteFails
  BY <1>2, DropsUntouched DEF WriteFails, Start
<1>3. CASE CommandDevice
  BY <1>1, <1>3 DEF CommandDevice, Op
<1>4. CASE SetConfiguration
  BY <1>1, <1>4, LinkAssumption DEF SetConfiguration, Op
<1>5. CASE RequestHK
  BY <1>1, <1>5 DEF RequestHK, Op
<1>6. CASE ReceiveData
  BY <1>1, <1>6, LinkAssumption DEF ReceiveData, Op
<1>7. CASE CheckInterrupt
  BY <1>1, <1>7 DEF CheckInterrupt, Op
<1>8. CASE PowerOn \/ PowerOff
  <2>1. PICK v \in {0, 1} : SetLevel(v)
    BY <1>8 DEF PowerOn, PowerOff
  <2>2. requests'["power"] = Append(requests["power"],
                                    [op |-> "level", arg |-> v, id |-> calls + 1])
    BY <2>1, WriteType DEF SetLevel, Op
  <2>3. Len(requests'["power"]) \in Nat
    BY <2>2 DEF TypeOK
  <2> QED
    BY <2>1, <2>3, BoundMoves DEF SetLevel, DropsBounded
<1> QED
  BY <1>2, <1>3, <1>4, <1>5, <1>6, <1>7, <1>8 DEF Driver

\* A tick drops a command only while a level is on its way, and takes one next.
LEMMA DropsTick == ASSUME TypeOK, PowerFollows, DropsBounded, Tick PROVE DropsBounded'
<1> DEFINE q == requests["power"]
<1>1. q \in Seq(Request) /\ Len(q) \in Nat /\ dropped \in Nat /\ levels \in Nat
  BY LevelsWait
<1>2. /\ tick' = Successor[tick] /\ UNCHANGED <<wanted, levels>>
      /\ dropped' = (IF Dropping THEN dropped + 1 ELSE dropped)
  BY DEF Tick, NoMessage, ServeSpi, DropCommand, ServeCommand, ServeConfiguration, ServeHK,
     ServeReceive, ServePower, ServeInterrupt, Serve, Take, Turn, beliefs
<1>3. ASSUME requests'["power"] = q, tick = "power" => q = <<>> PROVE DropsBounded'
  <2>1. CASE Dropping /\ wanted = 1
    <3>1. Len(q) > 0 /\ tick' = "power" /\ tick # "power" /\ dropped' = dropped + 1
      BY <1>2, <2>1, LevelsWait DEF Dropping, PowerFollows, Successor
    <3>2. Bounded(dropped, Len(q), levels)
      BY <2>1, <3>1 DEF DropsBounded
    <3>3. Bounded(dropped + 1, Len(q), levels + 1)
      BY <1>1, <3>2, BoundMoves
    <3> QED
      BY <1>2, <1>3, <3>1, <3>3 DEF DropsBounded
  <2>2. CASE ~Dropping
    <3>1. Len(q) > 0 => tick # "power"
      BY <1>3, LevelsWait
    <3> QED BY <1>2, <1>3, <2>2, <3>1 DEF DropsBounded
  <2>3. CASE wanted # 1
    BY <1>2, <2>3 DEF DropsBounded
  <2> QED BY <2>1, <2>2, <2>3
<1>4. CASE NoMessage
  BY <1>3, <1>4 DEF NoMessage, channels
<1>5. ASSUME NEW c \in {"spi", "interrupt"}, Take(c) PROVE DropsBounded'
  <2>1. requests'["power"] = q /\ tick = c
    BY <1>5, TakeType DEF Take, Turn
  <2> QED
    BY <1>3, <2>1
<1>6. CASE ServeSpi
  BY <1>5, <1>6 DEF ServeSpi, DropCommand, ServeCommand, ServeConfiguration, ServeHK,
     ServeReceive, Serve
<1>7. CASE ServePower
  <2>1. Take("power") /\ tick = "power" /\ tick' = "interrupt"
    BY <1>2, <1>7 DEF ServePower, Take, Turn, Successor
  <2>2. q # <<>> /\ requests'["power"] = Tail(q)
    BY <2>1, TakeType
  <2>3. Len(Tail(q)) = Len(q) - 1 /\ Len(q) \in Nat \ {0}
    BY <1>1, <2>2, TailFacts
  <2>4. dropped' = dropped
    BY <1>2, <2>1 DEF Dropping
  <2>5. wanted = 1 => Bounded(dropped, Len(q) - 1, levels)
    <3>1. Len(q) \in Nat /\ Len(q) > 0
      BY <2>3
    <3>2. Bounded(dropped, Len(q), levels + 1) => Bounded(dropped, Len(q) - 1, levels)
      BY <1>1, <3>1, BoundMoves
    <3>3. Bounded(dropped, Len(q), levels) => Bounded(dropped, Len(q) - 1, levels)
      BY <1>1, <3>1, BoundMoves
    <3> QED
      BY <3>2, <3>3 DEF DropsBounded
  <2> QED
    BY <1>2, <2>2, <2>3, <2>4, <2>5 DEF DropsBounded
<1>8. CASE ServeInterrupt
  BY <1>5, <1>8 DEF ServeInterrupt
<1> QED
  BY <1>4, <1>6, <1>7, <1>8 DEF Tick

LEMMA DropsStep == ASSUME TypeOK, PowerFollows, DropsBounded, [Next]_vars PROVE DropsBounded'
<1>1. CASE Arrive
  BY <1>1, DropsUntouched DEF Arrive, channels, beliefs
<1>2. CASE Answered
  BY <1>2, DropsUntouched DEF Answered, DelayOver, GiveUp, ReadHK, ReadData, ReadInterrupt,
     TakeReply, channels, beliefs
<1>3. CASE UNCHANGED vars
  BY <1>3, DropsUntouched DEF vars, channels, beliefs
<1> QED
  BY <1>1, <1>2, <1>3, DropsDriver, DropsTick DEF Next

\* After a power-on the radio drops no more commands than levels waited with it, a command
\* before each, however many of either are sent and however late the radio is: the delay of
\* RADIO_PowerOn (radio_device.c:64) is not relied upon.
THEOREM DropsAreFew == Spec => []FewDropped
<1>1. Init => TypeOK /\ PowerFollows /\ DropsBounded
  BY InitTyped, PowerFollowsInit DEF Init, DropsBounded, Bounded
<1>2. TypeOK /\ PowerFollows /\ DropsBounded /\ [Next]_vars
        => (TypeOK /\ PowerFollows /\ DropsBounded)'
  BY StepTyped, PowerFollowsStep, DropsStep
<1>3. TypeOK /\ DropsBounded => FewDropped
  <2>1. SUFFICES ASSUME TypeOK, DropsBounded, wanted = 1 PROVE dropped <= levels
    BY DEF FewDropped
  <2> QED
    BY <2>1, LevelsWait, BoundMoves DEF DropsBounded
<1> QED
  BY <1>1, <1>2, <1>3, PTL DEF Spec

-----------------------------------------------------------------------------
(* Replies                                                                  *)

Asks == {"hk", "receive", "pin"}

\* The message asks for, or is, the answer the last call reads.
Current(c, m) ==
  phase = "reading" /\ call.channel = c /\ m.op = call.op /\ m.id = calls

\* While no call was late, a channel holds at most one message that asks for an answer
\* or is one, and it belongs to the last call.
AloneOn(c) ==
  /\ \A i \in 1 .. Len(requests[c]) :
       requests[c][i].op \in Asks =>
         i = Len(requests[c]) /\ replies[c] = <<>> /\ Current(c, requests[c][i])
  /\ replies[c] # <<>> => Len(replies[c]) = 1 /\ Current(c, replies[c][1])

Alone ==
  /\ \A i \in 1 .. Len(requests["interrupt"]) : requests["interrupt"][i].op = "pin"
  /\ phase # "idle" => result.answers = 0
  /\ late = 0 => \A c \in Channel : AloneOn(c)
  /\ late = 0 /\ result.answers # 0 => result.answers = calls

LEMMA AloneInit == Init => Alone
  BY DEF Init, Alone, AloneOn

\* No answer is on its way when a call starts, so the one it asks for will be alone.
LEMMA AloneWrite ==
  ASSUME TypeOK, Alone, Start, NEW c \in Channel, NEW op \in Op, NEW arg \in Nat,
         Write(c, op, arg), c = "interrupt" <=> op = "pin",
         op \in Asks => phase' = "reading" /\ call'.channel = c /\ call'.op = op
  PROVE  Alone'
<1> DEFINE m == [op |-> op, arg |-> arg, id |-> calls + 1]
<1>1. /\ requests'[c] = Append(requests[c], m)
      /\ \A d \in Channel : d # c => requests'[d] = requests[d]
  BY WriteType
<1>2. requests \in [Channel -> Seq(Request)]
  BY DEF TypeOK, Request
<1>3. /\ Len(requests'[c]) = Len(requests[c]) + 1 /\ Len(requests[c]) \in Nat
      /\ requests'[c][Len(requests[c]) + 1] = m
      /\ \A i \in 1 .. Len(requests[c]) : requests'[c][i] = requests[c][i]
  <2> HIDE DEF m
  <2> QED BY <1>1, <1>2, AppendFacts
<1>4. /\ phase = "idle" /\ calls' = calls + 1 /\ replies' = replies /\ late' = late
      /\ result'.answers = 0
  BY DEF Start
<1>5. m.op = op /\ m.id = calls + 1
  OBVIOUS
<1> HIDE DEF m
<1>6. \A i \in 1 .. Len(requests'["interrupt"]) : requests'["interrupt"][i].op = "pin"
  <2>1. CASE c = "interrupt"
    BY <1>3, <1>5, <2>1 DEF Alone
  <2>2. CASE c # "interrupt"
    BY <1>1, <2>2 DEF Alone
  <2> QED
    BY <2>1, <2>2
<1>7. ASSUME late = 0 PROVE \A d \in Channel : AloneOn(d)'
  <2>1. \A d \in Channel :
          replies[d] = <<>> /\ \A i \in 1 .. Len(requests[d]) : requests[d][i].op \notin Asks
    BY <1>4, <1>7 DEF Alone, AloneOn, Current
  <2>2. ASSUME NEW d \in Channel, d # c PROVE AloneOn(d)'
    BY <1>1, <1>4, <2>1, <2>2 DEF AloneOn
  <2>3. AloneOn(c)'
    <3>1. ASSUME NEW i \in 1 .. Len(requests'[c]), requests'[c][i].op \in Asks
          PROVE  /\ i = Len(requests'[c]) /\ requests'[c][i].op = op
                 /\ requests'[c][i].id = calls' /\ op \in Asks
      BY <1>3, <1>4, <1>5, <2>1, <3>1
    <3> QED
      BY <1>4, <2>1, <3>1 DEF AloneOn, Current
  <2> QED
    BY <2>2, <2>3
<1> QED
  BY <1>4, <1>6, <1>7 DEF Alone

LEMMA AloneDriver == ASSUME TypeOK, Alone, Driver PROVE Alone'
<1>1. CASE WriteFails
  <2>1. /\ Start /\ phase = "idle" /\ phase' = phase /\ requests' = requests
        /\ replies' = replies /\ late' = late /\ result'.answers = 0
    BY <1>1 DEF WriteFails, Return, Start
  <2>2. late = 0 => \A c \in Channel :
          replies[c] = <<>> /\ \A i \in 1 .. Len(requests[c]) : requests[c][i].op \notin Asks
    BY <2>1 DEF Alone, AloneOn, Current
  <2>3. late = 0 => \A c \in Channel : AloneOn(c)'
    BY <2>1, <2>2 DEF AloneOn
  <2> QED
    BY <2>1, <2>3 DEF Alone
<1>2. CASE CommandDevice
  BY <1>2, AloneWrite DEF CommandDevice, Op, Asks
<1>3. CASE SetConfiguration
  <2>1. PICK m \in Modes : Start /\ Write("spi", "configure", m)
    BY <1>3 DEF SetConfiguration
  <2>2. m \in Nat
    BY LinkAssumption
  <2> QED
    BY <2>1, <2>2, AloneWrite DEF Op, Asks
<1>4. CASE RequestHK
  BY <1>4, AloneWrite DEF RequestHK, Read, Op
<1>5. CASE ReceiveData
  <2>1. PICK n \in Lengths : Start /\ Write("spi", "receive", n) /\ Read("spi", "receive", n)
    BY <1>5 DEF ReceiveData
  <2>2. n \in Nat
    BY LinkAssumption
  <2> QED
    BY <2>1, <2>2, AloneWrite DEF Read, Op
<1>6. CASE CheckInterrupt
  BY <1>6, AloneWrite DEF CheckInterrupt, Read, Op
<1>7. CASE PowerOn
  BY <1>7, AloneWrite DEF PowerOn, SetLevel, Op, Asks
<1>8. CASE PowerOff
  BY <1>8, AloneWrite DEF PowerOff, SetLevel, Op, Asks
<1> QED
  BY <1>1, <1>2, <1>3, <1>4, <1>5, <1>6, <1>7, <1>8 DEF Driver

LEMMA AloneAnswered == ASSUME TypeOK, Alone, Answered PROVE Alone'
<1>1. CASE DelayOver
  <2>1. /\ phase = "delay" /\ phase' = "idle" /\ requests' = requests /\ replies' = replies
        /\ result' = result /\ (late' = 0 => late = 0) /\ calls' = calls
    BY <1>1 DEF DelayOver, CountLate, TypeOK, channels
  <2>2. late' = 0 => \A c \in Channel :
          replies[c] = <<>> /\ \A i \in 1 .. Len(requests[c]) : requests[c][i].op \notin Asks
    BY <2>1 DEF Alone, AloneOn, Current
  <2>3. late' = 0 => \A c \in Channel : AloneOn(c)'
    BY <2>1, <2>2 DEF AloneOn
  <2> QED
    BY <2>1, <2>3 DEF Alone
<1>2. CASE GiveUp
  <2>1. /\ phase = "reading" /\ phase' = "idle" /\ requests' = requests /\ replies' = replies
        /\ result' = result /\ calls' = calls
        /\ late' = 0 => late = 0 /\ requests[call.channel] = <<>> /\ replies[call.channel] = <<>>
    BY <1>2 DEF GiveUp, CountLate, Outstanding, TypeOK, channels
  <2>2. late' = 0 => \A c \in Channel :
          replies[c] = <<>> /\ \A i \in 1 .. Len(requests[c]) : requests[c][i].op \notin Asks
    BY <2>1 DEF Alone, AloneOn, Current
  <2>3. late' = 0 => \A c \in Channel : AloneOn(c)'
    BY <2>1, <2>2 DEF AloneOn
  <2> QED
    BY <2>1, <2>3 DEF Alone
<1>3. ASSUME TakeReply, Reject \/ \E m : Accept(m) PROVE Alone'
  <2> DEFINE c == call.channel
  <2>1. /\ c \in Channel /\ replies[c] \in Seq(Answer) /\ replies[c] # <<>>
        /\ Oldest = replies[c][1] /\ replies'[c] = Tail(replies[c])
        /\ \A d \in Channel : d # c => replies'[d] = replies[d]
    BY <1>3, HeadType
  <2>2. /\ phase = "reading" /\ phase' = "idle" /\ requests' = requests /\ late' = late
        /\ calls' = calls
    BY <1>3 DEF TakeReply
  <2>3. late = 0 => \A d \in Channel :
          replies'[d] = <<>> /\ \A i \in 1 .. Len(requests[d]) : requests[d][i].op \notin Asks
    <3>1. ASSUME late = 0
          PROVE  /\ Len(replies[c]) = 1
                 /\ \A i \in 1 .. Len(requests[c]) : requests[c][i].op \notin Asks
      BY <2>1, <3>1 DEF Alone, AloneOn
    <3>2. Len(replies[c]) = 1 => replies'[c] = <<>>
      <4>1. Tail(replies[c]) # <<>> => Len(replies[c]) - 1 \in 1 .. Len(replies[c]) - 1
        BY <2>1, TailFacts
      <4> QED
        BY <2>1, <4>1
    <3>3. ASSUME late = 0, NEW d \in Channel, d # c
          PROVE  replies[d] = <<>> /\ \A i \in 1 .. Len(requests[d]) : requests[d][i].op \notin Asks
      BY <3>3 DEF Alone, AloneOn, Current
    <3> QED
      BY <2>1, <3>1, <3>2, <3>3
  <2>4. late = 0 => \A d \in Channel : AloneOn(d)'
    BY <2>2, <2>3 DEF AloneOn
  <2>5. late = 0 /\ result'.answers # 0 => result'.answers = calls
    <3>1. late = 0 => Oldest.id = calls
      BY <2>1 DEF Alone, AloneOn, Current
    <3> QED
      BY <1>3, <3>1 DEF Accept, Reject, Alone
  <2> QED
    BY <2>2, <2>4, <2>5 DEF Alone
<1>4. CASE ReadHK
  BY <1>3, <1>4 DEF ReadHK
<1>5. CASE ReadData
  BY <1>3, <1>5 DEF ReadData
<1>6. CASE ReadInterrupt
  BY <1>3, <1>6 DEF ReadInterrupt
<1> QED
  BY <1>1, <1>2, <1>4, <1>5, <1>6 DEF Answered

\* Taking a message that asks for an answer leaves the channel empty, so its answer is
\* alone too.
LEMMA AloneTake ==
  ASSUME TypeOK, Alone, NEW c \in Channel, Take(c),
         \/ replies' = replies
         \/ /\ Head(requests[c]).op \in Asks
            /\ \E arg \in Nat, data \in Seq(Octet) : Reply(c, arg, data)
  PROVE  Alone'
<1> DEFINE q == requests[c]
<1>1. /\ q \in Seq(Request) /\ q # <<>> /\ requests'[c] = Tail(q) /\ Head(q) = q[1]
      /\ \A d \in Channel : d # c => requests'[d] = requests[d]
  BY TakeType
<1>2. /\ Len(Tail(q)) = Len(q) - 1 /\ Len(q) \in Nat \ {0}
      /\ \A i \in 1 .. Len(Tail(q)) : Tail(q)[i] = q[i + 1] /\ i + 1 \in 1 .. Len(q)
  BY <1>1, TailFacts
<1>3. UNCHANGED <<calls, phase, call, result, late>>
  BY DEF Take, Turn, hostVars
<1>4. \A i \in 1 .. Len(requests'["interrupt"]) : requests'["interrupt"][i].op = "pin"
  <2>1. CASE c = "interrupt"
    <3>1. \A i \in 1 .. Len(q) : q[i].op = "pin"
      BY <2>1 DEF Alone
    <3>2. \A i \in 1 .. Len(Tail(q)) : Tail(q)[i].op = "pin"
      <4> HIDE DEF q
      <4> QED BY <1>2, <3>1
    <3>3. requests'["interrupt"] = Tail(q)
      BY <1>1, <2>1
    <3> QED
      BY <3>2, <3>3
  <2>2. CASE c # "interrupt"
    BY <1>1, <2>2 DEF Alone
  <2> QED
    BY <2>1, <2>2
<1>5. ASSUME late = 0, replies' = replies PROVE \A d \in Channel : AloneOn(d)'
  <2>1. AloneOn(c)'
    BY <1>1, <1>2, <1>3, <1>5 DEF Alone, AloneOn, Current
  <2>2. ASSUME NEW d \in Channel, d # c PROVE AloneOn(d)'
    BY <1>1, <1>3, <1>5, <2>2 DEF Alone, AloneOn, Current
  <2> QED
    BY <2>1, <2>2
<1>6. ASSUME late = 0, Head(q).op \in Asks, NEW arg \in Nat, NEW data \in Seq(Octet),
             Reply(c, arg, data)
      PROVE  \A d \in Channel : AloneOn(d)'
  <2> DEFINE m == [op |-> Head(q).op, arg |-> arg, data |-> data, id |-> Head(q).id]
  <2>1. /\ replies'[c] = Append(replies[c], m)
        /\ \A d \in Channel : d # c => replies'[d] = replies[d]
    BY <1>6, ReplyType
  <2>2. 1 = Len(q) /\ replies[c] = <<>> /\ Current(c, q[1])
    <3>1. AloneOn(c)
      BY <1>6 DEF Alone
    <3>2. q[1].op \in Asks /\ 1 \in 1 .. Len(q)
      <4>1. 1 \in 1 .. Len(q)
        BY <1>2
      <4> QED
        BY <1>1, <1>6, <4>1
    <3> QED
      BY <3>1, <3>2 DEF AloneOn
  <2>3. m.op = Head(q).op /\ m.id = Head(q).id
    OBVIOUS
  <2> HIDE DEF m
  <2>4. Len(replies'[c]) = 1 /\ replies'[c][1] = m
    BY <2>1, <2>2
  <2>5. AloneOn(c)'
    BY <1>1, <1>2, <1>3, <2>2, <2>3, <2>4 DEF AloneOn, Current
  <2>6. ASSUME NEW d \in Channel, d # c PROVE AloneOn(d)'
    BY <1>1, <1>3, <1>6, <2>1, <2>6 DEF Alone, AloneOn, Current
  <2> QED
    BY <2>5, <2>6
<1> QED
  BY <1>3, <1>4, <1>5, <1>6 DEF Alone

LEMMA AloneTick == ASSUME TypeOK, Alone, Tick PROVE Alone'
<1>0. /\ <<>> \in Seq(Octet) /\ ring \in Seq(Octet) /\ mode \in Nat
  BY DEF TypeOK
<1>1. CASE NoMessage
  BY <1>1 DEF NoMessage, Turn, hostVars, channels, Alone, AloneOn, Current
<1>2. CASE DropCommand \/ ServeCommand \/ ServeConfiguration
  BY <1>2, AloneTake DEF DropCommand, ServeCommand, ServeConfiguration, Serve
<1>3. CASE ServeHK
  BY <1>0, <1>3, AloneTake DEF ServeHK, Serve, Reported, Asks
<1>4. CASE ServeReceive
  <2> DEFINE asked == Head(requests["spi"]).arg
             n == Handed(asked)
  <2>1. Take("spi") /\ Head(requests["spi"]).op \in Asks
    BY <1>4 DEF ServeReceive, Serve, Asks
  <2>2. asked \in Nat
    BY <2>1, TakeType DEF Request
  <2>3. n \in 0 .. Len(ring)
    BY <1>0, <2>2 DEF Handed
  <2>4. Reply("spi", asked, SubSeq(ring, 1, n))
    BY <1>4 DEF ServeReceive
  <2> HIDE DEF asked, n
  <2>5. SubSeq(ring, 1, n) \in Seq(Octet)
    BY <1>0, <2>3
  <2> QED
    BY <2>1, <2>2, <2>4, <2>5, AloneTake
<1>5. CASE ServePower
  BY <1>5, AloneTake DEF ServePower
<1>6. CASE ServeInterrupt
  <2>1. Take("interrupt") /\ Reply("interrupt", 0, <<>>)
    BY <1>6 DEF ServeInterrupt
  <2>2. /\ requests["interrupt"] \in Seq(Request) /\ requests["interrupt"] # <<>>
        /\ Head(requests["interrupt"]) = requests["interrupt"][1]
    BY <2>1, TakeType
  <2>3. Len(requests["interrupt"]) \in Nat \ {0}
    BY <2>2, EmptySeq
  <2>4. Head(requests["interrupt"]).op \in Asks
    BY <2>2, <2>3 DEF Alone, Asks
  <2> QED
    BY <1>0, <2>1, <2>4, AloneTake
<1> QED
  BY <1>1, <1>2, <1>3, <1>4, <1>5, <1>6 DEF Tick, ServeSpi

LEMMA AloneStep == ASSUME TypeOK, Alone, [Next]_vars PROVE Alone'
<1>1. CASE Arrive \/ UNCHANGED vars
  BY <1>1 DEF Arrive, vars, hostVars, channels, beliefs, losses, Alone, AloneOn, Current
<1> QED
  BY <1>1, AloneDriver, AloneAnswered, AloneTick DEF Next

\* The reply a call accepts is its own as long as no call before it returned while the
\* radio still had to answer (radio_device.c:99, 195, 350): a timeout is what mixes
\* replies up, nothing else.
THEOREM RepliesOwn == Spec => []OwnReply
<1>1. Init => TypeOK /\ Alone
  BY InitTyped, AloneInit
<1>2. TypeOK /\ Alone /\ [Next]_vars => (TypeOK /\ Alone)'
  BY StepTyped, AloneStep
<1>3. Alone => OwnReply
  BY DEF Alone, OwnReply
<1> QED
  BY <1>1, <1>2, <1>3, PTL DEF Spec

-----------------------------------------------------------------------------
(* The mode                                                                 *)

NoConfigure(q) == \A i \in 1 .. Len(q) : q[i].op # "configure"

\* The last configuration that waits in q, if any does, sets mode m.
LastSets(q, m) ==
  \A i \in 1 .. Len(q) :
    q[i].op = "configure" /\ (\A j \in 1 .. Len(q) : j > i => q[j].op # "configure")
      => q[i].arg = m

LEMMA AppendConfigures ==
  ASSUME NEW q \in Seq(Request), NEW r \in Request, NEW m
  PROVE  /\ r.op = "configure" => LastSets(Append(q, r), r.arg) /\ ~NoConfigure(Append(q, r))
         /\ r.op # "configure" /\ LastSets(q, m) => LastSets(Append(q, r), m)
         /\ r.op # "configure" => (NoConfigure(Append(q, r)) <=> NoConfigure(q))
<1> DEFINE a == Append(q, r)
<1>1. /\ Len(a) = Len(q) + 1 /\ Len(q) \in Nat /\ a[Len(q) + 1] = r
      /\ \A i \in 1 .. Len(q) : a[i] = q[i]
  BY AppendFacts
<1> HIDE DEF a
<1>2. r.op = "configure" => LastSets(a, r.arg) /\ ~NoConfigure(a)
  BY <1>1 DEF LastSets, NoConfigure
<1>3. ASSUME r.op # "configure", LastSets(q, m) PROVE LastSets(a, m)
  <2> SUFFICES ASSUME NEW i \in 1 .. Len(a), a[i].op = "configure",
                      \A j \in 1 .. Len(a) : j > i => a[j].op # "configure"
               PROVE  a[i].arg = m
    BY DEF LastSets
  <2>1. i \in 1 .. Len(q) /\ a[i] = q[i]
    BY <1>1, <1>3
  <2>2. \A j \in 1 .. Len(q) : j > i => q[j].op # "configure"
    BY <1>1
  <2> QED
    BY <1>3, <2>1, <2>2 DEF LastSets
<1>4. r.op # "configure" => (NoConfigure(a) <=> NoConfigure(q))
  BY <1>1 DEF NoConfigure
<1> QED
  BY <1>2, <1>3, <1>4 DEF a

LEMMA TailConfigures ==
  ASSUME NEW q \in Seq(Request), q # <<>>, NEW m
  PROVE  /\ LastSets(q, m) => LastSets(Tail(q), m)
         /\ q[1].op = "configure" /\ LastSets(q, m) /\ NoConfigure(Tail(q)) => q[1].arg = m
         /\ q[1].op # "configure" /\ NoConfigure(Tail(q)) => NoConfigure(q)
         /\ NoConfigure(q) => NoConfigure(Tail(q))
<1> DEFINE t == Tail(q)
<1>1. /\ Len(t) = Len(q) - 1 /\ Len(q) \in Nat \ {0}
      /\ \A i \in 1 .. Len(t) : t[i] = q[i + 1] /\ i + 1 \in 1 .. Len(q)
  BY TailFacts
<1> HIDE DEF t
<1>2. \A j \in 1 .. Len(q) : j > 1 => j - 1 \in 1 .. Len(t) /\ q[j] = t[j - 1]
  BY <1>1
<1>3. ASSUME LastSets(q, m) PROVE LastSets(t, m)
  <2> SUFFICES ASSUME NEW i \in 1 .. Len(t), t[i].op = "configure",
                      \A j \in 1 .. Len(t) : j > i => t[j].op # "configure"
               PROVE  t[i].arg = m
    BY DEF LastSets
  <2>1. i + 1 \in 1 .. Len(q) /\ t[i] = q[i + 1]
    BY <1>1
  <2>2. \A j \in 1 .. Len(q) : j > i + 1 => q[j].op # "configure"
    BY <1>2
  <2> QED
    BY <1>3, <2>1, <2>2 DEF LastSets
<1>4. NoConfigure(t) => \A j \in 1 .. Len(q) : j > 1 => q[j].op # "configure"
  BY <1>2 DEF NoConfigure
<1>5. 1 \in 1 .. Len(q)
  BY <1>1
<1>6. q[1].op = "configure" /\ LastSets(q, m) /\ NoConfigure(t) => q[1].arg = m
  BY <1>4, <1>5 DEF LastSets
<1>7. q[1].op # "configure" /\ NoConfigure(t) => NoConfigure(q)
  BY <1>1, <1>4 DEF NoConfigure
<1>8. NoConfigure(q) => NoConfigure(t)
  BY <1>1 DEF NoConfigure
<1> QED
  BY <1>3, <1>6, <1>7, <1>8 DEF t

\* As long as the host believes the radio is on, the radio has the intended mode or
\* will have it when it has served what waits.  Otherwise the intended mode is sleep,
\* and the radio is asleep or a power-off is on its way.
Converges ==
  IF believed = 1
  THEN /\ LastSets(requests["spi"], intended)
       /\ NoConfigure(requests["spi"]) => mode = intended
       /\ replies["spi"] # <<>> /\ replies["spi"][1].op = "hk" =>
            replies["spi"][1].arg = intended
  ELSE /\ intended = Sleep /\ NoConfigure(requests["spi"])
       /\ \/ mode = Sleep
          \/ power = 1 /\ \E i \in 1 .. Len(requests["power"]) : requests["power"][i].arg = 0

ModeInv ==
  /\ late = 0 /\ intended # Unknown => Converges
  /\ ReadYourWrites

\* Housekeeping is asked for over SPI.
HkOnSpi == call.op = "hk" => call.channel = "spi"

Inv == TypeOK /\ PowerFollows /\ Alone /\ HkOnSpi /\ ModeInv

LEMMA HkStep == ASSUME HkOnSpi, [Next]_vars PROVE HkOnSpi'
<1>1. UNCHANGED call \/ RequestHK \/ ReceiveData \/ CheckInterrupt
  BY DEF Next, vars, hostVars, Driver, WriteFails, CommandDevice, SetConfiguration, PowerOn, SetLevel,
     PowerOff, SetLevel, Return, Answered, DelayOver, GiveUp, ReadHK, ReadData, ReadInterrupt, TakeReply,
     Arrive, Tick, NoMessage, ServeSpi, DropCommand, ServeCommand, ServeConfiguration, ServeHK,
     ServeReceive, Serve, ServePower, ServeInterrupt, Take, Turn
<1>2. CASE UNCHANGED call
  BY <1>2 DEF HkOnSpi
<1>3. CASE RequestHK
  BY <1>3 DEF RequestHK, Read, HkOnSpi
<1>4. CASE ReceiveData
  BY <1>4 DEF ReceiveData, Read, HkOnSpi
<1>5. CASE CheckInterrupt
  BY <1>5 DEF CheckInterrupt, Read, HkOnSpi
<1> QED
  BY <1>1, <1>2, <1>3, <1>4, <1>5

LEMMA ModeInit == Init => ModeInv
  BY DEF Init, ModeInv, ReadYourWrites

\* A call that sends no configuration and nothing to the power pin.
LEMMA ModeOther ==
  ASSUME Inv, Start, UNCHANGED <<beliefs, losses>>,
         \/ requests' = requests
         \/ \E c \in {"spi", "interrupt"}, op \in Op, arg \in Nat :
              op # "configure" /\ Write(c, op, arg)
  PROVE  ModeInv'
<1>1. /\ UNCHANGED <<believed, intended, mode, power, late, replies>> /\ result'.answers = 0
  BY DEF Start, beliefs, losses, radioVars
<1>2. requests["spi"] \in Seq(Request)
  BY DEF Inv, TypeOK, Request
<1>3. /\ requests'["power"] = requests["power"]
      /\ NoConfigure(requests'["spi"]) <=> NoConfigure(requests["spi"])
      /\ LastSets(requests["spi"], intended) => LastSets(requests'["spi"], intended)
  <2>1. ASSUME NEW c \in {"spi", "interrupt"}, NEW op \in Op, NEW arg \in Nat,
               op # "configure", Write(c, op, arg)
        PROVE  /\ requests'["power"] = requests["power"]
               /\ NoConfigure(requests'["spi"]) <=> NoConfigure(requests["spi"])
               /\ LastSets(requests["spi"], intended) => LastSets(requests'["spi"], intended)
    <3> DEFINE m == [op |-> op, arg |-> arg, id |-> calls + 1]
    <3>1. /\ requests'[c] = Append(requests[c], m)
          /\ \A d \in Channel : d # c => requests'[d] = requests[d]
      BY <2>1, WriteType DEF Inv
    <3>2. m \in Request /\ m.op # "configure"
      BY <2>1, LinkAssumption DEF Start, Inv, TypeOK, Request, Id
    <3> HIDE DEF m
    <3>3. requests'["power"] = requests["power"]
      BY <3>1
    <3>4. CASE c = "spi"
      <4>1. requests'["spi"] = Append(requests["spi"], m)
        BY <3>1, <3>4
      <4>2. NoConfigure(Append(requests["spi"], m)) <=> NoConfigure(requests["spi"])
        BY <1>2, <3>2, AppendConfigures
      <4>3. LastSets(requests["spi"], intended) => LastSets(Append(requests["spi"], m), intended)
        BY <1>2, <3>2, AppendConfigures
      <4> QED
        BY <3>3, <4>1, <4>2, <4>3
    <3>5. CASE c = "interrupt"
      <4>1. requests'["spi"] = requests["spi"]
        BY <3>1, <3>5
      <4> QED
        BY <3>3, <4>1
    <3> QED
      BY <3>4, <3>5
  <2> QED
    BY <2>1
<1> QED
  BY <1>1, <1>3 DEF Inv, ModeInv, Converges, ReadYourWrites

LEMMA ModeConfiguration == ASSUME Inv, SetConfiguration PROVE ModeInv'
<1>1. PICK m \in Modes : /\ Start /\ Write("spi", "configure", m) /\ Return
                         /\ intended' = (IF believed = 1 THEN m ELSE Unknown)
                         /\ UNCHANGED <<believed, wanted>>
  BY DEF SetConfiguration
<1> DEFINE r == [op |-> "configure", arg |-> m, id |-> calls + 1]
<1>2. m \in Nat
  BY LinkAssumption
<1>3. requests'["spi"] = Append(requests["spi"], r) /\ requests["spi"] \in Seq(Request)
  BY <1>1, <1>2, WriteType DEF Inv, TypeOK, Request, Op
<1>4. r \in Request /\ r.op = "configure" /\ r.arg = m
  BY <1>1, <1>2, LinkAssumption DEF Start, Inv, TypeOK, Request, Id, Op
<1> HIDE DEF r
<1>5. LastSets(requests'["spi"], m) /\ ~NoConfigure(requests'["spi"])
  BY <1>3, <1>4, AppendConfigures
<1>6. result'.answers = 0 /\ replies' = replies /\ late' = late /\ phase = "idle"
  BY <1>1 DEF Start
<1>7. late = 0 => replies["spi"] = <<>>
  BY <1>6 DEF Inv, Alone, AloneOn, Current
<1> QED
  BY <1>1, <1>5, <1>6, <1>7 DEF ModeInv, Converges, ReadYourWrites

LEMMA ModePower == ASSUME Inv, PowerOn \/ PowerOff PROVE ModeInv'
<1>1. PICK v \in {0, 1} : /\ Start /\ Write("power", "level", v)
                          /\ v = 1 => UNCHANGED <<believed, intended>>
                          /\ v = 0 => PowerOff
  <2>1. CASE PowerOn
    <3>1. Start /\ Write("power", "level", 1) /\ UNCHANGED <<believed, intended>>
      BY <2>1 DEF PowerOn, SetLevel, Delay
    <3> QED
      BY <3>1
  <2>2. CASE PowerOff
    <3>1. Start /\ Write("power", "level", 0)
      BY <2>2 DEF PowerOff, SetLevel
    <3> QED
      BY <2>2, <3>1
  <2> QED
    BY <2>1, <2>2
<1> DEFINE q == requests["power"]
           r == [op |-> "level", arg |-> v, id |-> calls + 1]
<1>2. /\ q \in Seq(Request) /\ requests'["power"] = Append(q, r)
      /\ requests'["spi"] = requests["spi"]
  <2>1. TypeOK /\ Start /\ Write("power", "level", v) /\ "level" \in Op /\ v \in Nat
    BY <1>1 DEF Inv, Op
  <2>2. q \in Seq(Request)
    BY <2>1 DEF TypeOK, Request
  <2> HIDE DEF q
  <2>3. requests'["power"] = Append(q, r) /\ requests'["spi"] = requests["spi"]
    BY <2>1, WriteType DEF q
  <2> QED
    BY <2>2, <2>3
<1>3. r.arg = v
  OBVIOUS
<1> HIDE DEF q, r
<1>4. /\ (\E i \in 1 .. Len(q) : q[i].arg = 0) =>
           \E i \in 1 .. Len(requests'["power"]) : requests'["power"][i].arg = 0
      /\ v = 0 => \E i \in 1 .. Len(requests'["power"]) : requests'["power"][i].arg = 0
  <2>1. /\ Len(requests'["power"]) = Len(q) + 1 /\ Len(q) \in Nat
        /\ requests'["power"][Len(q) + 1] = r
        /\ \A i \in 1 .. Len(q) : requests'["power"][i] = q[i]
    BY <1>2, AppendFacts
  <2> QED
    BY <1>3, <2>1
<1>5. /\ UNCHANGED <<mode, power, late, replies>> /\ result'.answers = 0
  BY <1>1 DEF Start, radioVars
<1>6. CASE v = 1
  BY <1>1, <1>2, <1>4, <1>5, <1>6 DEF Inv, ModeInv, Converges, ReadYourWrites, q
<1>7. CASE v = 0
  <2>1. believed' = 0 /\ intended' = (IF ConfigurationWaits THEN Unknown
                                      ELSE IF believed = 1 THEN Sleep ELSE intended)
    BY <1>1, <1>7 DEF PowerOff, SetLevel
  <2>2. ConfigurationWaits <=> ~NoConfigure(requests["spi"])
    BY DEF ConfigurationWaits, NoConfigure
  <2>3. late = 0 /\ believed = 1 => power = 1
    BY DEF Inv, PowerFollows
  <2>4. believed \in {0, 1}
    BY DEF Inv, TypeOK
  <2> QED
    BY <1>2, <1>4, <1>5, <1>7, <2>1, <2>2, <2>3, <2>4 DEF Inv, ModeInv, Converges,
       ReadYourWrites, q
<1> QED
  BY <1>6, <1>7

LEMMA ModeDriver == ASSUME Inv, Driver PROVE ModeInv'
<1>1. CASE WriteFails
  BY <1>1, ModeOther DEF WriteFails
<1>2. CASE CommandDevice
  BY <1>2, ModeOther DEF CommandDevice, Op
<1>3. CASE RequestHK
  BY <1>3, ModeOther DEF RequestHK, Op
<1>4. CASE ReceiveData
  <2>1. PICK n \in Lengths : Start /\ Write("spi", "receive", n) /\ UNCHANGED <<beliefs, losses>>
    BY <1>4 DEF ReceiveData
  <2>2. n \in Nat
    BY LinkAssumption
  <2> QED
    BY <2>1, <2>2, ModeOther DEF Op
<1>5. CASE CheckInterrupt
  BY <1>5, ModeOther DEF CheckInterrupt, Op
<1> QED
  BY <1>1, <1>2, <1>3, <1>4, <1>5, ModeConfiguration, ModePower DEF Driver

LEMMA ModeAnswered == ASSUME Inv, Answered PROVE ModeInv'
<1>1. CASE DelayOver
  <2>1. /\ phase = "delay" /\ believed' = 1 /\ result' = result
        /\ UNCHANGED <<intended, mode, requests, replies>>
        /\ late' = 0 => late = 0 /\ requests["power"] = <<>>
    BY <1>1 DEF DelayOver, CountLate, Outstanding, Inv, TypeOK, channels, radioVars
  <2>2. result.answers = 0 /\ (late = 0 => replies["spi"] = <<>>)
    BY <2>1 DEF Inv, Alone, AloneOn, Current
  <2>3. late' = 0 /\ intended # Unknown =>
          LastSets(requests["spi"], intended) /\ (NoConfigure(requests["spi"]) => mode = intended)
    BY <2>1 DEF Inv, ModeInv, Converges, LastSets, NoConfigure
  <2> QED
    BY <2>1, <2>2, <2>3 DEF ModeInv, Converges, ReadYourWrites
<1>2. CASE GiveUp
  <2>1. /\ phase = "reading" /\ result' = result /\ (late' = 0 => late = 0)
        /\ UNCHANGED <<believed, intended, mode, power, requests, replies>>
    BY <1>2 DEF GiveUp, CountLate, Inv, TypeOK, channels, radioVars, beliefs, losses
  <2>2. result.answers = 0
    BY <2>1 DEF Inv, Alone
  <2> QED
    BY <2>1, <2>2 DEF Inv, ModeInv, Converges, ReadYourWrites
<1>3. ASSUME TakeReply,
             \/ Reject \/ call.op # "hk"
             \/ Oldest.op = "hk" /\ Accept(Oldest.arg)
             \/ Oldest.op # call.op
      PROVE  ModeInv'
  <2> DEFINE c == call.channel
  <2>1. /\ c \in Channel /\ replies[c] # <<>> /\ Oldest = replies[c][1]
        /\ \A d \in Channel : d # c => replies'[d] = replies[d]
        /\ replies[c] \in Seq(Answer) /\ replies'[c] = Tail(replies[c])
    BY <1>3, HeadType DEF Inv
  <2>2. /\ phase = "reading" /\ UNCHANGED <<believed, intended, mode, power, late, requests, call>>
    BY <1>3 DEF TakeReply, radioVars, beliefs, losses
  <2>3. result.answers = 0
    BY <2>2 DEF Inv, Alone
  <2>4. late = 0 => replies'["spi"] = <<>>
    <3>1. ASSUME late = 0 PROVE Len(replies[c]) = 1
      BY <2>1, <3>1 DEF Inv, Alone, AloneOn
    <3>2. Len(replies[c]) = 1 => replies'[c] = <<>>
      <4>1. Tail(replies[c]) # <<>> => Len(replies[c]) - 1 \in 1 .. Len(replies[c]) - 1
        BY <2>1, TailFacts
      <4> QED
        BY <2>1, <4>1
    <3>3. late = 0 /\ c # "spi" => replies["spi"] = <<>>
      BY DEF Inv, Alone, AloneOn, Current
    <3> QED
      BY <2>1, <3>1, <3>2, <3>3
  <2>5. late = 0 => Oldest.op = call.op
    BY <2>1 DEF Inv, Alone, AloneOn, Current
  <2>6. ReadYourWrites'
    <3>1. ASSUME late = 0, believed = 1, call.op = "hk", result'.answers # 0
          PROVE  intended \in {result'.mode, Unknown}
      <4>1. Oldest.op = "hk" /\ result'.mode = Oldest.arg
        BY <1>3, <2>3, <2>5, <3>1 DEF Accept, Reject
      <4>2. c = "spi"
        BY <3>1 DEF Inv, HkOnSpi
      <4> QED
        BY <2>1, <3>1, <4>1, <4>2 DEF Inv, ModeInv, Converges
    <3> QED
      BY <2>2, <3>1 DEF ReadYourWrites
  <2> QED
    BY <2>2, <2>4, <2>6 DEF Inv, ModeInv, Converges
<1>4. CASE ReadHK
  BY <1>3, <1>4 DEF ReadHK
<1>5. CASE ReadData
  BY <1>3, <1>5 DEF ReadData
<1>6. CASE ReadInterrupt
  BY <1>3, <1>6 DEF ReadInterrupt
<1> QED
  BY <1>1, <1>2, <1>4, <1>5, <1>6 DEF Answered

\* Taking an SPI message that configures nothing.
LEMMA ModeTakeSpi ==
  ASSUME Inv, late = 0, intended # Unknown, Take("spi"), mode' = mode, power' = power,
         Head(requests["spi"]).op # "configure",
         believed = 1 /\ replies'["spi"] # <<>> /\ replies'["spi"][1].op = "hk" =>
           replies'["spi"][1].arg = intended
  PROVE  Converges'
<1> DEFINE q == requests["spi"]
<1>1. /\ q \in Seq(Request) /\ q # <<>> /\ requests'["spi"] = Tail(q) /\ Head(q) = q[1]
      /\ requests'["power"] = requests["power"]
  BY TakeType DEF Inv
<1>2. UNCHANGED <<believed, intended>>
  BY DEF Take, Turn, beliefs, losses
<1>3. Converges
  BY DEF Inv, ModeInv
<1>4. /\ LastSets(q, intended) => LastSets(Tail(q), intended)
      /\ NoConfigure(Tail(q)) => NoConfigure(q)
      /\ NoConfigure(q) => NoConfigure(Tail(q))
  <2> HIDE DEF q
  <2> QED BY <1>1, TailConfigures DEF q
<1> QED
  BY <1>1, <1>2, <1>3, <1>4 DEF Converges

\* The answer to a housekeeping request, or to a RECEIVE, is the only one that waits.
LEMMA ReplyFirst ==
  ASSUME Inv, late = 0, Take("spi"), Head(requests["spi"]).op \in Asks,
         NEW arg \in Nat, NEW data \in Seq(Octet), Reply("spi", arg, data)
  PROVE  /\ Len(requests["spi"]) = 1
         /\ replies'["spi"][1].op = Head(requests["spi"]).op
         /\ replies'["spi"][1].arg = arg
<1> DEFINE q == requests["spi"]
           m == [op |-> Head(q).op, arg |-> arg, data |-> data, id |-> Head(q).id]
<1>1. q \in Seq(Request) /\ q # <<>> /\ Head(q) = q[1]
  BY TakeType DEF Inv
<1>2. Len(q) \in Nat \ {0}
  BY <1>1, EmptySeq
<1>3. AloneOn("spi")
  BY DEF Inv, Alone
<1>4. 1 \in 1 .. Len(q) /\ q[1].op \in Asks
  <2>1. 1 \in 1 .. Len(q)
    BY <1>2
  <2> QED
    BY <1>1, <2>1
<1>5. Len(q) = 1 /\ replies["spi"] = <<>>
  BY <1>3, <1>4 DEF AloneOn
<1>6. replies'["spi"] = Append(replies["spi"], m)
  BY ReplyType DEF Inv
<1>7. m.op = Head(q).op /\ m.arg = arg
  OBVIOUS
<1>8. replies'["spi"][1] = m
  <2> HIDE DEF m
  <2> QED BY <1>5, <1>6
<1> QED
  BY <1>5, <1>7, <1>8

LEMMA ModeTick == ASSUME Inv, Tick PROVE ModeInv'
<1>1. UNCHANGED <<believed, intended, late, phase, call, result>>
  BY DEF Tick, NoMessage, ServeSpi, DropCommand, ServeCommand, ServeConfiguration, ServeHK,
     ServeReceive, Serve, ServePower, ServeInterrupt, Take, Turn, hostVars, beliefs, losses
<1>2. ReadYourWrites'
  BY <1>1 DEF Inv, ModeInv, ReadYourWrites
<1> SUFFICES ASSUME late = 0, intended # Unknown PROVE Converges'
  BY <1>1, <1>2 DEF ModeInv
<1>3. Converges /\ believed \in {0, 1} /\ (believed = 1 => power = 1)
  BY DEF Inv, ModeInv, TypeOK, PowerFollows
<1> DEFINE q == requests["spi"]
<1>4. CASE NoMessage
  BY <1>1, <1>3, <1>4 DEF NoMessage, channels, Converges
<1>5. CASE DropCommand
  <2>1. /\ power = 0 /\ Take("spi") /\ UNCHANGED <<mode, power>>
    BY <1>5 DEF DropCommand
  <2>2. /\ q \in Seq(Request) /\ q # <<>> /\ requests'["spi"] = Tail(q)
        /\ requests'["power"] = requests["power"]
    BY <2>1, TakeType DEF Inv
  <2>3. NoConfigure(q) => NoConfigure(Tail(q))
    <3> HIDE DEF q
    <3> QED BY <2>2, TailConfigures
  <2> QED
    BY <1>1, <1>3, <2>1, <2>2, <2>3 DEF Converges
<1>6. CASE ServeCommand
  BY <1>3, <1>6, ModeTakeSpi DEF ServeCommand, Serve, Converges
<1>7. CASE ServeConfiguration
  <2>1. Take("spi") /\ Head(q).op = "configure" /\ mode' = Head(q).arg /\ replies' = replies
    BY <1>7 DEF ServeConfiguration, Serve
  <2>2. q \in Seq(Request) /\ q # <<>> /\ requests'["spi"] = Tail(q) /\ Head(q) = q[1]
    BY <2>1, TakeType DEF Inv
  <2>3. 1 \in 1 .. Len(q)
    BY <2>2, EmptySeq
  <2>4. believed = 1
    BY <1>3, <2>1, <2>2, <2>3 DEF Converges, NoConfigure
  <2>5. /\ LastSets(q, intended) => LastSets(Tail(q), intended)
        /\ q[1].op = "configure" /\ LastSets(q, intended) /\ NoConfigure(Tail(q)) =>
             q[1].arg = intended
    <3> HIDE DEF q
    <3> QED BY <2>2, TailConfigures
  <2> QED
    BY <1>1, <1>3, <2>1, <2>2, <2>4, <2>5 DEF Converges
<1>8. CASE ServeHK
  <2>1. /\ Take("spi") /\ Head(q).op = "hk" /\ Reply("spi", mode, <<>>)
        /\ UNCHANGED <<power, mode>>
    BY <1>8 DEF ServeHK, Serve, Reported
  <2>2. mode \in Nat /\ <<>> \in Seq(Octet)
    BY DEF Inv, TypeOK
  <2>3. Len(q) = 1 /\ replies'["spi"][1].arg = mode
    BY <2>1, <2>2, ReplyFirst DEF Asks
  <2>4. Head(q) = q[1]
    BY <2>1, TakeType DEF Inv
  <2>5. NoConfigure(q)
    BY <2>1, <2>3, <2>4 DEF NoConfigure
  <2> QED
    BY <1>3, <2>1, <2>3, <2>5, ModeTakeSpi DEF Converges
<1>9. CASE ServeReceive
  <2> DEFINE asked == Head(q).arg
             n == Handed(asked)
  <2>1. Take("spi") /\ Head(q).op = "receive" /\ UNCHANGED <<power, mode>>
    BY <1>9 DEF ServeReceive, Serve
  <2>2. asked \in Nat
    BY <2>1, TakeType DEF Inv, Request
  <2>3. ring \in Seq(Octet)
    BY DEF Inv, TypeOK
  <2>4. n \in 0 .. Len(ring)
    BY <2>2, <2>3 DEF Handed
  <2>5. Reply("spi", asked, SubSeq(ring, 1, n))
    BY <1>9 DEF ServeReceive
  <2> HIDE DEF asked, n
  <2>6. SubSeq(ring, 1, n) \in Seq(Octet)
    BY <2>3, <2>4
  <2>7. replies'["spi"][1].op = "receive"
    BY <2>1, <2>2, <2>5, <2>6, ReplyFirst DEF Asks
  <2> QED
    BY <2>1, <2>7, ModeTakeSpi
<1>10. CASE ServePower
  <2> DEFINE p == requests["power"]
             v == Head(p).arg
  <2>1. /\ Take("power") /\ power' = v /\ replies' = replies
        /\ mode' = (IF power = 1 /\ v = 0 THEN Sleep ELSE mode)
    BY <1>10 DEF ServePower, Level
  <2>2. /\ p \in Seq(Request) /\ p # <<>> /\ requests'["power"] = Tail(p) /\ Head(p) = p[1]
        /\ requests'["spi"] = requests["spi"]
    BY <2>1, TakeType DEF Inv
  <2>3. /\ Len(Tail(p)) = Len(p) - 1 /\ Len(p) \in Nat \ {0}
        /\ \A i \in 1 .. Len(Tail(p)) : Tail(p)[i] = p[i + 1] /\ i + 1 \in 1 .. Len(p)
    BY <2>2, TailFacts
  <2>4. v \in {0, 1} /\ (believed = 1 => v = 1)
    <3>1. 1 \in 1 .. Len(p)
      BY <2>3
    <3> QED
      BY <2>2, <3>1 DEF Inv, TypeOK, PowerFollows
  <2> HIDE DEF p, v
  <2>5. CASE believed = 1
    BY <1>1, <1>3, <2>1, <2>2, <2>4, <2>5 DEF Converges
  <2>6. CASE believed = 0
    <3>1. ASSUME NEW i \in 1 .. Len(p), p[i].arg = 0, v = 1
          PROVE  \E j \in 1 .. Len(Tail(p)) : Tail(p)[j].arg = 0
      <4>1. i # 1
        BY <2>2, <3>1 DEF v
      <4>2. i - 1 \in 1 .. Len(Tail(p)) /\ Tail(p)[i - 1] = p[i]
        BY <2>3, <4>1
      <4> QED
        BY <3>1, <4>2
    <3>2. power \in {0, 1}
      BY DEF Inv, TypeOK
    <3> QED
      BY <1>1, <1>3, <2>1, <2>2, <2>4, <2>6, <3>1, <3>2 DEF Converges, p
  <2> QED
    BY <1>3, <2>5, <2>6
<1>11. CASE ServeInterrupt
  <2>1. /\ Take("interrupt") /\ Reply("interrupt", 0, <<>>) /\ UNCHANGED <<power, mode>>
    BY <1>11 DEF ServeInterrupt
  <2>2. <<>> \in Seq(Octet)
    OBVIOUS
  <2>3. /\ requests'["spi"] = requests["spi"] /\ requests'["power"] = requests["power"]
        /\ replies'["spi"] = replies["spi"]
    BY <2>1, <2>2, TakeType, ReplyType DEF Inv
  <2> QED
    BY <1>1, <1>3, <2>1, <2>3 DEF Converges
<1> QED
  BY <1>4, <1>5, <1>6, <1>7, <1>8, <1>9, <1>10, <1>11 DEF Tick, ServeSpi

LEMMA ModeStep == ASSUME Inv, [Next]_vars PROVE ModeInv'
<1>1. CASE Arrive \/ UNCHANGED vars
  BY <1>1 DEF Arrive, vars, hostVars, channels, radioVars, beliefs, losses, Inv, ModeInv, Converges,
     ReadYourWrites
<1> QED
  BY <1>1, ModeDriver, ModeAnswered, ModeTick DEF Next

\* With no call late, housekeeping that RADIO_RequestHK accepts reports the last
\* configuration the host may count on (radio_device.c:246), or sleep after a power
\* cycle that overtook none.
THEOREM ReadsWrites == Spec => []ReadYourWrites
<1>1. Init => Inv
  BY InitTyped, PowerFollowsInit, AloneInit, ModeInit DEF Inv, Init, HkOnSpi
<1>2. Inv /\ [Next]_vars => Inv'
  BY StepTyped, PowerFollowsStep, AloneStep, HkStep, ModeStep DEF Inv
<1>3. Inv => ReadYourWrites
  BY DEF Inv, ModeInv
<1> QED
  BY <1>1, <1>2, <1>3, PTL DEF Spec

-----------------------------------------------------------------------------
(* The octets                                                               *)

Got == NonZero(delivered)

\* What the replies of q hold, and that each goes on where the one before it ends.
Held(q) == UNION {ToSet(q[i].data) : i \in 1 .. Len(q)}
Stacked(q) ==
  /\ \A i \in 1 .. Len(q) : Increasing(q[i].data)
  /\ \A i, j \in 1 .. Len(q) : i < j => Below(ToSet(q[i].data), ToSet(q[j].data))

\* Oldest first: what was delivered, the replies, the ring.
OctetOrder ==
  /\ Grows(delivered) /\ Stacked(replies["spi"]) /\ Increasing(ring)
  /\ Below(Got, Held(replies["spi"])) /\ Below(Got, ToSet(ring))
  /\ Below(Held(replies["spi"]), ToSet(ring))
  /\ \A o \in Got \cup Held(replies["spi"]) \cup ToSet(ring) : o \in 1 .. arrived

\* Housekeeping and octets are read over SPI.
OwnChannel ==
  /\ call.op \in {"hk", "receive"} => call.channel = "spi"
  /\ call.op = "pin" => call.channel = "interrupt"

\* While no call was late, a reply holds what its call can take.
Fitting ==
  late = 0 =>
    /\ \A i \in 1 .. Len(requests["spi"]) :
         requests["spi"][i].op = "receive" => requests["spi"][i].arg = call.length
    /\ \A i \in 1 .. Len(replies["spi"]) :
         /\ replies["spi"][i].op = "hk" => replies["spi"][i].data = <<>>
         /\ replies["spi"][i].op = "receive" => Len(replies["spi"][i].data) <= call.length

Places == Got \cup Held(replies["spi"]) \cup ToSet(ring) \cup cleared

Covered == late = 0 => \A o : o \in Places <=> o \in 1 .. arrived

OctetInv == TypeOK /\ Alone /\ OwnChannel /\ OctetOrder /\ Fitting /\ Covered

LEMMA OctetTypes ==
  ASSUME TypeOK
  PROVE  /\ delivered \in Seq(Nat) /\ ring \in Seq(Nat) /\ arrived \in Nat
         /\ replies["spi"] \in Seq(Answer) /\ requests["spi"] \in Seq(Request)
         /\ \A m \in Answer : m.data \in Seq(Nat)
<1>1. Octet \subseteq Nat /\ Octet \cup {0} \subseteq Nat
  BY LinkAssumption DEF Octet
<1>2. /\ delivered \in Seq(Octet \cup {0}) /\ ring \in Seq(Octet) /\ arrived \in 0 .. MaxOctets
      /\ replies["spi"] \in Seq(Answer) /\ requests["spi"] \in Seq(Request)
  BY DEF TypeOK, Answer, Request
<1>3. ASSUME NEW m \in Answer PROVE m.data \in Seq(Nat)
  <2>1. m.data \in Seq(Octet)
    BY DEF Answer
  <2> QED
    BY <1>1, <2>1, SeqMonotonic
<1>4. delivered \in Seq(Nat) /\ ring \in Seq(Nat)
  BY <1>1, <1>2, SeqMonotonic
<1> QED
  BY <1>2, <1>3, <1>4, LinkAssumption

LEMMA HeldIs ==
  ASSUME NEW q
  PROVE  \A o : o \in Held(q) <=> \E i \in 1 .. Len(q) : o \in ToSet(q[i].data)
  BY DEF Held

\* A reply more.
LEMMA HeldAppend ==
  ASSUME NEW q \in Seq(Answer), NEW m \in Answer
  PROVE  /\ Held(Append(q, m)) = Held(q) \cup ToSet(m.data)
         /\ Stacked(q) /\ Increasing(m.data) /\ Below(Held(q), ToSet(m.data)) =>
              Stacked(Append(q, m))
<1> DEFINE r == Append(q, m)
<1>1. /\ Len(r) = Len(q) + 1 /\ Len(q) \in Nat /\ r[Len(q) + 1] = m
      /\ \A i \in 1 .. Len(q) : r[i] = q[i]
  BY AppendFacts
<1> HIDE DEF r
<1>2. /\ \A i \in 1 .. Len(r) : i \in 1 .. Len(q) \/ i = Len(q) + 1
      /\ \A i \in 1 .. Len(q) : i \in 1 .. Len(r)
      /\ Len(q) + 1 \in 1 .. Len(r)
  BY <1>1
<1>3. \A o : o \in Held(r) <=> o \in Held(q) \/ o \in ToSet(m.data)
  BY <1>1, <1>2, HeldIs
<1>4. ASSUME Stacked(q), Increasing(m.data), Below(Held(q), ToSet(m.data)) PROVE Stacked(r)
  <2>1. \A i \in 1 .. Len(r) : Increasing(r[i].data)
    BY <1>1, <1>2, <1>4 DEF Stacked
  <2>2. ASSUME NEW i \in 1 .. Len(r), NEW j \in 1 .. Len(r), i < j
        PROVE  Below(ToSet(r[i].data), ToSet(r[j].data))
    <3>1. i \in 1 .. Len(q) /\ r[i] = q[i]
      BY <1>1, <2>2
    <3>2. CASE j \in 1 .. Len(q)
      BY <1>1, <1>4, <2>2, <3>1, <3>2 DEF Stacked
    <3>3. CASE j = Len(q) + 1
      <4>1. r[j] = m /\ \A a \in ToSet(q[i].data) : a \in Held(q)
        BY <1>1, <3>1, <3>3, HeldIs
      <4> QED
        BY <1>4, <3>1, <4>1 DEF Below
    <3> QED
      BY <1>2, <3>2, <3>3
  <2> QED
    BY <2>1, <2>2 DEF Stacked
<1>5. Held(r) = Held(q) \cup ToSet(m.data)
  BY <1>3
<1> QED
  BY <1>4, <1>5 DEF r

\* The oldest reply gone.
LEMMA HeldTail ==
  ASSUME NEW q \in Seq(Answer), q # <<>>
  PROVE  /\ Held(q) = ToSet(q[1].data) \cup Held(Tail(q))
         /\ Stacked(q) => /\ Increasing(q[1].data) /\ Stacked(Tail(q))
                          /\ Below(ToSet(q[1].data), Held(Tail(q)))
<1> DEFINE r == Tail(q)
<1>1. /\ Len(r) = Len(q) - 1 /\ Len(q) \in Nat \ {0}
      /\ \A i \in 1 .. Len(r) : r[i] = q[i + 1] /\ i + 1 \in 1 .. Len(q)
  BY TailFacts
<1> HIDE DEF r
<1>2. /\ 1 \in 1 .. Len(q)
      /\ \A i \in 1 .. Len(q) : i = 1 \/ (i - 1 \in 1 .. Len(r) /\ r[i - 1] = q[i])
  <2>1. ASSUME NEW i \in 1 .. Len(q), i # 1 PROVE i - 1 \in 1 .. Len(r) /\ r[i - 1] = q[i]
    <3>1. i - 1 \in 1 .. Len(r) /\ (i - 1) + 1 = i
      BY <1>1, <2>1
    <3> QED
      BY <1>1, <3>1
  <2> QED
    BY <1>1, <2>1
<1>3. \A o : o \in Held(q) <=> o \in ToSet(q[1].data) \/ o \in Held(r)
  <2>1. ASSUME NEW o \in Held(q) PROVE o \in ToSet(q[1].data) \/ o \in Held(r)
    BY <1>2, HeldIs
  <2>2. ASSUME NEW o \in Held(r) PROVE o \in Held(q)
    BY <1>1, HeldIs
  <2>3. ASSUME NEW o \in ToSet(q[1].data) PROVE o \in Held(q)
    BY <1>2, HeldIs
  <2> QED
    BY <2>1, <2>2, <2>3
<1>4. ASSUME Stacked(q)
      PROVE  Increasing(q[1].data) /\ Stacked(r) /\ Below(ToSet(q[1].data), Held(r))
  <2>1. Increasing(q[1].data)
    BY <1>2, <1>4 DEF Stacked
  <2>2. Stacked(r)
    <3>1. \A i \in 1 .. Len(r) : Increasing(r[i].data)
      BY <1>1, <1>4 DEF Stacked
    <3>2. ASSUME NEW i \in 1 .. Len(r), NEW j \in 1 .. Len(r), i < j
          PROVE  Below(ToSet(r[i].data), ToSet(r[j].data))
      <4>1. i + 1 < j + 1
        BY <1>1, <3>2
      <4> QED
        BY <1>1, <1>4, <4>1 DEF Stacked
    <3> QED
      BY <3>1, <3>2 DEF Stacked
  <2>3. ASSUME NEW a \in ToSet(q[1].data), NEW b \in Held(r) PROVE a < b
    <3>1. PICK j \in 1 .. Len(r) : b \in ToSet(r[j].data)
      BY HeldIs
    <3>2. r[j] = q[j + 1] /\ j + 1 \in 1 .. Len(q) /\ 1 < j + 1
      BY <1>1
    <3> QED
      BY <1>2, <1>4, <3>1, <3>2 DEF Stacked, Below
  <2> QED
    BY <2>1, <2>2, <2>3 DEF Below
<1>5. Held(q) = ToSet(q[1].data) \cup Held(r)
  BY <1>3
<1> QED
  BY <1>4, <1>5 DEF r

LEMMA OwnChannelStep == ASSUME OwnChannel, [Next]_vars PROVE OwnChannel'
<1>1. UNCHANGED call \/ RequestHK \/ ReceiveData \/ CheckInterrupt
  BY DEF Next, vars, hostVars, Driver, WriteFails, CommandDevice, SetConfiguration, PowerOn, SetLevel,
     PowerOff, SetLevel, Return, Answered, DelayOver, GiveUp, ReadHK, ReadData, ReadInterrupt, TakeReply,
     Arrive, Tick, NoMessage, ServeSpi, DropCommand, ServeCommand, ServeConfiguration, ServeHK,
     ServeReceive, Serve, ServePower, ServeInterrupt, Take, Turn
<1> QED
  BY <1>1 DEF RequestHK, ReceiveData, CheckInterrupt, Read, OwnChannel

\* What the steps do to the octets: nothing, ...
LEMMA OctetsSame ==
  ASSUME OctetOrder, Covered, replies'["spi"] = replies["spi"],
         UNCHANGED <<delivered, ring, arrived, cleared>>, late' = 0 => late = 0
  PROVE  OctetOrder' /\ Covered'
<1>1. Got' = Got /\ Held(replies'["spi"]) = Held(replies["spi"])
  BY DEF Got
<1> QED
  BY <1>1 DEF OctetOrder, Covered, Places

\* ... one arrives, ...
LEMMA OctetArrives ==
  ASSUME TypeOK, OctetOrder, Covered, Arrive
  PROVE  OctetOrder' /\ Covered'
<1>1. /\ ring' = Append(ring, arrived + 1) /\ arrived' = arrived + 1
      /\ Got' = Got /\ replies' = replies /\ UNCHANGED <<delivered, cleared, late>>
  BY DEF Arrive, Got, channels
<1>2. arrived \in Nat /\ ring \in Seq(Nat)
  BY OctetTypes
<1>3. \A o : o \in 1 .. arrived + 1 <=> o \in 1 .. arrived \/ o = arrived + 1
  BY <1>2
<1>4. Below(ToSet(ring), {arrived + 1})
  BY <1>2 DEF OctetOrder, Below
<1>5. ToSet(ring') = ToSet(ring) \cup {arrived + 1} /\ Increasing(ring')
  BY <1>1, <1>2, <1>4, AppendElements DEF OctetOrder
<1>6. OctetOrder'
  <2>1. /\ Below(Got, {arrived + 1}) /\ Below(Held(replies["spi"]), {arrived + 1})
    BY <1>2 DEF OctetOrder, Below
  <2> QED
    BY <1>1, <1>3, <1>5, <2>1 DEF OctetOrder, Below
<1>7. Covered'
  BY <1>1, <1>3, <1>5 DEF Covered, Places
<1> QED
  BY <1>6, <1>7

\* ... the oldest in the ring go into a reply, ...
LEMMA OctetsReplied ==
  ASSUME TypeOK, OctetOrder, Covered, Take("spi"), NEW arg \in Nat, NEW data \in Seq(Octet),
         Reply("spi", arg, data), ToSet(ring) = ToSet(data) \cup ToSet(ring'),
         Increasing(data), Increasing(ring'), Below(ToSet(data), ToSet(ring')),
         cleared' = cleared
  PROVE  OctetOrder' /\ Covered'
<1> DEFINE m == [op |-> Head(requests["spi"]).op, arg |-> arg, data |-> data,
                 id |-> Head(requests["spi"]).id]
<1>1. replies'["spi"] = Append(replies["spi"], m) /\ m.data = data
  BY ReplyType
<1>2. m \in Answer
  BY TakeType DEF Request, Answer
<1>3. Got' = Got /\ UNCHANGED <<delivered, arrived, late>>
  BY DEF Take, Turn, Got
<1> HIDE DEF m
<1>4. Below(Held(replies["spi"]), ToSet(data))
  BY DEF OctetOrder, Below
<1>5. Held(replies'["spi"]) = Held(replies["spi"]) \cup ToSet(data) /\ Stacked(replies'["spi"])
  BY <1>1, <1>2, <1>4, HeldAppend, OctetTypes DEF OctetOrder
<1>6. OctetOrder'
  BY <1>3, <1>5 DEF OctetOrder, Below
<1>7. Covered'
  BY <1>3, <1>5 DEF Covered, Places
<1> QED
  BY <1>6, <1>7

\* ... the ring is cleared, ...
LEMMA OctetsCleared ==
  ASSUME OctetOrder, Covered, replies' = replies, UNCHANGED <<delivered, arrived, late>>,
         ring' = <<>>, cleared' = cleared \cup ToSet(ring)
  PROVE  OctetOrder' /\ Covered'
<1>1. Got' = Got /\ ToSet(ring') = {} /\ Increasing(ring')
  BY EmptyElements DEF Got
<1> QED
  BY <1>1 DEF OctetOrder, Covered, Places, Below

\* ... or a reply is taken, with its octets, or without them when a call was late.
LEMMA OctetsTaken ==
  ASSUME TypeOK, OctetOrder, Covered, TakeReply, call.channel = "spi", NEW new \in Seq(Nat),
         delivered' = delivered \o new, Grows(new),
         \A o : o \in NonZero(new) => o \in ToSet(Oldest.data),
         late = 0 => \A o : o \in ToSet(Oldest.data) => o \in NonZero(new)
  PROVE  OctetOrder' /\ Covered'
<1> DEFINE q == replies["spi"]
<1>1. /\ q \in Seq(Answer) /\ q # <<>> /\ Oldest = q[1] /\ replies'["spi"] = Tail(q)
      /\ UNCHANGED <<ring, arrived, cleared, late>>
  BY HeadType DEF TakeReply, radioVars
<1>2. /\ Held(q) = ToSet(q[1].data) \cup Held(Tail(q))
      /\ Stacked(Tail(q)) /\ Below(ToSet(q[1].data), Held(Tail(q)))
  <2> HIDE DEF q
  <2>1. Stacked(q)
    BY DEF OctetOrder, q
  <2> QED
    BY <1>1, <2>1, HeldTail
<1>3. Grows(delivered') /\ Got' = Got \cup NonZero(new)
  <2>1. delivered \in Seq(Nat)
    BY OctetTypes
  <2>2. Below(NonZero(delivered), NonZero(new)) /\ Grows(delivered)
    BY <1>1, <1>2 DEF OctetOrder, Got, Below
  <2> QED
    BY <2>1, <2>2, JoinGrows DEF Got
<1> HIDE DEF q
<1>4. OctetOrder'
  BY <1>1, <1>2, <1>3 DEF OctetOrder, Below, q
<1>5. Covered'
  BY <1>1, <1>2, <1>3 DEF Covered, Places, q
<1> QED
  BY <1>4, <1>5

LEMMA NoOctets == Grows(<<>>) /\ NonZero(<<>>) = {} /\ <<>> \in Seq(Nat)
  BY EmptyElements DEF Grows, NonZero

LEMMA IncreasingGrows == ASSUME NEW s, Increasing(s) PROVE Grows(s)
  BY DEF Increasing, Grows

\* Zeros that were read as octets.
LEMMA NoneGrows ==
  ASSUME NEW n \in Nat
  PROVE  LET z == [i \in 1 .. n |-> 0] IN Grows(z) /\ NonZero(z) = {} /\ z \in Seq(Nat)
<1> DEFINE z == [i \in 1 .. n |-> 0]
<1>1. z \in Seq(Nat) /\ Len(z) = n /\ \A i \in 1 .. n : z[i] = 0
  OBVIOUS
<1> HIDE DEF z
<1>2. \A x : x \in ToSet(z) => x = 0
  BY <1>1, InSeq
<1>3. NonZero(z) = {}
  BY <1>2 DEF NonZero
<1> QED
  BY <1>1, <1>3 DEF Grows, z

LEMMA OctetsRead == ASSUME OctetInv, ReadHK \/ ReadData \/ ReadInterrupt PROVE OctetOrder' /\ Covered'
<1> USE DEF OctetInv
<1>1. TakeReply /\ late' = late /\ delivered \in Seq(Nat)
  BY OctetTypes DEF ReadHK, ReadData, ReadInterrupt, TakeReply
<1>2. CASE ReadInterrupt
  <2>1. call.channel = "interrupt" /\ delivered' = delivered
    BY <1>2 DEF ReadInterrupt, OwnChannel
  <2>2. replies'["spi"] = replies["spi"]
    BY <1>1, <2>1, HeadType
  <2> QED
    BY <1>1, <2>1, <2>2, OctetsSame DEF TakeReply, radioVars
<1>3. CASE ReadHK \/ ReadData
  <2>1. call.channel = "spi" /\ call.op \in {"hk", "receive"}
    BY <1>3 DEF ReadHK, ReadData, OwnChannel
  <2>2. Oldest \in Answer /\ Oldest = replies["spi"][1] /\ 1 \in 1 .. Len(replies["spi"])
    <3>1. Oldest \in Answer /\ Oldest = replies["spi"][1] /\ replies["spi"] # <<>>
      BY <1>1, <2>1, HeadType
    <3>2. Len(replies["spi"]) \in Nat \ {0}
      BY <3>1, OctetTypes, EmptySeq
    <3> QED
      BY <3>1, <3>2
  <2>3. Oldest.data \in Seq(Nat) /\ Increasing(Oldest.data)
    BY <2>2, OctetTypes DEF OctetOrder, Stacked
  <2>4. \A o \in ToSet(Oldest.data) : o # 0
    <3>1. \A o \in ToSet(Oldest.data) : o \in Held(replies["spi"])
      BY <2>2, HeldIs
    <3>2. \A o \in Held(replies["spi"]) : o \in 1 .. arrived
      BY DEF OctetOrder
    <3> QED
      BY <3>1, <3>2
  <2>5. late = 0 => /\ Oldest.op = call.op
                    /\ Oldest.op = "hk" => Oldest.data = <<>>
                    /\ Oldest.op = "receive" => Len(Oldest.data) <= call.length
    <3>1. late = 0 => Oldest.op = call.op
      BY <2>1, <2>2 DEF Alone, AloneOn, Current
    <3>2. late = 0 => /\ Oldest.op = "hk" => Oldest.data = <<>>
                      /\ Oldest.op = "receive" => Len(Oldest.data) <= call.length
      BY <2>2 DEF Fitting
    <3> QED
      BY <3>1, <3>2
  <2>6. \/ delivered' = delivered \o Oldest.data
        \/ /\ delivered' = delivered
           /\ late = 0 => Oldest.data = <<>>
        \/ late # 0 /\ \E n \in 0 .. call.length : delivered' = delivered \o [i \in 1 .. n |-> 0]
    <3>1. CASE ReadHK
      BY <2>5, <3>1 DEF ReadHK
    <3>2. CASE ReadData
      <4>1. call.op = "receive" /\ "receive" # "hk"
        BY <3>2 DEF ReadData
      <4>2. Len(Oldest.data) \in Nat /\ call.length \in Nat
        BY <2>3 DEF TypeOK
      <4>3. late = 0 => Oldest.op = "receive" /\ ~(Len(Oldest.data) > call.length)
        BY <2>5, <4>1, <4>2
      <4>4. \/ delivered' = delivered \o Oldest.data
            \/ Len(Oldest.data) > call.length /\ delivered' = delivered
            \/ /\ Oldest.op = "hk"
               /\ \E n \in 0 .. call.length : delivered' = delivered \o [i \in 1 .. n |-> 0]
            \/ Oldest.op = "hk" /\ delivered' = delivered
        BY <3>2 DEF ReadData
      <4> QED
        BY <4>3, <4>4
    <3> QED
      BY <1>3, <3>1, <3>2
  <2>7. CASE delivered' = delivered \o Oldest.data
    <3>1. Grows(Oldest.data) /\ \A o : o \in NonZero(Oldest.data) <=> o \in ToSet(Oldest.data)
      BY <2>3, <2>4, IncreasingGrows DEF NonZero
    <3> QED
      BY <1>1, <2>1, <2>3, <2>7, <3>1, OctetsTaken
  <2>8. CASE delivered' = delivered /\ (late = 0 => Oldest.data = <<>>)
    <3>1. delivered' = delivered \o <<>>
      BY <1>1, <2>8
    <3>2. late = 0 => \A o : o \in ToSet(Oldest.data) => o \in NonZero(<<>>)
      BY <2>8, EmptyElements
    <3>3. \A o : o \in NonZero(<<>>) => o \in ToSet(Oldest.data)
      BY NoOctets
    <3> QED
      BY <1>1, <2>1, <3>1, <3>2, <3>3, NoOctets, OctetsTaken
  <2>9. ASSUME late # 0, NEW n \in 0 .. call.length, delivered' = delivered \o [i \in 1 .. n |-> 0]
        PROVE  OctetOrder' /\ Covered'
    <3> DEFINE z == [i \in 1 .. n |-> 0]
    <3>1. n \in Nat
      BY DEF TypeOK
    <3>2. Grows(z) /\ NonZero(z) = {} /\ z \in Seq(Nat)
      BY <3>1, NoneGrows
    <3>3. delivered' = delivered \o z
      BY <2>9
    <3> HIDE DEF z
    <3>4. \A o : o \in NonZero(z) => o \in ToSet(Oldest.data)
      BY <3>2
    <3> QED
      BY <1>1, <2>1, <2>9, <3>2, <3>3, <3>4, OctetsTaken
  <2> QED
    BY <2>6, <2>7, <2>8, <2>9
<1> QED
  BY <1>2, <1>3

\* What the radio sends comes from the front of its buffer.
LEMMA OctetsServed ==
  ASSUME OctetInv, Tick
  PROVE  OctetOrder' /\ Covered'
<1> USE DEF OctetInv
<1>1. /\ UNCHANGED <<arrived, delivered, late>>
      /\ ring \in Seq(Octet) /\ ring \in Seq(Nat) /\ mode \in Nat
  BY OctetTypes DEF Tick, NoMessage, ServeSpi, DropCommand, ServeCommand, ServeConfiguration,
     ServeHK, ServeReceive, Serve, ServePower, ServeInterrupt, Take, Turn, TypeOK
<1>2. CASE NoMessage \/ DropCommand \/ ServeCommand \/ ServeConfiguration
  <2>1. replies' = replies /\ ring' = ring /\ cleared' = cleared
    BY <1>2 DEF NoMessage, DropCommand, ServeCommand, ServeConfiguration, channels
  <2> QED
    BY <1>1, <2>1, OctetsSame
<1>3. CASE ServeHK
  <2>1. /\ Take("spi") /\ Reply("spi", mode, <<>>) /\ ring' = ring /\ cleared' = cleared
    BY <1>3 DEF ServeHK, Serve, Reported
  <2>2. <<>> \in Seq(Octet) /\ ToSet(<<>>) = {} /\ Increasing(<<>>) /\ Increasing(ring)
    BY EmptyElements DEF OctetOrder
  <2>3. ToSet(ring) = ToSet(<<>>) \cup ToSet(ring') /\ Below(ToSet(<<>>), ToSet(ring'))
    BY <2>1, <2>2 DEF Below
  <2> QED
    BY <1>1, <2>1, <2>2, <2>3, OctetsReplied
<1>4. CASE ServeReceive
  <2> DEFINE asked == Head(requests["spi"]).arg
             n == Handed(asked)
             data == SubSeq(ring, 1, n)
  <2>1. Take("spi") /\ asked \in Nat
    BY <1>4, TakeType DEF ServeReceive, Serve, Request
  <2>2. n \in 0 .. Len(ring) /\ Len(ring) \in Nat
    BY <1>1, <2>1 DEF Handed
  <2>3. /\ Reply("spi", asked, data) /\ ring' = SubSeq(ring, n + 1, Len(ring))
        /\ cleared' = cleared
    BY <1>4 DEF ServeReceive, Kept
  <2> HIDE DEF asked, n
  <2>4. data \in Seq(Octet)
    BY <1>1, <2>2
  <2>5. /\ ToSet(ring) = ToSet(data) \cup ToSet(ring')
        /\ Increasing(data) /\ Increasing(ring') /\ Below(ToSet(data), ToSet(ring'))
    BY <1>1, <2>2, <2>3, SplitElements DEF OctetOrder
  <2> HIDE DEF data
  <2> QED
    BY <2>1, <2>3, <2>4, <2>5, OctetsReplied
<1>5. CASE ServePower
  <2>1. \/ replies' = replies /\ ring' = ring /\ cleared' = cleared
        \/ replies' = replies /\ ring' = <<>> /\ cleared' = cleared \cup ToSet(ring)
    BY <1>5 DEF ServePower
  <2> QED
    BY <1>1, <2>1, OctetsSame, OctetsCleared
<1>6. CASE ServeInterrupt
  <2>1. /\ Take("interrupt") /\ Reply("interrupt", 0, <<>>) /\ <<>> \in Seq(Octet)
        /\ ring' = ring /\ cleared' = cleared
    BY <1>6 DEF ServeInterrupt
  <2>2. replies'["spi"] = replies["spi"]
    BY <2>1, ReplyType
  <2> QED
    BY <1>1, <2>1, <2>2, OctetsSame
<1> QED
  BY <1>2, <1>3, <1>4, <1>5, <1>6 DEF Tick, ServeSpi

LEMMA OctetStep == ASSUME OctetInv, [Next]_vars PROVE OctetOrder' /\ Covered'
<1> USE DEF OctetInv
<1>1. CASE Driver
  <2>1. Start
    BY <1>1 DEF Driver, WriteFails, CommandDevice, SetConfiguration, RequestHK, ReceiveData,
       CheckInterrupt, PowerOn, SetLevel, PowerOff, SetLevel
  <2> QED
    BY <2>1, OctetsSame DEF Start, radioVars
<1>2. CASE DelayOver \/ GiveUp
  <2>1. late' = 0 => late = 0
    BY <1>2 DEF DelayOver, GiveUp, CountLate, TypeOK
  <2> QED
    BY <1>2, <2>1, OctetsSame DEF DelayOver, GiveUp, channels, radioVars
<1>3. CASE UNCHANGED vars
  BY <1>3, OctetsSame DEF vars, channels, radioVars
<1>4. CASE Arrive
  BY <1>4, OctetArrives
<1> QED
  BY <1>1, <1>2, <1>3, <1>4, OctetsRead, OctetsServed DEF Next, Answered

\* A request more, or none: if it asks for octets, then for as many as its call takes.
LEMMA FittingStart ==
  ASSUME OctetInv, Start,
         \/ requests'["spi"] = requests["spi"]
         \/ \E m : /\ requests'["spi"] = Append(requests["spi"], m)
                   /\ m.op = "receive" => m.arg = call'.length
  PROVE  Fitting'
<1> USE DEF OctetInv
<1> SUFFICES ASSUME late' = 0 PROVE Fitting'
  BY DEF Fitting
<1>1. late = 0 /\ phase = "idle" /\ replies' = replies
  BY DEF Start
<1>2. /\ replies["spi"] = <<>>
      /\ \A i \in 1 .. Len(requests["spi"]) : requests["spi"][i].op # "receive"
  BY <1>1 DEF Alone, AloneOn, Current, Asks
<1>3. Len(replies'["spi"]) = 0
  BY <1>1, <1>2
<1>4. CASE requests'["spi"] = requests["spi"]
  BY <1>2, <1>3, <1>4 DEF Fitting
<1>5. CASE \E m : /\ requests'["spi"] = Append(requests["spi"], m)
                  /\ m.op = "receive" => m.arg = call'.length
  <2>1. PICK m : /\ requests'["spi"] = Append(requests["spi"], m)
                 /\ m.op = "receive" => m.arg = call'.length
    BY <1>5
  <2> DEFINE r == Append(requests["spi"], m)
  <2>2. /\ Len(r) = Len(requests["spi"]) + 1 /\ Len(requests["spi"]) \in Nat
        /\ r[Len(requests["spi"]) + 1] = m
        /\ \A i \in 1 .. Len(requests["spi"]) : r[i] = requests["spi"][i]
    BY OctetTypes, AppendFacts
  <2> HIDE DEF r
  <2>3. ASSUME NEW i \in 1 .. Len(r), r[i].op = "receive" PROVE r[i].arg = call'.length
    <3>1. i \in 1 .. Len(requests["spi"]) \/ i = Len(requests["spi"]) + 1
      BY <2>2
    <3>2. i \notin 1 .. Len(requests["spi"])
      BY <1>2, <2>2, <2>3
    <3> QED
      BY <2>1, <2>2, <2>3, <3>1, <3>2
  <2>4. requests'["spi"] = r
    BY <2>1 DEF r
  <2> QED
    BY <1>3, <2>3, <2>4 DEF Fitting
<1> QED
  BY <1>4, <1>5

LEMMA FittingDriver == ASSUME OctetInv, Driver PROVE Fitting'
<1>1. ASSUME Start, NEW c \in Channel, NEW op \in Op, NEW arg \in Nat, Write(c, op, arg),
             op = "receive" => arg = call'.length
      PROVE  Fitting'
  <2>1. /\ requests'[c] = Append(requests[c], [op |-> op, arg |-> arg, id |-> calls + 1])
        /\ \A d \in Channel : d # c => requests'[d] = requests[d]
    BY <1>1, WriteType DEF OctetInv
  <2> DEFINE m == [op |-> op, arg |-> arg, id |-> calls + 1]
  <2>2. m.op = op /\ m.arg = arg
    OBVIOUS
  <2> HIDE DEF m
  <2>3. \/ requests'["spi"] = requests["spi"]
        \/ /\ requests'["spi"] = Append(requests["spi"], m)
           /\ m.op = "receive" => m.arg = call'.length
    BY <1>1, <2>1, <2>2 DEF m
  <2> QED
    BY <1>1, <2>3, FittingStart
<1>2. CASE WriteFails
  BY <1>2, FittingStart DEF WriteFails
<1>3. CASE CommandDevice
  BY <1>1, <1>3 DEF CommandDevice, Op
<1>4. CASE SetConfiguration
  <2>1. PICK m \in Modes : Start /\ Write("spi", "configure", m)
    BY <1>4 DEF SetConfiguration
  <2> QED
    BY <1>1, <2>1, LinkAssumption DEF Op
<1>5. CASE RequestHK
  BY <1>1, <1>5 DEF RequestHK, Op
<1>6. CASE ReceiveData
  <2>1. PICK n \in Lengths : Start /\ Write("spi", "receive", n) /\ Read("spi", "receive", n)
    BY <1>6 DEF ReceiveData
  <2>2. call'.length = n
    BY <2>1 DEF Read
  <2> QED
    BY <1>1, <2>1, <2>2, LinkAssumption DEF Op
<1>7. CASE CheckInterrupt
  BY <1>1, <1>7 DEF CheckInterrupt, Op
<1>8. CASE PowerOn
  BY <1>1, <1>8 DEF PowerOn, SetLevel, Op
<1>9. CASE PowerOff
  BY <1>1, <1>9 DEF PowerOff, SetLevel, Op
<1> QED
  BY <1>2, <1>3, <1>4, <1>5, <1>6, <1>7, <1>8, <1>9 DEF Driver

\* Messages only go, and the call stays.
LEMMA FittingTaken ==
  ASSUME TypeOK, Fitting, call' = call, late' = 0 => late = 0,
         \/ requests'["spi"] = requests["spi"]
         \/ requests["spi"] # <<>> /\ requests'["spi"] = Tail(requests["spi"]),
         \/ replies'["spi"] = replies["spi"]
         \/ replies["spi"] # <<>> /\ replies'["spi"] = Tail(replies["spi"])
  PROVE  Fitting'
<1> SUFFICES ASSUME late' = 0 PROVE Fitting'
  BY DEF Fitting
<1>1. \A i \in 1 .. Len(requests'["spi"]) :
        \E j \in 1 .. Len(requests["spi"]) : requests'["spi"][i] = requests["spi"][j]
  <2>1. CASE requests["spi"] # <<>> /\ requests'["spi"] = Tail(requests["spi"])
    <3>1. \A i \in 1 .. Len(Tail(requests["spi"])) :
            Tail(requests["spi"])[i] = requests["spi"][i + 1] /\ i + 1 \in 1 .. Len(requests["spi"])
      BY <2>1, OctetTypes, TailFacts
    <3> QED
      BY <2>1, <3>1
  <2> QED
    BY <2>1
<1>2. \A i \in 1 .. Len(replies'["spi"]) :
        \E j \in 1 .. Len(replies["spi"]) : replies'["spi"][i] = replies["spi"][j]
  <2>1. CASE replies["spi"] # <<>> /\ replies'["spi"] = Tail(replies["spi"])
    <3>1. \A i \in 1 .. Len(Tail(replies["spi"])) :
            Tail(replies["spi"])[i] = replies["spi"][i + 1] /\ i + 1 \in 1 .. Len(replies["spi"])
      BY <2>1, OctetTypes, TailFacts
    <3> QED
      BY <2>1, <3>1
  <2> QED
    BY <2>1
<1> QED
  BY <1>1, <1>2 DEF Fitting

\* The radio answers a request: a reply more.
LEMMA FittingReplied ==
  ASSUME TypeOK, Fitting, Take("spi"), NEW arg \in Nat, NEW data \in Seq(Octet),
         Reply("spi", arg, data),
         late = 0 /\ Head(requests["spi"]).op = "hk" => data = <<>>,
         late = 0 /\ Head(requests["spi"]).op = "receive" => Len(data) <= Head(requests["spi"]).arg
  PROVE  Fitting'
<1> SUFFICES ASSUME late' = 0 PROVE Fitting'
  BY DEF Fitting
<1> DEFINE q == requests["spi"]
           m == [op |-> Head(q).op, arg |-> arg, data |-> data, id |-> Head(q).id]
<1>1. /\ q \in Seq(Request) /\ q # <<>> /\ requests'["spi"] = Tail(q) /\ Head(q) = q[1]
      /\ late = 0 /\ call' = call /\ replies'["spi"] = Append(replies["spi"], m)
  BY TakeType, ReplyType DEF Take, Turn, hostVars
<1>2. m.op = Head(q).op /\ m.data = data
  OBVIOUS
<1>3. 1 \in 1 .. Len(q)
  BY <1>1, EmptySeq
<1>4. m.op = "receive" => Len(m.data) <= call.length
  BY <1>1, <1>2, <1>3 DEF Fitting
<1> HIDE DEF m
<1>5. /\ Len(replies'["spi"]) = Len(replies["spi"]) + 1 /\ Len(replies["spi"]) \in Nat
      /\ replies'["spi"][Len(replies["spi"]) + 1] = m
      /\ \A i \in 1 .. Len(replies["spi"]) : replies'["spi"][i] = replies["spi"][i]
  BY <1>1, OctetTypes, AppendFacts
<1>6. \A i \in 1 .. Len(requests'["spi"]) :
        requests'["spi"][i] = requests["spi"][i + 1] /\ i + 1 \in 1 .. Len(requests["spi"])
  BY <1>1, OctetTypes, TailFacts
<1>7. ASSUME NEW i \in 1 .. Len(replies'["spi"])
      PROVE  /\ replies'["spi"][i].op = "hk" => replies'["spi"][i].data = <<>>
             /\ replies'["spi"][i].op = "receive" => Len(replies'["spi"][i].data) <= call.length
  <2>1. i \in 1 .. Len(replies["spi"]) \/ i = Len(replies["spi"]) + 1
    BY <1>5
  <2>2. CASE i \in 1 .. Len(replies["spi"])
    BY <1>1, <1>5, <2>2 DEF Fitting
  <2>3. CASE i = Len(replies["spi"]) + 1
    BY <1>1, <1>2, <1>4, <1>5, <2>3
  <2> QED
    BY <2>1, <2>2, <2>3
<1> QED
  BY <1>1, <1>6, <1>7 DEF Fitting

LEMMA FittingTick == ASSUME OctetInv, Tick PROVE Fitting'
<1> USE DEF OctetInv
<1>1. call' = call /\ late' = late /\ ring \in Seq(Octet) /\ mode \in Nat
  BY DEF Tick, NoMessage, ServeSpi, DropCommand, ServeCommand, ServeConfiguration, ServeHK,
     ServeReceive, Serve, ServePower, ServeInterrupt, Take, Turn, hostVars, TypeOK
<1>2. CASE NoMessage
  BY <1>1, <1>2, FittingTaken DEF NoMessage, channels
<1>3. ASSUME NEW c \in Channel, Take(c), replies' = replies PROVE Fitting'
  BY <1>1, <1>3, TakeType, FittingTaken
<1>4. CASE DropCommand \/ ServeCommand \/ ServeConfiguration \/ ServePower
  BY <1>3, <1>4 DEF DropCommand, ServeCommand, ServeConfiguration, ServePower, Serve
<1>5. CASE ServeHK
  <2>1. /\ Take("spi") /\ Reply("spi", mode, <<>>) /\ Head(requests["spi"]).op = "hk"
        /\ <<>> \in Seq(Octet)
    BY <1>5 DEF ServeHK, Serve, Reported
  <2> QED
    BY <1>1, <2>1, FittingReplied
<1>6. CASE ServeReceive
  <2> DEFINE asked == Head(requests["spi"]).arg
             n == Handed(asked)
             data == SubSeq(ring, 1, n)
  <2>1. Take("spi") /\ Head(requests["spi"]).op = "receive" /\ asked \in Nat
    BY <1>6, TakeType DEF ServeReceive, Serve, Request
  <2>2. n \in 0 .. Len(ring) /\ n <= asked
    BY <1>1, <2>1 DEF Handed
  <2>3. Reply("spi", asked, data)
    BY <1>6 DEF ServeReceive
  <2> HIDE DEF n
  <2>4. data \in Seq(Octet) /\ Len(data) = n
    BY <1>1, <2>2
  <2> HIDE DEF data
  <2> QED
    BY <2>1, <2>2, <2>3, <2>4, FittingReplied
<1>7. CASE ServeInterrupt
  <2>1. Take("interrupt") /\ Reply("interrupt", 0, <<>>) /\ <<>> \in Seq(Octet)
    BY <1>7 DEF ServeInterrupt
  <2> QED
    BY <1>1, <2>1, TakeType, ReplyType, FittingTaken
<1> QED
  BY <1>2, <1>4, <1>5, <1>6, <1>7 DEF Tick, ServeSpi

LEMMA FittingStep == ASSUME OctetInv, [Next]_vars PROVE Fitting'
<1> USE DEF OctetInv
<1>1. CASE DelayOver \/ GiveUp
  <2>1. late' = 0 => late = 0
    BY <1>1 DEF DelayOver, GiveUp, CountLate, TypeOK
  <2> QED
    BY <1>1, <2>1, FittingTaken DEF DelayOver, GiveUp, channels
<1>2. ASSUME TakeReply PROVE Fitting'
  <2>1. \/ replies'["spi"] = replies["spi"]
        \/ replies["spi"] # <<>> /\ replies'["spi"] = Tail(replies["spi"])
    BY <1>2, HeadType
  <2> QED
    BY <1>2, <2>1, FittingTaken DEF TakeReply
<1>3. CASE Arrive \/ UNCHANGED vars
  BY <1>3, FittingTaken DEF Arrive, vars, hostVars, channels
<1> QED
  BY <1>1, <1>2, <1>3, FittingDriver, FittingTick DEF Next, Answered, ReadHK, ReadData,
     ReadInterrupt

LEMMA OctetInvariant == Spec => []OctetInv
<1>1. Init => OctetInv
  <2> SUFFICES ASSUME Init PROVE OctetInv
    OBVIOUS
  <2>1. TypeOK /\ Alone
    BY InitTyped, AloneInit
  <2>2. /\ delivered = <<>> /\ replies["spi"] = <<>> /\ requests["spi"] = <<>> /\ ring = <<>>
        /\ cleared = {} /\ arrived = 0 /\ call.op = "none"
    BY DEF Init
  <2>3. Got = {} /\ Held(replies["spi"]) = {} /\ ToSet(ring) = {} /\ Increasing(ring)
    BY <2>2, NoOctets, EmptyElements DEF Got, Held
  <2>4. OctetOrder
    BY <2>2, <2>3, NoOctets DEF OctetOrder, Stacked, Below
  <2>5. Covered
    BY <2>2, <2>3 DEF Covered, Places
  <2>6. OwnChannel /\ Fitting
    BY <2>2 DEF OwnChannel, Fitting
  <2> QED
    BY <2>1, <2>4, <2>5, <2>6 DEF OctetInv
<1>2. OctetInv /\ [Next]_vars => OctetInv'
  BY StepTyped, AloneStep, OwnChannelStep, OctetStep, FittingStep DEF OctetInv
<1> QED
  BY <1>1, <1>2, PTL DEF Spec

\* The places put one behind the other.
LEMMA OnTheWayIs ==
  ASSUME TypeOK, OctetOrder
  PROVE  /\ Grows(OnTheWay)
         /\ NonZero(OnTheWay) = Got \cup Held(replies["spi"]) \cup ToSet(ring)
<1> DEFINE parts == [i \in 1 .. Len(replies["spi"]) |-> replies["spi"][i].data]
           flat == FlattenSeq(parts)
<1>1. /\ parts \in Seq(Seq(Nat)) /\ Len(parts) = Len(replies["spi"])
      /\ \A i \in 1 .. Len(replies["spi"]) : parts[i] = replies["spi"][i].data
  <2>1. Len(replies["spi"]) \in Nat /\ \A i \in 1 .. Len(replies["spi"]) : replies["spi"][i].data \in Seq(Nat)
    BY OctetTypes
  <2> QED
    BY <2>1
<1> HIDE DEF parts
<1>2. /\ flat \in Seq(Nat) /\ Increasing(flat)
      /\ \A x : x \in ToSet(flat) <=> \E i \in 1 .. Len(parts) : x \in ToSet(parts[i])
  BY <1>1, FlattenIncreasing DEF OctetOrder, Stacked
<1>3. ToSet(flat) = Held(replies["spi"])
  BY <1>1, <1>2, HeldIs
<1> HIDE DEF flat
<1>4. \A o \in Held(replies["spi"]) \cup ToSet(ring) : o # 0
  BY DEF OctetOrder
<1>5. /\ NonZero(flat) = Held(replies["spi"]) /\ NonZero(ring) = ToSet(ring)
      /\ Grows(flat) /\ Grows(ring)
  BY <1>2, <1>3, <1>4, IncreasingGrows DEF NonZero, OctetOrder
<1>6. delivered \in Seq(Nat) /\ ring \in Seq(Nat)
  BY OctetTypes
<1> DEFINE front == delivered \o flat
<1>7. front \in Seq(Nat) /\ Grows(front) /\ NonZero(front) = Got \cup Held(replies["spi"])
  <2>1. Below(NonZero(delivered), NonZero(flat))
    BY <1>5 DEF OctetOrder, Got
  <2> QED
    BY <1>2, <1>5, <1>6, <2>1, JoinGrows, JoinElements DEF OctetOrder, Got
<1> HIDE DEF front
<1>8. Grows(front \o ring) /\ NonZero(front \o ring) = NonZero(front) \cup ToSet(ring)
  <2>1. Below(NonZero(front), NonZero(ring))
    BY <1>5, <1>7 DEF OctetOrder, Below
  <2> QED
    BY <1>5, <1>6, <1>7, <2>1, JoinGrows
<1>9. OnTheWay = front \o ring
  BY DEF OnTheWay, front, flat, parts
<1> QED
  BY <1>7, <1>8, <1>9

\* Whatever came late, and whatever a call took for octets that was none, the octets of
\* the ground reach the host in their order and none twice.
THEOREM OctetsOrdered == Spec => []OctetsInOrder
<1>1. OctetInv => OctetsInOrder
  BY OnTheWayIs DEF OctetInv, OctetsInOrder, Grows
<1> QED
  BY <1>1, OctetInvariant, PTL

\* With no call late, RADIO_ReceiveData (radio_device.c:292-378) loses no octet: each is
\* with the host, in a reply, in the radio's buffer, or was deleted by a power-off.
THEOREM NoOctetLost == Spec => []NothingLost
<1>1. OctetInv => NothingLost
  <2> SUFFICES ASSUME OctetInv, late = 0 PROVE NonZero(OnTheWay) \cup cleared = 1 .. arrived
    BY DEF NothingLost, NonZero
  <2>1. NonZero(OnTheWay) \cup cleared = Places
    BY OnTheWayIs DEF OctetInv, Places
  <2>2. \A o : o \in Places <=> o \in 1 .. arrived
    BY DEF OctetInv, Covered
  <2> QED
    BY <2>1, <2>2
<1> QED
  BY <1>1, OctetInvariant, PTL
=============================================================================
