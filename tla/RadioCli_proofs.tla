-------------------------- MODULE RadioCli_proofs ---------------------------
(***************************************************************************)
(* The command line interface is one of the hosts RadioLink speaks of, so    *)
(* what is proved there holds for it; and it writes only to devices that     *)
(* are open.                                                                 *)
(***************************************************************************)
EXTENDS RadioCli, RadioLink_proofs

USE DEF Channel

\* Every step of the program is a driver call or nothing, to the driver and the radio.
LEMMA CliStep == ASSUME [CliNext]_allVars PROVE [Next]_vars
<1>1. CASE Program
  BY <1>1 DEF Program, InitDevice, SwitchOn, SwitchOnFails, DriverCommand, Call, OtherCommand,
     Check, NextCommand, EndOfInput, CloseSpi, SwitchOff, Next, Driver
<1>2. CASE Outside
  BY <1>2 DEF Outside, Next
<1>3. CASE UNCHANGED allVars
  BY <1>3 DEF allVars
<1> QED
  BY <1>1, <1>2, <1>3 DEF CliNext

\* The program, with any user and any failure, implements the host of RadioLink:
\* radio_cli.c calls one driver function after the other, never two at a time.
THEOREM CliImplementsLink == CliSpec => Spec
<1>1. CliInit => Init
  BY DEF CliInit
<1>2. [CliNext]_allVars => [Next]_vars
  BY CliStep
<1> QED
  BY <1>1, <1>2, PTL DEF CliSpec, Spec

\* Whatever is typed, and however soon after "on": of the commands of the program the radio
\* drops no more than there were power levels on their way with that of "on".
THEOREM CliDropsAreFew == CliSpec => []FewDropped
  BY CliImplementsLink, DropsAreFew, PTL

-----------------------------------------------------------------------------
(* Open devices                                                             *)

\* From the power-on to the prompt all devices are open.
OpenInv == stage \in {"powerOn", "prompt", "command", "check"} => open = Channel

LEMMA OpenStep == ASSUME OpenInv, [CliNext]_allVars PROVE OpenInv'
<1> USE DEF OpenInv, Goto, cliVars
<1>1. CASE InitDevice
  BY <1>1 DEF InitDevice, AfterInit
<1>2. CASE SwitchOn \/ SwitchOnFails
  BY <1>2 DEF SwitchOn, SwitchOnFails
<1>3. CASE DriverCommand \/ OtherCommand
  BY <1>3 DEF DriverCommand, OtherCommand
<1>4. CASE Check \/ NextCommand
  BY <1>4 DEF Check, NextCommand
<1>5. CASE EndOfInput \/ CloseSpi \/ SwitchOff
  BY <1>5 DEF EndOfInput, CloseSpi, SwitchOff
<1>6. CASE Outside \/ UNCHANGED allVars
  BY <1>6 DEF Outside, allVars
<1> QED
  BY <1>1, <1>2, <1>3, <1>4, <1>5, <1>6 DEF CliNext, Program

Written(c) == Len(requests'[c]) > Len(requests[c])

\* Neither the radio nor the answer to a call adds a request.
LEMMA RadioWritesNothing ==
  ASSUME TypeOK, Answered \/ Arrive \/ Tick, NEW c \in Channel
  PROVE  ~Written(c)
<1>0. Len(requests[c]) \in Nat
  <2>1. requests[c] \in Seq(Request)
    BY DEF TypeOK, Request
  <2> QED
    BY <2>1, EmptySeq
<1>1. CASE requests' = requests
  BY <1>0, <1>1 DEF Written
<1>2. ASSUME NEW d \in Channel, Take(d) PROVE ~Written(c)
  <2>1. /\ requests[d] \in Seq(Request) /\ requests[d] # <<>>
        /\ requests'[d] = Tail(requests[d])
        /\ \A e \in Channel : e # d => requests'[e] = requests[e]
    BY <1>2, TakeType
  <2>2. Len(Tail(requests[d])) = Len(requests[d]) - 1
    BY <2>1, TailFacts
  <2>3. CASE c = d
    <3>1. Len(requests'[c]) = Len(requests[c]) - 1
      BY <2>1, <2>2, <2>3
    <3> QED
      BY <1>0, <3>1 DEF Written
  <2>4. CASE c # d
    BY <1>0, <2>1, <2>4 DEF Written
  <2> QED
    BY <2>3, <2>4
<1>3. CASE Answered \/ Arrive \/ NoMessage
  BY <1>1, <1>3 DEF Answered, DelayOver, GiveUp, ReadHK, ReadData, ReadInterrupt, TakeReply,
     Arrive, NoMessage, channels
<1>4. CASE ServeSpi
  BY <1>2, <1>4 DEF ServeSpi, DropCommand, ServeCommand, ServeConfiguration, ServeHK,
     ServeReceive, Serve
<1>5. CASE ServePower
  BY <1>2, <1>5 DEF ServePower
<1>6. CASE ServeInterrupt
  BY <1>2, <1>6 DEF ServeInterrupt
<1> QED
  BY <1>3, <1>4, <1>5, <1>6 DEF Tick

LEMMA WritesOpen ==
  ASSUME TypeOK, OpenInv, [CliNext]_allVars, NEW c \in Channel, Written(c)
  PROVE  c \in open
<1>0. ~(requests' = requests)
  <2>1. requests[c] \in Seq(Request)
    BY DEF TypeOK, Request
  <2>2. Len(requests[c]) \in Nat
    BY <2>1, EmptySeq
  <2> QED
    BY <2>2 DEF Written
<1>1. CASE InitDevice \/ OtherCommand \/ NextCommand \/ EndOfInput \/ CloseSpi \/ UNCHANGED allVars
  BY <1>0, <1>1 DEF InitDevice, OtherCommand, NextCommand, EndOfInput, CloseSpi, allVars, vars,
     channels
<1>2. CASE SwitchOn \/ SwitchOnFails \/ DriverCommand \/ Check
  BY <1>2 DEF SwitchOn, SwitchOnFails, DriverCommand, Check, Goto, OpenInv
<1>3. CASE SwitchOff
  <2>1. CASE "power" \in open /\ PowerOff
    <3>1. Start /\ Write("power", "level", 0)
      BY <2>1 DEF PowerOff, SetLevel
    <3>2. "level" \in Op /\ 0 \in Nat /\ "power" \in Channel
      BY DEF Op
    <3>3. \A d \in Channel : d # "power" => requests'[d] = requests[d]
      BY <3>1, <3>2, WriteType
    <3>4. c # "power" => FALSE
      <4>1. requests[c] \in Seq(Request)
        BY DEF TypeOK, Request
      <4>2. Len(requests[c]) \in Nat
        BY <4>1, EmptySeq
      <4> QED
        BY <3>3, <4>2 DEF Written
    <3> QED
      BY <2>1, <3>4
  <2>2. CASE WriteFails \/ UNCHANGED <<vars, failed>>
    BY <1>0, <2>2 DEF WriteFails, vars, channels
  <2> QED
    BY <1>3, <2>1, <2>2 DEF SwitchOff
<1>4. CASE Outside
  BY <1>4, RadioWritesNothing DEF Outside
<1> QED
  BY <1>1, <1>2, <1>3, <1>4 DEF CliNext, Program

\* The program writes to no device that RADIO_InitDevice did not open or that it has
\* closed (radio_cli.c:331, 414): its cleanup looks at each handle.
THEOREM WritesOnlyOpen == CliSpec => OnlyOpen
<1>1. CliInit => OpenInv
  BY DEF CliInit, OpenInv
<1>2. OpenInv /\ [CliNext]_allVars => OpenInv'
  BY OpenStep
<1>3. TypeOK /\ OpenInv /\ [CliNext]_allVars =>
        [\A c \in Channel : Len(requests'[c]) > Len(requests[c]) => c \in open]_allVars
  BY WritesOpen DEF Written
<1>4. CliSpec => []TypeOK
  BY CliImplementsLink, TypeCorrect, PTL
<1> QED
  BY <1>1, <1>2, <1>3, <1>4, PTL DEF CliSpec, OnlyOpen

-----------------------------------------------------------------------------
(* The end of the program                                                   *)

\* Whoever has called the driver has the power pin open until it is switched off.
OffInv ==
  /\ stage \in {"close", "off"} /\ calls > 0 => "power" \in open
  /\ stage = "init" => calls = 0
  /\ stage = "end" /\ calls > 0 /\ ~failed => wanted = 0

\* What the radio and the answer to a call leave alone.
LEMMA OutsideAsksNothing == ASSUME Answered \/ Arrive \/ Tick PROVE UNCHANGED <<calls, wanted>>
<1>1. CASE Answered \/ Arrive
  BY <1>1 DEF Answered, DelayOver, GiveUp, ReadHK, ReadData, ReadInterrupt, TakeReply, Arrive,
     hostVars, beliefs, losses
<1>2. CASE Tick
  BY <1>2 DEF Tick, NoMessage, ServeSpi, DropCommand, ServeCommand, ServeConfiguration, ServeHK,
     ServeReceive, ServePower, ServeInterrupt, Serve, Level, Take, Turn, hostVars, beliefs, losses
<1> QED
  BY <1>1, <1>2

LEMMA OffStep == ASSUME TypeOK, OpenInv, OffInv, [CliNext]_allVars PROVE OffInv'
<1> USE DEF OffInv, Goto
<1>1. CASE InitDevice
  BY <1>1 DEF InitDevice, AfterInit, vars, hostVars
<1>2. CASE SwitchOn \/ DriverCommand \/ OtherCommand \/ Check
  BY <1>2 DEF SwitchOn, DriverCommand, OtherCommand, Check
<1>3. CASE SwitchOnFails \/ NextCommand \/ EndOfInput
  BY <1>3 DEF SwitchOnFails, NextCommand, EndOfInput, OpenInv, WriteFails, vars, hostVars
<1>4. CASE CloseSpi
  BY <1>4 DEF CloseSpi, AfterClose, vars, hostVars
<1>5. CASE SwitchOff
  <2>1. stage' = "end"
    BY <1>5 DEF SwitchOff
  <2>2. CASE "power" \in open /\ PowerOff
    BY <2>1, <2>2 DEF PowerOff, SetLevel
  <2>3. CASE failed' = TRUE
    BY <2>1, <2>3
  <2>4. CASE "power" \notin open /\ UNCHANGED <<vars, failed>>
    BY <1>5, <2>1, <2>4 DEF SwitchOff, vars, hostVars
  <2> QED
    BY <1>5, <2>2, <2>3, <2>4 DEF SwitchOff
<1>6. CASE Outside
  BY <1>6, OutsideAsksNothing DEF Outside, cliVars
<1>7. CASE UNCHANGED allVars
  BY <1>7 DEF allVars, vars, cliVars, beliefs, losses, hostVars
<1> QED
  BY <1>1, <1>2, <1>3, <1>4, <1>5, <1>6, <1>7 DEF CliNext, Program

\* Whatever the user typed and whichever call failed or gave up, a program that ended leaves the
\* radio off (radio_cli.c:414), unless the write of the power pin failed.
THEOREM EndsOff == CliSpec => []LeavesOff
<1>1. CliInit => OpenInv /\ OffInv
  BY DEF CliInit, Init, OpenInv, OffInv
<1>2. OpenInv /\ [CliNext]_allVars => OpenInv'
  BY OpenStep
<1>3. TypeOK /\ OpenInv /\ OffInv /\ [CliNext]_allVars => OffInv'
  BY OffStep
<1>4. CliSpec => []TypeOK /\ []PowerSettled
  BY CliImplementsLink, TypeCorrect, PowerSettles, PTL
<1>5. OffInv /\ PowerSettled => LeavesOff
  BY DEF OffInv, PowerSettled, LeavesOff
<1> QED
  BY <1>1, <1>2, <1>3, <1>4, <1>5, PTL DEF CliSpec
=============================================================================
