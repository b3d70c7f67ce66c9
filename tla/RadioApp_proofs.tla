-------------------------- MODULE RadioApp_proofs --------------------------
(***************************************************************************)
(* Proofs about RadioApp for every counter width and every number of        *)
(* driver handles.  IInv is the inductive invariant: no handle is closed    *)
(* twice because OpenMeansHeld holds, and nothing leaks over a disable      *)
(* because EnabledMeansReady says that everything is open; the mode that is  *)
(* read catches up because replies are read in the order they were given.   *)
(***************************************************************************)
EXTENDS RadioApp, TLAPS

\* Of the cached mode and the modes that wait behind it, only the first `behind` may be
\* older than the radio's.
CaughtUp ==
  /\ behind <= Len(waiting) + 1
  /\ \A i \in 1 .. Len(waiting) : i >= behind => waiting[i] = radioMode
  /\ ModeCatchesUp

IInv ==
  /\ TypeOK
  /\ phase = "start" => ~enabled /\ isOpen = [d \in Device |-> FALSE]
  /\ EnabledMeansReady
  /\ OpenMeansHeld
  /\ NoLeakWithoutFailure
  /\ CaughtUp

\* A counter that is incremented stays a counter: it wraps.
LEMMA IncType == \A c \in Counter : Inc(c) \in Counter
BY CounterModAssumption DEF Counter, Inc

LEMMA ZeroType == 0 \in Counter
BY CounterModAssumption DEF Counter

\* Facts about the counters that hold after each way a handler counts.
CountersOK == /\ cmdCount \in Counter /\ cmdErr \in Counter
              /\ devCount \in Counter /\ devErr \in Counter

\* What the caller of a handler does to the loop.
Framed == /\ phase' \in {"loop", "exited"} /\ runStatus' = runStatus

\* A handler that only counts keeps the invariant.
LEMMA QuietStep ==
  ASSUME IInv, CountersOK',
         UNCHANGED <<interface, hkMode, radio, history>>,
         Framed
  PROVE  IInv'
BY DEF Framed, IInv, CountersOK, TypeOK, EnabledMeansReady, OpenMeansHeld,
       NoLeakWithoutFailure, CaughtUp, ModeCatchesUp, interface, radio, history

\* When all that waits may be old, nothing is promised of it.
LEMMA OutdateCatchesUp ==
  ASSUME waiting' \in Seq(Reply), Len(waiting') <= MaxWaiting, Outdate
  PROVE  CaughtUp' /\ behind' \in 0 .. MaxWaiting + 1
BY MaxWaitingAssumption DEF Outdate, CaughtUp, ModeCatchesUp

LEMMA RejectCounts == ASSUME CountersOK, RejectCommand PROVE CountersOK'
BY IncType DEF CountersOK, RejectCommand

LEMMA AcceptCounts ==
  ASSUME CountersOK, NEW ok \in BOOLEAN, AcceptCommand(ok) PROVE CountersOK'
BY IncType DEF CountersOK, AcceptCommand

LEMMA EnableStep == ASSUME IInv, EnableAccepted, Framed PROVE IInv'
<1>1. PICK opened \in InitPrefix, powered \in BOOLEAN :
        /\ powered => opened = Device
        /\ InitDevice(opened)
        /\ WritePower(1, powered)
        /\ enabled' = (opened = Device /\ powered)
        /\ AcceptCommand(opened = Device /\ powered)
        /\ enableFailed' = (enableFailed \/ ~(opened = Device /\ powered))
  BY DEF EnableAccepted, EnableSucceeds
<1>2. CountersOK'
  BY <1>1, AcceptCounts DEF IInv, TypeOK, CountersOK
<1>3. opened \subseteq Device
  BY DEF InitPrefix, Device
<1>4. /\ isOpen' = [d \in Device |-> d \in opened]
      /\ held' = [d \in Device |-> IF d \in opened THEN held[d] + 1 ELSE held[d]]
      /\ \A d \in opened : held[d] < MaxOpen
  BY <1>1 DEF InitDevice
<1>5. held' \in [Device -> 0 .. MaxOpen]
  BY <1>3, <1>4, MaxOpenAssumption DEF IInv, TypeOK
<1>6. pin' \in {0, 1} /\ (powered => pin' = 1)
  BY <1>1 DEF WritePower, IInv, TypeOK
<1>7. TypeOK'
  <2>1. enabled' \in BOOLEAN /\ enableFailed' \in BOOLEAN
    BY <1>1, Zenon
  <2>2. isOpen' \in [Device -> BOOLEAN]
    BY <1>4
  <2>3. UNCHANGED <<hkMode, radioMode, waiting, behind>> /\ Framed
    BY DEF EnableAccepted, radio
  <2> QED
    BY <1>2, <1>5, <1>6, <2>1, <2>2, <2>3 DEF IInv, TypeOK, CountersOK, Framed
<1>8. EnabledMeansReady'
  BY <1>1, <1>4, <1>6 DEF EnabledMeansReady
<1>9. OpenMeansHeld'
  BY <1>3, <1>4, MaxOpenAssumption DEF OpenMeansHeld, IInv, TypeOK
<1>10. NoLeakWithoutFailure'
  <2>1. SUFFICES ASSUME ~enableFailed'
                 PROVE  \A d \in Device : held'[d] = (IF enabled' THEN 1 ELSE 0)
    BY DEF NoLeakWithoutFailure
  <2>2. ~enableFailed /\ opened = Device /\ powered
    BY <1>1, <2>1
  <2>3. enabled'
    BY <1>1, <2>2
  <2>4. \A d \in Device : held[d] = 0
    BY <2>2 DEF IInv, NoLeakWithoutFailure, EnableAccepted
  <2> QED BY <1>4, <2>2, <2>3, <2>4
<1>11. CaughtUp'
  BY DEF IInv, CaughtUp, ModeCatchesUp, EnableAccepted, radio
<1> QED BY <1>7, <1>8, <1>9, <1>10, <1>11 DEF IInv, Framed

\* What is left in the channel when the power goes is no more than there was.
LEMMA PowerCutWaiting ==
  ASSUME waiting \in Seq(Reply), Len(waiting) <= MaxWaiting, WaitingAfterPower
  PROVE  waiting' \in Seq(Reply) /\ Len(waiting') <= MaxWaiting
<1>1. CASE pin = 1 /\ pin' = 0
  <2>1. PICK n \in 0 .. Len(waiting) : \E k \in 0 .. Len(waiting) - n :
          waiting' = SubSeq(waiting, 1, n)
                       \o [i \in 1 .. k |-> Asleep(waiting[Len(waiting) - k + i])]
    BY <1>1 DEF WaitingAfterPower
  <2>2. PICK k \in 0 .. Len(waiting) - n :
          waiting' = SubSeq(waiting, 1, n)
                       \o [i \in 1 .. k |-> Asleep(waiting[Len(waiting) - k + i])]
    BY <2>1
  <2> DEFINE kept == SubSeq(waiting, 1, n)
             late == [i \in 1 .. k |-> Asleep(waiting[Len(waiting) - k + i])]
  <2>3. kept \in Seq(Reply) /\ Len(kept) = n
    OBVIOUS
  <2>4. \A i \in 1 .. k : Asleep(waiting[Len(waiting) - k + i]) \in Reply
    BY DEF Asleep, Reply, Mode
  <2>5. late \in Seq(Reply) /\ Len(late) = k
    BY <2>4
  <2> HIDE DEF kept, late
  <2>6. kept \o late \in Seq(Reply) /\ Len(kept \o late) = n + k
    BY <2>3, <2>5
  <2>7. waiting' = kept \o late
    BY <2>2 DEF kept, late
  <2> QED BY <2>6, <2>7, MaxWaitingAssumption
<1>2. CASE ~(pin = 1 /\ pin' = 0)
  BY <1>2 DEF WaitingAfterPower
<1> QED BY <1>1, <1>2

LEMMA DisableStep == ASSUME IInv, DisableAccepted, Framed PROVE IInv'
<1>1. CountersOK'
  BY AcceptCounts DEF IInv, TypeOK, CountersOK, DisableAccepted
<1>2. /\ isOpen' = [d \in Device |-> FALSE]
      /\ held' = [d \in Device |-> IF isOpen[d] THEN held[d] - 1 ELSE held[d]]
      /\ enabled' = FALSE /\ UNCHANGED <<hkMode, enableFailed>>
  BY DEF DisableAccepted, CloseDevices
<1>3. pin' \in {0, 1}
  BY DEF DisableAccepted, WritePower, IInv, TypeOK
<1>4. radioMode' \in Mode
  BY DEF DisableAccepted, ModeAfterPower, IInv, TypeOK, Mode
<1>5. held' \in [Device -> 0 .. MaxOpen]
  BY <1>2, MaxOpenAssumption DEF IInv, TypeOK, OpenMeansHeld
<1>9. waiting' \in Seq(Reply) /\ Len(waiting') <= MaxWaiting
  BY PowerCutWaiting DEF DisableAccepted, IInv, TypeOK
<1>10. CaughtUp' /\ behind' \in 0 .. MaxWaiting + 1
  BY <1>9, OutdateCatchesUp DEF DisableAccepted
<1>6. TypeOK'
  BY <1>1, <1>2, <1>3, <1>4, <1>5, <1>9, <1>10 DEF IInv, TypeOK, CountersOK, Framed
<1>7. EnabledMeansReady' /\ OpenMeansHeld'
  BY <1>2 DEF EnabledMeansReady, OpenMeansHeld
<1>8. NoLeakWithoutFailure'
  BY <1>2 DEF NoLeakWithoutFailure, IInv, EnabledMeansReady, DisableAccepted
<1> QED BY <1>6, <1>7, <1>8, <1>10 DEF IInv, Framed

LEMMA ConfigureStep ==
  ASSUME IInv, NEW mode, ConfigureAccepted(mode), Framed PROVE IInv'
<1>1. PICK ok \in BOOLEAN : AcceptCommand(ok) /\ SetConfiguration(mode, ok)
  BY DEF ConfigureAccepted
<1>2. CountersOK'
  BY <1>1, AcceptCounts DEF IInv, TypeOK, CountersOK
<1>3. radioMode' \in Mode
  BY <1>1 DEF ConfigureAccepted, MayConfigure, SetConfiguration, IInv, TypeOK
<1>4. CaughtUp' /\ behind' \in 0 .. MaxWaiting + 1
  BY OutdateCatchesUp DEF ConfigureAccepted, IInv, TypeOK
<1> QED
  BY <1>2, <1>3, <1>4 DEF IInv, TypeOK, CountersOK, ConfigureAccepted, Framed, interface,
     EnabledMeansReady, OpenMeansHeld, NoLeakWithoutFailure

\* Replies are read in the order they were given: a successful request takes one that may
\* be old, if any may be, and what it adds is of now.
LEMMA RequestCatchesUp ==
  ASSUME IInv, NEW ok \in BOOLEAN, RequestHK(ok), radioMode' = radioMode
  PROVE  /\ CaughtUp' /\ behind' \in 0 .. MaxWaiting + 1 /\ hkMode' \in Octet
         /\ waiting' \in Seq(Reply) /\ Len(waiting') <= MaxWaiting
<1> DEFINE Replies(answer) == waiting \o answer
<1>1. PICK answer \in {<<>>, <<radioMode>>} :
        /\ ok => Replies(answer) # <<>>
        /\ \/ Replies(answer) # <<>> /\ waiting' = Tail(Replies(answer))
           \/ ~ok /\ waiting' = Replies(answer)
        /\ Len(waiting') <= MaxWaiting
        /\ hkMode' \in CachedMode(ok, Replies(answer))
        /\ IF ok THEN behind' = (IF behind = 0 THEN 0 ELSE behind - 1) ELSE Outdate
  BY DEF RequestHK
<1> DEFINE replies == Replies(answer)
<1>2. /\ waiting \in Seq(Reply) /\ radioMode \in Mode /\ hkMode \in Octet
      /\ behind \in 0 .. MaxWaiting + 1 /\ behind <= Len(waiting) + 1
      /\ \A i \in 1 .. Len(waiting) : i >= behind => waiting[i] = radioMode
  BY DEF IInv, TypeOK, CaughtUp
<1>3. /\ answer \in Seq(Reply) /\ Len(answer) \in {0, 1}
      /\ \A i \in 1 .. Len(answer) : answer[i] = radioMode
  <2>1. radioMode \in Reply
    BY <1>2 DEF Reply
  <2>2. CASE answer = <<>>
    BY <2>2
  <2>3. CASE answer = <<radioMode>>
    BY <2>1, <2>3
  <2> QED BY <1>1, <2>2, <2>3
<1>4. /\ replies \in Seq(Reply) /\ Len(replies) = Len(waiting) + Len(answer)
      /\ \A i \in 1 .. Len(replies) : i >= behind => replies[i] = radioMode
  <2>1. replies \in Seq(Reply) /\ Len(replies) = Len(waiting) + Len(answer)
    BY <1>2, <1>3
  <2>2. ASSUME NEW i \in 1 .. Len(replies), i >= behind PROVE replies[i] = radioMode
    <3>1. CASE i <= Len(waiting)
      BY <1>2, <1>3, <2>1, <2>2, <3>1
    <3>2. CASE i > Len(waiting)
      BY <1>2, <1>3, <2>1, <3>2
    <3> QED BY <1>2, <2>1, <3>1, <3>2
  <2> QED BY <2>1, <2>2
<1>5. /\ ok => replies # <<>>
      /\ \/ replies # <<>> /\ waiting' = Tail(replies)
         \/ ~ok /\ waiting' = replies
      /\ Len(waiting') <= MaxWaiting
      /\ hkMode' \in CachedMode(ok, replies)
      /\ IF ok THEN behind' = (IF behind = 0 THEN 0 ELSE behind - 1) ELSE Outdate
  BY <1>1
<1> HIDE DEF replies, Replies
<1>6. waiting' \in Seq(Reply)
  BY <1>4, <1>5
<1>7. CASE ~ok
  <2>1. CaughtUp' /\ behind' \in 0 .. MaxWaiting + 1
    BY <1>5, <1>6, <1>7, OutdateCatchesUp
  <2>2. hkMode' \in Octet
    BY <1>2, <1>5, <1>7 DEF CachedMode
  <2> QED BY <1>5, <1>6, <2>1, <2>2
<1>8. CASE ok
  <2>1. /\ replies # <<>> /\ waiting' = Tail(replies)
        /\ behind' = (IF behind = 0 THEN 0 ELSE behind - 1)
        /\ hkMode' \in CachedMode(TRUE, replies)
    BY <1>5, <1>8
  <2>2. /\ Len(replies) \in Nat \ {0} /\ Len(waiting') = Len(replies) - 1
        /\ \A i \in 1 .. Len(waiting') : waiting'[i] = replies[i + 1]
        /\ Head(replies) = replies[1] /\ Head(replies) \in Reply
    BY <1>4, <2>1
  <2>3. hkMode' \in Octet
    BY <2>1, <2>2 DEF CachedMode, Reply, Octet
  <2>4. behind' = 0 => hkMode' = radioMode
    <3>1. SUFFICES ASSUME behind' = 0 PROVE hkMode' = radioMode
      OBVIOUS
    <3>2. replies[1] = radioMode
      BY <1>2, <1>4, <2>1, <2>2, <3>1
    <3> QED BY <1>2, <2>1, <2>2, <3>2 DEF CachedMode, Mode
  <2>5. behind' \in 0 .. MaxWaiting + 1
    BY <1>2, <2>1, MaxWaitingAssumption
  <2>6. behind' <= Len(waiting') + 1
    BY <1>2, <1>3, <1>4, <2>1, <2>2, MaxWaitingAssumption
  <2>7. \A i \in 1 .. Len(waiting') : i >= behind' => waiting'[i] = radioMode
    BY <1>2, <1>4, <2>1, <2>2, MaxWaitingAssumption
  <2> QED BY <1>5, <1>6, <2>3, <2>4, <2>5, <2>6, <2>7 DEF CaughtUp, ModeCatchesUp
<1> QED BY <1>7, <1>8

LEMMA HousekeepingStep == ASSUME IInv, ReportHousekeeping, Framed PROVE IInv'
<1>1. CountersOK'
  BY IncType DEF ReportHousekeeping, CountersOK, IInv, TypeOK, counters
<1>2. CASE enabled
  <2>1. PICK ok \in BOOLEAN :
          RequestHK(ok)
    BY <1>2 DEF ReportHousekeeping
  <2>2. UNCHANGED <<interface, radioMode, enableFailed>>
    BY <1>2 DEF ReportHousekeeping
  <2>3. /\ CaughtUp' /\ behind' \in 0 .. MaxWaiting + 1 /\ hkMode' \in Octet
        /\ waiting' \in Seq(Reply) /\ Len(waiting') <= MaxWaiting
    BY <2>1, <2>2, RequestCatchesUp
  <2>4. TypeOK'
    BY <1>1, <2>2, <2>3 DEF IInv, TypeOK, CountersOK, Framed, interface
  <2> QED
    BY <2>2, <2>3, <2>4 DEF IInv, Framed, interface, EnabledMeansReady, OpenMeansHeld,
       NoLeakWithoutFailure
<1>3. CASE ~enabled
  BY <1>1, <1>3, QuietStep DEF ReportHousekeeping
<1> QED BY <1>2, <1>3

\* A service leaves the mode as it is, and counts the cached one as old when the channel
\* changed.
LEMMA ServiceStep == ASSUME IInv, Service, Framed PROVE IInv'
<1>1. CountersOK'
  BY DEF Service, CountersOK, IInv, TypeOK
<1>2. UNCHANGED <<interface, hkMode, radioMode, enableFailed>>
  BY DEF Service
<1>3. waiting' \in Seq(Reply) /\ Len(waiting') <= MaxWaiting
  <2>1. CASE ServesUplink
    <3>1. PICK n \in 0 .. Len(waiting), k \in 0 .. MaxWaiting :
            waiting' = SubSeq(waiting, n + 1, Len(waiting)) \o [i \in 1 .. k |-> "DATA"]
      BY <2>1 DEF Service, ReceiveData
    <3> DEFINE data == [i \in 1 .. k |-> "DATA"]
               rest == SubSeq(waiting, n + 1, Len(waiting))
    <3>2. data \in Seq(Reply)
      BY MaxWaitingAssumption DEF Reply
    <3>3. rest \in Seq(Reply)
      BY DEF IInv, TypeOK
    <3>4. waiting' = rest \o data
      BY <3>1
    <3> HIDE DEF data, rest
    <3> QED BY <2>1, <3>2, <3>3, <3>4 DEF Service, ReceiveData
  <2>2. CASE ~ServesUplink
    BY <2>2 DEF Service, IInv, TypeOK
  <2> QED BY <2>1, <2>2
<1>4. CaughtUp' /\ behind' \in 0 .. MaxWaiting + 1
  <2>1. CASE waiting' = waiting
    BY <1>2, <2>1 DEF Service, IInv, TypeOK, CaughtUp, ModeCatchesUp
  <2>2. CASE waiting' # waiting
    BY <1>3, <2>2, OutdateCatchesUp DEF Service
  <2> QED BY <2>1, <2>2
<1> QED
  BY <1>1, <1>2, <1>3, <1>4 DEF IInv, TypeOK, CountersOK, Framed, interface,
     EnabledMeansReady, OpenMeansHeld, NoLeakWithoutFailure

LEMMA GroundCommandStep ==
  ASSUME IInv, NEW m \in Message, ProcessGroundCommand(m), Framed PROVE IInv'
<1>0. CountersOK
  BY DEF IInv, TypeOK, CountersOK
<1>1. CASE Noop
  <2>1. CountersOK'
    BY <1>0, <1>1, IncType DEF Noop, CountersOK
  <2> QED BY <1>1, <2>1, QuietStep DEF Noop
<1>2. CASE Reset
  <2>1. CountersOK'
    BY <1>2, ZeroType DEF Reset, ResetCounters, CountersOK
  <2> QED BY <1>2, <2>1, QuietStep DEF Reset
<1>3. CASE EnableAccepted
  BY <1>3, EnableStep
<1>4. CASE EnableRejected \/ DisableRejected
  <2>1. CountersOK'
    BY <1>0, <1>4, RejectCounts DEF EnableRejected, DisableRejected
  <2> QED BY <1>4, <2>1, QuietStep DEF EnableRejected, DisableRejected
<1>5. CASE DisableAccepted
  BY <1>5, DisableStep
<1>6. CASE ConfigureAccepted(m.mode)
  BY <1>6, ConfigureStep
<1>7. CASE ConfigureRejected(m.mode)
  <2>1. CountersOK'
    BY <1>0, <1>7, IncType DEF ConfigureRejected, CountersOK
  <2> QED BY <1>7, <2>1, QuietStep DEF ConfigureRejected
<1>8. CASE Service
  BY <1>8, ServiceStep
<1>9. CASE RejectCommand /\ UNCHANGED <<interface, hkMode, radio, history>>
  BY <1>0, <1>9, RejectCounts, QuietStep
<1> QED
  BY <1>1, <1>2, <1>3, <1>4, <1>5, <1>6, <1>7, <1>8, <1>9
     DEF ProcessGroundCommand, Enable, Disable, Configure

LEMMA MessageStep == ASSUME IInv, HandleMessage PROVE IInv'
<1>1. PICK m \in Message : ProcessCommandPacket(m)
  BY DEF HandleMessage
<1>0. CountersOK
  BY DEF IInv, TypeOK, CountersOK
<1>2. Framed
  BY <1>1 DEF HandleMessage, Looping, Framed
<1>3. CASE ProcessGroundCommand(m)
  BY <1>2, <1>3, GroundCommandStep
<1>4. CASE ReportHousekeeping
  BY <1>2, <1>4, HousekeepingStep
<1>5. CASE RejectCommand /\ UNCHANGED <<interface, hkMode, radio, history>>
  BY <1>2, <1>5, <1>0, RejectCounts, QuietStep
<1> QED
  BY <1>1, <1>3, <1>4, <1>5 DEF ProcessCommandPacket, ProcessTelemetryRequest

LEMMA InitInv == Init => IInv
<1> SUFFICES ASSUME Init PROVE IInv
  OBVIOUS
<1>1. TypeOK
  <2>1. isOpen \in [Device -> BOOLEAN] /\ held \in [Device -> 0 .. MaxOpen]
    BY MaxOpenAssumption DEF Init
  <2>2. waiting = <<>> /\ Len(waiting) = 0 /\ waiting \in Seq(Reply)
    BY DEF Init
  <2>3. behind \in 0 .. MaxWaiting + 1 /\ Len(waiting) <= MaxWaiting
    BY <2>2, MaxWaitingAssumption DEF Init
  <2>4. hkMode \in Octet /\ radioMode \in Mode /\ pin \in {0, 1}
    BY DEF Init, Mode, Octet
  <2> QED BY <2>1, <2>2, <2>3, <2>4, ZeroType DEF Init, TypeOK
<1> QED
  BY <1>1 DEF Init, IInv, EnabledMeansReady, OpenMeansHeld, NoLeakWithoutFailure,
     CaughtUp, ModeCatchesUp

LEMMA StepInv == IInv /\ [Next]_vars => IInv'
<1> SUFFICES ASSUME IInv, [Next]_vars PROVE IInv'
  OBVIOUS
<1>0. CountersOK
  BY DEF IInv, TypeOK, CountersOK
<1>1. CASE AppInit
  <2>1. TypeOK'
    BY <1>1, ZeroType DEF AppInit, ResetCounters, IInv, TypeOK, radio, history
  <2> QED
    BY <1>1, <2>1 DEF AppInit, IInv, EnabledMeansReady, OpenMeansHeld,
       NoLeakWithoutFailure, CaughtUp, ModeCatchesUp, radio, history
<1>2. CASE HandleMessage
  BY <1>2, MessageStep
<1>3. CASE PipeError \/ ExitRequest
  BY <1>3 DEF PipeError, ExitRequest, IInv, TypeOK, EnabledMeansReady, OpenMeansHeld,
     NoLeakWithoutFailure, CaughtUp, ModeCatchesUp, counters, interface, radio, history
<1>4. CASE Shutdown
  <2>1. Framed
    BY <1>4 DEF Shutdown, IInv, TypeOK, Framed
  <2>2. CASE DisableAccepted
    BY <2>1, <2>2, DisableStep
  <2>3. CASE DisableRejected
    BY <1>0, <2>1, <2>3, RejectCounts, QuietStep DEF DisableRejected
  <2> QED BY <1>4, <2>2, <2>3 DEF Shutdown, Disable
<1>5. CASE UNCHANGED vars
  BY <1>5 DEF vars, IInv, TypeOK, EnabledMeansReady, OpenMeansHeld,
     NoLeakWithoutFailure, CaughtUp, ModeCatchesUp, counters, interface, radio, history
<1> QED BY <1>1, <1>2, <1>3, <1>4, <1>5 DEF Next

\* At every moment of every execution IInv holds.
THEOREM Invariance == Spec => []IInv
BY InitInv, StepInv, PTL DEF Spec

\* The variables keep their types: the counters wrap inside their width and no
\* device is opened more often than the library allows or closed too often.
THEOREM TypeCorrect == Spec => []TypeOK
BY Invariance, PTL DEF IInv

\* An application that reports the device enabled holds an open SPI device, two
\* open GPIOs and a high power pin.
THEOREM EnabledReady == Spec => []EnabledMeansReady
BY Invariance, PTL DEF IInv

\* Unless an enable command failed, exactly the handles of the current enable
\* are held.
THEOREM NoLeak == Spec => []NoLeakWithoutFailure
BY Invariance, PTL DEF IInv

\* The cached mode is the radio's as soon as so many housekeeping requests have succeeded
\* in a row that every reply left behind by an earlier call was read, and one more.
THEOREM ModeRecovers == Spec => []ModeCatchesUp
BY Invariance, PTL DEF IInv, CaughtUp

\* The telemetry counters account for every change of the hardware interface,
\* for every width of the counters.
THEOREM InterfaceCounted == Spec => InterfaceChangesAreCounted
<1> DEFINE Counted ==
      interface' # interface =>
        /\ cmdCount' = Inc(cmdCount) /\ cmdErr' = cmdErr
        /\ \/ devCount' = Inc(devCount) /\ devErr' = devErr
           \/ devCount' = devCount /\ devErr' = Inc(devErr)
<1>1. ASSUME NEW ok \in BOOLEAN, AcceptCommand(ok) PROVE Counted
  BY <1>1 DEF AcceptCommand
<1>2. ASSUME IInv, Next PROVE Counted
  <2>1. CASE AppInit
    <3>1. enabled' = enabled
      BY <1>2, <2>1, Zenon DEF AppInit, IInv, TypeOK
    <3>2. UNCHANGED <<isOpen, held, pin>>
      BY <1>2, <2>1 DEF AppInit, IInv
    <3> QED BY <3>1, <3>2 DEF interface
  <2>2. CASE PipeError \/ ExitRequest
    BY <2>2 DEF PipeError, ExitRequest
  <2>3. ASSUME Enable \/ Disable PROVE Counted
    <3>1. CASE EnableAccepted
      BY <1>1, <3>1 DEF EnableAccepted, EnableSucceeds
    <3>2. CASE DisableAccepted
      BY <1>1, <3>2 DEF DisableAccepted
    <3> QED BY <2>3, <3>1, <3>2 DEF Enable, Disable, EnableRejected, DisableRejected
  <2>4. CASE HandleMessage
    <3>1. PICK m \in Message : ProcessCommandPacket(m)
      BY <2>4 DEF HandleMessage
    <3>2. Enable \/ Disable \/ UNCHANGED interface
      BY <3>1 DEF ProcessCommandPacket, ProcessGroundCommand, ProcessTelemetryRequest,
         ReportHousekeeping, Noop, Reset, Service, Configure, ConfigureAccepted,
         ConfigureRejected
    <3> QED BY <2>3, <3>2
  <2> QED BY <1>2, <2>1, <2>2, <2>3, <2>4 DEF Next, Shutdown
<1>3. IInv /\ [Next]_vars => [Counted]_vars
  BY <1>2
<1> QED BY <1>3, Invariance, PTL DEF Spec, InterfaceChangesAreCounted

\* A refused message leaves the hardware, the radio and the other counters as they
\* were, for every width of the counters.
THEOREM RejectionHarmless == Spec => RejectionTouchesNothing
<1> DEFINE Untouched == UNCHANGED <<cmdCount, devCount, devErr, interface, hkMode, radio>>
           Harmless == cmdErr' # cmdErr /\ ~CountersCleared => Untouched
<1>1. ResetCounters => CountersCleared
  BY DEF ResetCounters, CountersCleared, counters
<1>2. ASSUME Enable \/ Disable PROVE cmdErr' = cmdErr \/ Untouched
  <2>1. CASE EnableAccepted \/ DisableAccepted
    BY <2>1 DEF EnableAccepted, DisableAccepted, AcceptCommand
  <2>2. CASE EnableRejected \/ DisableRejected
    BY <2>2 DEF EnableRejected, DisableRejected, RejectCommand
  <2> QED
    BY <1>2, <2>1, <2>2 DEF Enable, Disable
<1>3. ASSUME NEW m \in Message, ProcessCommandPacket(m)
      PROVE  cmdErr' = cmdErr \/ ResetCounters \/ Untouched
  <2>1. CASE Noop \/ Service \/ ReportHousekeeping \/ ConfigureAccepted(m.mode)
    BY <2>1 DEF Noop, Service, ReportHousekeeping, ConfigureAccepted, AcceptCommand, counters
  <2>2. CASE ConfigureRejected(m.mode)
    BY <2>2 DEF ConfigureRejected
  <2>3. CASE RejectCommand /\ UNCHANGED <<interface, hkMode, radio, history>>
    BY <2>3 DEF RejectCommand
  <2> QED
    BY <1>2, <1>3, <2>1, <2>2, <2>3 DEF ProcessCommandPacket, ProcessGroundCommand,
       ProcessTelemetryRequest, Reset, Configure
<1>4. ASSUME Next PROVE Harmless
  <2>1. CASE HandleMessage
    BY <1>1, <1>3, <2>1 DEF HandleMessage
  <2>2. CASE AppInit
    BY <1>1, <2>2 DEF AppInit
  <2>3. CASE PipeError \/ ExitRequest
    BY <2>3 DEF PipeError, ExitRequest, counters
  <2>4. CASE Shutdown
    BY <1>2, <2>4 DEF Shutdown
  <2> QED
    BY <1>4, <2>1, <2>2, <2>3, <2>4 DEF Next
<1>5. [Next]_vars => [Harmless]_vars
  BY <1>4
<1> QED
  BY <1>5, PTL DEF Spec, RejectionTouchesNothing
=============================================================================
