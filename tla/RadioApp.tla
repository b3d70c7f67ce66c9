------------------------------ MODULE RadioApp ------------------------------
(***************************************************************************)
(* The flight application of radio_app.c: its main loop, its command and    *)
(* request handlers, and what they do to the driver handles, the power pin  *)
(* and the mode of the radio.  One action is one pass of the main loop, the *)
(* whole handler of one software-bus message.  The outcome of every driver  *)
(* call is a choice.  What RADIO_ServiceUplink and RADIO_ServiceDownlink do *)
(* inside is the subject of RadioUplink and RadioDownlink; here they only   *)
(* move the device counters.  Operators named Faulty... are plausible bugs, *)
(* to show which property notices each; no action uses them.                *)
(***************************************************************************)
EXTENDS Naturals, Sequences

CONSTANTS
  CounterMod,  \* the counters are uint8: 256 in the program
  MaxOpen,     \* driver handles the hardware library hands out per device
  MaxWaiting   \* bound on the replies that wait in the SPI channel

ASSUME CounterModAssumption == CounterMod \in Nat \ {0, 1}
ASSUME MaxOpenAssumption == MaxOpen \in Nat \ {0}
ASSUME MaxWaitingAssumption == MaxWaiting \in Nat

VARIABLES
  phase,       \* "start", "loop" (the while of RADIO_AppMain), "exited"
  runStatus,   \* RADIO_AppData.RunStatus: "run", "exit" or "error"
  enabled,     \* HkTelemetryPkt.DeviceEnabled
  cmdCount, cmdErr, devCount, devErr,  \* the four counters of HkTelemetryPkt
  hkMode,      \* HkTelemetryPkt.DeviceHK.Mode, the cached mode of the radio
  isOpen,      \* the isOpen flags of RadioSpi, RadioPowerGpio, RadioInterruptGpio
  held,        \* handles the driver library has open (external)
  pin,         \* level of the power GPIO (external)
  radioMode,   \* mode of the radio itself (external)
  waiting,     \* replies no call has read, oldest first (external)
  enableFailed,\* history: an enable command has failed
  behind       \* history: successful requests until the cached mode must be current

counters  == <<cmdCount, cmdErr, devCount, devErr>>
interface == <<enabled, isOpen, held, pin>>
radio     == <<radioMode, waiting>>
history   == <<enableFailed, behind>>
vars == <<phase, runStatus, counters, interface, hkMode, radio, history>>

Counter == 0 .. CounterMod - 1
Mode    == {"SLEEP", "TX", "RX", "DUPLEX"}
Device  == {"spi", "power", "interrupt"}

\* What the cached mode may be: nothing checks the octet of a reply.
Octet == Mode \cup {"OTHER"}

\* A reply: the mode in one to RADIO_RequestHK, or one to RADIO_ReceiveData.
Reply == Mode \cup {"DATA"}

CommandCode == {"NOOP", "RESET", "ENABLE", "DISABLE", "CONFIG", "SERVICE", "UNKNOWN"}
RequestCode == {"HK", "SERVICE_REQ", "UNKNOWN"}

\* What a message carries, as far as a handler looks: its id, its code, the mode
\* of a CONFIG command, and whether its length is the one of its command, which
\* only ground commands are asked.
Message ==
  [mid : {"CMD"}, code : CommandCode \ {"CONFIG"}, lengthOk : {TRUE}, mode : {"none"}]
    \cup [mid : {"CMD"}, code : {"CONFIG"}, lengthOk : {TRUE}, mode : Mode \cup {"INVALID"}]
    \cup [mid : {"CMD"}, code : CommandCode, lengthOk : {FALSE}, mode : {"none"}]
    \cup [mid : {"REQ_HK"}, code : RequestCode, lengthOk : {TRUE}, mode : {"none"}]
    \cup [mid : {"OTHER"}, code : {"UNKNOWN"}, lengthOk : {TRUE}, mode : {"none"}]

\* A counter that never wraps.
FaultyInc(c) == c + 1

\* uint8 increment
Inc(c) == (c + 1) % CounterMod

\* The data is static, so zero, before RADIO_AppMain runs.  The radio powers up
\* in DUPLEX and the power pin may have either level.
Init ==
  /\ phase = "start" /\ runStatus = "run"
  /\ cmdCount = 0 /\ cmdErr = 0 /\ devCount = 0 /\ devErr = 0
  /\ enabled = FALSE /\ hkMode = "SLEEP"
  /\ isOpen = [d \in Device |-> FALSE]
  /\ held = [d \in Device |-> 0]
  /\ pin \in {0, 1} /\ radioMode = "DUPLEX" /\ waiting = <<>>
  /\ enableFailed = FALSE /\ behind = 1

-----------------------------------------------------------------------------
(* Counting                                                                 *)

ResetCounters ==
  cmdErr' = 0 /\ cmdCount' = 0 /\ devErr' = 0 /\ devCount' = 0

\* A rejected command also counts a device error.
FaultyRejectCommand ==
  cmdErr' = Inc(cmdErr) /\ devErr' = Inc(devErr) /\ UNCHANGED <<cmdCount, devCount>>

RejectCommand ==
  cmdErr' = Inc(cmdErr) /\ UNCHANGED <<cmdCount, devCount, devErr>>

\* The failure of the device is not counted.
FaultyAcceptCommand(ok) ==
  /\ cmdCount' = Inc(cmdCount) /\ UNCHANGED <<cmdErr, devErr>>
  /\ devCount' = (IF ok THEN Inc(devCount) ELSE devCount)

\* An accepted command, and the one device outcome it had.
AcceptCommand(ok) ==
  /\ cmdCount' = Inc(cmdCount) /\ UNCHANGED cmdErr
  /\ devCount' = (IF ok THEN Inc(devCount) ELSE devCount)
  /\ devErr' = (IF ok THEN devErr ELSE Inc(devErr))

-----------------------------------------------------------------------------
(* The driver, as radio_device.c uses it                                    *)

\* RADIO_InitDevice opens the three devices in this order and stops at the
\* first that fails: the sets of devices a call may leave open.
InitPrefix == {{}, {"spi"}, {"spi", "power"}, Device}

\* RADIO_InitDevice, having opened exactly the devices of opened.
InitDevice(opened) ==
  /\ opened \in InitPrefix
  /\ \A d \in opened : held[d] < MaxOpen
  /\ isOpen' = [d \in Device |-> d \in opened]
  /\ held' = [d \in Device |-> IF d \in opened THEN held[d] + 1 ELSE held[d]]

\* The interrupt line is forgotten when the devices are closed.
FaultyCloseDevices ==
  /\ held' = [d \in Device |-> IF isOpen[d] /\ d # "interrupt" THEN held[d] - 1 ELSE held[d]]
  /\ isOpen' = [d \in Device |-> FALSE]

\* spi_close_device and gpio_close of all that is open.
CloseDevices ==
  /\ held' = [d \in Device |-> IF isOpen[d] THEN held[d] - 1 ELSE held[d]]
  /\ isOpen' = [d \in Device |-> FALSE]

\* gpio_write on the power pin, as RADIO_PowerOn and RADIO_PowerOff call it.
WritePower(level, ok) == pin' = (IF ok THEN level ELSE pin)

\* The radio sleeps when its power goes, and keeps its mode otherwise.
ModeAfterPower == IF pin = 1 /\ pin' = 0 THEN "SLEEP" ELSE radioMode

\* RADIO_SetConfiguration: a powered radio takes the mode it is sent; after a
\* failed SPI write it may or may not have.
SetConfiguration(mode, ok) ==
  radioMode' \in (IF pin = 0 THEN {radioMode}
                  ELSE IF ok THEN {mode} ELSE {mode, radioMode})

\* All that waits, and what is cached, may be older than the radio is now.
Outdate == behind' = Len(waiting') + 1

\* Of the requests the radio has not looked at when its power goes, it drops the first
\* and answers the others after the next power-on, asleep.
Asleep(reply) == IF reply \in Mode THEN "SLEEP" ELSE reply

WaitingAfterPower ==
  IF pin = 1 /\ pin' = 0
  THEN \E n \in 0 .. Len(waiting) : \E k \in 0 .. Len(waiting) - n :
         waiting' = SubSeq(waiting, 1, n)
                      \o [i \in 1 .. k |-> Asleep(waiting[Len(waiting) - k + i])]
  ELSE UNCHANGED waiting

\* RADIO_ReceiveData, any number of times: each call takes what waits longest, and one
\* whose read fails leaves its reply behind.
ReceiveData ==
  /\ \E n \in 0 .. Len(waiting), k \in 0 .. MaxWaiting :
       waiting' = SubSeq(waiting, n + 1, Len(waiting)) \o [i \in 1 .. k |-> "DATA"]
  /\ Len(waiting') <= MaxWaiting

\* The status of RADIO_RequestHK is tested the wrong way round.
FaultyCachedMode(ok, replies) ==
  IF ok \/ replies = <<>> THEN {hkMode} ELSE Octet

\* The mode RADIO_RequestHK stores is that of the oldest reply; a reply of
\* RADIO_ReceiveData may pass for one, with any octet for a mode.
CachedMode(ok, replies) ==
  IF ~ok THEN {hkMode} ELSE IF Head(replies) = "DATA" THEN Octet ELSE {Head(replies)}

\* RADIO_RequestHK.  A radio that has yet to see its power-on drops the request.  A read
\* that fails may have taken a reply, and leaves it otherwise.
RequestHK(ok) ==
  \E answer \in {<<>>, <<radioMode>>} :
    LET replies == waiting \o answer
    IN  /\ ok => replies # <<>>
        /\ \/ replies # <<>> /\ waiting' = Tail(replies)
           \/ ~ok /\ waiting' = replies
        /\ Len(waiting') <= MaxWaiting
        /\ hkMode' \in CachedMode(ok, replies)
        /\ IF ok THEN behind' = (IF behind = 0 THEN 0 ELSE behind - 1) ELSE Outdate

-----------------------------------------------------------------------------
(* Handlers of the ground commands                                          *)

Noop ==
  /\ cmdCount' = Inc(cmdCount)
  /\ UNCHANGED <<cmdErr, devCount, devErr, interface, hkMode, radio, history>>

Reset ==
  /\ ResetCounters
  /\ UNCHANGED <<interface, hkMode, radio, history>>

\* The result of the power-on is not looked at.
FaultyEnableSucceeds(opened, powered) == opened = Device

EnableSucceeds(opened, powered) == opened = Device /\ powered

EnableAccepted ==
  /\ ~enabled
  /\ \E opened \in InitPrefix, powered \in BOOLEAN :
       LET ok == EnableSucceeds(opened, powered)
       IN  /\ powered => opened = Device
           /\ InitDevice(opened)
           /\ WritePower(1, powered)
           /\ enabled' = ok
           /\ AcceptCommand(ok)
           /\ enableFailed' = (enableFailed \/ ~ok)
  /\ UNCHANGED <<hkMode, radio, behind>>

EnableRejected ==
  /\ enabled
  /\ RejectCommand
  /\ UNCHANGED <<interface, hkMode, radio, history>>

Enable == EnableAccepted \/ EnableRejected

\* The result of RADIO_PowerOff is not looked at.
DisableAccepted ==
  /\ enabled
  /\ AcceptCommand(TRUE)
  /\ \E powered \in BOOLEAN : WritePower(0, powered)
  /\ radioMode' = ModeAfterPower /\ WaitingAfterPower /\ Outdate
  /\ CloseDevices
  /\ enabled' = FALSE
  /\ UNCHANGED <<hkMode, enableFailed>>

DisableRejected ==
  /\ ~enabled
  /\ RejectCommand
  /\ UNCHANGED <<interface, hkMode, radio, history>>

Disable == DisableAccepted \/ DisableRejected

MayConfigure(mode) == enabled /\ mode \in Mode

\* The two checks of RADIO_Configure are made one after the other, and each one
\* that fails counts an error.
ConfigureAccepted(mode) ==
  /\ MayConfigure(mode)
  /\ \E ok \in BOOLEAN : AcceptCommand(ok) /\ SetConfiguration(mode, ok)
  /\ UNCHANGED <<interface, hkMode, waiting, enableFailed>>
  /\ Outdate

ConfigureRejected(mode) ==
  /\ ~MayConfigure(mode)
  /\ cmdErr' = (IF ~enabled /\ mode \notin Mode THEN Inc(Inc(cmdErr)) ELSE Inc(cmdErr))
  /\ UNCHANGED <<cmdCount, devCount, devErr, interface, hkMode, radio, history>>

Configure(mode) == ConfigureAccepted(mode) \/ ConfigureRejected(mode)

\* RADIO_Service looks at the cached mode.
ServesUplink   == enabled /\ hkMode \in {"RX", "DUPLEX"}
ServesDownlink == enabled /\ hkMode \in {"TX", "DUPLEX"}

\* A poll counts any number of device errors, and a downlink any number of
\* frames sent.  Without a downlink the pipe is only emptied.  Only an uplink reads
\* replies.
Service ==
  /\ devErr' \in (IF ServesUplink \/ ServesDownlink THEN Counter ELSE {devErr})
  /\ devCount' \in (IF ServesDownlink THEN Counter ELSE {devCount})
  /\ IF ServesUplink THEN ReceiveData ELSE UNCHANGED waiting
  /\ IF waiting' = waiting THEN UNCHANGED behind ELSE Outdate
  /\ UNCHANGED <<cmdCount, cmdErr, interface, hkMode, radioMode, enableFailed>>

\* RADIO_VerifyCmdLength refuses a command of the wrong length before its handler.
ProcessGroundCommand(m) ==
  \/ /\ m.code # "UNKNOWN" /\ m.lengthOk
     /\ \/ m.code = "NOOP" /\ Noop
        \/ m.code = "RESET" /\ Reset
        \/ m.code = "ENABLE" /\ Enable
        \/ m.code = "DISABLE" /\ Disable
        \/ m.code = "CONFIG" /\ Configure(m.mode)
        \/ m.code = "SERVICE" /\ Service
  \/ /\ m.code = "UNKNOWN" \/ ~m.lengthOk
     /\ RejectCommand
     /\ UNCHANGED <<interface, hkMode, radio, history>>

-----------------------------------------------------------------------------
(* Telemetry requests; their length is not checked                          *)

ReportHousekeeping ==
  \/ /\ enabled
     /\ \E ok \in BOOLEAN :
          /\ RequestHK(ok)
          /\ devCount' = (IF ok THEN Inc(devCount) ELSE devCount)
          /\ devErr' = (IF ok THEN devErr ELSE Inc(devErr))
     /\ UNCHANGED <<cmdCount, cmdErr, interface, radioMode, enableFailed>>
  \/ /\ ~enabled
     /\ UNCHANGED <<counters, interface, hkMode, radio, history>>

ProcessTelemetryRequest(m) ==
  \/ m.code = "HK" /\ ReportHousekeeping
  \/ /\ m.code # "HK"
     /\ RejectCommand
     /\ UNCHANGED <<interface, hkMode, radio, history>>

-----------------------------------------------------------------------------
(* The main loop                                                            *)

ProcessCommandPacket(m) ==
  \/ m.mid = "CMD" /\ ProcessGroundCommand(m)
  \/ m.mid = "REQ_HK" /\ ProcessTelemetryRequest(m)
  \/ /\ m.mid = "OTHER"
     /\ RejectCommand
     /\ UNCHANGED <<interface, hkMode, radio, history>>

Looping == phase = "loop" /\ runStatus = "run"

\* RADIO_AppInit returns an error from the first service that fails, the startup
\* event included, which is the last thing it does.
AppInit ==
  /\ phase = "start"
  /\ phase' = "loop"
  /\ runStatus' \in {"run", "error"}
  /\ ResetCounters
  /\ enabled' = FALSE
  /\ isOpen' = [d \in Device |-> FALSE]
  /\ UNCHANGED <<held, pin, hkMode, radio, history>>

HandleMessage ==
  /\ Looping
  /\ \E m \in Message : ProcessCommandPacket(m)
  /\ UNCHANGED <<phase, runStatus>>

\* CFE_SB_ReceiveBuffer fails.
PipeError ==
  /\ Looping
  /\ runStatus' = "error"
  /\ UNCHANGED <<phase, counters, interface, hkMode, radio, history>>

\* Executive services ask the application to stop (external); RunLoop tells it.
ExitRequest ==
  /\ Looping
  /\ runStatus' = "exit"
  /\ UNCHANGED <<phase, counters, interface, hkMode, radio, history>>

\* What follows the loop in RADIO_AppMain.
Shutdown ==
  /\ phase = "loop" /\ runStatus # "run"
  /\ phase' = "exited"
  /\ Disable
  /\ UNCHANGED runStatus

Next == AppInit \/ HandleMessage \/ PipeError \/ ExitRequest \/ Shutdown

Spec == Init /\ [][Next]_vars

-----------------------------------------------------------------------------
(* Properties                                                               *)

\* Types of the variables.
TypeOK ==
  /\ phase \in {"start", "loop", "exited"}
  /\ runStatus \in {"run", "exit", "error"}
  /\ enabled \in BOOLEAN
  /\ cmdCount \in Counter /\ cmdErr \in Counter
  /\ devCount \in Counter /\ devErr \in Counter
  /\ hkMode \in Octet /\ radioMode \in Mode
  /\ waiting \in Seq(Reply) /\ Len(waiting) <= MaxWaiting
  /\ isOpen \in [Device -> BOOLEAN]
  /\ held \in [Device -> 0 .. MaxOpen]
  /\ pin \in {0, 1}
  /\ enableFailed \in BOOLEAN /\ behind \in 0 .. MaxWaiting + 1

\* While the application says the device is enabled, all three devices are open
\* and the power pin is high, whatever sequence of commands and failures led
\* there: no handler talks to a closed SPI handle or an unpowered radio.
EnabledMeansReady == enabled => pin = 1 /\ \A d \in Device : isOpen[d]

\* An isOpen flag is backed by a handle, so Disable never closes what is closed.
OpenMeansHeld == \A d \in Device : isOpen[d] => held[d] > 0

\* As long as no enable command has failed, the application holds one handle of
\* each device when it is enabled and none when it is not: nothing leaks over
\* any number of enable and disable commands, nor at exit.
NoLeakWithoutFailure ==
  ~enableFailed => \A d \in Device : held[d] = (IF enabled THEN 1 ELSE 0)

\* Calls that failed may leave replies in the channel, and each request then reads an
\* older one.  Still the cached mode catches up: when as many requests as replies waited,
\* and one more, have succeeded in a row since the radio was last disabled or configured,
\* a request failed or data were left to be read, it is the mode of the radio.
ModeCatchesUp == behind = 0 => hkMode = radioMode

\* Every change of the hardware interface is accounted for in telemetry: one
\* accepted command and one device outcome, success or error.
InterfaceChangesAreCounted ==
  [][interface' # interface =>
       /\ cmdCount' = Inc(cmdCount) /\ cmdErr' = cmdErr
       /\ \/ devCount' = Inc(devCount) /\ devErr' = devErr
          \/ devCount' = devCount /\ devErr' = Inc(devErr)]_vars

CountersCleared == \A i \in DOMAIN counters' : counters'[i] = 0

\* A message the application counts as an error leaves the hardware, the radio
\* and the device counters alone.
RejectionTouchesNothing ==
  [][cmdErr' # cmdErr /\ ~CountersCleared =>
       UNCHANGED <<cmdCount, devCount, devErr, interface, hkMode, radio>>]_vars

\* "Service downlink if enabled and in correct mode" (radio_app.c:1168): a service
\* command, which may come whenever the application loops, sends frames only to a radio
\* that transmits.
ServiceInRadioMode == Looping /\ ServesDownlink => radioMode \in {"TX", "DUPLEX"}
=============================================================================
