----------------------------- MODULE RadioCli -------------------------------
(***************************************************************************)
(* The command line interface (src/cli/radio_cli.c): a prompt that calls the *)
(* driver directly.  It opens the devices and switches the radio on, runs    *)
(* one command after the other, looks at the interrupt pin after each, and   *)
(* closes what is open at the end of the input or on "exit".  RadioLink is   *)
(* the driver and the radio behind it; every driver call of this module is   *)
(* one of its actions.  What the user types is any command; a line with a    *)
(* wrong number of arguments, an unknown command and "help" are all a        *)
(* command without a driver call.                                            *)
(***************************************************************************)
EXTENDS RadioLink

VARIABLES
  stage,    \* "init", "powerOn", "prompt", "command", "check", "close", "off", "end"
  open,     \* channels whose device handle isOpen
  leaving,  \* exit_status of the command
  failed    \* history: the last write of the power pin failed

cliVars == <<stage, open, leaving, failed>>
allVars == <<vars, cliVars>>

CliInit ==
  /\ Init
  /\ stage = "init" /\ open = {} /\ leaving = FALSE /\ failed = FALSE

\* A bound: the calls that are left suffice to leave the program.
CallsLeft(n) == calls + n <= MaxCalls

Goto(from, to) == stage = from /\ phase = "idle" /\ stage' = to

-----------------------------------------------------------------------------
(* Start                                                                    *)

\* What RADIO_InitDevice has opened when it returns; it stops at the first failure.
InitPrefix == {{}, {"spi"}, {"spi", "power"}, Channel}

\* The failure of the initialisation goes unnoticed.
FaultyAfterInit(opened) == "powerOn"

AfterInit(opened) == IF opened = Channel THEN "powerOn" ELSE "close"

InitDevice ==
  /\ open' \in InitPrefix
  /\ Goto("init", AfterInit(open'))
  /\ UNCHANGED <<vars, leaving, failed>>

SwitchOn ==
  /\ Goto("powerOn", "prompt") /\ PowerOn
  /\ UNCHANGED <<open, leaving, failed>>

SwitchOnFails ==
  /\ Goto("powerOn", "close") /\ WriteFails
  /\ UNCHANGED <<open, leaving, failed>>

-----------------------------------------------------------------------------
(* Commands                                                                 *)

\* One of the commands that call the driver; it may fail.
Call ==
  \/ CommandDevice \/ SetConfiguration \/ RequestHK \/ ReceiveData \/ PowerOn \/ PowerOff
  \/ WriteFails

DriverCommand ==
  /\ Goto("prompt", "command") /\ CallsLeft(3) /\ Call
  /\ UNCHANGED <<open, leaving, failed>>

OtherCommand ==
  /\ Goto("prompt", "command") /\ CallsLeft(2)
  /\ leaving' \in BOOLEAN
  /\ UNCHANGED <<vars, open, failed>>

\* RADIO_CheckInterrupt, after each command.
Check ==
  /\ Goto("command", "check")
  /\ CheckInterrupt \/ WriteFails
  /\ UNCHANGED <<open, leaving, failed>>

NextCommand ==
  /\ Goto("check", IF leaving THEN "close" ELSE "prompt")
  /\ UNCHANGED <<vars, open, leaving, failed>>

EndOfInput ==
  /\ Goto("prompt", "close")
  /\ UNCHANGED <<vars, open, leaving, failed>>

-----------------------------------------------------------------------------
(* End                                                                      *)

\* All handles are closed before the power pin is looked at.
FaultyAfterClose == {}

AfterClose == open \ {"spi"}

CloseSpi ==
  /\ Goto("close", "off")
  /\ open' = AfterClose
  /\ UNCHANGED <<vars, leaving, failed>>

SwitchOff ==
  /\ Goto("off", "end")
  /\ open' = {}
  /\ \/ "power" \in open /\ PowerOff /\ failed' = FALSE
     \/ "power" \in open /\ WriteFails /\ failed' = TRUE
     \/ "power" \notin open /\ UNCHANGED <<vars, failed>>
  /\ UNCHANGED leaving

\* The driver call in progress returns, or the radio and the ground go on.
Outside == (Answered \/ Arrive \/ Tick) /\ UNCHANGED cliVars

Program ==
  \/ InitDevice \/ SwitchOn \/ SwitchOnFails \/ DriverCommand \/ OtherCommand \/ Check
  \/ NextCommand \/ EndOfInput \/ CloseSpi \/ SwitchOff

CliNext == Program \/ Outside

CliSpec == CliInit /\ [][CliNext]_allVars

\* As in RadioLink; and the program runs on once it does not wait for the user.
CliFairSpec ==
  /\ CliSpec
  /\ WF_allVars(Tick /\ UNCHANGED cliVars) /\ WF_allVars(Answered /\ UNCHANGED cliVars)
  /\ WF_allVars(Program /\ stage # "prompt")

-----------------------------------------------------------------------------
(* Properties                                                               *)

\* Types of the variables.
CliTypeOK ==
  /\ stage \in {"init", "powerOn", "prompt", "command", "check", "close", "off", "end"}
  /\ open \in InitPrefix \cup {{"power"}, {"power", "interrupt"}}
  /\ leaving \in BOOLEAN /\ failed \in BOOLEAN

\* The driver writes only to devices that are open, whatever the initialisation left
\* open and whichever way the program ends.
OnlyOpen ==
  [][\A c \in Channel : Len(requests'[c]) > Len(requests[c]) => c \in open]_allVars

\* A program that leaves comes to its end, though a call may wait for its answer; and
\* the radio whose power pin it has open is then off, unless writing the pin failed.
ExitTurnsOff ==
  /\ stage = "check" /\ leaving ~> stage = "end"
  /\ stage = "close" /\ "power" \in open ~> stage = "end" /\ (failed \/ power = 0)

\* Whatever was typed, and whichever call failed or gave up: a program that ended after calling
\* the driver has asked for the power to be off, and the radio is off once it has looked,
\* unless the write of the pin failed.
LeavesOff ==
  stage = "end" /\ calls > 0 /\ ~failed =>
    wanted = 0 /\ (requests["power"] = <<>> => power = 0)
=============================================================================
