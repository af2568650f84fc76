--------------------------- MODULE RobotLifecycle ---------------------------
(***************************************************************************)
(* The life of the process: main brings the R5 core up (robot::Init,       *)
(* OpenAMPInit), starts the threads, installs the SIGINT handler and       *)
(* sleeps; a SIGINT makes the thread it is delivered to stop the robot     *)
(* (robot::Stop, OpenAMPStop) and exit.  The other threads keep running    *)
(* meanwhile, a second SIGINT may start a second Stop on one of them, and  *)
(* the Modbus thread writes the registers that r5_cmd_ overlays.           *)
(*                                                                         *)
(* The file descriptors are modelled as numbers, the kernel handing out    *)
(* the lowest one that is free, because openamp.c keeps the numbers of     *)
(* descriptors that it has closed.  Writes to the endpoint and to the      *)
(* state file of the core may fail, which the program reports and forgets: *)
(* the history mishaps remembers it.  The R5 core and its remoteproc       *)
(* device are external.                                                    *)
(***************************************************************************)
EXTENDS Overlay, FiniteSets

CONSTANTS
  FDs,             \* descriptor numbers above the standard ones
  MaxSignals,      \* bound: SIGINTs the process gets
  EarlySignals,    \* whether one may come before the handler is installed
  DriverOutcomes,  \* ways in which OpenAMPLoadDriver may end
  NMTWrites        \* values Modbus clients write to the register of nmt_control

kNMTStart == 1
kNMTStop  == 2

SEND_R5_CMD_FROM_APU == 1

Threads == {"main", "modbus", "reader"}

(***************************************************************************)
(* OpenAMPLoadDriver succeeds, gives up before it has opened anything,     *)
(* leaves with the file open through which it binds the driver, with the   *)
(* directory open in which it finds no control device, or with charfd open *)
(* and no endpoint, or fails to open the endpoint device and closes charfd.*)
(* Three numbers are what it opens before the rest of the program does.    *)
(***************************************************************************)
ASSUME RobotAssumption ==
  /\ FDs \subseteq Nat /\ IsFiniteSet(FDs) /\ Cardinality(FDs) >= 3
  /\ MaxSignals \in Nat
  /\ EarlySignals \in BOOLEAN
  /\ DriverOutcomes \subseteq {"loaded", "no device", "not bound", "no control",
                              "no endpoint", "not opened"}
  /\ NMTWrites \subseteq 0 .. 3

VARIABLES
  process,      \* "running", or how it ended
  pc,           \* where each thread is
  installed,    \* whether SIGINT has its handler
  signals,      \* SIGINTs delivered to the handler
  rpmsg_type, nmt_control,  \* fields of r5_cmd_, in the holding registers
  buff,         \* the temp_buff of each thread's RPMsgSend, gone when it returns
  fd, charfd,   \* -1 or a number
  statefd,      \* the fd of each thread's file_write
  fdtab,        \* what each descriptor number stands for
  wrote,        \* history: the kinds of descriptors RPMsgSend wrote to
  mishaps,      \* history: which of the Mishaps have occurred
  remoteproc,   \* state of the R5's remoteproc device
  r5nmt         \* the NMT command the R5 obeys

vars == <<process, pc, installed, signals, rpmsg_type, nmt_control, buff, fd, charfd,
          statefd, fdtab, wrote, mishaps, remoteproc, r5nmt>>

cmdVars == <<rpmsg_type, nmt_control, mishaps>>
fdVars  == <<fd, charfd, statefd, fdtab>>
r5Vars  == <<remoteproc, r5nmt>>

(***************************************************************************)
(* A Modbus client has written nmt_control; charfd keeps a number that is  *)
(* closed; the open endpoint did not take the message of robot::Init, or   *)
(* that of a robot::Stop; the state file could not be opened, or did not   *)
(* take the stop; the stop was written to a number that another handler    *)
(* had closed.                                                             *)
(***************************************************************************)
Mishaps == {"nmt rewritten", "charfd closed", "start lost", "stop lost", "stop refused",
            "stop astray"}

Message   == [type : {0, SEND_R5_CMD_FROM_APU}, nmt : 0 .. 3]
NoMessage == [type |-> 0, nmt |-> 0]

\* A process that died before may have left the R5 core running.
Init ==
  /\ process = "running"
  /\ pc = [t \in Threads |-> IF t = "main" THEN "firmware" ELSE "off"]
  /\ installed = FALSE /\ signals = 0
  /\ rpmsg_type = 0 /\ nmt_control = 0
  /\ buff = [t \in Threads |-> NoMessage]
  /\ fd = -1 /\ charfd = -1
  /\ statefd = [t \in Threads |-> -1]
  /\ fdtab = [n \in FDs |-> "free"]
  /\ wrote = {} /\ mishaps = {}
  /\ \/ remoteproc = "offline" /\ r5nmt = 0
     \/ remoteproc = "running" /\ r5nmt \in {0, kNMTStart}

-----------------------------------------------------------------------------
(***************************************************************************)
(* File descriptors.                                                       *)
(***************************************************************************)
Free     == { n \in FDs : fdtab[n] = "free" }
Least(S) == CHOOSE n \in S : \A m \in S : n <= m
Lowest   == Least(Free)

\* The descriptor of the directory, which is not closed, is the lowest.
ControlNumber == Least(Free \ {Lowest})

\* Mutant of EndpointNumber: charfd is closed before the endpoint is opened, which
\* gets its number.
SameAsControl == ControlNumber

EndpointNumber == Least(Free \ {Lowest, ControlNumber})

Closed(n) == IF n \in FDs THEN [fdtab EXCEPT ![n] = "free"] ELSE fdtab

-----------------------------------------------------------------------------
At(t, label)   == process = "running" /\ pc[t] = label
Goto(t, label) == pc' = [pc EXCEPT ![t] = label]

(***************************************************************************)
(* robot::SetR5_0Cmd and RPMsgSend: the message is copied byte by byte and *)
(* then written; a failure is reported and forgotten.                      *)
(***************************************************************************)
SetType(t, here, next) ==
  /\ At(t, here)
  /\ rpmsg_type' = SEND_R5_CMD_FROM_APU
  /\ Goto(t, next)
  /\ UNCHANGED <<process, installed, signals, nmt_control, mishaps, buff, fdVars, wrote,
                 r5Vars>>

Copy(t, here, next) ==
  /\ At(t, here)
  /\ buff' = [buff EXCEPT ![t] = [type |-> rpmsg_type, nmt |-> nmt_control]]
  /\ Goto(t, next)
  /\ UNCHANGED <<process, installed, signals, cmdVars, fdVars, wrote, r5Vars>>

\* A running R5 obeys the commands that reach its endpoint.
Received(m) ==
  IF /\ remoteproc = "running"
     /\ m.type = SEND_R5_CMD_FROM_APU /\ m.nmt \in {kNMTStart, kNMTStop}
  THEN m.nmt ELSE r5nmt

EndpointOpen == fd \in FDs /\ fdtab[fd] = "ept"

\* The endpoint was opened with O_NONBLOCK.
Write(t, here, next) ==
  /\ At(t, here)
  /\ \/ /\ fd \in FDs /\ fdtab[fd] # "free"
        /\ wrote' = wrote \cup {fdtab[fd]}
        /\ r5nmt' = IF EndpointOpen THEN Received(buff[t]) ELSE r5nmt
        /\ UNCHANGED mishaps
     \/ /\ mishaps' = IF EndpointOpen
                      THEN mishaps \cup {IF here = "write" THEN "start lost" ELSE "stop lost"}
                      ELSE mishaps
        /\ UNCHANGED <<wrote, r5nmt>>
  /\ buff' = [buff EXCEPT ![t] = NoMessage]
  /\ Goto(t, next)
  /\ UNCHANGED <<process, installed, signals, rpmsg_type, nmt_control, fdVars,
                 remoteproc>>

-----------------------------------------------------------------------------
(***************************************************************************)
(* robot::Init, on the main thread.                                        *)
(***************************************************************************)
LoadFirmware ==
  /\ At("main", "firmware")
  /\ remoteproc = "offline"
  /\ remoteproc' = "running" /\ r5nmt' = 0
  /\ Goto("main", "driver")
  /\ UNCHANGED <<process, installed, signals, cmdVars, buff, fdVars, wrote>>

\* The firmware is not there, or the device is not offline: reported, ignored.
LoadFirmwareFails ==
  /\ At("main", "firmware")
  /\ Goto("main", "driver")
  /\ UNCHANGED <<process, installed, signals, cmdVars, buff, fdVars, wrote, r5Vars>>

\* The directory, charfd and fd, opened one after the other.
LoadDriver ==
  /\ At("main", "driver")
  /\ "loaded" \in DriverOutcomes /\ remoteproc = "running"
  /\ charfd' = ControlNumber
  /\ fd' = EndpointNumber
  /\ fdtab' = [fdtab EXCEPT ![Lowest] = "dir", ![charfd'] = "ctl", ![fd'] = "ept"]
  /\ Goto("main", "mutex")
  /\ UNCHANGED <<process, installed, signals, cmdVars, buff, statefd, wrote, r5Vars>>

\* Mutant of LeftOpen: charfd is closed on this path too, and its number kept.
NothingLeftOpen(how) == fdtab

LeftOpen(how) ==
  CASE how = "not bound"   -> [fdtab EXCEPT ![Lowest] = "bind"]
    [] how = "no endpoint" -> [fdtab EXCEPT ![Lowest] = "dir", ![ControlNumber] = "ctl"]
    [] how \in {"no control", "not opened"} -> [fdtab EXCEPT ![Lowest] = "dir"]
    [] OTHER               -> fdtab

LoadDriverFails(how) ==
  /\ At("main", "driver")
  /\ how \in DriverOutcomes \ {"loaded"}
  /\ how # "no device" => remoteproc = "running"
  /\ charfd' = IF how \in {"no endpoint", "not opened"} THEN ControlNumber ELSE charfd
  /\ fdtab' = LeftOpen(how)
  /\ mishaps' = IF how = "not opened" THEN mishaps \cup {"charfd closed"} ELSE mishaps
  /\ Goto("main", "mutex")
  /\ UNCHANGED <<process, installed, signals, rpmsg_type, nmt_control, buff, fd, statefd,
                 wrote, r5Vars>>

\* OpenAMPInit returns the state of the mutex: init is taken for a success.
InitMutex ==
  /\ At("main", "mutex")
  /\ Goto("main", "nmt")
  /\ UNCHANGED <<process, installed, signals, cmdVars, buff, fdVars, wrote, r5Vars>>

InitMutexFails ==
  /\ At("main", "mutex")
  /\ process' = "failed"
  /\ UNCHANGED <<pc, installed, signals, cmdVars, buff, fdVars, wrote, r5Vars>>

\* Mutant of StartNMT: the command of the last stop is sent again.
StartNothing ==
  /\ At("main", "nmt")
  /\ Goto("main", "type")
  /\ UNCHANGED <<process, installed, signals, cmdVars, buff, fdVars, wrote, r5Vars>>

StartNMT ==
  /\ At("main", "nmt")
  /\ nmt_control' = kNMTStart
  /\ Goto("main", "type")
  /\ UNCHANGED <<process, installed, signals, rpmsg_type, mishaps, buff, fdVars, wrote,
                 r5Vars>>

\* main: the threads first, the signal handler after them.
StartThreads ==
  /\ At("main", "threads")
  /\ pc' = [t \in Threads |-> CASE t = "main"   -> "signal"
                                [] t = "modbus" -> "listen"
                                [] t = "reader" -> "loop"]
  /\ UNCHANGED <<process, installed, signals, cmdVars, buff, fdVars, wrote, r5Vars>>

InstallHandler ==
  /\ At("main", "signal")
  /\ installed' = TRUE
  /\ Goto("main", "loop")
  /\ UNCHANGED <<process, signals, cmdVars, buff, fdVars, wrote, r5Vars>>

MainInit ==
  \/ LoadFirmware \/ LoadFirmwareFails
  \/ LoadDriver \/ \E how \in DriverOutcomes : LoadDriverFails(how)
  \/ InitMutex \/ InitMutexFails
  \/ StartNMT
  \/ SetType("main", "type", "copy")
  \/ Copy("main", "copy", "write")
  \/ Write("main", "write", "threads")
  \/ StartThreads \/ InstallHandler

-----------------------------------------------------------------------------
(***************************************************************************)
(* What the Modbus thread does that concerns the rest: descriptors come    *)
(* and go, and clients write the registers (see ModbusTcp, MBFunc).        *)
(***************************************************************************)
Listen ==
  /\ At("modbus", "listen")
  /\ Free # {}
  /\ fdtab' = [fdtab EXCEPT ![Lowest] = "listen"]
  /\ Goto("modbus", "loop")
  /\ UNCHANGED <<process, installed, signals, cmdVars, buff, fd, charfd, statefd, wrote,
                 r5Vars>>

\* eMBTCPInit fails: the thread ends.
ListenFails ==
  /\ At("modbus", "listen")
  /\ Goto("modbus", "off")
  /\ UNCHANGED <<process, installed, signals, cmdVars, buff, fdVars, wrote, r5Vars>>

AcceptClient ==
  /\ At("modbus", "loop")
  /\ \E n \in FDs : fdtab[n] = "listen"
  /\ \A n \in FDs : fdtab[n] # "client"
  /\ Free # {}
  /\ fdtab' = [fdtab EXCEPT ![Lowest] = "client"]
  /\ UNCHANGED <<process, pc, installed, signals, cmdVars, buff, fd, charfd, statefd,
                 wrote, r5Vars>>

CloseClient ==
  /\ At("modbus", "loop")
  /\ \E n \in FDs : fdtab[n] = "client" /\ fdtab' = [fdtab EXCEPT ![n] = "free"]
  /\ UNCHANGED <<process, pc, installed, signals, cmdVars, buff, fd, charfd, statefd,
                 wrote, r5Vars>>

\* nmt_control is the low byte of the second register, and eMBRegHoldingCB
\* assigns the high byte of a register, shifted, before it ors the low one in:
\* with what it loaded, which another thread may have changed before or since.
WriteHighByte ==
  /\ At("modbus", "loop")
  /\ NMTWrites # {}
  /\ \E n \in FDs : fdtab[n] = "client"
  /\ nmt_control' = 0 /\ mishaps' = mishaps \cup {"nmt rewritten"}
  /\ Goto("modbus", "low byte")
  /\ UNCHANGED <<process, installed, signals, rpmsg_type, buff, fdVars, wrote, r5Vars>>

WriteLowByte ==
  /\ At("modbus", "low byte")
  /\ \E v \in NMTWrites : nmt_control' \in AfterLowByte(v, nmt_control)
  /\ Goto("modbus", "loop")
  /\ UNCHANGED <<process, installed, signals, rpmsg_type, mishaps, buff, fdVars, wrote,
                 r5Vars>>

Modbus == Listen \/ ListenFails \/ AcceptClient \/ CloseClient \/ WriteHighByte \/ WriteLowByte

-----------------------------------------------------------------------------
(***************************************************************************)
(* SIGINT, and signalHandler on the thread that gets it.                   *)
(***************************************************************************)
Sigint(t) ==
  /\ process = "running" /\ installed
  /\ signals < MaxSignals
  /\ pc[t] \in {"loop", "listen", "low byte"}
  /\ signals' = signals + 1
  /\ Goto(t, "stop nmt")
  /\ UNCHANGED <<process, installed, cmdVars, buff, fdVars, wrote, r5Vars>>

\* Without the handler SIGINT ends the process.
SigintEarly ==
  /\ process = "running" /\ ~ installed
  /\ EarlySignals
  /\ process' = "killed"
  /\ UNCHANGED <<pc, installed, signals, cmdVars, buff, fdVars, wrote, r5Vars>>

\* Mutant of StopNMT: the command that was sent last is sent again.
StopNothing(t) ==
  /\ At(t, "stop nmt")
  /\ Goto(t, "stop type")
  /\ UNCHANGED <<process, installed, signals, cmdVars, buff, fdVars, wrote, r5Vars>>

StopNMT(t) ==
  /\ At(t, "stop nmt")
  /\ nmt_control' = kNMTStop
  /\ Goto(t, "stop type")
  /\ UNCHANGED <<process, installed, signals, rpmsg_type, mishaps, buff, fdVars, wrote,
                 r5Vars>>

\* OpenAMPStop: close(fd), then close(charfd) if it is not negative; neither
\* variable is reset.
CloseEndpoint(t) ==
  /\ At(t, "close fd")
  /\ fdtab' = Closed(fd)
  /\ Goto(t, "close charfd")
  /\ UNCHANGED <<process, installed, signals, cmdVars, buff, fd, charfd, statefd, wrote,
                 r5Vars>>

CloseControl(t) ==
  /\ At(t, "close charfd")
  /\ fdtab' = Closed(charfd)
  /\ Goto(t, "open state")
  /\ UNCHANGED <<process, installed, signals, cmdVars, buff, fd, charfd, statefd, wrote,
                 r5Vars>>

\* file_write of "stop" to the state file of the core; the result is cast away.
OpenState(t) ==
  /\ At(t, "open state")
  /\ \/ /\ Free # {}
        /\ statefd' = [statefd EXCEPT ![t] = Lowest]
        /\ fdtab' = [fdtab EXCEPT ![Lowest] = "state"]
        /\ Goto(t, "write state")
        /\ UNCHANGED mishaps
     \/ /\ mishaps' = mishaps \cup {"stop refused"}
        /\ Goto(t, "exit")
        /\ UNCHANGED <<statefd, fdtab>>
  /\ UNCHANGED <<process, installed, signals, rpmsg_type, nmt_control, buff, fd, charfd,
                 wrote, r5Vars>>

WriteState(t) ==
  /\ At(t, "write state")
  /\ \/ /\ fdtab[statefd[t]] = "state"
        /\ remoteproc' = "offline"
        /\ UNCHANGED mishaps
     \/ /\ mishaps' = mishaps \cup {IF fdtab[statefd[t]] = "state" THEN "stop refused"
                                   ELSE "stop astray"}
        /\ UNCHANGED remoteproc
  /\ Goto(t, "close state")
  /\ UNCHANGED <<process, installed, signals, rpmsg_type, nmt_control, buff, fdVars, wrote,
                 r5nmt>>

CloseState(t) ==
  /\ At(t, "close state")
  /\ fdtab' = Closed(statefd[t])
  /\ statefd' = [statefd EXCEPT ![t] = -1]
  /\ Goto(t, "exit")
  /\ UNCHANGED <<process, installed, signals, cmdVars, buff, fd, charfd, wrote, r5Vars>>

\* Mutant of Exit: the handler returns to what it interrupted.
Return(t) ==
  /\ At(t, "exit")
  /\ Goto(t, "loop")
  /\ UNCHANGED <<process, installed, signals, cmdVars, buff, fdVars, wrote, r5Vars>>

Exit(t) ==
  /\ At(t, "exit")
  /\ process' = "exited"
  /\ UNCHANGED <<pc, installed, signals, cmdVars, buff, fdVars, wrote, r5Vars>>

Handler(t) ==
  \/ StopNMT(t)
  \/ SetType(t, "stop type", "stop copy")
  \/ Copy(t, "stop copy", "stop write")
  \/ Write(t, "stop write", "close fd")
  \/ CloseEndpoint(t) \/ CloseControl(t)
  \/ OpenState(t) \/ WriteState(t) \/ CloseState(t)
  \/ Exit(t)

-----------------------------------------------------------------------------
Next ==
  \/ MainInit
  \/ Modbus
  \/ SigintEarly
  \/ \E t \in Threads : Sigint(t) \/ Handler(t)

Spec == Init /\ [][Next]_vars

\* main and the handlers keep running; clients and signals are not forced.
FairSpec ==
  /\ Spec
  /\ WF_vars(MainInit)
  /\ \A t \in Threads : WF_vars(Handler(t))

-----------------------------------------------------------------------------
Labels == {"off", "firmware", "driver", "mutex", "nmt", "type", "copy", "write",
           "threads", "signal", "listen", "loop", "low byte", "stop nmt", "stop type",
           "stop copy", "stop write", "close fd", "close charfd", "open state", "write state",
           "close state", "exit"}

\* Types; and the endpoint and the control device are never one descriptor.
TypeOK ==
  /\ process \in {"running", "exited", "failed", "killed"}
  /\ pc \in [Threads -> Labels]
  /\ installed \in BOOLEAN 
  /\ signals \in 0 .. MaxSignals
  /\ rpmsg_type \in {0, SEND_R5_CMD_FROM_APU} /\ nmt_control \in 0 .. 3
  /\ buff \in [Threads -> Message]
  /\ fd \in FDs \cup {-1} /\ charfd \in FDs \cup {-1}
  /\ fd = charfd => fd = -1
  /\ statefd \in [Threads -> FDs \cup {-1}]
  /\ fdtab \in [FDs -> {"free", "bind", "dir", "ctl", "ept", "state", "listen", "client"}]
  /\ mishaps \subseteq Mishaps
  /\ wrote \subseteq {"ctl", "ept", "state", "listen", "client"}
  /\ remoteproc \in {"offline", "running"}
  /\ r5nmt \in {0, kNMTStart, kNMTStop}

\* robot::Stop stops the NMT before it stops the core: a core that can be
\* reached is never switched off while the motors still obey a start command.
\* (As long as no Modbus client has written the register of nmt_control, and the
\* endpoint has taken the message of each robot::Stop.  One that it does not take is
\* lost, and the core is switched off all the same.)
NMTStoppedBeforeCore ==
  [][(/\ remoteproc = "running" /\ remoteproc' = "offline"
      /\ "ept" \in wrote /\ mishaps \cap {"nmt rewritten", "stop lost"} = {})
       => r5nmt # kNMTStart]_vars

\* openamp.c keeps numbers it has closed in fd and charfd: it never writes a
\* message to, nor closes, a socket of the Modbus server that got such a number, and
\* the stop is written to the state file, when one SIGINT arrives and the driver was
\* loaded as far as charfd is open.  (A second SIGINT runs OpenAMPStop twice; an
\* endpoint that cannot be opened leaves a closed number in charfd.)
OwnDescriptors ==
  [][signals' <= 1 /\ "charfd closed" \notin mishaps =>
     /\ wrote' \subseteq {"ept"} /\ "stop astray" \notin mishaps'
     /\ \A n \in FDs :
          fdtab[n] \in {"listen", "client"} /\ fdtab'[n] # fdtab[n] => pc' = pc]_vars

\* The handler that a SIGINT started ends the process, other threads and handlers
\* notwithstanding, and with the core stopped, unless the state file refused the stop
\* or another handler closed it before the stop was written.
StopCompletes ==
  signals > 0 ~>
    /\ process = "exited"
    /\ remoteproc = "offline" \/ mishaps \cap {"stop refused", "stop astray"} # {}

\* Once the endpoint is open robot::Init gets the R5 started, whatever command
\* an earlier process left it with; unless the endpoint does not take the message or
\* the process ends first.
RobotStarts ==
  (At("main", "nmt") /\ fd # -1) ~>
    (r5nmt = kNMTStart \/ "start lost" \in mishaps \/ process # "running")

-----------------------------------------------------------------------------
(***************************************************************************)
(* What the program and its comments say and the code does not do.         *)
(***************************************************************************)

\* "stop nmt": after the handler's message, which the endpoint took, an R5 that can be
\* reached does not obey a start command any more.
StopMessageStops ==
  \A t \in Threads :
    At(t, "close fd") /\ EndpointOpen /\ "stop lost" \notin mishaps => r5nmt # kNMTStart
=============================================================================
