----------------------- MODULE RobotLifecycleProofs ------------------------
(***************************************************************************)
(* RobotLifecycle for any descriptor numbers, any number of SIGINTs and    *)
(* any way the driver may fail: its types, that a core in reach is never   *)
(* switched off with its motors started, and that openamp.c closes and     *)
(* writes no descriptor but its own.                                       *)
(***************************************************************************)
EXTENDS RobotLifecycle, FiniteSetTheorems, WellFoundedInduction, TLAPS

TypeInv ==
  /\ process \in {"running", "exited", "failed", "killed"}
  /\ pc \in [Threads -> Labels]
  /\ installed \in BOOLEAN /\ signals \in 0 .. MaxSignals
  /\ rpmsg_type \in {0, SEND_R5_CMD_FROM_APU} /\ nmt_control \in 0 .. 3
  /\ buff \in [Threads -> Message]
  /\ mishaps \subseteq Mishaps
  /\ remoteproc \in {"offline", "running"}
  /\ r5nmt \in {0, kNMTStart, kNMTStop}

(***************************************************************************)
(* Where the threads are.  Main's labels come one after the other, with    *)
(* the other threads off until it starts them and no handler until the     *)
(* end; the labels of the handler are those of any thread.                 *)
(***************************************************************************)
Alone     == {"firmware", "driver", "mutex", "nmt", "type", "copy", "write", "threads"}
Closing   == {"close charfd", "open state", "write state", "close state", "exit"}
Stopping  == {"stop nmt", "stop type", "stop copy", "stop write", "close fd"} \cup Closing
InHandler(t) == pc[t] \in Stopping

PlacesInv ==
  /\ pc["main"] \in Alone \cup {"signal", "loop"} \cup Stopping
  /\ pc["modbus"] \in {"off", "listen", "loop", "low byte"} \cup Stopping
  /\ pc["reader"] \in {"off", "loop"} \cup Stopping
  /\ installed <=> pc["main"] \in {"loop"} \cup Stopping
  /\ pc["main"] \in Alone => pc["modbus"] = "off" /\ pc["reader"] = "off"

\* The handler runs once for each SIGINT, after main has installed it.
SignalsInv ==
  /\ \A t \in Threads : InHandler(t) => installed /\ signals > 0
  /\ signals <= 1 => \A t, u \in Threads : InHandler(t) /\ InHandler(u) => t = u

(***************************************************************************)
(* What the descriptors stand for: fd and charfd are the endpoint and the  *)
(* control device until a handler closes them, and statefd is the state    *)
(* file for as long as there is no other handler to close it.              *)
(***************************************************************************)
Kinds == {"bind", "dir", "ctl", "ept", "state", "listen", "client"}

TableInv ==
  /\ fdtab \in [FDs -> {"free"} \cup Kinds]
  /\ statefd \in [Threads -> FDs \cup {-1}]
  /\ fd \in FDs => fdtab[fd] \notin {"bind", "dir"}
  /\ pc["main"] \in {"firmware", "driver"} =>
       fd = -1 /\ charfd = -1 /\ \A n \in FDs : fdtab[n] = "free"

ClosedInv(descriptor, kind, closed) ==
  descriptor \in FDs /\ (\A t \in Threads : pc[t] \notin closed) => fdtab[descriptor] = kind

StateInv ==
  \A t \in Threads :
    pc[t] \in {"write state", "close state"} =>
      statefd[t] \in FDs /\ fdtab[statefd[t]] = "state"

DescriptorInv ==
  /\ fd \in FDs \cup {-1} /\ charfd \in FDs \cup {-1}
  /\ fd = charfd => fd = -1
  /\ ClosedInv(fd, "ept", Closing)
  /\ "charfd closed" \notin mishaps => ClosedInv(charfd, "ctl", Closing \ {"close charfd"})
  /\ wrote \subseteq Kinds \ {"bind", "dir"}
  /\ "ept" \in wrote => fd \in FDs
  /\ signals <= 1 => wrote \subseteq {"ept"} /\ "stop astray" \notin mishaps /\ StateInv

(***************************************************************************)
(* The message of a handler is the stop command, and after it an R5 that   *)
(* runs has stopped: unless clients rewrite nmt_control, or the endpoint   *)
(* loses the message of a handler.                                         *)
(***************************************************************************)
AfterNMT     == Stopping \ {"stop nmt"}
StopMessage  == [type |-> SEND_R5_CMD_FROM_APU, nmt |-> kNMTStop]

\* Neither has happened.
Undisturbed == mishaps \cap {"nmt rewritten", "stop lost"} = {}

Stopped(t) ==
  /\ pc[t] \in AfterNMT => nmt_control = kNMTStop
  /\ pc[t] = "stop write" => buff[t] = StopMessage
  /\ pc[t] \in {"close fd"} \cup Closing /\ "ept" \in wrote =>
       remoteproc = "offline" \/ r5nmt # kNMTStart

StopInv ==
  /\ pc["main"] \in {"copy", "write", "threads", "signal", "loop"} \cup Stopping =>
       rpmsg_type = SEND_R5_CMD_FROM_APU
  /\ pc["modbus"] = "low byte" => "nmt rewritten" \in mishaps
  /\ Undisturbed => \A t \in Threads : Stopped(t)

LEMMA Constants ==
  /\ FDs \subseteq Nat /\ IsFiniteSet(FDs) /\ Cardinality(FDs) >= 3
  /\ NMTWrites \subseteq 0 .. 3
  /\ DriverOutcomes \subseteq {"loaded", "no device", "not bound", "no control",
                              "no endpoint", "not opened"}
BY RobotAssumption DEF RobotAssumption

LEMMA SignalBound == MaxSignals \in Nat
BY RobotAssumption, Zenon DEF RobotAssumption

-----------------------------------------------------------------------------
(***************************************************************************)
(* Types of what is not a descriptor.                                      *)
(***************************************************************************)
LEMMA InitTypes == Init => TypeInv
<1>. SUFFICES ASSUME Init PROVE TypeInv
  OBVIOUS
<1>1. pc \in [Threads -> Labels]
  BY DEF Init, Threads, Labels
<1>2. installed \in BOOLEAN
  BY Zenon DEF Init
<1>3. buff \in [Threads -> Message]
  BY DEF Init, Threads, Message, NoMessage
<1>4. signals \in 0 .. MaxSignals /\ nmt_control \in 0 .. 3
  <2>1. signals = 0 /\ nmt_control = 0
    BY Zenon DEF Init
  <2>. QED
    BY <2>1, SignalBound
<1>5. /\ rpmsg_type \in {0, SEND_R5_CMD_FROM_APU}
      /\ mishaps \subseteq Mishaps
  BY DEF Init
<1>6. remoteproc \in {"offline", "running"} /\ r5nmt \in {0, kNMTStart, kNMTStop}
  BY DEF Init
<1>7. process \in {"running", "exited", "failed", "killed"}
  BY DEF Init
<1>. QED
  BY <1>1, <1>2, <1>3, <1>4, <1>5, <1>6, <1>7, Zenon DEF TypeInv

\* What clients write has two bits, with what was there before or without.
LEMMA LowByteTypes ==
  \A v \in 0 .. 3, w \in 0 .. 3 : AfterLowByte(v, w) \subseteq 0 .. 3
BY DEF AfterLowByte, BitsOr

\* The three steps of RPMsgSend, on any thread.
LEMMA SendTypes ==
  ASSUME TypeInv, NEW t \in Threads, NEW here, NEW next \in Labels,
         SetType(t, here, next) \/ Copy(t, here, next) \/ Write(t, here, next)
  PROVE  TypeInv'
<1>1. pc' \in [Threads -> Labels]
  BY DEF SetType, Copy, Write, Goto, TypeInv
<1>2. CASE SetType(t, here, next)
  BY <1>1, <1>2 DEF SetType, TypeInv, r5Vars
<1>3. CASE Copy(t, here, next)
  <2>1. buff' \in [Threads -> Message]
    BY <1>3 DEF Copy, TypeInv, Message
  <2>. QED
    BY <1>1, <1>3, <2>1 DEF Copy, TypeInv, cmdVars, r5Vars
<1>4. CASE Write(t, here, next)
  <2>1. r5nmt' \in {0, kNMTStart, kNMTStop}
    <3>1. \A m : Received(m) \in {0, kNMTStart, kNMTStop}
      BY DEF Received, TypeInv
    <3>2. r5nmt' = r5nmt \/ r5nmt' = Received(buff[t])
      BY <1>4, Zenon DEF Write
    <3>. QED
      BY <3>1, <3>2 DEF TypeInv
  <2>2. buff' \in [Threads -> Message]
    <3>1. NoMessage \in Message
      BY DEF Message, NoMessage
    <3>2. buff' = [buff EXCEPT ![t] = NoMessage]
      BY <1>4, Zenon DEF Write
    <3>. QED
      BY <3>1, <3>2 DEF TypeInv
  <2>3. mishaps' \subseteq Mishaps
    BY <1>4 DEF Write, TypeInv, Mishaps
  <2>. QED
    BY <1>1, <1>4, <2>1, <2>2, <2>3 DEF Write, TypeInv
<1>. QED
  BY <1>2, <1>3, <1>4

LEMMA MainTypes == TypeInv /\ MainInit => TypeInv'
<1>. SUFFICES ASSUME TypeInv, MainInit PROVE TypeInv'
  OBVIOUS
<1>1. "main" \in Threads /\ {"driver", "mutex", "nmt", "type", "copy", "write",
        "threads", "signal", "listen", "loop"} \subseteq Labels
  BY DEF Threads, Labels
<1>2. CASE LoadFirmware \/ LoadFirmwareFails
  <2>1. pc' \in [Threads -> Labels]
    BY <1>1, <1>2 DEF LoadFirmware, LoadFirmwareFails, Goto, TypeInv
  <2>. QED
    BY <1>2, <2>1 DEF LoadFirmware, LoadFirmwareFails, TypeInv, cmdVars, r5Vars
<1>3. CASE LoadDriver
  <2>1. pc' \in [Threads -> Labels]
    BY <1>1, <1>3 DEF LoadDriver, Goto, TypeInv
  <2>. QED
    BY <1>3, <2>1 DEF LoadDriver, TypeInv, cmdVars, r5Vars
<1>4. ASSUME NEW how \in DriverOutcomes, LoadDriverFails(how) PROVE TypeInv'
  <2>1. pc' \in [Threads -> Labels]
    BY <1>1, <1>4 DEF LoadDriverFails, Goto, TypeInv
  <2>2. mishaps' \subseteq Mishaps
    BY <1>4 DEF LoadDriverFails, TypeInv, Mishaps
  <2>. QED
    BY <1>4, <2>1, <2>2 DEF LoadDriverFails, TypeInv, r5Vars
<1>5. CASE InitMutex \/ InitMutexFails
  <2>1. pc' \in [Threads -> Labels]
    BY <1>1, <1>5 DEF InitMutex, InitMutexFails, Goto, TypeInv
  <2>. QED
    BY <1>5, <2>1 DEF InitMutex, InitMutexFails, TypeInv, cmdVars, r5Vars
<1>6. CASE StartNMT
  <2>1. pc' \in [Threads -> Labels]
    BY <1>1, <1>6 DEF StartNMT, Goto, TypeInv
  <2>2. nmt_control' \in 0 .. 3
    BY <1>6 DEF StartNMT, kNMTStart
  <2>. QED
    BY <1>6, <2>1, <2>2, Zenon DEF StartNMT, TypeInv, r5Vars
<1>7. CASE SetType("main", "type", "copy") \/ Copy("main", "copy", "write")
             \/ Write("main", "write", "threads")
  BY <1>1, <1>7, SendTypes
<1>8. CASE StartThreads \/ InstallHandler
  <2>1. pc' \in [Threads -> Labels]
    <3>1. CASE StartThreads
      BY <1>1, <3>1 DEF StartThreads, Threads
    <3>2. CASE InstallHandler
      BY <1>1, <3>2 DEF InstallHandler, Goto, TypeInv
    <3>. QED
      BY <1>8, <3>1, <3>2
  <2>2. installed' \in BOOLEAN
    BY <1>8 DEF StartThreads, InstallHandler, TypeInv
  <2>. QED
    BY <1>8, <2>1, <2>2 DEF StartThreads, InstallHandler, TypeInv, cmdVars, r5Vars
<1>. QED
  BY <1>2, <1>3, <1>4, <1>5, <1>6, <1>7, <1>8 DEF MainInit

LEMMA OtherTypes ==
  ASSUME TypeInv, Modbus \/ SigintEarly \/ \E t \in Threads : Sigint(t) \/ Handler(t)
  PROVE  TypeInv'
<1>1. "modbus" \in Threads /\ {"loop", "low byte", "stop nmt", "stop type", "stop copy",
        "stop write", "close fd", "close charfd", "open state", "write state", "close state", "exit",
        "off"} \subseteq Labels
  BY DEF Threads, Labels
<1>2. CASE Listen \/ ListenFails \/ AcceptClient \/ CloseClient
  <2>1. pc' \in [Threads -> Labels]
    BY <1>1, <1>2 DEF Listen, ListenFails, AcceptClient, CloseClient, Goto, TypeInv
  <2>. QED
    BY <1>2, <2>1 DEF Listen, ListenFails, AcceptClient, CloseClient, TypeInv, cmdVars, r5Vars
<1>3. CASE WriteHighByte
  <2>1. pc' \in [Threads -> Labels]
    BY <1>1, <1>3 DEF WriteHighByte, Goto, TypeInv
  <2>2. nmt_control' = 0
    BY <1>3, Zenon DEF WriteHighByte
  <2>3. mishaps' \subseteq Mishaps
    BY <1>3 DEF TypeInv, WriteHighByte, Mishaps
  <2>4. nmt_control' \in 0 .. 3
    BY <2>2
  <2>. QED
    BY <1>3, <2>1, <2>3, <2>4, Zenon DEF WriteHighByte, TypeInv, r5Vars
<1>4. CASE WriteLowByte
  <2>1. pc' \in [Threads -> Labels]
    BY <1>1, <1>4 DEF WriteLowByte, Goto, TypeInv
  <2>2. nmt_control' \in 0 .. 3
    BY <1>4, Constants, LowByteTypes DEF WriteLowByte, TypeInv
  <2>. QED
    BY <1>4, <2>1, <2>2, Zenon DEF WriteLowByte, TypeInv, r5Vars
<1>5. CASE SigintEarly
  BY <1>5 DEF SigintEarly, TypeInv, cmdVars, r5Vars
<1>6. ASSUME NEW t \in Threads, Sigint(t) PROVE TypeInv'
  <2>1. pc' \in [Threads -> Labels]
    BY <1>1, <1>6 DEF Sigint, Goto, TypeInv
  <2>2. signals \in 0 .. MaxSignals /\ signals < MaxSignals /\ signals' = signals + 1
    BY <1>6, Zenon DEF Sigint, TypeInv
  <2>3. signals' \in 0 .. MaxSignals
    BY <2>2, SignalBound
  <2>. QED
    BY <1>6, <2>1, <2>3, Zenon DEF Sigint, TypeInv, cmdVars, r5Vars
<1>7. ASSUME NEW t \in Threads, Handler(t) PROVE TypeInv'
  <2>1. CASE StopNMT(t)
    <3>1. pc' \in [Threads -> Labels]
      BY <1>1, <2>1 DEF StopNMT, Goto, TypeInv
    <3>2. nmt_control' = 2
      BY <2>1, Zenon DEF StopNMT, kNMTStop
    <3>3. nmt_control' \in 0 .. 3
      BY <3>2
    <3>. QED
      BY <2>1, <3>1, <3>3, Zenon DEF StopNMT, TypeInv, r5Vars
  <2>2. CASE SetType(t, "stop type", "stop copy") \/ Copy(t, "stop copy", "stop write")
               \/ Write(t, "stop write", "close fd")
    BY <1>1, <2>2, SendTypes
  <2>3. CASE CloseEndpoint(t) \/ CloseControl(t) \/ CloseState(t) \/ Exit(t)
    <3>1. pc' \in [Threads -> Labels]
      BY <1>1, <2>3 DEF CloseEndpoint, CloseControl, CloseState, Exit, Goto, TypeInv
    <3>. QED
      BY <2>3, <3>1 DEF CloseEndpoint, CloseControl, CloseState, Exit, TypeInv, cmdVars,
                        r5Vars
  <2>4. CASE OpenState(t) \/ WriteState(t)
    <3>1. pc' \in [Threads -> Labels]
      BY <1>1, <2>4 DEF OpenState, WriteState, Goto, TypeInv
    <3>2. mishaps' \subseteq Mishaps
      BY <2>4 DEF OpenState, WriteState, TypeInv, Mishaps
    <3>3. remoteproc' \in {"offline", "running"} /\ r5nmt' = r5nmt
      BY <2>4 DEF OpenState, WriteState, TypeInv, r5Vars
    <3>. QED
      BY <2>4, <3>1, <3>2, <3>3 DEF OpenState, WriteState, TypeInv
  <2>. QED
    BY <1>7, <2>1, <2>2, <2>3, <2>4 DEF Handler
<1>. QED
  BY <1>2, <1>3, <1>4, <1>5, <1>6, <1>7 DEF Modbus

LEMMA NextTypes == TypeInv /\ [Next]_vars => TypeInv'
<1>1. CASE UNCHANGED vars
  BY <1>1, Zenon DEF vars, TypeInv
<1>. QED
  BY <1>1, MainTypes, OtherTypes DEF Next

-----------------------------------------------------------------------------
(***************************************************************************)
(* How the threads move.                                                   *)
(***************************************************************************)
LEMMA MainMoves ==
  ASSUME TypeInv, MainInit
  PROVE  /\ signals' = signals
         /\ \/ pc' = pc /\ installed' = installed
            \/ /\ pc["main"] \in Alone \ {"threads"} /\ installed' = installed
               /\ \E l \in Alone \ {"firmware"} : pc' = [pc EXCEPT !["main"] = l]
               /\ pc["main"] = "firmware" \/ pc'["main"] # "driver"
            \/ /\ pc["main"] = "threads" /\ installed' = installed
               /\ pc' = [t \in Threads |-> CASE t = "main"   -> "signal"
                                             [] t = "modbus" -> "listen"
                                             [] t = "reader" -> "loop"]
            \/ /\ pc["main"] = "signal" /\ installed' = TRUE
               /\ pc' = [pc EXCEPT !["main"] = "loop"]
<1>1. CASE LoadFirmware \/ LoadFirmwareFails \/ LoadDriver
             \/ \E how \in DriverOutcomes : LoadDriverFails(how)
  BY <1>1 DEF LoadFirmware, LoadFirmwareFails, LoadDriver, LoadDriverFails, At, Goto,
              TypeInv, Threads, Alone
<1>2. CASE InitMutex \/ InitMutexFails \/ StartNMT
  BY <1>2 DEF InitMutex, InitMutexFails, StartNMT, At, Goto, TypeInv, Threads, Alone
<1>3. CASE SetType("main", "type", "copy") \/ Copy("main", "copy", "write")
             \/ Write("main", "write", "threads")
  BY <1>3 DEF SetType, Copy, Write, At, Goto, TypeInv, Threads, Alone
<1>4. CASE StartThreads \/ InstallHandler
  BY <1>4, Zenon DEF StartThreads, InstallHandler, At, Goto
<1>. QED
  BY <1>1, <1>2, <1>3, <1>4 DEF MainInit

LEMMA ModbusMoves ==
  ASSUME TypeInv, Modbus
  PROVE  /\ signals' = signals /\ installed' = installed
         /\ \/ pc["modbus"] = "loop" /\ pc' = pc
            \/ pc["modbus"] = "loop" /\ pc' = [pc EXCEPT !["modbus"] = "low byte"]
            \/ pc["modbus"] = "listen" /\ pc' = [pc EXCEPT !["modbus"] = "off"]
            \/ /\ pc["modbus"] \in {"listen", "low byte"}
               /\ pc' = [pc EXCEPT !["modbus"] = "loop"]
BY DEF Modbus, Listen, ListenFails, AcceptClient, CloseClient, WriteHighByte, WriteLowByte,
       At, Goto

LEMMA HandlerMoves ==
  ASSUME TypeInv, NEW t \in Threads, Handler(t)
  PROVE  /\ signals' = signals /\ installed' = installed
         /\ pc[t] \in Stopping
         /\ \/ pc' = pc /\ pc[t] = "exit"
            \/ \E l \in AfterNMT : pc' = [pc EXCEPT ![t] = l]
         /\ pc[t] = "exit" => pc' = pc
         /\ pc[t] \in Closing => pc'[t] \in Closing
         /\ pc[t] \in Closing \ {"close charfd"} => pc'[t] \in Closing \ {"close charfd"}
         /\ pc[t] = "close charfd" => pc'[t] = "open state"
         /\ pc[t] = "close fd" => pc'[t] = "close charfd"
<1>1. CASE SetType(t, "stop type", "stop copy") \/ Copy(t, "stop copy", "stop write")
             \/ Write(t, "stop write", "close fd")
  BY <1>1 DEF SetType, Copy, Write, At, Goto, Stopping, Closing, AfterNMT, TypeInv
<1>2. CASE StopNMT(t) \/ CloseEndpoint(t) \/ CloseControl(t) \/ Exit(t)
  BY <1>2 DEF StopNMT, CloseEndpoint, CloseControl, Exit, At, Goto, Stopping, Closing,
              AfterNMT, TypeInv
<1>3. CASE OpenState(t) \/ WriteState(t) \/ CloseState(t)
  BY <1>3 DEF OpenState, WriteState, CloseState, At, Goto, Stopping, Closing, AfterNMT,
              TypeInv
<1>. QED
  BY <1>1, <1>2, <1>3 DEF Handler

LEMMA InitPlaces == Init => PlacesInv /\ SignalsInv
BY DEF Init, PlacesInv, SignalsInv, InHandler, Threads, Alone, Stopping, Closing

LEMMA NextPlaces ==
  ASSUME TypeInv, PlacesInv, SignalsInv, [Next]_vars
  PROVE  PlacesInv' /\ SignalsInv'
<1>0. pc \in [Threads -> Labels] /\ Threads = {"main", "modbus", "reader"}
  BY DEF TypeInv, Threads
<1>s. signals \in Nat
  <2>1. signals \in 0 .. MaxSignals
    BY Zenon DEF TypeInv
  <2>. QED
    BY <2>1, SignalBound
<1>1. CASE UNCHANGED vars
  BY <1>1, Zenon DEF vars, PlacesInv, SignalsInv, InHandler
<1>2. CASE MainInit
  <2>0. signals' = signals
    BY <1>2, MainMoves
  <2>1. CASE pc' = pc /\ installed' = installed
    BY <2>0, <2>1, Zenon DEF PlacesInv, SignalsInv, InHandler
  <2>2. CASE /\ pc["main"] \in Alone \ {"threads"} /\ installed' = installed
             /\ \E l \in Alone \ {"firmware"} : pc' = [pc EXCEPT !["main"] = l]
    <3>1. PICK l \in Alone : pc' = [pc EXCEPT !["main"] = l]
      BY <2>2
    <3>2. pc'["main"] = l /\ pc'["modbus"] = pc["modbus"] /\ pc'["reader"] = pc["reader"]
      BY <1>0, <3>1
    <3>3. PlacesInv'
      BY <2>2, <3>2 DEF PlacesInv, Alone, Stopping, Closing
    <3>. QED
      BY <1>0, <2>0, <2>2, <3>2, <3>3 DEF PlacesInv, SignalsInv, InHandler, Alone, Stopping, Closing
  <2>3. CASE /\ pc["main"] = "threads" /\ installed' = installed
             /\ pc' = [t \in Threads |-> CASE t = "main"   -> "signal"
                                           [] t = "modbus" -> "listen"
                                           [] t = "reader" -> "loop"]
    <3>1. pc'["main"] = "signal" /\ pc'["modbus"] = "listen" /\ pc'["reader"] = "loop"
      BY <1>0, <2>3
    <3>2. PlacesInv'
      BY <2>3, <3>1 DEF PlacesInv, Alone, Stopping, Closing
    <3>. QED
      BY <1>0, <3>1, <3>2 DEF SignalsInv, InHandler, Stopping, Closing
  <2>4. CASE /\ pc["main"] = "signal" /\ installed' = TRUE
             /\ pc' = [pc EXCEPT !["main"] = "loop"]
    <3>1. pc'["main"] = "loop" /\ pc'["modbus"] = pc["modbus"] /\ pc'["reader"] = pc["reader"]
      BY <1>0, <2>4
    <3>2. PlacesInv'
      BY <2>4, <3>1 DEF PlacesInv, Alone, Stopping, Closing
    <3>3. \A t \in Threads : pc'[t] \in Stopping => pc[t] \in Stopping
      BY <1>0, <3>1 DEF Stopping, Closing
    <3>. QED
      BY <2>0, <2>4, <3>2, <3>3 DEF SignalsInv, InHandler
  <2>. QED
    BY <1>2, <2>1, <2>2, <2>3, <2>4, MainMoves
<1>3. CASE Modbus
  <2>1. /\ signals' = signals /\ installed' = installed
        /\ pc'["main"] = pc["main"] /\ pc'["reader"] = pc["reader"]
        /\ pc["modbus"] \in {"loop", "listen", "low byte"}
        /\ pc'["modbus"] \in {"off", "loop", "low byte"}
        /\ pc["modbus"] # "off"
    BY <1>0, <1>3, ModbusMoves
  <2>2. PlacesInv'
    BY <2>1 DEF PlacesInv, Alone, Stopping, Closing
  <2>3. \A t \in Threads : pc'[t] \in Stopping => pc[t] \in Stopping
    BY <1>0, <2>1 DEF Stopping, Closing
  <2>. QED
    BY <2>1, <2>2, <2>3, Zenon DEF SignalsInv, InHandler
<1>4. CASE SigintEarly
  BY <1>4, Zenon DEF SigintEarly, PlacesInv, SignalsInv, InHandler
<1>5. ASSUME NEW t \in Threads, Sigint(t) PROVE PlacesInv' /\ SignalsInv'
  <2>1. /\ pc' = [pc EXCEPT ![t] = "stop nmt"] /\ pc[t] \in {"loop", "listen", "low byte"}
        /\ installed = TRUE /\ installed' = installed
    BY <1>5, Zenon DEF Sigint, Goto
  <2>2. signals' = signals + 1
    BY <1>5, Zenon DEF Sigint
  <2>3. PlacesInv'
    <3>1. \A u \in Threads : pc'[u] = IF u = t THEN "stop nmt" ELSE pc[u]
      BY <1>0, <2>1
    <3>2. \A u \in Threads :
            pc'[u] = pc[u] \/ (pc[u] \in {"loop", "listen", "low byte"} /\ pc'[u] = "stop nmt")
      BY <2>1, <3>1
    <3>3. "stop nmt" \notin Alone \cup {"off"} /\ "loop" \notin Alone
      BY DEF Alone
    <3>4. "stop nmt" \in Stopping /\ Alone \cap {"loop", "listen", "low byte"} = {}
      BY DEF Alone, Stopping
    <3>. QED
      BY <1>0, <2>1, <3>2, <3>3, <3>4 DEF PlacesInv
  <2>4. \A u \in Threads : InHandler(u)' => u = t \/ InHandler(u)
    BY <1>0, <2>1 DEF InHandler
  <2>5. signals' <= 1 => \A u \in Threads : ~ InHandler(u)
    BY <1>s, <2>2 DEF SignalsInv
  <2>6. signals' > 0
    BY <1>s, <2>2
  <2>. QED
    BY <2>1, <2>3, <2>4, <2>5, <2>6 DEF SignalsInv
<1>6. ASSUME NEW t \in Threads, Handler(t) PROVE PlacesInv' /\ SignalsInv'
  <2>0. /\ pc[t] \in Stopping /\ installed' = installed
        /\ pc' = pc \/ \E l \in AfterNMT : pc' = [pc EXCEPT ![t] = l]
    BY <1>6, HandlerMoves
  <2>1. PlacesInv'
    <3>1. CASE pc' = pc
      BY <2>0, <3>1 DEF PlacesInv
    <3>2. CASE \E l \in AfterNMT : pc' = [pc EXCEPT ![t] = l]
      <4>1. PICK l \in AfterNMT : pc' = [pc EXCEPT ![t] = l]
        BY <3>2
      <4>2. l \in Stopping
        BY DEF AfterNMT
      <4>3. \A u \in Threads : pc'[u] = pc[u] \/ (pc[u] \in Stopping /\ pc'[u] \in Stopping)
        BY <1>0, <2>0, <4>1, <4>2
      <4>4. "off" \notin Stopping /\ \A place \in Alone : place \notin Stopping
        BY DEF Alone, Stopping, Closing
      <4>. QED
        BY <1>0, <2>0, <4>3, <4>4 DEF PlacesInv
    <3>. QED
      BY <2>0, <3>1, <3>2
  <2>2. \A u \in Threads : pc'[u] \in Stopping => pc[u] \in Stopping
    BY <1>0, <1>6, HandlerMoves DEF Stopping, AfterNMT
  <2>3. signals' = signals /\ installed' = installed
    BY <1>6, HandlerMoves
  <2>. QED
    BY <2>1, <2>2, <2>3, Zenon DEF SignalsInv, InHandler
<1>. QED
  BY <1>1, <1>2, <1>3, <1>4, <1>5, <1>6 DEF Next

-----------------------------------------------------------------------------
(***************************************************************************)
(* There are numbers enough for what main opens, and a set of numbers has  *)
(* a least one, which is what the kernel hands out.                        *)
(***************************************************************************)
LEMMA ThreeNumbers ==
  ASSUME NEW a, NEW b
  PROVE  \E n \in FDs : n \notin {a, b}
<1>1. SUFFICES ASSUME FDs \subseteq {a, b} PROVE FALSE
  OBVIOUS
<1>2. IsFiniteSet({b}) /\ Cardinality({b}) = 1
  BY FS_Singleton
<1>3. IsFiniteSet({b} \cup {a}) /\ Cardinality({b} \cup {a}) \in {1, 2}
  BY <1>2, FS_AddElement
<1>4. {b} \cup {a} = {a, b}
  OBVIOUS
<1>5. Cardinality({a, b}) \in {1, 2} /\ IsFiniteSet({a, b})
  BY <1>3, <1>4
<1>6. Cardinality(FDs) \in Nat /\ Cardinality(FDs) <= Cardinality({a, b})
  BY <1>1, <1>5, FS_Subset, FS_CardinalityType, Constants
<1>7. Cardinality(FDs) >= 3
  BY RobotAssumption, Zenon DEF RobotAssumption
<1>. DEFINE few == Cardinality({a, b})
            many == Cardinality(FDs)
<1>8. few \in {1, 2} /\ many \in Nat /\ many <= few /\ many >= 3
  BY <1>5, <1>6, <1>7, Zenon
<1>. HIDE DEF few, many
<1>. QED
  BY <1>8

\* A set of numbers has a least one.
LEMMA LeastNat ==
  ASSUME NEW S \in SUBSET Nat, S # {}
  PROVE  \E i \in S : \A j \in S : i <= j
<1>. DEFINE Below == { p \in Nat \X Nat : p[1] < p[2] }
<1>1. IsWellFoundedOn(Below, Nat)
  BY NatLessThanWellFounded DEF OpToRel
<1>2. PICK i \in S : \A j \in S : ~ (<<j, i>> \in Below)
  BY <1>1, WFMin
<1>3. \A j \in S : ~ (j < i)
  <2>1. ASSUME NEW j \in S, j < i PROVE <<j, i>> \in Below
    BY <2>1
  <2>. QED
    BY <1>2, <2>1
<1>. QED
  BY <1>3

\* The least of the numbers is one of them.
LEMMA LeastIsIn == \A S \in SUBSET FDs : S # {} => Least(S) \in S
<1>. SUFFICES ASSUME NEW S \in SUBSET FDs, S # {} PROVE Least(S) \in S
  OBVIOUS
<1>1. S \in SUBSET Nat
  BY Constants
<1>. QED
  BY <1>1, LeastNat DEF Least

LEMMA LowestIsFree == Free # {} => Lowest \in FDs /\ fdtab[Lowest] = "free"
BY LeastIsIn DEF Lowest, Free

\* The three numbers that main gets while nothing is open.
LEMMA LoadNumbers ==
  ASSUME \A n \in FDs : fdtab[n] = "free"
  PROVE  /\ Lowest \in FDs
         /\ ControlNumber \in FDs \ {Lowest}
         /\ EndpointNumber \in FDs \ {Lowest, ControlNumber}
<1>1. Free = FDs
  BY DEF Free
<1>2. Lowest \in FDs
  BY <1>1, LowestIsFree, ThreeNumbers
<1>3. ControlNumber \in FDs \ {Lowest}
  <2>1. FDs \ {Lowest} # {}
    BY ThreeNumbers
  <2>. QED
    BY <1>1, <2>1, LeastIsIn DEF ControlNumber
<1>4. EndpointNumber \in FDs \ {Lowest, ControlNumber}
  <2>1. FDs \ {Lowest, ControlNumber} # {}
    BY ThreeNumbers
  <2>. QED
    BY <1>1, <2>1, LeastIsIn DEF EndpointNumber
<1>. QED
  BY <1>2, <1>3, <1>4

LEMMA NoDescriptor == -1 \notin FDs
<1>1. FDs \subseteq Nat
  BY RobotAssumption, Zenon DEF RobotAssumption
<1>. QED
  BY <1>1

LEMMA InitTable == Init => TableInv /\ DescriptorInv
<1>. SUFFICES ASSUME Init PROVE TableInv /\ DescriptorInv
  OBVIOUS
<1>1. /\ fd = -1 /\ charfd = -1 /\ wrote = {} /\ mishaps = {}
      /\ fdtab = [n \in FDs |-> "free"] /\ statefd = [t \in Threads |-> -1]
  BY Zenon DEF Init
<1>2. TableInv
  BY <1>1, NoDescriptor DEF TableInv
<1>3. StateInv
  BY DEF Init, StateInv, Threads
<1>4. DescriptorInv
  BY <1>1, <1>3, NoDescriptor DEF DescriptorInv, ClosedInv
<1>. QED
  BY <1>2, <1>4

\* Main does not come back to where it was before it opened anything.
LEMMA StillEarly ==
  ASSUME TypeInv, PlacesInv, Next, pc'["main"] \in {"firmware", "driver"}
  PROVE  pc["main"] \in {"firmware", "driver"}
<1>0. pc \in [Threads -> Labels] /\ Threads = {"main", "modbus", "reader"}
  BY DEF TypeInv, Threads
<1>1. CASE MainInit
  BY <1>0, <1>1, MainMoves DEF Alone
<1>2. CASE Modbus
  BY <1>0, <1>2, ModbusMoves
<1>3. CASE SigintEarly
  BY <1>3 DEF SigintEarly
<1>4. CASE \E t \in Threads : Sigint(t)
  BY <1>0, <1>4 DEF Sigint, Goto
<1>5. CASE \E t \in Threads : Handler(t)
  <2>1. PICK t \in Threads :
          pc' = pc \/ \E l \in AfterNMT : pc' = [pc EXCEPT ![t] = l]
    BY <1>5, HandlerMoves
  <2>2. {"firmware", "driver"} \cap AfterNMT = {}
    BY DEF AfterNMT, Stopping, Closing
  <2>. QED
    BY <1>0, <2>1, <2>2
<1>. QED
  BY <1>1, <1>2, <1>3, <1>4, <1>5 DEF Next

LEMMA ClosedTable ==
  ASSUME TableInv, NEW n
  PROVE  /\ Closed(n) \in [FDs -> {"free"} \cup Kinds]
         /\ \A m \in FDs : Closed(n)[m] = IF m = n THEN "free" ELSE fdtab[m]
BY DEF Closed, TableInv

LEMMA LoadedTable ==
  ASSUME TableInv, LoadDriver
  PROVE  /\ charfd' \in FDs /\ fd' \in FDs /\ fd' # charfd'
         /\ fdtab' \in [FDs -> {"free"} \cup Kinds]
         /\ fdtab'[fd'] = "ept" /\ fdtab'[charfd'] = "ctl"
<1>1. /\ pc["main"] = "driver" /\ charfd' = ControlNumber /\ fd' = EndpointNumber
      /\ fdtab' = [fdtab EXCEPT ![Lowest] = "dir", ![charfd'] = "ctl", ![fd'] = "ept"]
  BY DEF LoadDriver, At
<1>2. \A n \in FDs : fdtab[n] = "free"
  BY <1>1 DEF TableInv
<1>. QED
  BY <1>1, <1>2, LoadNumbers DEF TableInv, Kinds

\* The descriptors that main leaves open when the driver fails.
LEMMA FailedTable ==
  ASSUME TableInv, NEW how \in DriverOutcomes, LoadDriverFails(how)
  PROVE  /\ fd' = -1 /\ (charfd' = -1 \/ charfd' \in FDs)
         /\ fdtab' \in [FDs -> {"free"} \cup Kinds]
         /\ "charfd closed" \notin mishaps' /\ charfd' \in FDs => fdtab'[charfd'] = "ctl"
<1>1. pc["main"] = "driver" /\ fd' = fd /\ fdtab' = LeftOpen(how)
  BY DEF LoadDriverFails, At
<1>2. (\A n \in FDs : fdtab[n] = "free") /\ fd = -1 /\ charfd = -1
  BY <1>1 DEF TableInv
<1>3. how \in {"no device", "not bound", "no control", "no endpoint", "not opened"}
  BY Constants DEF LoadDriverFails
<1>4. fdtab' \in [FDs -> {"free"} \cup Kinds]
  BY <1>1, <1>2, <1>3, LoadNumbers DEF LeftOpen, TableInv, Kinds
<1>5. charfd' = -1 \/ charfd' \in FDs
  BY <1>2, LoadNumbers DEF LoadDriverFails
<1>6. ASSUME "charfd closed" \notin mishaps', charfd' \in FDs PROVE fdtab'[charfd'] = "ctl"
  <2>1. how = "no endpoint" /\ charfd' = ControlNumber
    BY <1>2, <1>3, <1>6, NoDescriptor DEF LoadDriverFails
  <2>. QED
    BY <1>1, <1>2, <2>1, LoadNumbers DEF LeftOpen, TableInv
<1>. QED
  BY <1>1, <1>2, <1>4, <1>5, <1>6

\* The actions that open or close a descriptor; the others leave them all alone.
LEMMA OtherSteps ==
  ASSUME Next
  PROVE  \/ LoadDriver \/ \E how \in DriverOutcomes : LoadDriverFails(how)
         \/ Listen \/ AcceptClient \/ CloseClient
         \/ \E t \in Threads :
              CloseEndpoint(t) \/ CloseControl(t) \/ OpenState(t) \/ CloseState(t)
         \/ fd' = fd /\ charfd' = charfd /\ statefd' = statefd /\ fdtab' = fdtab
<1>1. CASE MainInit
  BY <1>1 DEF MainInit, LoadFirmware, LoadFirmwareFails, InitMutex, InitMutexFails, StartNMT,
              SetType, Copy, Write, StartThreads, InstallHandler, fdVars
<1>2. CASE Modbus
  BY <1>2 DEF Modbus, ListenFails, WriteHighByte, WriteLowByte, fdVars
<1>3. CASE SigintEarly \/ \E t \in Threads : Sigint(t)
  BY <1>3 DEF SigintEarly, Sigint, fdVars
<1>4. CASE \E t \in Threads : Handler(t)
  BY <1>4 DEF Handler, StopNMT, SetType, Copy, Write, WriteState, Exit, fdVars
<1>. QED
  BY <1>1, <1>2, <1>3, <1>4 DEF Next

\* What becomes of each number when a socket or the state file is opened, and when
\* something is closed.
LEMMA OpenSteps ==
  ASSUME TableInv, Listen \/ AcceptClient \/ \E t \in Threads : OpenState(t)
  PROVE  /\ fd' = fd /\ charfd' = charfd
         /\ fdtab' \in [FDs -> {"free"} \cup Kinds]
         /\ statefd' \in [Threads -> FDs \cup {-1}]
         /\ \A n \in FDs : fdtab'[n] = fdtab[n] \/
              (fdtab[n] = "free" /\ fdtab'[n] \in {"state", "listen", "client"})
<1>1. CASE Listen \/ AcceptClient
  <2>1. /\ Free # {} /\ fd' = fd /\ charfd' = charfd /\ statefd' = statefd
        /\ \E kind \in {"listen", "client"} : fdtab' = [fdtab EXCEPT ![Lowest] = kind]
    BY <1>1 DEF Listen, AcceptClient
  <2>. QED
    BY <2>1, LowestIsFree DEF TableInv, Kinds
<1>2. CASE \E t \in Threads : OpenState(t)
  <2>1. PICK t \in Threads : OpenState(t)
    BY <1>2
  <2>2. CASE fdtab' = fdtab /\ statefd' = statefd
    BY <2>1, <2>2 DEF OpenState, TableInv
  <2>3. CASE /\ Free # {} /\ statefd' = [statefd EXCEPT ![t] = Lowest]
             /\ fdtab' = [fdtab EXCEPT ![Lowest] = "state"]
    BY <2>1, <2>3, LowestIsFree DEF OpenState, TableInv, Kinds
  <2>. QED
    BY <2>1, <2>2, <2>3 DEF OpenState
<1>. QED
  BY <1>1, <1>2

LEMMA CloseSteps ==
  ASSUME TableInv,
         CloseClient
           \/ \E t \in Threads : CloseEndpoint(t) \/ CloseControl(t) \/ CloseState(t)
  PROVE  /\ fd' = fd /\ charfd' = charfd
         /\ fdtab' \in [FDs -> {"free"} \cup Kinds]
         /\ statefd' \in [Threads -> FDs \cup {-1}]
         /\ \A n \in FDs : fdtab'[n] \in {fdtab[n], "free"}
<1>1. CASE CloseClient
  BY <1>1 DEF CloseClient, TableInv
<1>2. ASSUME NEW t \in Threads, CloseEndpoint(t) \/ CloseControl(t) \/ CloseState(t)
      PROVE  /\ fd' = fd /\ charfd' = charfd /\ statefd' \in [Threads -> FDs \cup {-1}]
             /\ \E n : fdtab' = Closed(n)
  BY <1>2 DEF CloseEndpoint, CloseControl, CloseState, TableInv
<1>. QED
  BY <1>1, <1>2, ClosedTable

LEMMA NextTable ==
  ASSUME TypeInv, PlacesInv, TableInv, [Next]_vars
  PROVE  TableInv'
<1>0. pc \in [Threads -> Labels] /\ "main" \in Threads
  BY DEF TypeInv, Threads
<1>1. CASE UNCHANGED vars
  BY <1>1, Zenon DEF vars, TableInv
<1>2. ASSUME Next, fd' = fd, charfd' = charfd, statefd' = statefd, fdtab' = fdtab
      PROVE  TableInv'
  BY <1>2, StillEarly DEF TableInv
<1>3. CASE LoadDriver
  <2>1. pc'["main"] = "mutex" /\ statefd' = statefd
    BY <1>0, <1>3 DEF LoadDriver, Goto
  <2>. QED
    BY <1>3, <2>1, LoadedTable DEF TableInv
<1>4. ASSUME NEW how \in DriverOutcomes, LoadDriverFails(how) PROVE TableInv'
  <2>1. pc'["main"] = "mutex" /\ statefd' = statefd
    BY <1>0, <1>4 DEF LoadDriverFails, Goto
  <2>. QED
    BY <1>4, <2>1, FailedTable, NoDescriptor DEF TableInv
<1>5. CASE Listen \/ AcceptClient \/ \E t \in Threads : OpenState(t)
  <2>1. pc'["main"] \notin {"firmware", "driver"}
    <3>1. CASE Listen \/ AcceptClient
      BY <1>0, <3>1 DEF Listen, AcceptClient, At, Goto, PlacesInv, Alone
    <3>2. CASE \E t \in Threads : OpenState(t)
      <4>1. PICK t \in Threads : OpenState(t)
        BY <3>2
      <4>2. pc[t] = "open state" /\ Next
        BY <4>1 DEF OpenState, At, Next, Handler
      <4>3. pc["main"] \notin {"firmware", "driver"}
        BY <4>2 DEF PlacesInv, Threads, Alone, Stopping, Closing
      <4>. QED
        BY <4>2, <4>3, StillEarly
    <3>. QED
      BY <1>5, <3>1, <3>2
  <2>. QED
    BY <1>5, <2>1, OpenSteps DEF TableInv
<1>6. CASE CloseClient
             \/ \E t \in Threads : CloseEndpoint(t) \/ CloseControl(t) \/ CloseState(t)
  <2>1. Next
    BY <1>6 DEF Next, Modbus, Handler
  <2>. QED
    BY <1>6, <2>1, StillEarly, CloseSteps DEF TableInv
<1>. QED
  BY <1>1, <1>2, <1>3, <1>4, <1>5, <1>6, OtherSteps

-----------------------------------------------------------------------------
(***************************************************************************)
(* What fd and charfd stand for.                                           *)
(***************************************************************************)

\* A thread that has closed a descriptor stays in OpenAMPStop.
LEMMA ClosingStays ==
  ASSUME TypeInv, PlacesInv, Next, NEW t \in Threads
  PROVE  /\ pc[t] \in Closing => pc'[t] \in Closing
         /\ pc[t] \in Closing \ {"close charfd"} => pc'[t] \in Closing \ {"close charfd"}
<1>0. pc \in [Threads -> Labels] /\ t \in {"main", "modbus", "reader"}
  BY DEF TypeInv, Threads
<1>1. CASE MainInit
  <2>1. pc["main"] \in Alone => pc["modbus"] = "off" /\ pc["reader"] = "off"
    BY DEF PlacesInv
  <2>. QED
    BY <1>0, <1>1, <2>1, MainMoves DEF Alone, Closing
<1>2. CASE Modbus
  BY <1>0, <1>2, ModbusMoves DEF Closing
<1>3. CASE SigintEarly
  BY <1>3 DEF SigintEarly
<1>4. ASSUME NEW u \in Threads, Sigint(u)
      PROVE  pc[u] \in {"loop", "listen", "low byte"} /\ pc' = [pc EXCEPT ![u] = "stop nmt"]
  BY <1>4 DEF Sigint, Goto
<1>5. CASE \E u \in Threads : Handler(u)
  <2>1. PICK u \in Threads : Handler(u)
    BY <1>5
  <2>2. CASE u = t
    BY <2>1, <2>2, HandlerMoves
  <2>3. CASE u # t
    BY <1>0, <2>1, <2>3, HandlerMoves
  <2>. QED
    BY <2>2, <2>3
<1>. QED
  BY <1>0, <1>1, <1>2, <1>3, <1>4, <1>5 DEF Next, Closing

\* RPMsgSend writes, called by main or by a handler, and nothing else does.
LEMMA WhoWrites ==
  ASSUME Next
  PROVE  \/ wrote' = wrote
         \/ Write("main", "write", "threads")
         \/ \E t \in Threads : Write(t, "stop write", "close fd")
<1>1. CASE MainInit
  BY <1>1 DEF MainInit, LoadFirmware, LoadFirmwareFails, LoadDriver, LoadDriverFails,
              InitMutex, InitMutexFails, StartNMT, SetType, Copy, StartThreads, InstallHandler
<1>2. CASE Modbus
  BY <1>2 DEF Modbus, Listen, ListenFails, AcceptClient, CloseClient, WriteHighByte, WriteLowByte
<1>3. CASE SigintEarly \/ \E t \in Threads : Sigint(t)
  BY <1>3 DEF SigintEarly, Sigint
<1>4. CASE \E t \in Threads : Handler(t)
  BY <1>4 DEF Handler, StopNMT, SetType, Copy, CloseEndpoint, CloseControl, OpenState, WriteState, CloseState, Exit
<1>. QED
  BY <1>1, <1>2, <1>3, <1>4 DEF Next

LEMMA HistoriesGrow ==
  ASSUME TypeInv, Next
  PROVE  mishaps \subseteq mishaps' /\ (signals' <= 1 => signals <= 1)
<1>0. signals \in Nat
  <2>1. signals \in 0 .. MaxSignals
    BY Zenon DEF TypeInv
  <2>. QED
    BY <2>1, SignalBound
<1>1. CASE MainInit
  <2>1. mishaps \subseteq mishaps'
    BY <1>1 DEF MainInit, LoadFirmware, LoadFirmwareFails, LoadDriver, LoadDriverFails,
                InitMutex, InitMutexFails, StartNMT, SetType, Copy, Write, StartThreads,
                InstallHandler, cmdVars
  <2>. QED
    BY <1>1, <2>1, MainMoves
<1>2. CASE Modbus
  <2>1. mishaps \subseteq mishaps'
    BY <1>2 DEF Modbus, Listen, ListenFails, AcceptClient, CloseClient, WriteHighByte, WriteLowByte, cmdVars
  <2>. QED
    BY <1>2, <2>1, ModbusMoves
<1>3. CASE SigintEarly
  BY <1>3 DEF SigintEarly, cmdVars
<1>4. ASSUME NEW t \in Threads, Sigint(t)
      PROVE  mishaps \subseteq mishaps' /\ (signals' <= 1 => signals <= 1)
  <2>1. signals' = signals + 1 /\ mishaps' = mishaps
    BY <1>4, Zenon DEF Sigint, cmdVars
  <2>. QED
    BY <1>0, <2>1
<1>5. ASSUME NEW t \in Threads, Handler(t)
      PROVE  mishaps \subseteq mishaps' /\ (signals' <= 1 => signals <= 1)
  <2>1. mishaps \subseteq mishaps'
    BY <1>5 DEF Handler, StopNMT, SetType, Copy, Write, CloseEndpoint, CloseControl, OpenState, WriteState, CloseState,
                Exit, cmdVars
  <2>. QED
    BY <1>5, <2>1, HandlerMoves
<1>. QED
  BY <1>1, <1>2, <1>3, <1>4, <1>5 DEF Next

\* What goes astray is told from the other mishaps.
LEMMA AnotherMishap ==
  "stop astray" \notin mishaps =>
    \A other \in Mishaps \ {"stop astray"} : "stop astray" \notin mishaps \cup {other}
OBVIOUS

LEMMA OtherMishaps ==
  {"nmt rewritten", "start lost", "stop lost", "stop refused"} \subseteq
    Mishaps \ {"stop astray"}
BY DEF Mishaps

\* Only the writing of the state file goes astray, when the number is not its own.
LEMMA WhoGoesAstray ==
  ASSUME Next, "stop astray" \notin mishaps, "stop astray" \in mishaps'
  PROVE  \E t \in Threads : WriteState(t) /\ fdtab[statefd[t]] # "state"
<1>1. ASSUME NEW t, NEW here, NEW next, Write(t, here, next) PROVE FALSE
  <2>1. \/ mishaps' = mishaps
        \/ mishaps' = mishaps \cup {"start lost"} \/ mishaps' = mishaps \cup {"stop lost"}
    BY <1>1 DEF Write
  <2>. QED
    BY <2>1, AnotherMishap, OtherMishaps
<1>2. ASSUME NEW how, LoadDriverFails(how) PROVE FALSE
  BY <1>2 DEF LoadDriverFails
<1>3. ASSUME WriteHighByte PROVE FALSE
  <2>1. mishaps' = mishaps \cup {"nmt rewritten"}
    BY <1>3, Zenon DEF WriteHighByte
  <2>. QED
    BY <2>1, AnotherMishap, OtherMishaps
<1>4. ASSUME NEW t, OpenState(t) PROVE FALSE
  <2>1. mishaps' = mishaps \/ mishaps' = mishaps \cup {"stop refused"}
    BY <1>4 DEF OpenState
  <2>. QED
    BY <2>1, AnotherMishap, OtherMishaps
<1>5. ASSUME NEW t, WriteState(t) PROVE fdtab[statefd[t]] # "state"
  <2>1. \/ fdtab[statefd[t]] # "state" \/ mishaps' = mishaps
        \/ mishaps' = mishaps \cup {"stop refused"}
    BY <1>5 DEF WriteState
  <2>. QED
    BY <2>1, AnotherMishap, OtherMishaps
<1>6. mishaps' # mishaps
  OBVIOUS
<1>7. ~ MainInit
  BY <1>1, <1>2, <1>6 DEF MainInit, LoadFirmware, LoadFirmwareFails, LoadDriver, InitMutex,
     InitMutexFails, StartNMT, SetType, Copy, StartThreads, InstallHandler, cmdVars
<1>8. ~ Modbus
  <2>1. ASSUME Modbus PROVE mishaps' = mishaps
    BY <1>3, <2>1 DEF Modbus, Listen, ListenFails, AcceptClient, CloseClient, WriteLowByte,
                      cmdVars
  <2>. QED
    BY <1>6, <2>1
<1>9. ~ SigintEarly /\ \A t \in Threads : ~ Sigint(t)
  BY <1>6 DEF SigintEarly, Sigint, cmdVars
<1>10. ASSUME NEW t \in Threads, Handler(t) PROVE WriteState(t)
  BY <1>1, <1>4, <1>6, <1>10 DEF Handler, StopNMT, SetType, Copy, CloseEndpoint, CloseControl,
     CloseState, Exit, cmdVars
<1>. QED
  BY <1>5, <1>7, <1>8, <1>9, <1>10 DEF Next

\* No handler runs before main has installed it.
LEMMA NoHandlerYet ==
  ASSUME TypeInv, PlacesInv, SignalsInv, MainInit
  PROVE  \A t \in Threads : pc[t] \notin Stopping /\ pc'[t] \notin Stopping
<1>0. pc \in [Threads -> Labels] /\ Threads = {"main", "modbus", "reader"}
  BY DEF TypeInv, Threads
<1>1. pc["main"] \in Alone \cup {"signal"} \/ pc["main"] = "mutex"
  BY DEF MainInit, LoadFirmware, LoadFirmwareFails, LoadDriver, LoadDriverFails,
         InitMutex, InitMutexFails, StartNMT, SetType, Copy, Write, StartThreads,
         InstallHandler, At, Alone
<1>2. \A t \in Threads : pc[t] \notin Stopping
  BY <1>1 DEF PlacesInv, SignalsInv, InHandler, Alone, Stopping, Closing
<1>3. \A t \in Threads : pc'[t] \in Stopping => pc[t] \in Stopping
  BY <1>0, MainMoves DEF Alone, Stopping, Closing
<1>. QED
  BY <1>2, <1>3

\* With one SIGINT there is one handler: what it writes to and closes is open.
LEMMA OneHandler ==
  ASSUME TypeInv, PlacesInv, SignalsInv, DescriptorInv, signals <= 1, NEW t \in Threads,
         (t = "main" /\ pc[t] = "write") \/ pc[t] \in Stopping
  PROVE  \A u \in Threads : u # t => pc[u] \notin Stopping
<1>1. CASE t = "main" /\ pc[t] = "write"
  BY <1>1 DEF PlacesInv, Threads, Alone, Stopping, Closing
<1>2. CASE pc[t] \in Stopping
  BY <1>2 DEF SignalsInv, InHandler
<1>. QED
  BY <1>1, <1>2

\* A step that changes the number of the endpoint or of the control device, or the
\* state file of a thread, is the handler's closing of it.
LEMMA OwnClosings ==
  ASSUME TypeInv, TableInv, Next,
         ~ (LoadDriver \/ \E how \in DriverOutcomes : LoadDriverFails(how)),
         NEW n \in FDs, fdtab[n] \in {"ctl", "ept", "state"}, fdtab'[n] # fdtab[n]
  PROVE  \E t \in Threads : \/ CloseEndpoint(t) /\ n = fd
                            \/ CloseControl(t) /\ n = charfd
                            \/ CloseState(t) /\ n = statefd[t]
<1>1. CASE Listen \/ AcceptClient \/ \E t \in Threads : OpenState(t)
  BY <1>1, OpenSteps
<1>2. CASE CloseClient
  BY <1>2 DEF CloseClient, TableInv
<1>3. ASSUME NEW t \in Threads, CloseEndpoint(t) \/ CloseControl(t) \/ CloseState(t)
      PROVE  \/ CloseEndpoint(t) /\ n = fd
             \/ CloseControl(t) /\ n = charfd
             \/ CloseState(t) /\ n = statefd[t]
  <2>1. CASE CloseEndpoint(t)
    BY <2>1, ClosedTable DEF CloseEndpoint
  <2>2. CASE CloseControl(t)
    BY <2>2, ClosedTable DEF CloseControl
  <2>3. CASE CloseState(t)
    BY <2>3, ClosedTable DEF CloseState
  <2>. QED
    BY <1>3, <2>1, <2>2, <2>3
<1>. QED
  BY <1>1, <1>2, <1>3, OtherSteps

\* With one handler the state file it has opened stays open until it closes it.
LEMMA NextState ==
  ASSUME TypeInv, PlacesInv, SignalsInv, TableInv, DescriptorInv, Next, signals' <= 1
  PROVE  StateInv'
<1>0. pc \in [Threads -> Labels] /\ signals <= 1 /\ StateInv
  BY HistoriesGrow DEF TypeInv, DescriptorInv
<1>. SUFFICES ASSUME NEW t \in Threads, pc'[t] \in {"write state", "close state"}
              PROVE  statefd'[t] \in FDs /\ fdtab'[statefd'[t]] = "state"
  BY DEF StateInv
<1>1. CASE OpenState(t)
  BY <1>0, <1>1, LowestIsFree DEF OpenState, Goto, TableInv
<1>2. CASE ~ OpenState(t)
  <2>1. pc[t] \in {"write state", "close state"} /\ statefd'[t] = statefd[t]
    <3>1. CASE MainInit
      BY <1>0, <3>1, NoHandlerYet DEF Stopping, Closing
    <3>2. CASE Modbus
      <4>1. pc[t] = pc'[t]
        BY <1>0, <3>2, ModbusMoves
      <4>2. statefd' = statefd
        BY <3>2 DEF Modbus, Listen, ListenFails, AcceptClient, CloseClient, WriteHighByte,
                    WriteLowByte, fdVars
      <4>. QED
        BY <4>1, <4>2
    <3>3. CASE SigintEarly \/ \E u \in Threads : Sigint(u)
      BY <1>0, <3>3 DEF SigintEarly, Sigint, Goto, fdVars
    <3>4. ASSUME NEW u \in Threads, Handler(u), u # t
          PROVE  pc[t] \in {"write state", "close state"} /\ statefd'[t] = statefd[t]
      <4>1. pc'[t] = pc[t]
        BY <1>0, <3>4, HandlerMoves
      <4>. QED
        BY <1>0, <3>4, <4>1, OneHandler, HandlerMoves DEF Stopping, Closing
    <3>5. CASE Handler(t)
      <4>1. WriteState(t)
        BY <1>0, <1>2, <3>5 DEF Handler, StopNMT, SetType, Copy, Write, CloseEndpoint,
                               CloseControl, CloseState, Exit, At, Goto
      <4>. QED
        BY <4>1 DEF WriteState, At, fdVars
    <3>. QED
      BY <3>1, <3>2, <3>3, <3>4, <3>5 DEF Next
  <2>2. statefd[t] \in FDs /\ fdtab[statefd[t]] = "state"
    BY <1>0, <2>1 DEF StateInv
  <2>3. \A u \in Threads : u # t => pc[u] \notin Stopping
    BY <1>0, <2>1, OneHandler DEF Stopping, Closing
  <2>4. ASSUME NEW u \in Threads, CloseEndpoint(u) \/ CloseControl(u) \/ CloseState(u)
        PROVE  FALSE
    <3>1. pc[u] \in {"close fd", "close charfd", "close state"}
      BY <2>4 DEF CloseEndpoint, CloseControl, CloseState, At
    <3>2. u = t
      BY <2>3, <3>1 DEF Stopping, Closing
    <3>. QED
      BY <1>0, <2>1, <2>4, <3>2 DEF CloseEndpoint, CloseControl, CloseState, At, Goto
  <2>5. ~ (LoadDriver \/ \E how \in DriverOutcomes : LoadDriverFails(how))
    BY <2>1, NoHandlerYet DEF MainInit, Stopping, Closing
  <2>. QED
    BY <2>1, <2>2, <2>4, <2>5, OwnClosings
<1>. QED
  BY <1>1, <1>2

LEMMA NextDescriptors ==
  ASSUME TypeInv, PlacesInv, SignalsInv, TableInv, DescriptorInv, Next
  PROVE  DescriptorInv'
<1>0. pc["main"] = "driver" => fd = -1
  BY DEF TableInv
<1>1. /\ fd' \in FDs \cup {-1} /\ charfd' \in FDs \cup {-1} /\ (fd' = charfd' => fd' = -1)
      /\ fd \in FDs => fd' = fd
  <2>1. CASE LoadDriver
    BY <1>0, <2>1, LoadedTable, NoDescriptor DEF LoadDriver, At
  <2>2. CASE \E how \in DriverOutcomes : LoadDriverFails(how)
    BY <1>0, <2>2, FailedTable, NoDescriptor DEF LoadDriverFails, At
  <2>3. CASE fd' = fd /\ charfd' = charfd
    BY <2>3 DEF DescriptorInv
  <2>. QED
    BY <2>1, <2>2, <2>3, OtherSteps, OpenSteps, CloseSteps
<1>2. /\ ClosedInv(fd, "ept", Closing)'
      /\ "charfd closed" \notin mishaps' => ClosedInv(charfd, "ctl", Closing \ {"close charfd"})'
  <2>1. CASE LoadDriver \/ \E how \in DriverOutcomes : LoadDriverFails(how)
    <3>1. /\ fd' \in FDs => fdtab'[fd'] = "ept"
          /\ "charfd closed" \notin mishaps' /\ charfd' \in FDs => fdtab'[charfd'] = "ctl"
      BY <2>1, LoadedTable, FailedTable, NoDescriptor
    <3>. QED
      BY <3>1 DEF ClosedInv
  <2>2. CASE ~ (LoadDriver \/ \E how \in DriverOutcomes : LoadDriverFails(how))
    <3>0. fd' = fd /\ charfd' = charfd
      BY <2>2, OtherSteps, OpenSteps, CloseSteps
    <3>1. ASSUME NEW t \in Threads, CloseState(t) PROVE pc'[t] = "exit"
      BY <3>1 DEF CloseState, Goto, TypeInv
    <3>2. ASSUME fd \in FDs, \A t \in Threads : pc'[t] \notin Closing
          PROVE  fdtab'[fd] = "ept"
      <4>1. fdtab[fd] = "ept"
        BY <3>2, ClosingStays DEF DescriptorInv, ClosedInv
      <4>2. ASSUME NEW t \in Threads, CloseEndpoint(t) \/ CloseControl(t) PROVE FALSE
        BY <3>2, <4>2 DEF CloseEndpoint, CloseControl, Goto, TypeInv, Closing
      <4>. QED
        BY <2>2, <3>1, <3>2, <4>1, <4>2, OwnClosings DEF Closing
    <3>3. ASSUME "charfd closed" \notin mishaps', charfd \in FDs,
                 \A t \in Threads : pc'[t] \notin Closing \ {"close charfd"}
          PROVE  fdtab'[charfd] = "ctl"
      <4>1. fdtab[charfd] = "ctl"
        BY <3>3, ClosingStays, HistoriesGrow DEF DescriptorInv, ClosedInv
      <4>2. ASSUME NEW t \in Threads, CloseControl(t) PROVE FALSE
        BY <3>3, <4>2 DEF CloseControl, Goto, TypeInv, Closing
      <4>3. charfd # fd
        BY <3>3, NoDescriptor DEF DescriptorInv
      <4>. QED
        BY <2>2, <3>1, <3>3, <4>1, <4>2, <4>3, OwnClosings DEF Closing
    <3>. QED
      BY <3>0, <3>2, <3>3 DEF ClosedInv
  <2>. QED
    BY <2>1, <2>2
<1>3. /\ wrote' \subseteq Kinds \ {"bind", "dir"} /\ ("ept" \in wrote' => fd' \in FDs)
      /\ signals' <= 1 => wrote' \subseteq {"ept"}
  <2>1. CASE wrote' = wrote
    BY <1>1, <2>1, HistoriesGrow DEF DescriptorInv
  <2>2. ASSUME NEW t \in Threads, NEW here, NEW next, Write(t, here, next),
               (t = "main" /\ here = "write") \/ here = "stop write", wrote' # wrote
        PROVE  /\ wrote' \subseteq Kinds \ {"bind", "dir"} /\ ("ept" \in wrote' => fd' \in FDs)
               /\ signals' <= 1 => wrote' \subseteq {"ept"}
    <3>1. fd \in FDs /\ fdtab[fd] # "free" /\ wrote' = wrote \cup {fdtab[fd]} /\ fd' = fd
      BY <2>2 DEF Write, fdVars
    <3>2. fdtab[fd] \in Kinds \ {"bind", "dir"}
      BY <3>1 DEF TableInv
    <3>3. ASSUME signals' <= 1 PROVE fdtab[fd] = "ept"
      <4>1. pc[t] = here /\ signals <= 1
        BY <2>2, <3>3, HistoriesGrow DEF Write, At
      <4>2. \A u \in Threads : u # t => pc[u] \notin Stopping
        BY <2>2, <4>1, OneHandler DEF Stopping
      <4>3. \A u \in Threads : pc[u] \notin Closing
        BY <2>2, <4>1, <4>2 DEF Stopping, Closing
      <4>. QED
        BY <3>1, <4>3 DEF DescriptorInv, ClosedInv
    <3>. QED
      BY <3>1, <3>2, <3>3, HistoriesGrow DEF DescriptorInv
  <2>. QED
    BY <2>1, <2>2, WhoWrites DEF Threads
<1>4. signals' <= 1 => "stop astray" \notin mishaps'
  <2>. SUFFICES ASSUME signals' <= 1, "stop astray" \in mishaps' PROVE FALSE
    OBVIOUS
  <2>1. "stop astray" \notin mishaps /\ StateInv
    BY HistoriesGrow DEF DescriptorInv
  <2>2. PICK t \in Threads : WriteState(t) /\ fdtab[statefd[t]] # "state"
    BY <2>1, WhoGoesAstray
  <2>. QED
    BY <2>1, <2>2 DEF WriteState, At, StateInv
<1>. QED
  BY <1>1, <1>2, <1>3, <1>4, NextState DEF DescriptorInv

-----------------------------------------------------------------------------
(***************************************************************************)
(* The message that a handler sends.                                       *)
(***************************************************************************)
LEMMA InitStop == Init => StopInv
BY DEF Init, StopInv, Stopped, Threads, Stopping, Closing, AfterNMT

\* rpmsg_type is set before main has gone on, and is never reset.
LEMMA TypeStays ==
  ASSUME TypeInv, PlacesInv, StopInv, Next
  PROVE  pc'["main"] \in {"copy", "write", "threads", "signal", "loop"} \cup Stopping =>
           rpmsg_type' = SEND_R5_CMD_FROM_APU
<1>0. pc \in [Threads -> Labels] /\ Threads = {"main", "modbus", "reader"}
  BY DEF TypeInv, Threads
<1>. DEFINE Later == {"copy", "write", "threads", "signal", "loop"} \cup Stopping
<1>1. pc["main"] \in Later => rpmsg_type = SEND_R5_CMD_FROM_APU
  BY DEF StopInv
<1>2. CASE MainInit
  <2>1. CASE SetType("main", "type", "copy")
    BY <2>1 DEF SetType
  <2>2. CASE LoadFirmware \/ LoadFirmwareFails \/ LoadDriver \/ InitMutex \/ InitMutexFails
               \/ StartNMT \/ \E how \in DriverOutcomes : LoadDriverFails(how)
    <3>1. rpmsg_type' = rpmsg_type
      BY <2>2 DEF LoadFirmware, LoadFirmwareFails, LoadDriver, InitMutex, InitMutexFails,
                  StartNMT, LoadDriverFails, cmdVars
    <3>2. pc'["main"] \notin Later \/ pc' = pc
      BY <1>0, <2>2 DEF LoadFirmware, LoadFirmwareFails, LoadDriver, InitMutex,
                  InitMutexFails, StartNMT, LoadDriverFails, Goto, Stopping, Closing
    <3>. QED
      BY <1>1, <3>1, <3>2
  <2>3. CASE Copy("main", "copy", "write") \/ Write("main", "write", "threads")
               \/ StartThreads \/ InstallHandler
    <3>1. rpmsg_type' = rpmsg_type
      BY <2>3 DEF Copy, Write, StartThreads, InstallHandler, cmdVars
    <3>2. pc["main"] \in {"copy", "write", "threads", "signal"}
      BY <2>3 DEF Copy, Write, StartThreads, InstallHandler, At
    <3>. QED
      BY <1>1, <3>1, <3>2
  <2>. QED
    BY <1>2, <2>1, <2>2, <2>3 DEF MainInit
<1>3. CASE Modbus \/ SigintEarly
  <2>1. rpmsg_type' = rpmsg_type
    BY <1>3 DEF Modbus, Listen, ListenFails, AcceptClient, CloseClient, WriteHighByte, WriteLowByte,
                SigintEarly, cmdVars
  <2>2. pc'["main"] = pc["main"]
    BY <1>0, <1>3, ModbusMoves DEF SigintEarly
  <2>. QED
    BY <1>1, <2>1, <2>2
<1>4. ASSUME NEW t \in Threads, Sigint(t)
      PROVE  pc'["main"] \in Later => rpmsg_type' = SEND_R5_CMD_FROM_APU
  <2>1. /\ rpmsg_type' = rpmsg_type /\ pc' = [pc EXCEPT ![t] = "stop nmt"]
        /\ pc[t] \in {"loop", "listen", "low byte"}
    BY <1>4 DEF Sigint, Goto, cmdVars
  <2>2. pc'["main"] = pc["main"] \/ pc["main"] = "loop"
    BY <1>0, <2>1 DEF PlacesInv, Alone, Stopping, Closing
  <2>. QED
    BY <1>1, <2>1, <2>2
<1>5. ASSUME NEW t \in Threads, Handler(t)
      PROVE  pc'["main"] \in Later => rpmsg_type' = SEND_R5_CMD_FROM_APU
  <2>1. CASE SetType(t, "stop type", "stop copy")
    BY <2>1 DEF SetType
  <2>2. CASE ~ SetType(t, "stop type", "stop copy")
    <3>1. rpmsg_type' = rpmsg_type
      BY <1>5, <2>2 DEF Handler, StopNMT, Copy, Write, CloseEndpoint, CloseControl, OpenState, WriteState, CloseState,
                        Exit, cmdVars
    <3>2. pc'["main"] = pc["main"] \/ pc["main"] \in Stopping
      BY <1>0, <1>5, HandlerMoves
    <3>. QED
      BY <1>1, <3>1, <3>2
  <2>. QED
    BY <2>1, <2>2
<1>. QED
  BY <1>2, <1>3, <1>4, <1>5 DEF Next

\* A step of another thread that leaves the command alone.
LEMMA StoppedByOthers ==
  ASSUME NEW t \in Threads, Stopped(t), pc'[t] = pc[t], nmt_control' = nmt_control,
         buff'[t] = buff[t], wrote' = wrote, r5nmt' = r5nmt,
         remoteproc' \in {remoteproc, "offline"}
  PROVE  Stopped(t)'
BY DEF Stopped, AfterNMT, Stopping

LEMMA StopFields == StopMessage.type = SEND_R5_CMD_FROM_APU /\ StopMessage.nmt = kNMTStop
BY DEF StopMessage

LEMMA StopIsNotStart == kNMTStop # kNMTStart
BY DEF kNMTStop, kNMTStart

\* The message of the handler reaches the R5, unless a handler before it has
\* closed the endpoint: and then that one has sent its message.
LEMMA WriteStops ==
  ASSUME TypeInv, DescriptorInv, StopInv, Undisturbed, Undisturbed',
         NEW t \in Threads, Write(t, "stop write", "close fd"), "ept" \in wrote'
  PROVE  remoteproc' = "offline" \/ r5nmt' # kNMTStart
<1>1. buff[t] = StopMessage /\ remoteproc' = remoteproc
  BY DEF Write, At, StopInv, Stopped
<1>2. CASE EndpointOpen
  <2>1. r5nmt' = Received(buff[t])
    BY <1>2 DEF Write, Undisturbed
  <2>2. buff[t].type = SEND_R5_CMD_FROM_APU /\ buff[t].nmt = kNMTStop
    BY <1>1, StopFields
  <2>3. remoteproc = "running" => r5nmt' = kNMTStop
    BY <2>1, <2>2, Zenon DEF Received
  <2>4. remoteproc \in {"offline", "running"}
    BY DEF TypeInv
  <2>. QED
    BY <1>1, <2>3, <2>4, StopIsNotStart
<1>3. CASE ~ EndpointOpen
  <2>1. r5nmt' = r5nmt /\ "ept" \in wrote
    BY <1>3 DEF Write, EndpointOpen
  <2>2. PICK u \in Threads : pc[u] \in Closing
    BY <1>3, <2>1 DEF DescriptorInv, ClosedInv, EndpointOpen
  <2>. QED
    BY <1>1, <2>1, <2>2 DEF StopInv, Stopped
<1>. QED
  BY <1>2, <1>3

LEMMA NextStopped ==
  ASSUME TypeInv, PlacesInv, SignalsInv, DescriptorInv, StopInv, Next,
         Undisturbed', NEW u \in Threads
  PROVE  Stopped(u)'
<1>0. pc \in [Threads -> Labels] /\ Undisturbed
  BY HistoriesGrow DEF TypeInv, Undisturbed
<1>1. Stopped(u)
  BY <1>0 DEF StopInv, Stopped
<1>2. CASE MainInit
  BY <1>2, NoHandlerYet DEF Stopped, AfterNMT, Stopping, Closing
<1>3. CASE Modbus
  <2>1. Listen \/ ListenFails \/ AcceptClient \/ CloseClient
    BY <1>0, <1>3 DEF Modbus, WriteHighByte, WriteLowByte, At, StopInv, Undisturbed
  <2>2. /\ nmt_control' = nmt_control /\ buff' = buff /\ wrote' = wrote /\ r5nmt' = r5nmt
        /\ remoteproc' = remoteproc
    BY <2>1 DEF Listen, ListenFails, AcceptClient, CloseClient, cmdVars, r5Vars
  <2>3. pc'[u] = pc[u] \/ pc'[u] \in {"loop", "off"}
    BY <1>0, <2>1 DEF Listen, ListenFails, AcceptClient, CloseClient, Goto
  <2>4. CASE pc'[u] = pc[u]
    BY <1>1, <2>2, <2>4, StoppedByOthers
  <2>5. CASE pc'[u] \in {"loop", "off"}
    BY <2>5 DEF Stopped, AfterNMT, Stopping, Closing
  <2>. QED
    BY <2>3, <2>4, <2>5
<1>4. CASE SigintEarly
  BY <1>1, <1>4, StoppedByOthers DEF SigintEarly, cmdVars, r5Vars
<1>5. ASSUME NEW t \in Threads, Sigint(t) PROVE Stopped(u)'
  <2>1. /\ nmt_control' = nmt_control /\ buff' = buff /\ wrote' = wrote /\ r5nmt' = r5nmt
        /\ remoteproc' = remoteproc
    BY <1>5 DEF Sigint, cmdVars, r5Vars
  <2>2. pc'[u] = pc[u] \/ pc'[u] = "stop nmt"
    BY <1>0, <1>5 DEF Sigint, Goto
  <2>3. CASE pc'[u] = pc[u]
    BY <1>1, <2>1, <2>3, StoppedByOthers
  <2>4. CASE pc'[u] = "stop nmt"
    BY <2>4 DEF Stopped, AfterNMT, Stopping, Closing
  <2>. QED
    BY <2>2, <2>3, <2>4
<1>6. ASSUME NEW t \in Threads, Handler(t) PROVE Stopped(u)'
  <2>1. CASE StopNMT(t)
    <3>1. /\ nmt_control' = kNMTStop /\ buff' = buff /\ wrote' = wrote /\ r5nmt' = r5nmt
          /\ remoteproc' = remoteproc /\ pc' = [pc EXCEPT ![t] = "stop type"]
      BY <2>1 DEF StopNMT, Goto, r5Vars
    <3>2. pc'[u] = pc[u] \/ pc'[u] = "stop type"
      BY <1>0, <3>1
    <3>. QED
      BY <1>1, <3>1, <3>2 DEF Stopped, AfterNMT, Stopping, Closing
  <2>2. CASE SetType(t, "stop type", "stop copy")
    <3>1. /\ nmt_control' = nmt_control /\ buff' = buff /\ wrote' = wrote /\ r5nmt' = r5nmt
          /\ remoteproc' = remoteproc /\ pc' = [pc EXCEPT ![t] = "stop copy"]
          /\ pc[t] = "stop type"
      BY <2>2 DEF SetType, At, Goto, r5Vars
    <3>2. pc'[u] = pc[u] \/ (pc'[u] = "stop copy" /\ pc[u] = "stop type")
      BY <1>0, <3>1
    <3>. QED
      BY <1>1, <3>1, <3>2 DEF Stopped, AfterNMT, Stopping, Closing
  <2>3. CASE Copy(t, "stop copy", "stop write")
    <3>1. /\ nmt_control' = nmt_control /\ wrote' = wrote /\ r5nmt' = r5nmt
          /\ remoteproc' = remoteproc /\ pc' = [pc EXCEPT ![t] = "stop write"]
          /\ pc[t] = "stop copy"
          /\ buff' = [buff EXCEPT ![t] = [type |-> rpmsg_type, nmt |-> nmt_control]]
      BY <2>3 DEF Copy, At, Goto, r5Vars, cmdVars
    <3>2. installed
      BY <3>1 DEF SignalsInv, InHandler, Stopping, Closing
    <3>3. rpmsg_type = SEND_R5_CMD_FROM_APU
      BY <3>2 DEF PlacesInv, StopInv
    <3>4. nmt_control = kNMTStop
      BY <1>0, <3>1 DEF StopInv, Stopped, AfterNMT, Stopping, Closing
    <3>5. CASE u = t
      <4>1. buff'[u] = StopMessage /\ pc'[u] = "stop write"
        BY <1>0, <3>1, <3>3, <3>4, <3>5 DEF StopMessage, TypeInv
      <4>. QED
        BY <3>1, <3>4, <4>1 DEF Stopped, Closing
    <3>6. CASE u # t
      BY <1>0, <1>1, <3>1, <3>6, StoppedByOthers DEF TypeInv
    <3>. QED
      BY <3>5, <3>6
  <2>4. CASE Write(t, "stop write", "close fd")
    <3>1. /\ nmt_control' = nmt_control /\ buff' = [buff EXCEPT ![t] = NoMessage]
          /\ pc' = [pc EXCEPT ![t] = "close fd"] /\ pc[t] = "stop write"
      BY <2>4 DEF Write, At, Goto
    <3>2. (pc'[u] = "close fd" /\ pc[u] = "stop write") \/ (pc'[u] = pc[u] /\ buff'[u] = buff[u])
      BY <1>0, <3>1 DEF TypeInv
    <3>3. "ept" \in wrote' => remoteproc' = "offline" \/ r5nmt' # kNMTStart
      BY <1>0, <2>4, WriteStops
    <3>. QED
      BY <1>1, <3>1, <3>2, <3>3 DEF Stopped, AfterNMT, Stopping, Closing
  <2>5. CASE \/ CloseEndpoint(t) \/ CloseControl(t) \/ OpenState(t) \/ WriteState(t)
             \/ CloseState(t) \/ Exit(t)
    <3>1. /\ nmt_control' = nmt_control /\ buff' = buff /\ wrote' = wrote /\ r5nmt' = r5nmt
          /\ remoteproc' \in {remoteproc, "offline"}
      BY <2>5 DEF CloseEndpoint, CloseControl, OpenState, WriteState, CloseState, Exit, cmdVars,
                  r5Vars
    <3>2. \/ pc'[u] = pc[u]
          \/ pc[u] \in {"close fd"} \cup Closing /\ pc'[u] \in Closing
      BY <1>0, <2>5 DEF CloseEndpoint, CloseControl, OpenState, WriteState, CloseState, Exit,
                        At, Goto, Closing
    <3>. QED
      BY <1>1, <3>1, <3>2 DEF Stopped, AfterNMT, Stopping, Closing
  <2>. QED
    BY <1>6, <2>1, <2>2, <2>3, <2>4, <2>5 DEF Handler
<1>. QED
  BY <1>2, <1>3, <1>4, <1>5, <1>6 DEF Next

LEMMA NextStop ==
  ASSUME TypeInv, PlacesInv, SignalsInv, DescriptorInv, StopInv, Next
  PROVE  StopInv'
<1>0. pc \in [Threads -> Labels]
  BY DEF TypeInv
<1>1. pc'["modbus"] = "low byte" => "nmt rewritten" \in mishaps'
  <2>1. CASE WriteHighByte
    BY <2>1 DEF WriteHighByte
  <2>2. CASE ~ WriteHighByte
    <3>1. pc'["modbus"] = "low byte" => pc["modbus"] = "low byte"
      <4>1. CASE MainInit
        BY <1>0, <4>1, MainMoves DEF Threads, Alone
      <4>2. CASE Modbus
        BY <1>0, <2>2, <4>2 DEF Modbus, Listen, ListenFails, AcceptClient, CloseClient, WriteLowByte, Goto,
                                Threads
      <4>3. CASE SigintEarly \/ \E u \in Threads : Sigint(u)
        BY <1>0, <4>3 DEF SigintEarly, Sigint, Goto, Threads
      <4>4. ASSUME NEW u \in Threads, Handler(u)
            PROVE  pc'["modbus"] = "low byte" => pc["modbus"] = "low byte"
        BY <1>0, <4>4, HandlerMoves DEF AfterNMT, Stopping, Closing, Threads
      <4>. QED
        BY <4>1, <4>2, <4>3, <4>4 DEF Next
    <3>. QED
      BY <3>1, HistoriesGrow DEF StopInv
  <2>. QED
    BY <2>1, <2>2
<1>. QED
  BY <1>1, TypeStays, NextStopped DEF StopInv

-----------------------------------------------------------------------------
IInv == TypeInv /\ PlacesInv /\ SignalsInv /\ TableInv /\ DescriptorInv /\ StopInv

LEMMA InitIInv == Init => IInv
BY InitTypes, InitPlaces, InitTable, InitStop DEF IInv

LEMMA NextIInv == IInv /\ [Next]_vars => IInv'
<1>. SUFFICES ASSUME IInv, [Next]_vars PROVE IInv'
  OBVIOUS
<1>0. TypeInv /\ PlacesInv /\ SignalsInv /\ TableInv /\ DescriptorInv /\ StopInv
  BY DEF IInv
<1>1. CASE Next
  <2>1. TypeInv' /\ PlacesInv' /\ SignalsInv' /\ TableInv'
    BY <1>0, <1>1, NextTypes, NextPlaces, NextTable
  <2>2. DescriptorInv'
    BY <1>0, <1>1, NextDescriptors
  <2>3. StopInv'
    BY <1>0, <1>1, NextStop
  <2>. QED
    BY <2>1, <2>2, <2>3 DEF IInv
<1>2. CASE UNCHANGED vars
  <2>1. TypeInv' /\ PlacesInv' /\ SignalsInv'
    BY <1>0, <1>2, NextTypes, NextPlaces
  <2>2. TableInv'
    BY <1>0, <1>2, NextTable
  <2>3. DescriptorInv'
    BY <1>0, <1>2, Zenon DEF vars, DescriptorInv, ClosedInv, StateInv
  <2>4. StopInv'
    BY <1>0, <1>2, Zenon DEF vars, StopInv, Stopped, Undisturbed
  <2>. QED
    BY <2>1, <2>2, <2>3, <2>4 DEF IInv
<1>. QED
  BY <1>1, <1>2

LEMMA Invariance == Spec => []IInv
BY InitIInv, NextIInv, PTL DEF Spec

(***************************************************************************)
(* Types, at any number of SIGINTs and whatever the driver does: and the   *)
(* endpoint and the control device are never one descriptor, nor does a    *)
(* message ever go to the file through which the driver is bound.          *)
(***************************************************************************)
THEOREM TypeCorrect == Spec => []TypeOK
<1>1. IInv => TypeOK
  <2>. SUFFICES ASSUME IInv PROVE TypeOK
    OBVIOUS
  <2>1. /\ fdtab \in [FDs -> {"free", "bind", "dir", "ctl", "ept", "state", "listen", "client"}]
        /\ statefd \in [Threads -> FDs \cup {-1}]
    BY DEF IInv, TableInv, Kinds
  <2>2. wrote \subseteq {"ctl", "ept", "state", "listen", "client"}
    BY DEF IInv, DescriptorInv, Kinds
  <2>3. fd \in FDs \cup {-1} /\ charfd \in FDs \cup {-1} /\ (fd = charfd => fd = -1)
    BY Zenon DEF IInv, DescriptorInv
  <2>. QED
    BY <2>1, <2>2, <2>3, Zenon DEF IInv, TypeInv, TypeOK
<1>. QED
  BY <1>1, Invariance, PTL

(***************************************************************************)
(* robot::Stop stops the NMT before it stops the core, however the         *)
(* handlers of several SIGINTs are interleaved: the one that switches the  *)
(* core off comes after a message that the R5 obeyed.  So it is for as     *)
(* long as no client has written nmt_control and the endpoint has lost no  *)
(* stop: the program does not see to it that it loses none.                *)
(***************************************************************************)
THEOREM StoppedBeforeCore == Spec => NMTStoppedBeforeCore
<1>1. IInv /\ [Next]_vars =>
        [(/\ remoteproc = "running" /\ remoteproc' = "offline"
          /\ "ept" \in wrote /\ mishaps \cap {"nmt rewritten", "stop lost"} = {})
           => r5nmt # kNMTStart]_vars
  <2>. SUFFICES ASSUME IInv, Next, remoteproc = "running", remoteproc' = "offline",
                       "ept" \in wrote, Undisturbed
                PROVE  r5nmt # kNMTStart
    BY DEF Undisturbed
  <2>1. PICK t \in Threads : WriteState(t)
    <3>1. CASE MainInit
      BY <3>1 DEF MainInit, LoadFirmware, LoadFirmwareFails, LoadDriver, LoadDriverFails,
                  InitMutex, InitMutexFails, StartNMT, SetType, Copy, Write, StartThreads,
                  InstallHandler, r5Vars
    <3>2. CASE Modbus
      BY <3>2 DEF Modbus, Listen, ListenFails, AcceptClient, CloseClient, WriteHighByte, WriteLowByte,
                  r5Vars
    <3>3. CASE SigintEarly \/ \E t \in Threads : Sigint(t)
      BY <3>3 DEF SigintEarly, Sigint, r5Vars
    <3>4. CASE \E t \in Threads : Handler(t)
      BY <3>4 DEF Handler, StopNMT, SetType, Copy, Write, CloseEndpoint, CloseControl, OpenState,
                  CloseState, Exit, r5Vars
    <3>. QED
      BY <3>1, <3>2, <3>3, <3>4 DEF Next
  <2>2. pc[t] = "write state"
    BY <2>1 DEF WriteState, At
  <2>. QED
    BY <2>2 DEF IInv, StopInv, Stopped, Closing
<1>. QED
  BY <1>1, Invariance, PTL DEF Spec, NMTStoppedBeforeCore

(***************************************************************************)
(* openamp.c writes and closes descriptors of its own only, for as long as *)
(* one SIGINT has arrived at most and charfd keeps no closed number.       *)
(***************************************************************************)
THEOREM DescriptorsAreOwn == Spec => OwnDescriptors
<1>1. IInv /\ IInv' /\ [Next]_vars =>
        [signals' <= 1 /\ "charfd closed" \notin mishaps =>
           /\ wrote' \subseteq {"ept"} /\ "stop astray" \notin mishaps'
           /\ \A n \in FDs :
                fdtab[n] \in {"listen", "client"} /\ fdtab'[n] # fdtab[n] => pc' = pc]_vars
  <2>. SUFFICES ASSUME IInv, IInv', Next, signals' <= 1, "charfd closed" \notin mishaps
                PROVE  /\ wrote' \subseteq {"ept"} /\ "stop astray" \notin mishaps'
                       /\ \A n \in FDs :
                            fdtab[n] \in {"listen", "client"} /\ fdtab'[n] # fdtab[n]
                              => pc' = pc
    OBVIOUS
  <2>1. wrote' \subseteq {"ept"} /\ "stop astray" \notin mishaps'
    BY DEF IInv, DescriptorInv
  <2>2. ASSUME NEW n \in FDs, fdtab[n] \in {"listen", "client"}, fdtab'[n] # fdtab[n]
        PROVE  pc' = pc
    <3>1. CASE LoadDriver \/ \E how \in DriverOutcomes : LoadDriverFails(how)
      <4>1. pc["main"] = "driver"
        BY <3>1 DEF LoadDriver, LoadDriverFails, At
      <4>. QED
        BY <2>2, <4>1 DEF IInv, TableInv
    <3>2. CASE Listen \/ AcceptClient \/ \E t \in Threads : OpenState(t)
      BY <2>2, <3>2, OpenSteps DEF IInv
    <3>3. CASE CloseClient
      BY <3>3 DEF CloseClient
    <3>4. ASSUME NEW t \in Threads, CloseEndpoint(t) \/ CloseControl(t) \/ CloseState(t)
          PROVE  FALSE
      <4>1. pc[t] \in {"close fd", "close charfd", "close state"} /\ signals <= 1
        BY <3>4, HistoriesGrow DEF CloseEndpoint, CloseControl, CloseState, At, IInv
      <4>2. \A u \in Threads : u # t => pc[u] \notin Stopping
        BY <4>1, OneHandler DEF IInv, Stopping, Closing
      <4>3. CASE CloseEndpoint(t)
        <5>1. pc[t] = "close fd"
          BY <4>3 DEF CloseEndpoint, At
        <5>2. fd \in FDs => fdtab[fd] = "ept"
          BY <4>2, <5>1 DEF IInv, DescriptorInv, ClosedInv, Stopping, Closing
        <5>. QED
          BY <2>2, <4>3, <5>2, ClosedTable DEF CloseEndpoint, IInv
      <4>4. CASE CloseControl(t)
        <5>1. pc[t] = "close charfd"
          BY <4>4 DEF CloseControl, At
        <5>2. charfd \in FDs => fdtab[charfd] = "ctl"
          BY <4>2, <5>1 DEF IInv, DescriptorInv, ClosedInv, Stopping, Closing
        <5>. QED
          BY <2>2, <4>4, <5>2, ClosedTable DEF CloseControl, IInv
      <4>5. CASE CloseState(t)
        <5>1. fdtab[statefd[t]] = "state"
          BY <4>1, <4>5 DEF CloseState, At, IInv, DescriptorInv, StateInv
        <5>. QED
          BY <2>2, <4>5, <5>1, ClosedTable DEF CloseState, IInv
      <4>. QED
        BY <3>4, <4>3, <4>4, <4>5
    <3>. QED
      BY <2>2, <3>1, <3>2, <3>3, <3>4, OtherSteps
  <2>. QED
    BY <2>1, <2>2
<1>. QED
  BY <1>1, Invariance, PTL DEF Spec, OwnDescriptors
=============================================================================
