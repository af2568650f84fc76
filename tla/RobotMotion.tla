---------------------------- MODULE RobotMotion -----------------------------
(***************************************************************************)
(* The loops of robot.cc that talk to a running R5: MotionControl executes *)
(* the motion command that Modbus clients write to a register and sends it *)
(* to the R5, ReadR5_0State asks for its state, and robot::Stop stops its  *)
(* network management and then its core, and ends the process.  r5_cmd_    *)
(* and r5_state_ both overlay the holding registers, nothing is locked,    *)
(* and a message is lost when the endpoint, which is opened with           *)
(* O_NONBLOCK, has no room for it or is closed.                            *)
(*                                                                         *)
(* SetR5_0Cmd and ReadR5_0State give RPMsgSend and RPMsgRead the size of a *)
(* pointer, 8 bytes: motion command and torque are not sent by the first,  *)
(* and the motors' parameters never read by the second: they are what      *)
(* clients write there, and show the upclaw holding or not.                *)
(*                                                                         *)
(* The calls in main.cc of the two loops are commented out; this is how    *)
(* they run when they are called, after robot::Init.  Clients write no     *)
(* register of the structures but the motion's, and the parameters.  The   *)
(* R5 is external.                                                         *)
(***************************************************************************)
EXTENDS Overlay, FiniteSets, Sequences

CONSTANTS
  Commands,    \* motion commands the clients give
  QueueMax     \* messages the endpoint has room for

IDLE        == 0
UPCLAW_HOLD == 1
Motions     == 0 .. 3
Torn        == 4

kNMTStart == 1
kNMTStop  == 2

SEND_R5_CMD_FROM_APU   == 1
READ_R5_STATE_FROM_APU == 2
OtherType              == 0

ASSUME MotionAssumption ==
  Commands \subseteq Motions \ {IDLE} /\ QueueMax \in Nat \ {0}

VARIABLES
  cmd,        \* r5_cmd_: type, nmt, motion
  control,    \* MotionControl: its step, what it decided, the message it sends
  reader,     \* ReadR5_0State: its step
  stop,       \* robot::Stop: its step
  client,     \* the Modbus thread between the two bytes of a register, or IDLE
  inbox,      \* messages on their way to the R5
  replies,    \* messages on their way back
  r5,         \* the R5: the last command and NMT state it obeyed
  core,       \* state of the R5's core
  fate,       \* history: what became of the message of robot::Stop
  given       \* history: the last command a client gave, IDLE when it is complete,
              \* Torn when it was given while MotionFSM was at work on the one before

threadVars == <<control, reader, stop, client>>
linkVars   == <<inbox, replies, r5, core, fate>>
vars == <<cmd, threadVars, linkVars, given>>

Message(type, nmt, motion) == [type |-> type, nmt |-> nmt, motion |-> motion]
Empty   == Message(OtherType, 0, IDLE)
Request == Message(READ_R5_STATE_FROM_APU, 0, IDLE)

FirstCommand == Message(SEND_R5_CMD_FROM_APU, kNMTStart, IDLE)
Looking      == [step |-> "look", next |-> IDLE, buff |-> Empty]

Init ==
  /\ cmd = FirstCommand
  /\ control = Looking
  /\ reader = "ask" /\ stop = "idle"
  /\ client = IDLE
  /\ inbox = <<>> /\ replies = <<>>
  /\ r5 = [nmt |-> kNMTStart, motion |-> IDLE]
  /\ core = "running"
  /\ fate = "none"
  /\ given = IDLE

\* The endpoint stays open until robot::Stop ends the process.
Running == stop # "exited"

-----------------------------------------------------------------------------
(***************************************************************************)
(* RPMsgSend: the copy of the first msg_size bytes, the rest being zero,   *)
(* and the write, whose failure is reported and forgotten.                 *)
(***************************************************************************)
WholeCommand == Message(cmd.type, cmd.nmt, cmd.motion)
EightBytes   == Message(cmd.type, cmd.nmt, IDLE)

HasRoom == Running /\ Len(inbox) < QueueMax

IsStart(m) == m.type = SEND_R5_CMD_FROM_APU /\ m.nmt = kNMTStart

Send(message) ==
  inbox' = IF HasRoom THEN Append(inbox, message) ELSE inbox

-----------------------------------------------------------------------------
(***************************************************************************)
(* MotionControl and MotionFSM, which gets cntrlr_motion_cmd by reference. *)
(***************************************************************************)
Control(step, next) ==
  control.step = step /\ control' = [control EXCEPT !.step = next, !.next = IDLE]

Look ==
  /\ Control("look", IF cmd.motion = UPCLAW_HOLD THEN "decide" ELSE "copy")
  /\ UNCHANGED <<cmd, reader, stop, client, linkVars, given>>

\* The hold torque is set; the motion is complete when the upclaw stands still with
\* that torque.
Decide ==
  /\ control.step = "decide"
  /\ \E next \in {IDLE, UPCLAW_HOLD} :
       control' = [control EXCEPT !.step = "back", !.next = next]
  /\ UNCHANGED <<cmd, reader, stop, client, linkVars, given>>

\* Mutant of WriteBack: the complete motion is kept.
KeepComplete ==
  /\ Control("back", "copy")
  /\ cmd' = [cmd EXCEPT !.motion = UPCLAW_HOLD]
  /\ given' = IF client # IDLE \/ given = Torn THEN Torn
              ELSE IF control.next = IDLE THEN IDLE ELSE given
  /\ UNCHANGED <<reader, stop, client, linkVars>>

WriteBack ==
  /\ Control("back", "copy")
  /\ cmd' = [cmd EXCEPT !.motion = control.next]
  /\ given' = IF client # IDLE \/ given = Torn THEN Torn
              ELSE IF control.next = IDLE THEN IDLE ELSE given
  /\ UNCHANGED <<reader, stop, client, linkVars>>

\* The type that is set before the copy is that of the other structure, r5_state_, where it
\* stays unseen: ReadR5_0State sets it before it sends.
CopyOf(message) ==
  /\ control.step = "copy"
  /\ control' = [control EXCEPT !.step = "send", !.buff = message]
  /\ UNCHANGED <<cmd, reader, stop, client, linkVars, given>>

\* Mutant of CopyCommand: the size of the pointer is copied here, too.
CopyEightBytes == CopyOf(EightBytes)

CopyCommand == CopyOf(WholeCommand)

SendCommand ==
  /\ control.step = "send"
  /\ control' = Looking
  /\ Send(control.buff)
  /\ fate' = IF HasRoom /\ fate # "none"
             THEN IF IsStart(control.buff) THEN "overtaken" ELSE "taken"
             ELSE fate
  /\ UNCHANGED <<cmd, reader, stop, client, replies, r5, core, given>>

MotionControl ==
  Running /\ (Look \/ Decide \/ WriteBack \/ CopyCommand \/ SendCommand)

-----------------------------------------------------------------------------
(***************************************************************************)
(* ReadR5_0State, in the loop of ReadR5_0_State.                           *)
(***************************************************************************)
\* Mutant of SendRequest: the next request does not wait for the answer.
SendWithoutReading ==
  /\ reader = "ask"
  /\ Send(Request)
  /\ UNCHANGED <<cmd, control, reader, stop, client, replies, r5, core, fate, given>>

\* RPMsgSend is one step with the assignment of the type, which no other thread changes
\* to anything else.  The result is ignored: RPMsgRead follows in any case.
SendRequest ==
  /\ reader = "ask" /\ reader' = "read"
  /\ Send(Request)
  /\ UNCHANGED <<cmd, control, stop, client, replies, r5, core, fate, given>>

\* RPMsgRead spins until it gets a whole message.  Its first eight bytes are copied.
ReadState ==
  /\ reader = "read" /\ reader' = "ask"
  /\ replies # <<>>
  /\ replies' = Tail(replies)
  /\ UNCHANGED <<cmd, control, stop, client, inbox, r5, core, fate, given>>

ReadR5_0State == Running /\ (SendRequest \/ ReadState)

-----------------------------------------------------------------------------
(***************************************************************************)
(* robot::Stop, on the thread that gets SIGINT.  It sleeps after it has    *)
(* sent the stop; what OpenAMPStop makes of the descriptors while others   *)
(* use them, and of a second SIGINT, is in RobotLifecycle.                 *)
(***************************************************************************)
StopStep(from, to) == stop = from /\ stop' = to

\* Mutant of StopNMT: the structure is not changed.
StopNothing ==
  /\ StopStep("idle", "send")
  /\ UNCHANGED <<cmd, control, reader, client, linkVars, given>>

StopNMT ==
  /\ StopStep("idle", "send")
  /\ cmd' = [cmd EXCEPT !.nmt = kNMTStop]
  /\ UNCHANGED <<control, reader, client, linkVars, given>>

\* No thread changes nmt any more: the copy and the write are one step.
SetR5_0Cmd ==
  /\ StopStep("send", "close")
  /\ cmd' = [cmd EXCEPT !.type = SEND_R5_CMD_FROM_APU]
  /\ Send([EightBytes EXCEPT !.type = SEND_R5_CMD_FROM_APU])
  /\ fate' = IF HasRoom THEN "taken" ELSE "lost"
  /\ UNCHANGED <<control, reader, client, replies, r5, core, given>>

\* OpenAMPStop and the end of the process, whose memory is gone: one step, for once the
\* endpoint is closed the threads have no message sent or answered.  The state file of the
\* core may refuse the stop, which goes unnoticed.
OpenAMPStop ==
  /\ StopStep("close", "exited")
  /\ core' \in {"offline", "running"}
  /\ cmd' = FirstCommand
  /\ control' = Looking /\ client' = IDLE
  /\ given' = IDLE
  /\ UNCHANGED <<reader, inbox, replies, r5, fate>>

Stop == SetR5_0Cmd \/ OpenAMPStop

-----------------------------------------------------------------------------
(***************************************************************************)
(* Modbus clients, through eMBRegHoldingCB.                                *)
(***************************************************************************)
AtWork == control.step \in {"decide", "back"}

GiveHighByte ==
  /\ Running
  /\ client = IDLE
  /\ client' \in Commands
  /\ cmd' = [cmd EXCEPT !.motion = IDLE]
  /\ given' = IF AtWork THEN Torn ELSE IDLE
  /\ UNCHANGED <<control, reader, stop, linkVars>>

GiveLowByte ==
  /\ Running
  /\ client # IDLE
  /\ \E motion \in AfterLowByte(client, cmd.motion) : cmd' = [cmd EXCEPT !.motion = motion]
  /\ client' = IDLE
  /\ given' = IF AtWork \/ given = Torn THEN Torn ELSE client
  /\ UNCHANGED <<control, reader, stop, linkVars>>

Client == GiveHighByte \/ GiveLowByte

-----------------------------------------------------------------------------
(***************************************************************************)
(* The R5 obeys commands and answers requests, until its core is off.      *)
(***************************************************************************)
Obey ==
  /\ core = "running"
  /\ inbox # <<>>
  /\ inbox' = Tail(inbox)
  /\ LET m == Head(inbox)
     IN  /\ r5' = IF m.type = SEND_R5_CMD_FROM_APU
                  THEN [nmt |-> m.nmt, motion |-> m.motion] ELSE r5
         /\ replies' = IF m.type = READ_R5_STATE_FROM_APU
                       THEN Append(replies, Empty) ELSE replies
  /\ UNCHANGED <<cmd, threadVars, core, fate, given>>

-----------------------------------------------------------------------------
Next ==
  MotionControl \/ ReadR5_0State \/ StopNMT \/ Stop \/ Client \/ Obey

Spec == Init /\ [][Next]_vars

\* The threads and the R5 keep running until they end, and a register that is begun is
\* written.
FairSpec ==
  /\ Spec
  /\ WF_vars(MotionControl) /\ WF_vars(ReadR5_0State) /\ WF_vars(Stop)
  /\ WF_vars(GiveLowByte) /\ WF_vars(Obey)

-----------------------------------------------------------------------------
Messages == [type : 0 .. 2, nmt : 0 .. 2, motion : Motions]

TypeOK ==
  /\ cmd \in [type : {SEND_R5_CMD_FROM_APU}, nmt : 1 .. 2, motion : Motions]
  /\ control.step \in {"look", "decide", "back", "copy", "send"}
  /\ control.next \in {IDLE, UPCLAW_HOLD}
  /\ control.buff \in Messages
  /\ Len(inbox) <= QueueMax /\ Len(replies) <= 1
  /\ r5 \in [nmt : 1 .. 2, motion : Motions]
  /\ client \in Motions /\ given \in Motions \cup {Torn}

\* The command register holds the command that was given last, whole, until the
\* motion is complete and IDLE from then on, unless it was given while MotionFSM
\* was at work on the command before.
CommandIsKept ==
  client = IDLE /\ given # Torn => cmd.motion = given

\* A command that stays given reaches the R5, though messages are lost, unless
\* robot::Stop ends the process first.
Standing(c) == given = c /\ client = IDLE
CommandIsObeyed ==
  \A c \in Commands : Standing(c) ~> r5.motion = c \/ ~ Standing(c) \/ ~ Running

\* Starts on their way to the R5, with the one that MotionControl has copied.
Starts ==
  Cardinality({ i \in 1 .. Len(inbox) : IsStart(inbox[i]) })
    + (IF IsStart(control.buff) THEN 1 ELSE 0)

\* Once robot::Stop has begun no start is added to those on their way.  The R5 is stopped
\* in the end and stays so, or its core is off: unless the endpoint had no room for the
\* stop, or a start that MotionControl had copied came after it, and the process ended
\* before MotionControl sent another command.
StopPrevails ==
  /\ [][stop # "idle" => Starts' <= Starts]_vars
  /\ stop # "idle" ~>
       [](r5.nmt = kNMTStop \/ core = "offline" \/ fate \in {"lost", "overtaken"})
=============================================================================
