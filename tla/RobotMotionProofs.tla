------------------------- MODULE RobotMotionProofs --------------------------
(***************************************************************************)
(* RobotMotion for any commands and an endpoint of any size: its types,    *)
(* and that the command register keeps what a client wrote.                *)
(***************************************************************************)
EXTENDS RobotMotion, TLAPS

(***************************************************************************)
(* Messages to the R5 are commands or requests; a request has no command.  *)
(***************************************************************************)
CommandMessages == [type : {SEND_R5_CMD_FROM_APU}, nmt : 1 .. 2, motion : Motions]
IsRequest(m)    == m.type = READ_R5_STATE_FROM_APU

(***************************************************************************)
(* TypeOK bounds the messages on their way, but not what they are, nor why *)
(* there is never a second reply: RPMsgRead waits for each request, so     *)
(* that no more than one is under way.                                     *)
(***************************************************************************)
ThreadTypes ==
  /\ cmd \in CommandMessages
  /\ control \in [step : {"look", "decide", "back", "copy", "send"},
                  next : {IDLE, UPCLAW_HOLD}, buff : CommandMessages \cup {Empty}]
  /\ control.step = "send" => control.buff \in CommandMessages
  /\ client \in Motions /\ given \in Motions \cup {Torn}

LinkTypes ==
  /\ inbox \in Seq(CommandMessages \cup {Request}) /\ Len(inbox) <= QueueMax
  /\ replies \in Seq({Empty}) /\ Len(replies) <= 1
  /\ r5 \in [nmt : 1 .. 2, motion : Motions]

OneRequest ==
  /\ reader # "read" =>
       replies = <<>> /\ \A i \in 1 .. Len(inbox) : ~ IsRequest(inbox[i])
  /\ replies # <<>> => \A i \in 1 .. Len(inbox) : ~ IsRequest(inbox[i])
  /\ \A i, j \in 1 .. Len(inbox) :
       IsRequest(inbox[i]) /\ IsRequest(inbox[j]) => i = j

MotionInv == ThreadTypes /\ LinkTypes /\ OneRequest

LEMMA Constants == Commands \subseteq Motions \ {IDLE} /\ QueueMax \in Nat \ {0}
BY MotionAssumption DEF MotionAssumption

\* An empty message is no command, and a request none either.
LEMMA MessageTypes ==
  /\ Empty \notin CommandMessages /\ Request \notin CommandMessages
  /\ IsRequest(Request)
  /\ \A m \in CommandMessages : ~ IsRequest(m)
  /\ CommandMessages \cup {Empty} \subseteq Messages
BY DEF Empty, Request, Message, CommandMessages, IsRequest, OtherType, IDLE,
       READ_R5_STATE_FROM_APU, SEND_R5_CMD_FROM_APU, Messages, Motions

\* A small value or'ed to a register that holds zero.
LEMMA OrToZero == \A v \in Motions : BitsOr(v, IDLE) = v
<1>1. 2 ^ 0 = 1 /\ 2 ^ 1 = 2
  OBVIOUS
<1>. QED
  BY <1>1 DEF BitsOr, Bit, Motions, IDLE

\* Two motions or'ed are a motion.
LEMMA OrOfMotions == \A v, w \in Motions : BitsOr(v, w) \in Motions
BY DEF BitsOr, Motions

-----------------------------------------------------------------------------
(***************************************************************************)
(* The link: a command leaves the requests under way alone, and a request  *)
(* is put only behind commands.                                            *)
(***************************************************************************)
LEMMA CommandIsSent ==
  ASSUME LinkTypes, OneRequest, NEW m \in CommandMessages, Send(m)
  PROVE  /\ inbox' \in Seq(CommandMessages \cup {Request})
         /\ Len(inbox') <= QueueMax
         /\ \A i \in 1 .. Len(inbox') : IsRequest(inbox'[i]) =>
              i \in 1 .. Len(inbox) /\ IsRequest(inbox[i])
<1>1. CASE HasRoom
  <2>1. inbox' = Append(inbox, m)
    BY <1>1 DEF Send
  <2>. QED
    BY <1>1, <2>1, Constants, MessageTypes DEF LinkTypes, HasRoom
<1>2. CASE ~ HasRoom
  BY <1>2 DEF Send, LinkTypes
<1>. QED
  BY <1>1, <1>2

LEMMA RequestIsSent ==
  ASSUME LinkTypes, OneRequest, reader # "read", Send(Request)
  PROVE  /\ inbox' \in Seq(CommandMessages \cup {Request})
         /\ Len(inbox') <= QueueMax
         /\ \A i \in 1 .. Len(inbox') : IsRequest(inbox'[i]) => i = Len(inbox')
<1>1. CASE HasRoom
  <2>1. inbox' = Append(inbox, Request)
    BY <1>1 DEF Send
  <2>2. /\ Len(inbox') = Len(inbox) + 1
        /\ \A i \in 1 .. Len(inbox) : inbox'[i] = inbox[i]
    BY <2>1 DEF LinkTypes
  <2>. QED
    BY <1>1, <2>1, <2>2, Constants DEF LinkTypes, OneRequest, HasRoom
<1>2. CASE ~ HasRoom
  BY <1>2 DEF Send, LinkTypes, OneRequest
<1>. QED
  BY <1>1, <1>2

\* The R5 takes the first message, and answers the only request.
LEMMA ObeyKeepsLink == LinkTypes /\ OneRequest /\ Obey => LinkTypes' /\ OneRequest'
<1>. SUFFICES ASSUME LinkTypes, OneRequest, Obey PROVE LinkTypes' /\ OneRequest'
  OBVIOUS
<1>. USE Constants, MessageTypes
<1>1. /\ inbox' \in Seq(CommandMessages \cup {Request})
      /\ Len(inbox') = Len(inbox) - 1 /\ Len(inbox) \in Nat
      /\ \A i \in 1 .. Len(inbox') : i + 1 \in 1 .. Len(inbox) /\ inbox'[i] = inbox[i + 1]
      /\ 1 \in 1 .. Len(inbox)
      /\ inbox[1] \in CommandMessages \cup {Request} /\ Head(inbox) = inbox[1]
  BY DEF Obey, LinkTypes
<1>2. \A i \in 1 .. Len(inbox') : IsRequest(inbox'[i]) =>
        i + 1 \in 1 .. Len(inbox) /\ IsRequest(inbox[i + 1])
  BY <1>1
<1>3. reader' = reader
  BY DEF Obey, threadVars
<1>4. CASE IsRequest(inbox[1])
  <2>1. \A i \in 1 .. Len(inbox') : ~ IsRequest(inbox'[i])
    BY <1>1, <1>2, <1>4 DEF OneRequest
  <2>2. reader = "read" /\ replies = <<>>
    BY <1>1, <1>4 DEF OneRequest
  <2>3. replies' = Append(replies, Empty) /\ r5' = r5
    BY <1>1, <1>4 DEF Obey, IsRequest, SEND_R5_CMD_FROM_APU, READ_R5_STATE_FROM_APU
  <2>4. replies' \in Seq({Empty}) /\ Len(replies') = 1
    BY <2>2, <2>3
  <2>. QED
    BY <1>1, <1>3, <2>1, <2>2, <2>3, <2>4 DEF LinkTypes, OneRequest
<1>5. CASE ~ IsRequest(inbox[1])
  <2>1. inbox[1] \in CommandMessages
    BY <1>1, <1>5
  <2>2. replies' = replies /\ r5' = [nmt |-> inbox[1].nmt, motion |-> inbox[1].motion]
    BY <1>1, <1>5, <2>1 DEF Obey, IsRequest, CommandMessages
  <2>3. r5' \in [nmt : 1 .. 2, motion : Motions]
    BY <2>1, <2>2 DEF CommandMessages
  <2>4. LinkTypes'
    BY <1>1, <2>2, <2>3 DEF LinkTypes
  <2>5. ASSUME NEW i \in 1 .. Len(inbox'), NEW j \in 1 .. Len(inbox'),
               IsRequest(inbox'[i]), IsRequest(inbox'[j])
        PROVE  i = j
    <3>1. i + 1 \in 1 .. Len(inbox) /\ IsRequest(inbox[i + 1])
      BY <1>2, <2>5
    <3>2. j + 1 \in 1 .. Len(inbox) /\ IsRequest(inbox[j + 1])
      BY <1>2, <2>5
    <3>3. i + 1 = j + 1
      BY <3>1, <3>2, Zenon DEF OneRequest
    <3>. QED
      BY <3>3
  <2>6. replies' # <<>> => \A i \in 1 .. Len(inbox') : ~ IsRequest(inbox'[i])
    BY <1>2, <2>2, Zenon DEF OneRequest
  <2>. QED
    BY <1>2, <1>3, <2>2, <2>4, <2>5, <2>6 DEF OneRequest
<1>. QED
  BY <1>4, <1>5

-----------------------------------------------------------------------------
(***************************************************************************)
(* Types.                                                                  *)
(***************************************************************************)
LEMMA InitMotionInv == Init => MotionInv
<1>. SUFFICES ASSUME Init PROVE MotionInv
  OBVIOUS
<1>1. ThreadTypes
  <2>1. cmd \in CommandMessages
    BY DEF Init, FirstCommand, Message, CommandMessages, kNMTStart, Motions, IDLE
  <2>2. /\ control \in [step : {"look", "decide", "back", "copy", "send"},
                        next : {IDLE, UPCLAW_HOLD}, buff : CommandMessages \cup {Empty}]
        /\ control.step # "send"
    BY DEF Init, Looking
  <2>3. client \in Motions /\ given \in Motions \cup {Torn}
    BY DEF Init, Motions, IDLE
  <2>. QED
    BY <2>1, <2>2, <2>3 DEF Init, ThreadTypes
<1>2. LinkTypes
  BY Constants DEF Init, LinkTypes, kNMTStart, Motions, IDLE
<1>3. OneRequest
  BY DEF Init, OneRequest
<1>. QED
  BY <1>1, <1>2, <1>3 DEF MotionInv

\* MotionControl sends nothing but commands.
LEMMA ControlKeepsTypes == MotionInv /\ MotionControl => MotionInv'
<1>. SUFFICES ASSUME MotionInv, MotionControl PROVE MotionInv'
  OBVIOUS
<1>. USE Constants, MessageTypes DEF MotionInv
<1>1. CASE Look \/ Decide \/ CopyCommand
  <2>1. LinkTypes' /\ OneRequest'
    BY <1>1 DEF Look, Decide, CopyCommand, CopyOf, linkVars, LinkTypes, OneRequest
  <2>2. cmd \in CommandMessages /\ WholeCommand \in CommandMessages
    BY DEF ThreadTypes, WholeCommand, Message, CommandMessages
  <2>3. ThreadTypes'
    <3>1. CASE Look
      BY <3>1 DEF Look, Control, ThreadTypes
    <3>2. CASE Decide
      BY <3>2 DEF Decide, ThreadTypes
    <3>3. CASE CopyCommand
      BY <2>2, <3>3 DEF CopyCommand, CopyOf, ThreadTypes
    <3>. QED
      BY <1>1, <3>1, <3>2, <3>3
  <2>. QED
    BY <2>1, <2>3
<1>2. CASE WriteBack
  <2>1. cmd' \in CommandMessages
    BY <1>2 DEF WriteBack, ThreadTypes, CommandMessages, IDLE, UPCLAW_HOLD, Motions
  <2>2. given' \in Motions \cup {Torn}
    BY <1>2 DEF WriteBack, ThreadTypes, IDLE, Motions
  <2>3. ThreadTypes'
    BY <1>2, <2>1, <2>2 DEF WriteBack, Control, ThreadTypes
  <2>4. LinkTypes' /\ OneRequest'
    BY <1>2 DEF WriteBack, linkVars, LinkTypes, OneRequest
  <2>. QED
    BY <2>3, <2>4
<1>3. CASE SendCommand
  <2>1. control.buff \in CommandMessages /\ Send(control.buff)
    BY <1>3 DEF SendCommand, ThreadTypes
  <2>2. /\ inbox' \in Seq(CommandMessages \cup {Request})
        /\ Len(inbox') <= QueueMax
        /\ \A i \in 1 .. Len(inbox') : IsRequest(inbox'[i]) =>
             i \in 1 .. Len(inbox) /\ IsRequest(inbox[i])
    BY <2>1, CommandIsSent
  <2>3. LinkTypes' /\ OneRequest'
    BY <1>3, <2>2 DEF SendCommand, LinkTypes, OneRequest
  <2>4. ThreadTypes'
    BY <1>3 DEF SendCommand, Looking, ThreadTypes
  <2>. QED
    BY <2>3, <2>4
<1>. QED
  BY <1>1, <1>2, <1>3 DEF MotionControl

\* ReadR5_0State has one request under way at a time.
LEMMA ReaderKeepsTypes == MotionInv /\ ReadR5_0State => MotionInv'
<1>. SUFFICES ASSUME MotionInv, ReadR5_0State PROVE MotionInv'
  OBVIOUS
<1>. USE Constants, MessageTypes DEF MotionInv
<1>1. CASE SendRequest
  <2>1. Send(Request) /\ reader = "ask" /\ reader' = "read"
    BY <1>1 DEF SendRequest
  <2>2. /\ inbox' \in Seq(CommandMessages \cup {Request})
        /\ Len(inbox') <= QueueMax
        /\ \A i \in 1 .. Len(inbox') : IsRequest(inbox'[i]) => i = Len(inbox')
    BY <2>1, RequestIsSent
  <2>3. replies = <<>> /\ replies' = replies
    BY <1>1, <2>1 DEF SendRequest, OneRequest
  <2>4. LinkTypes' /\ OneRequest'
    BY <1>1, <2>1, <2>2, <2>3 DEF SendRequest, LinkTypes, OneRequest
  <2>5. ThreadTypes'
    BY <1>1 DEF SendRequest, ThreadTypes
  <2>. QED
    BY <2>4, <2>5
<1>2. CASE ReadState
  <2>1. replies \in Seq({Empty}) /\ Len(replies) <= 1 /\ replies # <<>>
    BY <1>2 DEF ReadState, LinkTypes
  <2>2. replies' = <<>> /\ Head(replies) = Empty
    BY <1>2, <2>1 DEF ReadState
  <2>3. \A i \in 1 .. Len(inbox) : ~ IsRequest(inbox[i])
    BY <2>1 DEF OneRequest
  <2>4. LinkTypes' /\ OneRequest'
    BY <1>2, <2>2, <2>3 DEF ReadState, LinkTypes, OneRequest
  <2>5. ThreadTypes'
    BY <1>2, <2>2 DEF ReadState, ThreadTypes, Empty, Message
  <2>. QED
    BY <2>4, <2>5
<1>. QED
  BY <1>1, <1>2 DEF ReadR5_0State

\* robot::Stop sends a command, too.
LEMMA StopKeepsTypes == MotionInv /\ (StopNMT \/ Stop) => MotionInv'
<1>. SUFFICES ASSUME MotionInv, StopNMT \/ Stop PROVE MotionInv'
  OBVIOUS
<1>. USE Constants, MessageTypes DEF MotionInv
<1>1. CASE StopNMT
  <2>1. cmd' \in CommandMessages
    BY <1>1 DEF StopNMT, ThreadTypes, CommandMessages, kNMTStop
  <2>2. ThreadTypes'
    BY <1>1, <2>1 DEF StopNMT, ThreadTypes
  <2>3. LinkTypes' /\ OneRequest'
    BY <1>1 DEF StopNMT, linkVars, LinkTypes, OneRequest
  <2>. QED
    BY <2>2, <2>3
<1>2. CASE SetR5_0Cmd
  <2>. DEFINE m == [EightBytes EXCEPT !.type = SEND_R5_CMD_FROM_APU]
  <2>1. m \in CommandMessages
    BY DEF EightBytes, Message, ThreadTypes, CommandMessages, Motions, IDLE
  <2>2. cmd' \in CommandMessages
    BY <1>2 DEF SetR5_0Cmd, ThreadTypes, CommandMessages
  <2>3. Send(m)
    BY <1>2 DEF SetR5_0Cmd
  <2>. HIDE DEF m
  <2>4. /\ inbox' \in Seq(CommandMessages \cup {Request})
        /\ Len(inbox') <= QueueMax
        /\ \A i \in 1 .. Len(inbox') : IsRequest(inbox'[i]) =>
             i \in 1 .. Len(inbox) /\ IsRequest(inbox[i])
    BY <2>1, <2>3, CommandIsSent
  <2>5. UNCHANGED <<replies, r5, reader, control, client, given>>
    BY <1>2 DEF SetR5_0Cmd
  <2>6. LinkTypes' /\ OneRequest'
    BY <2>4, <2>5 DEF LinkTypes, OneRequest
  <2>7. ThreadTypes'
    BY <2>2, <2>5 DEF ThreadTypes
  <2>. QED
    BY <2>6, <2>7
<1>3. CASE OpenAMPStop
  <2>1. ThreadTypes'
    <3>1. cmd' \in CommandMessages /\ client' \in Motions /\ given' \in Motions
      BY <1>3 DEF OpenAMPStop, FirstCommand, Message, CommandMessages, kNMTStart, Motions, IDLE
    <3>2. control' = Looking
      BY <1>3 DEF OpenAMPStop
    <3>. QED
      BY <3>1, <3>2 DEF ThreadTypes, Looking
  <2>2. LinkTypes' /\ OneRequest'
    BY <1>3 DEF OpenAMPStop, LinkTypes, OneRequest
  <2>. QED
    BY <2>1, <2>2
<1>. QED
  BY <1>1, <1>2, <1>3 DEF Stop

\* The two halves of a register leave a motion in it.
LEMMA ClientKeepsTypes == MotionInv /\ Client => MotionInv'
<1>. SUFFICES ASSUME MotionInv, Client PROVE MotionInv'
  OBVIOUS
<1>. USE Constants DEF MotionInv
<1>1. LinkTypes' /\ OneRequest'
  BY DEF Client, GiveHighByte, GiveLowByte, linkVars, LinkTypes, OneRequest
<1>2. CASE GiveHighByte
  <2>1. cmd' \in CommandMessages
    BY <1>2 DEF GiveHighByte, ThreadTypes, CommandMessages, Motions, IDLE
  <2>2. client' \in Motions /\ given' \in Motions \cup {Torn}
    BY <1>2 DEF GiveHighByte, Motions, IDLE
  <2>3. ThreadTypes'
    BY <1>2, <2>1, <2>2 DEF GiveHighByte, ThreadTypes
  <2>. QED
    BY <1>1, <2>3
<1>3. CASE GiveLowByte
  <2>1. PICK motion \in AfterLowByte(client, cmd.motion) :
          cmd' = [cmd EXCEPT !.motion = motion]
    BY <1>3 DEF GiveLowByte
  <2>2. client \in Motions /\ cmd.motion \in Motions
    BY DEF ThreadTypes, CommandMessages
  <2>3. motion \in Motions
    BY <2>1, <2>2, OrOfMotions DEF AfterLowByte
  <2>4. cmd' \in CommandMessages
    BY <2>1, <2>3 DEF ThreadTypes, CommandMessages
  <2>5. client' \in Motions /\ given' \in Motions \cup {Torn} /\ control' = control
    BY <1>3, <2>2 DEF GiveLowByte, IDLE, Motions, ThreadTypes
  <2>6. ThreadTypes'
    BY <2>4, <2>5 DEF ThreadTypes
  <2>. QED
    BY <1>1, <2>6
<1>. QED
  BY <1>2, <1>3 DEF Client

LEMMA NextMotionInv == MotionInv /\ [Next]_vars => MotionInv'
<1>. SUFFICES ASSUME MotionInv, [Next]_vars PROVE MotionInv'
  OBVIOUS
<1>1. CASE Obey
  <2>1. ThreadTypes'
    BY <1>1 DEF Obey, threadVars, MotionInv, ThreadTypes
  <2>. QED
    BY <1>1, <2>1, ObeyKeepsLink DEF MotionInv
<1>2. CASE UNCHANGED vars
  BY <1>2 DEF vars, threadVars, linkVars, MotionInv, ThreadTypes, LinkTypes,
              OneRequest
<1>. QED
  BY <1>1, <1>2, ControlKeepsTypes, ReaderKeepsTypes, StopKeepsTypes, ClientKeepsTypes
  DEF Next

\* Types; and never more than one answer of the R5 waits to be read, though the
\* commands of the other loop and of robot::Stop go through the same endpoint.
THEOREM TypeCorrect == Spec => []TypeOK
<1>1. Spec => []MotionInv
  BY InitMotionInv, NextMotionInv, PTL DEF Spec
<1>2. MotionInv => TypeOK
  BY MessageTypes
  DEF MotionInv, ThreadTypes, LinkTypes, TypeOK, CommandMessages
<1>. QED
  BY <1>1, <1>2, PTL

-----------------------------------------------------------------------------
(***************************************************************************)
(* The command register.  CommandIsKept says nothing of the time between   *)
(* the two bytes of a register, nor of that between the look at the        *)
(* command and the write-back of what MotionFSM decided.                   *)
(***************************************************************************)
KeptInv ==
  given # Torn =>
    /\ client = IDLE => cmd.motion = given
    /\ client # IDLE => cmd.motion = IDLE
    /\ AtWork => client = IDLE /\ cmd.motion = UPCLAW_HOLD

LEMMA NextKeptInv == MotionInv /\ KeptInv /\ [Next]_vars => KeptInv'
<1>. SUFFICES ASSUME MotionInv, KeptInv, [Next]_vars, given' # Torn PROVE KeptInv'
  BY DEF KeptInv
<1>. USE Constants DEF MotionInv
<1>1. CASE Look
  <2>1. /\ AtWork' => cmd.motion = UPCLAW_HOLD
        /\ UNCHANGED <<cmd, client, given>>
    BY <1>1 DEF Look, Control, AtWork, ThreadTypes
  <2>. QED
    BY <2>1 DEF KeptInv, IDLE, UPCLAW_HOLD
<1>2. CASE Decide
  <2>1. AtWork /\ UNCHANGED <<cmd, client, given>>
    BY <1>2 DEF Decide, AtWork
  <2>. QED
    BY <2>1 DEF KeptInv
<1>3. CASE WriteBack
  <2>1. given # Torn /\ client = IDLE /\ client' = client /\ AtWork
    BY <1>3 DEF WriteBack, Control, AtWork, ThreadTypes
  <2>2. cmd.motion = UPCLAW_HOLD /\ given = UPCLAW_HOLD
    BY <2>1 DEF KeptInv
  <2>3. cmd'.motion = control.next /\ control.next \in {IDLE, UPCLAW_HOLD}
    BY <1>3 DEF WriteBack, ThreadTypes, CommandMessages
  <2>4. given' = cmd'.motion
    BY <1>3, <2>2, <2>3 DEF WriteBack
  <2>5. ~ AtWork'
    BY <1>3 DEF WriteBack, Control, AtWork, ThreadTypes
  <2>. QED
    BY <2>1, <2>4, <2>5 DEF KeptInv
<1>4. CASE CopyCommand \/ SendCommand
  <2>1. ~ AtWork' /\ UNCHANGED <<cmd, client, given>>
    <3>1. CASE CopyCommand
      BY <3>1 DEF CopyCommand, CopyOf, AtWork, ThreadTypes
    <3>2. CASE SendCommand
      BY <3>2 DEF SendCommand, AtWork, Looking
    <3>. QED
      BY <1>4, <3>1, <3>2
  <2>. QED
    BY <2>1 DEF KeptInv
<1>5. CASE StopNMT \/ SetR5_0Cmd
  <2>1. cmd'.motion = cmd.motion /\ UNCHANGED <<control, client, given>>
    BY <1>5 DEF StopNMT, SetR5_0Cmd, ThreadTypes, CommandMessages
  <2>. QED
    BY <2>1 DEF KeptInv, AtWork
<1>6. CASE GiveHighByte
  <2>1. client' # IDLE /\ ~ AtWork /\ control' = control
    BY <1>6 DEF GiveHighByte
  <2>2. cmd'.motion = IDLE
    BY <1>6 DEF GiveHighByte, ThreadTypes, CommandMessages
  <2>. QED
    BY <2>1, <2>2 DEF KeptInv, AtWork
<1>7. CASE GiveLowByte
  <2>1. given # Torn /\ ~ AtWork /\ client # IDLE /\ client \in Motions
    BY <1>7 DEF GiveLowByte, ThreadTypes, AtWork
  <2>2. cmd.motion = IDLE
    BY <2>1 DEF KeptInv
  <2>3. AfterLowByte(client, cmd.motion) = {client}
    BY <2>1, <2>2, OrToZero DEF AfterLowByte
  <2>4. cmd' = [cmd EXCEPT !.motion = client]
    BY <1>7, <2>3 DEF GiveLowByte
  <2>5. cmd'.motion = client /\ given' = client /\ client' = IDLE /\ control' = control
    BY <1>7, <2>4 DEF GiveLowByte, ThreadTypes, CommandMessages
  <2>. QED
    BY <2>1, <2>5 DEF KeptInv, AtWork
<1>8. CASE ReadR5_0State \/ Obey \/ UNCHANGED vars
  <2>1. UNCHANGED <<cmd, control, client, given>>
    BY <1>8 DEF ReadR5_0State, SendRequest, ReadState, Obey, vars, threadVars
  <2>. QED
    BY <2>1 DEF KeptInv, AtWork
<1>9. CASE OpenAMPStop
  BY <1>9 DEF OpenAMPStop, KeptInv, AtWork, FirstCommand, Message, Looking
<1>. QED
  BY <1>1, <1>2, <1>3, <1>4, <1>5, <1>6, <1>7, <1>8, <1>9 DEF Next, MotionControl, Stop, Client

\* The register holds the command that was given last, whole, and IDLE once the
\* motion is complete, as long as no write of a client overlapped the time between
\* MotionFSM's look at the register and its write back.
THEOREM CommandStays == Spec => []CommandIsKept
<1>1. Init => KeptInv
  BY DEF Init, KeptInv, AtWork, FirstCommand, Message, Looking
<1>2. Spec => [](MotionInv /\ KeptInv)
  BY <1>1, InitMotionInv, NextMotionInv, NextKeptInv, PTL DEF Spec
<1>3. MotionInv /\ KeptInv => CommandIsKept
  BY DEF KeptInv, CommandIsKept
<1>. QED
  BY <1>2, <1>3, PTL
=============================================================================
