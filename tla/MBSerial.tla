------------------------------ MODULE MBSerial ------------------------------
(***************************************************************************)
(* A Modbus slave on a serial line: the protocol stack of mb.c over the    *)
(* mode that eMBInit selects (MBRtu or MBAscii), with the masters and the  *)
(* line it hangs on.  Characters and timers are interrupts; eMBPoll runs   *)
(* in the application's loop, and what it does under a critical section is *)
(* one step.                                                               *)
(*                                                                         *)
(* The port for a serial line is external: the repository has none.  It    *)
(* gives the critical sections their meaning, which port.h of the port for *)
(* TCP leaves empty, and takes an event and clears the queue in one step,  *)
(* which portevent.c of that port, with no interrupts, need not do.        *)
(*                                                                         *)
(* The line is external.  It carries one frame after the other and may     *)
(* lose or damage characters, add some, pause in a frame or leave out the  *)
(* pause between two.  Masters wait for the slave to have done with a      *)
(* frame, or overtake it.                                                  *)
(***************************************************************************)
EXTENDS SerialPort

CONSTANTS
  Modes,                 \* modes to try, of {"RTU", "ASCII"}
  InitAddresses,         \* values of ucSlaveAddress to try
  Frames,                \* the masters' frames: address, length with address and checksum
  ReplyLengths,          \* bytes of a reply's PDU, an echo of the request aside
  MB_ADDRESS_BROADCAST, MB_ADDRESS_MIN, MB_ADDRESS_MAX,
  MaxFrames,             \* bound: frames
  MaxMishaps             \* bound: faults of the line, overtakings and stops, by mode

ASSUME SerialAssumption ==
  /\ Modes \subseteq {"RTU", "ASCII"}
  /\ MB_SER_PDU_SIZE_MAX \in Nat /\ MB_SER_PDU_SIZE_MAX >= 4
  /\ \A f \in Frames : f.addr \in Nat /\ f.len \in Nat /\ f.len >= 4
  /\ \A n \in ReplyLengths : n \in Nat /\ n >= 1 /\ n + 3 <= MB_SER_PDU_SIZE_MAX
  /\ {MB_ADDRESS_BROADCAST, MB_ADDRESS_MIN, MB_ADDRESS_MAX} \subseteq Nat
  /\ InitAddresses \subseteq Nat
  /\ MaxFrames \in Nat /\ MaxMishaps \in [Modes -> Nat]

VARIABLES
  eMBState, eMBCurrentMode, ucMBAddress,
  pc,                      \* where eMBPoll is, between its calls "poll"
  ucRcvAddress, usLength,  \* statics of eMBPoll
  sent,      \* the masters' frames: address, length, whether it was heard undisturbed
  out,       \* characters of the last frame that are on the line
  mishaps,   \* their number
  accepted,  \* history: the frame that was accepted last, 0 if nobody sent it to us
  disturbed, \* history: whether a request was served while a frame was heard, or a
             \* zero was heard in a frame, and none has begun since but for those
  executed,  \* history: the frames whose PDUs were executed, 0 for other contents
  answered,  \* history: the number of executed requests as each reply began
  reply,     \* history: the bytes of the last reply, as its handler left it
  overheard, \* history: whether a character was heard since, before it was sent
  cutOff,    \* history: whether the last transmission was cut off by eMBDisable
  unended    \* history: whether CR was followed by something else than LF, and no
             \* frame has begun since

stackVars == <<eMBState, eMBCurrentMode, ucMBAddress>>
pollVars  == <<pc, ucRcvAddress, usLength>>
lineVars  == <<sent, out, mishaps>>
histVars  == <<accepted, disturbed, executed, answered, reply, overheard, cutOff, unended>>
vars == <<serialVars, stackVars, pollVars, lineVars, histVars>>

RTU   == INSTANCE MBRtu
ASCII == INSTANCE MBAscii

Init ==
  /\ eRcvState = "INIT" /\ eSndState = "IDLE"
  /\ ucRTUBuf = [i \in 0 .. MB_SER_PDU_SIZE_MAX - 1 |-> Noise]
  /\ usRcvBufferPos = 0 /\ eBytePos = "high"
  /\ pucSndBufferCur = 0 /\ usSndBufferCount = 0
  /\ rxOn = FALSE /\ txOn = FALSE /\ timer = FALSE
  /\ event = "none" /\ wire = <<>> /\ failed = "none"
  /\ eMBState = "NOT_INITIALIZED" /\ eMBCurrentMode = "none" /\ ucMBAddress = 0
  /\ pc = "poll" /\ ucRcvAddress = 0 /\ usLength = 0
  /\ sent = <<>> /\ out = 0 /\ mishaps = 0
  /\ accepted = 0 /\ disturbed = FALSE
  /\ executed = <<>> /\ answered = <<>> /\ reply = <<>>
  /\ overheard = FALSE /\ cutOff = FALSE /\ unended = FALSE

Running == failed = "none"

Mishap ==
  /\ eMBState # "NOT_INITIALIZED" /\ mishaps < MaxMishaps[eMBCurrentMode]
  /\ mishaps' = mishaps + 1

ByMode(rtu, ascii) == IF eMBCurrentMode = "RTU" THEN rtu ELSE ascii

SumSize == ByMode(RTU!MB_SER_PDU_SIZE_CRC, ASCII!MB_SER_PDU_SIZE_LRC)

PDU(length) == [i \in 1 .. length |-> ucRTUBuf[i]]

\* A PDU with its address and checksum.
Whole(address, pdu) == WithSum(<<Addr(address)>> \o pdu, SumSize)

-----------------------------------------------------------------------------
(***************************************************************************)
(* Initialising, enabling and disabling the stack.  The functions that     *)
(* eMBInit selects are those of eMBCurrentMode.  The event queue is        *)
(* emptied, the states of the machines are not touched.  When the port     *)
(* cannot be opened the address stays, but not the state.                  *)
(***************************************************************************)
Initializes(ucSlaveAddress) ==
  /\ Running /\ eMBState = "NOT_INITIALIZED"
  /\ ucSlaveAddress # MB_ADDRESS_BROADCAST
  /\ ucSlaveAddress \in MB_ADDRESS_MIN .. MB_ADDRESS_MAX
  /\ ucMBAddress' = ucSlaveAddress
  /\ UNCHANGED <<rcvVars, sndVars, ucRTUBuf, eBytePos, portVars, failed, pollVars,
                 lineVars, histVars>>

eMBInit(eMode, ucSlaveAddress) ==
  /\ Initializes(ucSlaveAddress)
  /\ eMBCurrentMode' = eMode
  /\ eMBState' = "DISABLED"
  /\ event' = "none"

eMBInitFails(ucSlaveAddress) ==
  /\ Initializes(ucSlaveAddress)
  /\ UNCHANGED <<eMBState, eMBCurrentMode, event>>

eMBEnable ==
  /\ Running /\ pc = "poll" /\ eMBState = "DISABLED"
  /\ ByMode(RTU!eMBRTUStart, ASCII!eMBASCIIStart)
  /\ pc' = "enable"
  /\ UNCHANGED <<stackVars, ucRcvAddress, usLength, lineVars, histVars>>

\* After the critical section, and perhaps after interrupts: eMBASCIIStart posts its
\* event, over whatever the queue holds.
EnableEnds ==
  /\ Running /\ pc = "enable"
  /\ ByMode(UNCHANGED event, xMBPortEventPost("READY"))
  /\ eMBState' = "ENABLED" /\ pc' = "poll"
  /\ UNCHANGED <<rcvVars, sndVars, ucRTUBuf, eBytePos, portVars, failed, eMBCurrentMode,
                 ucMBAddress, ucRcvAddress, usLength, lineVars, histVars>>

\* The last frame may not have been served yet.
Spoilt == IF sent = <<>> THEN sent ELSE [sent EXCEPT ![Len(sent)].clean = FALSE]

eMBDisable ==
  /\ Running /\ pc = "poll" /\ eMBState = "ENABLED"
  /\ Mishap
  /\ eMBState' = "DISABLED"
  /\ ByMode(RTU!eMBRTUStop, ASCII!eMBASCIIStop)
  /\ sent' = Spoilt
  /\ cutOff' = (eSndState # "IDLE")
  /\ UNCHANGED <<eMBCurrentMode, ucMBAddress, pollVars, out, accepted, disturbed,
                 executed, answered, reply, overheard, unended>>

-----------------------------------------------------------------------------
(***************************************************************************)
(* eMBPoll.                                                                *)
(***************************************************************************)
GetEvent ==
  /\ Running /\ pc = "poll" /\ eMBState = "ENABLED"
  /\ event # "none"
  /\ event' = "none"
  /\ pc' = CASE event = "FRAME_RECEIVED" -> "receive"
             [] event = "EXECUTE"        -> "execute"
             [] OTHER                    -> "poll"
  /\ UNCHANGED <<rcvVars, sndVars, ucRTUBuf, eBytePos, portVars, failed, stackVars,
                 ucRcvAddress, usLength, lineVars, histVars>>

\* The frame whose PDU of this length the buffer holds; 0 if there is none.
Content(length) ==
  LET IsPDU(n) == /\ length = sent[n].len - 1 - SumSize
                  /\ \A i \in 1 .. length : ucRTUBuf[i] = Data(n, i)
  IN  IF \E n \in 1 .. Len(sent) : IsPDU(n)
      THEN CHOOSE n \in 1 .. Len(sent) : IsPDU(n) ELSE 0

\* Mutant of ForUs: requests to the other slaves are executed, too.
ForAnyone(address) == TRUE

ForUs(address) == address \in {ucMBAddress, MB_ADDRESS_BROADCAST}

\* That frame, if it was sent to this address.
SentTo(address, n) == IF n # 0 /\ sent[n].addr = address THEN n ELSE 0

\* A frame is being heard.  The poll loop may find it whole before its end is told.
Hearing == eRcvState \in {"RCV", "WAIT_EOF"}

Received ==
  /\ usLength' = ByMode(RTU!PDULength, ASCII!PDULength)
  /\ ucRcvAddress' = Address(ucRTUBuf[MB_SER_PDU_ADDR_OFF])
  /\ IF ForUs(ucRcvAddress')
     THEN /\ pc' = "post"
          /\ accepted' = SentTo(ucRcvAddress', Content(usLength'))
          /\ disturbed' = (disturbed \/ Hearing)
     ELSE pc' = "poll" /\ UNCHANGED <<accepted, disturbed>>

NotReceived ==
  /\ pc' = "poll"
  /\ UNCHANGED <<usLength, ucRcvAddress, accepted, disturbed>>

ReceiveFrame ==
  /\ Running /\ pc = "receive"
  /\ IF ~ ByMode(RTU!ReceiveAsserted, ASCII!ReceiveAsserted)
     THEN /\ Abort("frame fills the buffer")
          /\ UNCHANGED <<pollVars, accepted, disturbed>>
     ELSE /\ IF ByMode(RTU!FrameReceived, ASCII!FrameReceived)
             THEN Received ELSE NotReceived
          /\ UNCHANGED serialVars
  /\ UNCHANGED <<stackVars, lineVars, executed, answered, reply, overheard, cutOff, unended>>

PostExecute ==
  /\ Running /\ pc = "post"
  /\ xMBPortEventPost("EXECUTE")
  /\ pc' = "poll"
  /\ UNCHANGED <<rcvVars, sndVars, ucRTUBuf, eBytePos, portVars, failed, stackVars,
                 ucRcvAddress, usLength, lineVars, histVars>>

\* The handler (or the exception) leaves the PDU of its reply in the buffer.
Reply(length, number) ==
  \/ UNCHANGED <<ucRTUBuf, usLength>>
  \/ \E n \in ReplyLengths :
       /\ usLength' = n
       /\ ucRTUBuf' = [i \in DOMAIN ucRTUBuf |->
                         IF i \in 1 .. n THEN Data(-number, i) ELSE ucRTUBuf[i]]

Answered == ucRcvAddress # MB_ADDRESS_BROADCAST

Execute ==
  /\ Running /\ pc = "execute"
  /\ executed' = Append(executed, Content(usLength))
  /\ Reply(usLength, Len(executed'))
  /\ IF Answered
     THEN pc' = "send" /\ reply' = Whole(ucMBAddress, PDU(usLength)')
     ELSE pc' = "poll" /\ UNCHANGED reply
  /\ overheard' = FALSE
  /\ UNCHANGED <<rcvVars, sndVars, eBytePos, portVars, event, failed, stackVars,
                 ucRcvAddress, lineVars, accepted, disturbed, answered, cutOff, unended>>

SendReply ==
  /\ Running /\ pc = "send"
  /\ ByMode(RTU!eMBRTUSend(usLength, ucMBAddress), ASCII!eMBASCIISend(usLength, ucMBAddress))
  /\ IF eRcvState = "IDLE"
     THEN answered' = Append(answered, Len(executed)) /\ cutOff' = FALSE
     ELSE UNCHANGED <<answered, cutOff>>
  /\ pc' = "poll"
  /\ UNCHANGED <<stackVars, ucRcvAddress, usLength, lineVars, accepted, disturbed,
                 executed, reply, overheard, unended>>

eMBPoll == GetEvent \/ ReceiveFrame \/ PostExecute \/ Execute \/ SendReply

-----------------------------------------------------------------------------
(***************************************************************************)
(* The interrupts of the port.                                             *)
(***************************************************************************)
TransmitterEmpty ==
  /\ Running /\ txOn
  /\ ByMode(RTU!xMBRTUTransmitFSM, ASCII!xMBASCIITransmitFSM)
  /\ UNCHANGED <<stackVars, pollVars, lineVars, histVars>>

Serving == pc \in {"post", "execute", "send"} \/ event = "EXECUTE"

\* A frame begins with its first byte, or with a colon.
Begins(c) == ByMode(eRcvState = "IDLE", c = ASCII!COLON)

\* A zero in a frame, which the checksum may not tell.
Padding(c) == eRcvState = "RCV" /\ ByMode(c \in RTU!Zeros, c.of = Zero)

\* A frame of ASCII does not end as it should.
NoEnd(c) == eRcvState = "WAIT_EOF" /\ c # ASCII!LF

\* A character on the line, which a receiver that is switched off does not hear.
Heard(c) ==
  /\ IF rxOn
     THEN /\ ByMode(RTU!xMBRTUReceiveFSM(c), ASCII!xMBASCIIReceiveFSM(c))
          /\ disturbed' = (Serving \/ Padding(c) \/ (disturbed /\ ~ Begins(c)))
          /\ overheard' = (overheard \/ pc = "send")
          /\ unended' = ByMode(FALSE, c # ASCII!COLON /\ (unended \/ NoEnd(c)))
     ELSE UNCHANGED <<serialVars, disturbed, overheard, unended>>
  /\ UNCHANGED <<stackVars, pollVars, accepted, executed, answered, reply, cutOff>>

-----------------------------------------------------------------------------
(***************************************************************************)
(* The masters and the line.                                               *)
(***************************************************************************)
Encoded(bytes) == ByMode(RTU!Encoded(bytes), ASCII!Encoded(bytes))

Characters(n) ==
  Encoded(Whole(sent[n].addr, [i \in 1 .. sent[n].len - 1 - SumSize |-> Data(n, i)]))

InFrame == sent # <<>> /\ out < Len(Characters(Len(sent)))

\* Masters wait until the slave has done with the frame before, or have given up.
Done == pc \in {"poll", "enable"} /\ event \notin {"FRAME_RECEIVED", "EXECUTE"} /\ ~ txOn

\* The silence after a frame makes the timer of RTU expire.
Paused == eMBCurrentMode = "RTU" => eRcvState \notin {"RCV", "ERROR"}

BeginFrame ==
  /\ Running /\ eMBCurrentMode # "none"
  /\ Len(sent) < MaxFrames /\ ~ InFrame
  /\ mishaps' = mishaps + (IF Done THEN 0 ELSE 1) + (IF Paused THEN 0 ELSE 1)
  /\ mishaps' <= MaxMishaps[eMBCurrentMode]
  /\ LET before == IF Done /\ Paused THEN sent ELSE Spoilt
     IN  \E f \in Frames :
           sent' = Append(before, [addr |-> f.addr, len |-> f.len,
                                   clean |-> Done /\ Paused])
  /\ out' = 0
  /\ UNCHANGED <<serialVars, stackVars, pollVars, histVars>>

\* A frame is heard as it was sent if the slave is enabled and its receiver ready for
\* the beginning.
Ready == eMBState = "ENABLED" /\ rxOn /\ (out = 0 /\ eMBCurrentMode = "RTU" => eRcvState = "IDLE")

Character ==
  /\ Running /\ InFrame
  /\ Heard(Characters(Len(sent))[out + 1])
  /\ out' = out + 1
  /\ sent' = IF Ready THEN sent ELSE Spoilt
  /\ UNCHANGED mishaps

Fault == Running /\ Mishap /\ sent' = Spoilt

LoseCharacter ==
  /\ InFrame /\ Fault
  /\ out' = out + 1
  /\ UNCHANGED <<serialVars, stackVars, pollVars, histVars>>

Damaged == ByMode({Noise}, {ASCII!COLON, ASCII!CR, ASCII!LF, ASCII!NoDigit})

\* A character that becomes a zero is one that is lost, and a zero that is added.
Added ==
  Damaged \cup ByMode({Zero}, { ASCII!prvucMBBIN2CHAR(Zero, n) : n \in {"high", "low"} })

DamageCharacter ==
  /\ InFrame /\ Fault
  /\ out' = out + 1
  /\ \E c \in Damaged : Heard(c)

AddCharacter ==
  /\ rxOn /\ Fault
  /\ \E c \in Added : Heard(c)
  /\ UNCHANGED out

Expire ==
  /\ timer
  /\ ByMode(RTU!xMBRTUTimerT35Expired, ASCII!xMBASCIITimerT1SExpired)
  /\ UNCHANGED <<stackVars, pollVars, histVars, out>>

TimerExpired ==
  /\ Running /\ ~ InFrame
  /\ Expire
  /\ UNCHANGED <<sent, mishaps>>

PauseInFrame == InFrame /\ Fault /\ Expire

Line == LoseCharacter \/ DamageCharacter \/ AddCharacter \/ PauseInFrame

-----------------------------------------------------------------------------
Next ==
  \/ \E eMode \in Modes, address \in InitAddresses : eMBInit(eMode, address)
  \/ \E address \in InitAddresses : eMBInitFails(address)
  \/ eMBEnable \/ EnableEnds \/ eMBDisable
  \/ eMBPoll
  \/ TransmitterEmpty \/ TimerExpired
  \/ BeginFrame \/ Character \/ Line

Spec == Init /\ [][Next]_vars

\* The application returns from eMBEnable and keeps polling, the port keeps sending, a
\* frame that has begun is sent to its end, and silence lets the timer expire.
FairSpec ==
  /\ Spec
  /\ WF_vars(EnableEnds)
  /\ WF_vars(eMBPoll)
  /\ WF_vars(TransmitterEmpty)
  /\ WF_vars(Character)
  /\ WF_vars(TimerExpired)

-----------------------------------------------------------------------------
Events == {"none", "READY", "FRAME_RECEIVED", "EXECUTE", "FRAME_SENT"}

\* Types; and each buffer position and offset is in its range.
TypeOK ==
  /\ eRcvState \in {"INIT", "IDLE", "RCV", "ERROR", "WAIT_EOF"}
  /\ eSndState \in {"IDLE", "XMIT", "START", "DATA", "END", "NOTIFY"}
  /\ DOMAIN ucRTUBuf = 0 .. MB_SER_PDU_SIZE_MAX - 1
  /\ usRcvBufferPos \in 0 .. MB_SER_PDU_SIZE_MAX
  /\ eRcvState = "RCV" /\ eBytePos = "low" => usRcvBufferPos < MB_SER_PDU_SIZE_MAX
  /\ usSndBufferCount \in 0 .. MB_SER_PDU_SIZE_MAX
  /\ pucSndBufferCur \in 0 .. MB_SER_PDU_SIZE_MAX
  /\ pucSndBufferCur + usSndBufferCount <= MB_SER_PDU_SIZE_MAX
  /\ {rxOn, txOn, timer, disturbed, overheard, cutOff, unended} \subseteq BOOLEAN
  /\ event \in Events
  /\ pc \in {"poll", "enable", "receive", "post", "execute", "send"}
  /\ usLength \in 0 .. MB_SER_PDU_SIZE_MAX
  /\ accepted \in 0 .. Len(sent)

LastFrame == sent[Len(sent)]

\* When the assertions of mbrtu.c and mbascii.c fail.  That of the transmitters never
\* does: nothing is sent while a frame is received.  The other three do, and end the
\* program: a character is received while the transmitter is not idle, when eMBDisable
\* has cut off the last transmission and nothing was sent since; the timer of ASCII,
\* never that of RTU, expires while nothing is received, when a frame's CR was followed
\* by something else than LF; and eMBRTUReceive or eMBASCIIReceive finds the buffer
\* full, which a shorter frame that is heard undisturbed never leads to.
AssertionsFailOnly ==
  /\ failed # "send while receiving"
  /\ failed = "receive while sending" => cutOff
  /\ failed = "timer while idle" => eMBCurrentMode = "ASCII" /\ unended
  /\ failed = "frame fills the buffer" =>
       /\ usRcvBufferPos = MB_SER_PDU_SIZE_MAX
       /\ sent # <<>> /\ LastFrame.clean => LastFrame.len >= MB_SER_PDU_SIZE_MAX

\* No request has been executed since the reply that is sent began.
Latest == answered # <<>> /\ answered[Len(answered)] = Len(executed)

\* What goes over the line to its end is the reply as its handler left it in the
\* buffer, byte for byte with its address and checksum.  It is not when a character was
\* heard before the reply began: eMBRTUSend and eMBASCIISend give up only while a frame
\* is being received, and send what is left of the reply when that frame has ended.  Nor
\* need it be when the next request is executed before the reply has been sent.
RepliesAreWhole ==
  [][eSndState # "IDLE" /\ eSndState' = "IDLE" /\ Latest /\ ~ overheard =>
       wire = Encoded(reply)]_vars

\* The stack is the slave that SerialService describes.
Service ==
  INSTANCE SerialService WITH
    Addresses <- { f.addr : f \in Frames } \cup InitAddresses,
    Broadcast <- MB_ADDRESS_BROADCAST,
    own <- IF eMBState = "NOT_INITIALIZED" THEN MB_ADDRESS_BROADCAST ELSE ucMBAddress,
    requests <- [n \in DOMAIN sent |-> sent[n].addr], serving <- accepted
ImplementsService == Service!Spec

\* A frame for this slave that is heard undisturbed is executed, if the port loses no
\* event that is posted while another is taken.
Served(n) == \E i \in 1 .. Len(executed) : executed[i] = n
Waiting == { n \in 1 .. Len(sent) :
               /\ sent[n].clean /\ ForUs(sent[n].addr)
               /\ sent[n].len < MB_SER_PDU_SIZE_MAX
               /\ ~ Served(n) }
FramesAreServed == []<>(Running => Waiting = {})

\* Whatever arrives and whatever is sent, an enabled slave comes back to where it
\* hears the beginning of a frame.
ListensAgain == []<>(Running /\ eMBState = "ENABLED" => rxOn /\ eRcvState = "IDLE")

=============================================================================
