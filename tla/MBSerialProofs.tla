--------------------------- MODULE MBSerialProofs ---------------------------
(***************************************************************************)
(* MBSerial for a buffer, frames and replies of any size and any number of *)
(* frames and mishaps.                                                     *)
(***************************************************************************)
EXTENDS MBSerial, TLAPS

IsRTU   == eMBCurrentMode = "RTU"
IsASCII == eMBCurrentMode = "ASCII"

(***************************************************************************)
(* The bytes of a frame: an address, a PDU and its checksum.               *)
(***************************************************************************)
WholeFrame(a, bytes, n, size) ==
  WithSum(<<Addr(a)>> \o [i \in 1 .. n |-> bytes[i]], size)

(***************************************************************************)
(* The stack is polled, and the port switched on, only while it is enabled *)
(* or eMBEnable is about to return.                                        *)
(***************************************************************************)
Enabled == eMBState = "ENABLED" \/ pc = "enable"

StackInv ==
  /\ eMBState \in {"NOT_INITIALIZED", "DISABLED", "ENABLED"}
  /\ eMBCurrentMode \in {"none", "RTU", "ASCII"}
  /\ eMBState = "NOT_INITIALIZED" <=> eMBCurrentMode = "none"
  /\ pc \in {"poll", "enable", "receive", "post", "execute", "send"}
  /\ event \in Events
  /\ pc = "enable" => eMBState = "DISABLED" /\ ~ txOn
  /\ ~ Enabled => pc = "poll" /\ ~ rxOn /\ ~ txOn /\ ~ timer

(***************************************************************************)
(* The switches of the port and the states of the machines: a transmission *)
(* begins with the receiver idle and switched off, and ends with it, but   *)
(* for one that eMBDisable cuts off.  The timer of RTU never runs while    *)
(* its receiver is idle.                                                   *)
(***************************************************************************)
PortInv ==
  /\ {rxOn, txOn, timer} \subseteq BOOLEAN
  /\ ~ (rxOn /\ txOn)
  /\ txOn => eRcvState = "IDLE"
  /\ IsRTU /\ timer => eRcvState # "IDLE"

MachineInv ==
  /\ eMBCurrentMode = "none" =>
       /\ eRcvState = "INIT" /\ eSndState = "IDLE" /\ eBytePos = "high"
       /\ usRcvBufferPos = 0 /\ usLength = 0
  /\ IsRTU =>
       /\ eRcvState \in {"INIT", "IDLE", "RCV", "ERROR"}
       /\ eSndState \in {"IDLE", "XMIT"}
       /\ eBytePos = "high"
  /\ IsASCII =>
       /\ eRcvState \in {"INIT", "IDLE", "RCV", "WAIT_EOF"}
       /\ eSndState \in {"IDLE", "START", "DATA", "END", "NOTIFY"}
       /\ eBytePos \in {"high", "low"}

CutOffInv == eSndState # "IDLE" => txOn \/ cutOff

\* What keeps the timer of ASCII running while its receiver is idle.
EndInv ==
  failed = "none" /\ IsASCII /\ timer /\ eRcvState = "IDLE" => unended

(***************************************************************************)
(* Positions in the buffer.  A request that was accepted leaves room for   *)
(* its address and checksum, and so do the replies.                        *)
(***************************************************************************)
BoundsInv ==
  /\ DOMAIN ucRTUBuf = 0 .. MB_SER_PDU_SIZE_MAX - 1
  /\ usRcvBufferPos \in 0 .. MB_SER_PDU_SIZE_MAX
  /\ usSndBufferCount \in Nat /\ pucSndBufferCur \in Nat
  /\ pucSndBufferCur + usSndBufferCount <= MB_SER_PDU_SIZE_MAX
  /\ usLength \in Nat /\ usLength + 1 + SumSize <= MB_SER_PDU_SIZE_MAX

LowDigitInv ==
  eRcvState = "RCV" /\ eBytePos = "low" => usRcvBufferPos < MB_SER_PDU_SIZE_MAX

EventInv == pc \notin {"poll", "enable"} => event # "EXECUTE"

(***************************************************************************)
(* The transmitter: while no request is executed that came after it, the   *)
(* buffer holds the reply as the handler left it, unless a character came  *)
(* before its checksum was made; the characters on the line are its first  *)
(* ones.  The request that is about to be answered is not the one that was *)
(* answered last.                                                          *)
(***************************************************************************)
SendingInv == eSndState # "IDLE" => eRcvState \in {"IDLE", "INIT"}

Replying == eSndState # "IDLE" /\ ~ overheard /\ Latest

AnswersInv ==
  /\ executed \in Seq(Nat) /\ answered \in Seq(Nat)
  /\ \A i \in 1 .. Len(answered) :
       answered[i] <= Len(executed) /\ (pc = "send" => answered[i] < Len(executed))

PreparedInv ==
  pc = "send" /\ ~ overheard =>
    reply = WholeFrame(ucMBAddress, ucRTUBuf, usLength, SumSize)

ReplyInv ==
  Replying =>
    /\ reply = [i \in 1 .. Len(reply) |-> ucRTUBuf[i - 1]]
    /\ Len(reply) = pucSndBufferCur + usSndBufferCount

Put ==
  CASE eSndState = "XMIT"   -> pucSndBufferCur
    [] eSndState = "START"  -> 0
    [] eSndState = "DATA"   -> 2 * pucSndBufferCur + (IF eBytePos = "low" THEN 2 ELSE 1)
    [] eSndState = "END"    -> 2 * pucSndBufferCur + 2
    [] eSndState = "NOTIFY" -> 2 * pucSndBufferCur + 3

WireInv ==
  Replying =>
    /\ wire = [i \in 1 .. Put |-> Encoded(reply)[i]]
    /\ eSndState \in {"END", "NOTIFY"} => usSndBufferCount = 0
    /\ eSndState = "START" => pucSndBufferCur = 0
    /\ eSndState = "DATA" /\ eBytePos = "low" => usSndBufferCount > 0

HistoryInv ==
  accepted \in 0 .. Len(sent) /\ {disturbed, overheard, cutOff, unended} \subseteq BOOLEAN

(***************************************************************************)
(* The line: how many characters a frame has, and how many of the last one *)
(* have been on the line.                                                  *)
(***************************************************************************)
SentFrames == [addr : Nat, len : Nat, clean : BOOLEAN]

LineLength(n) == IF IsRTU THEN sent[n].len ELSE 2 * sent[n].len + 3

LineInv ==
  /\ sent \in Seq(SentFrames)
  /\ \A n \in 1 .. Len(sent) : sent[n].len >= 4
  /\ out \in Nat /\ mishaps \in Nat
  /\ sent = <<>> => out = 0
  /\ sent # <<>> => eMBCurrentMode # "none" /\ out <= LineLength(Len(sent))

(***************************************************************************)
(* Of a frame that is heard undisturbed the receiver has no more than is   *)
(* on the line, and its digits and its end come in order.  It begins when  *)
(* nothing of the frames before is left.                                   *)
(***************************************************************************)
Undisturbed == sent # <<>> /\ LastFrame.clean

Pending == pc = "receive" \/ event = "FRAME_RECEIVED"

DigitsHeard ==
  /\ 2 * usRcvBufferPos + 1 <= out
  /\ eBytePos = "low" => 2 * usRcvBufferPos + 2 <= out
  /\ out <= 2 * LastFrame.len + 1

HeardInv ==
  Undisturbed =>
    /\ out = 0 => ~ Pending /\ (IsRTU => eRcvState \notin {"RCV", "ERROR"})
    /\ out > 0 /\ (Pending \/ eRcvState \in {"RCV", "WAIT_EOF"}) =>
         usRcvBufferPos <= LastFrame.len
    /\ IsRTU /\ eRcvState = "RCV" => usRcvBufferPos <= out
    /\ IsASCII /\ rxOn /\ out > 0 =>
         /\ eRcvState = "RCV" => DigitsHeard
         /\ eRcvState = "WAIT_EOF" => out = 2 * LastFrame.len + 2

\* The buffer holds the smallest frame; a frame's checksum has one byte or two.
LEMMA Size ==
  /\ MB_SER_PDU_SIZE_MAX \in Nat /\ MB_SER_PDU_SIZE_MAX >= 4
BY SerialAssumption

LEMMA SumSizeIs == SumSize = IF IsRTU THEN 2 ELSE 1
BY DEF SumSize, ByMode, IsRTU, ASCII!MB_SER_PDU_SIZE_LRC, RTU!MB_SER_PDU_SIZE_CRC

(***************************************************************************)
(* The inductive invariant: the part about the slave itself, which a step  *)
(* of the master or of the line disturbs only through the interrupts, and  *)
(* all of it.                                                              *)
(***************************************************************************)
MInv ==
  /\ StackInv /\ PortInv /\ MachineInv /\ BoundsInv /\ LowDigitInv
  /\ EventInv /\ SendingInv /\ AnswersInv /\ PreparedInv /\ ReplyInv /\ WireInv

IInv ==
  /\ MInv /\ CutOffInv /\ EndInv /\ HistoryInv /\ LineInv /\ HeardInv
  /\ AssertionsFailOnly

-----------------------------------------------------------------------------
(***************************************************************************)
(* The initial states.                                                     *)
(***************************************************************************)
LEMMA InitIsGood == Init => IInv
<1>. SUFFICES ASSUME Init PROVE IInv
  OBVIOUS
<1>1. StackInv /\ PortInv /\ MachineInv /\ CutOffInv /\ EndInv
  BY DEF Init, StackInv, Enabled, PortInv, MachineInv, CutOffInv, EndInv, Events, IsRTU, IsASCII
<1>2. BoundsInv
  <2>1. SumSize = 1
    BY SumSizeIs DEF Init, IsRTU
  <2>2. /\ DOMAIN ucRTUBuf = 0 .. MB_SER_PDU_SIZE_MAX - 1
        /\ usRcvBufferPos = 0 /\ usSndBufferCount = 0 /\ pucSndBufferCur = 0 /\ usLength = 0
    BY DEF Init
  <2>. QED  BY <2>1, <2>2, Size DEF BoundsInv
<1>3. HistoryInv /\ EventInv /\ LowDigitInv
  <2>1. /\ sent = <<>> /\ accepted = 0 /\ disturbed = FALSE /\ overheard = FALSE
        /\ cutOff = FALSE /\ unended = FALSE
    BY DEF Init
  <2>2. Len(sent) = 0
    BY <2>1
  <2>3. accepted \in 0 .. Len(sent)
    BY <2>1, <2>2
  <2>4. EventInv /\ LowDigitInv
    BY DEF Init, EventInv, LowDigitInv
  <2>. QED  BY <2>1, <2>3, <2>4 DEF HistoryInv
<1>4. LineInv
  <2>1. sent \in Seq(SentFrames) /\ Len(sent) = 0
    BY DEF Init
  <2>. QED  BY <2>1 DEF LineInv, Init
<1>5. SendingInv /\ AnswersInv /\ PreparedInv /\ ReplyInv /\ WireInv
  <2>1. SendingInv /\ PreparedInv /\ ReplyInv /\ WireInv
    BY DEF Init, SendingInv, PreparedInv, ReplyInv, WireInv, Replying
  <2>2. AnswersInv
    BY DEF Init, AnswersInv
  <2>. QED  BY <2>1, <2>2
<1>6. HeardInv /\ AssertionsFailOnly
  BY DEF Init, HeardInv, Undisturbed, AssertionsFailOnly
<1>. QED  BY <1>1, <1>2, <1>3, <1>4, <1>5, <1>6 DEF IInv, MInv

(***************************************************************************)
(* eMBInit, eMBEnable and eMBDisable.                                      *)
(***************************************************************************)
LEMMA InitializesKeeps ==
  ASSUME IInv, NEW eMode \in Modes, NEW address \in InitAddresses, eMBInit(eMode, address)
  PROVE  IInv'
<1>1. /\ UNCHANGED <<rcvVars, sndVars, ucRTUBuf, eBytePos, portVars, failed, pollVars,
                     lineVars, histVars>>
      /\ event' = "none" /\ eMBState' = "DISABLED" /\ eMBCurrentMode' = eMode
      /\ failed = "none" /\ eMBState = "NOT_INITIALIZED"
  BY DEF eMBInit, Initializes, Running
<1>2. /\ eRcvState' = eRcvState /\ eSndState' = eSndState /\ eBytePos' = eBytePos
      /\ rxOn' = rxOn /\ txOn' = txOn /\ timer' = timer /\ pc' = pc
      /\ failed' = failed /\ disturbed' = disturbed
      /\ overheard' = overheard /\ cutOff' = cutOff /\ unended' = unended
      /\ executed' = executed /\ answered' = answered
  BY <1>1 DEF rcvVars, sndVars, portVars, pollVars, histVars
<1>3. /\ ucRTUBuf' = ucRTUBuf /\ usRcvBufferPos' = usRcvBufferPos
      /\ usSndBufferCount' = usSndBufferCount /\ pucSndBufferCur' = pucSndBufferCur
      /\ usLength' = usLength /\ accepted' = accepted
      /\ sent' = sent /\ out' = out /\ mishaps' = mishaps
  BY <1>1 DEF rcvVars, sndVars, pollVars, lineVars, histVars
<1>4. eMode \in {"RTU", "ASCII"}
  BY SerialAssumption
<1>5. /\ eMBCurrentMode = "none" /\ pc = "poll" /\ ~ rxOn /\ ~ txOn /\ ~ timer
      /\ eRcvState = "INIT" /\ eSndState = "IDLE" /\ eBytePos = "high"
      /\ usRcvBufferPos = 0 /\ usLength = 0 /\ sent = <<>>
  <2>1. eMBCurrentMode = "none" /\ pc = "poll" /\ ~ rxOn /\ ~ txOn /\ ~ timer
    <3>1. pc # "enable"
      BY <1>1 DEF IInv, MInv, StackInv
    <3>. QED  BY <1>1, <3>1 DEF IInv, MInv, StackInv, Enabled
  <2>2. sent = <<>>
    BY <2>1 DEF IInv, MInv, LineInv
  <2>. QED  BY <2>1, <2>2 DEF IInv, MInv, MachineInv
<1>6. StackInv'
  BY <1>1, <1>2, <1>4, <1>5 DEF StackInv, Enabled, Events
<1>7. PortInv'
  BY <1>2, <1>5 DEF IInv, MInv, PortInv, IsRTU
<1>8. MachineInv'
  BY <1>1, <1>2, <1>4, <1>5 DEF MachineInv, IsRTU, IsASCII
<1>9. BoundsInv'
  <2>1. SumSize' \in {1, 2}
    BY DEF SumSize, ByMode, ASCII!MB_SER_PDU_SIZE_LRC, RTU!MB_SER_PDU_SIZE_CRC
  <2>2. BoundsInv
    BY DEF IInv, MInv
  <2>3. /\ usLength' + 1 + SumSize' <= MB_SER_PDU_SIZE_MAX
        /\ usLength' \in Nat /\ usRcvBufferPos' = 0
    <3>1. usLength' = 0 /\ usRcvBufferPos' = 0
      BY <1>3, <1>5
    <3>2. \A n \in {1, 2} : 0 + 1 + n <= MB_SER_PDU_SIZE_MAX
      BY Size
    <3>. QED  BY <2>1, <3>1, <3>2
  <2>4. usRcvBufferPos' \in 0 .. MB_SER_PDU_SIZE_MAX
    BY <2>3, Size
  <2>. QED  BY <1>3, <2>2, <2>3, <2>4 DEF BoundsInv
<1>10. /\ CutOffInv' /\ EndInv' /\ EventInv' /\ LowDigitInv' /\ SendingInv'
       /\ AnswersInv' /\ PreparedInv' /\ ReplyInv' /\ WireInv'
  <2>1. CutOffInv' /\ EndInv' /\ EventInv' /\ LowDigitInv' /\ SendingInv'
    BY <1>1, <1>2, <1>5 DEF CutOffInv, EndInv, EventInv, LowDigitInv, SendingInv
  <2>2. PreparedInv' /\ ReplyInv' /\ WireInv'
    BY <1>1, <1>2, <1>5 DEF PreparedInv, ReplyInv, WireInv, Replying
  <2>3. AnswersInv'
    BY <1>2 DEF IInv, MInv, AnswersInv
  <2>. QED  BY <2>1, <2>2, <2>3
<1>11. HistoryInv'
  BY <1>2, <1>3 DEF IInv, MInv, HistoryInv
<1>12. LineInv'
  BY <1>3, <1>5 DEF IInv, MInv, LineInv
<1>13. HeardInv' /\ AssertionsFailOnly'
  BY <1>1, <1>2, <1>3, <1>5 DEF HeardInv, Undisturbed, AssertionsFailOnly
<1>. QED  BY <1>6, <1>7, <1>8, <1>9, <1>10, <1>11, <1>12, <1>13 DEF IInv, MInv

(***************************************************************************)
(* Nothing happens to the machines, or an assertion fails.                 *)
(***************************************************************************)
SameMachines ==
  /\ UNCHANGED <<rcvVars, sndVars, ucRTUBuf, eBytePos, portVars, event>>
  /\ UNCHANGED <<stackVars, pollVars, executed, answered, reply>>
  /\ overheard => overheard'

\* The reply, if a character is heard or not.
LEMMA SameReplyKeeps ==
  ASSUME IInv,
         UNCHANGED <<sndVars, ucRTUBuf, eBytePos, eMBCurrentMode>>,
         UNCHANGED <<executed, answered, reply>>, overheard => overheard',
         pc' = "send" => pc = "send" /\ usLength' = usLength /\ ucMBAddress' = ucMBAddress
  PROVE  AnswersInv' /\ PreparedInv' /\ ReplyInv' /\ WireInv'
<1>1. /\ eSndState' = eSndState /\ wire' = wire /\ SumSize' = SumSize
      /\ usSndBufferCount' = usSndBufferCount /\ pucSndBufferCur' = pucSndBufferCur
      /\ Put' = Put
  BY DEF sndVars, SumSize, ByMode, Put
<1>2. AnswersInv'
  BY DEF IInv, MInv, AnswersInv
<1>3. PreparedInv'
  BY <1>1 DEF IInv, MInv, PreparedInv
<1>4. Replying' => Replying
  BY <1>1 DEF Replying, Latest
<1>5. ReplyInv'
  BY <1>1, <1>4 DEF IInv, MInv, ReplyInv
<1>6. Encoded(reply)' = Encoded(reply)
  BY DEF Encoded, ByMode
<1>7. WireInv'
  BY <1>1, <1>4, <1>6 DEF IInv, MInv, WireInv
<1>. QED  BY <1>2, <1>3, <1>5, <1>7

LEMMA SameMachinesKeep ==
  ASSUME IInv, SameMachines
  PROVE  MInv'
<1>1. /\ eRcvState' = eRcvState /\ eSndState' = eSndState /\ eBytePos' = eBytePos
      /\ rxOn' = rxOn /\ txOn' = txOn /\ timer' = timer /\ pc' = pc /\ event' = event
      /\ eMBState' = eMBState /\ eMBCurrentMode' = eMBCurrentMode
  BY DEF SameMachines, rcvVars, sndVars, portVars, pollVars, stackVars
<1>2. /\ ucRTUBuf' = ucRTUBuf /\ usRcvBufferPos' = usRcvBufferPos
      /\ usSndBufferCount' = usSndBufferCount /\ pucSndBufferCur' = pucSndBufferCur
      /\ usLength' = usLength /\ wire' = wire /\ reply' = reply
  BY DEF SameMachines, rcvVars, sndVars, pollVars
<1>3. StackInv' /\ PortInv' /\ MachineInv'
  BY <1>1, <1>2 DEF IInv, MInv, StackInv, Enabled, PortInv, MachineInv, IsRTU, IsASCII
<1>4. BoundsInv'
  BY <1>1, <1>2 DEF IInv, MInv, BoundsInv, SumSize, ByMode
<1>5. LowDigitInv' /\ EventInv' /\ SendingInv'
  BY <1>1, <1>2 DEF IInv, MInv, LowDigitInv, EventInv, SendingInv
<1>6. AnswersInv' /\ PreparedInv' /\ ReplyInv' /\ WireInv'
  BY <1>1, <1>2, SameReplyKeeps DEF SameMachines, stackVars
<1>. QED  BY <1>3, <1>4, <1>5, <1>6 DEF MInv

(***************************************************************************)
(* What the line keeps when no frame begins and nothing is spoilt.         *)
(***************************************************************************)
LEMMA SameLineKeeps ==
  ASSUME IInv, UNCHANGED lineVars, UNCHANGED eMBCurrentMode
  PROVE  LineInv'
BY DEF IInv, LineInv, lineVars, LineLength, IsRTU

LEMMA SameHeardKeeps ==
  ASSUME IInv, UNCHANGED <<lineVars, rcvVars, eBytePos, eMBCurrentMode>>,
         Pending' => Pending,
         rxOn' => rxOn \/ eRcvState \notin {"RCV", "WAIT_EOF"}
  PROVE  HeardInv'
<1>1. /\ sent' = sent /\ out' = out /\ LastFrame' = LastFrame
      /\ eRcvState' = eRcvState /\ usRcvBufferPos' = usRcvBufferPos
  BY DEF lineVars, rcvVars, LastFrame
<1>. QED
  BY <1>1 DEF IInv, HeardInv, Undisturbed, DigitsHeard, IsRTU, IsASCII

(***************************************************************************)
(* The lengths of the frames that were sent never change, and their number *)
(* only grows.                                                             *)
(***************************************************************************)
LEMMA SpoiltIs ==
  ASSUME LineInv
  PROVE  /\ Spoilt \in Seq(SentFrames) /\ Len(Spoilt) = Len(sent)
         /\ \A n \in 1 .. Len(sent) :
              Spoilt[n].len = sent[n].len /\ Spoilt[n].addr = sent[n].addr
         /\ sent # <<>> => ~ Spoilt[Len(sent)].clean
<1>1. CASE sent = <<>>
  BY <1>1 DEF Spoilt, LineInv
<1>2. CASE sent # <<>>
  <2>1. Spoilt = [sent EXCEPT ![Len(sent)].clean = FALSE]
    BY <1>2 DEF Spoilt
  <2>2. sent \in Seq(SentFrames) /\ Len(sent) \in 1 .. Len(sent)
    BY <1>2 DEF LineInv
  <2>. DEFINE last == [sent[Len(sent)] EXCEPT !.clean = FALSE]
  <2>3. sent[Len(sent)] \in SentFrames
    BY <2>2
  <2>4. /\ last \in SentFrames
        /\ last.len = sent[Len(sent)].len /\ last.addr = sent[Len(sent)].addr
        /\ ~ last.clean
    BY <2>3 DEF SentFrames
  <2>5. Spoilt = [sent EXCEPT ![Len(sent)] = last]
    BY <2>1
  <2>. HIDE DEF last
  <2>. QED  BY <2>2, <2>4, <2>5
<1>. QED  BY <1>1, <1>2

LEMMA SpoiltKeeps ==
  ASSUME IInv, sent' \in {sent, Spoilt}, UNCHANGED <<out, eMBCurrentMode>>,
         mishaps' \in Nat
  PROVE  /\ LineInv'
         /\ UNCHANGED <<accepted, disturbed, overheard, cutOff, unended>> => HistoryInv'
<1>1. /\ sent' \in Seq(SentFrames) /\ Len(sent') = Len(sent)
      /\ \A n \in 1 .. Len(sent) : sent'[n].len = sent[n].len
  BY SpoiltIs DEF IInv, LineInv
<1>2. LineInv
  BY DEF IInv
<1>3. sent' = <<>> <=> sent = <<>>
  BY <1>1, <1>2 DEF LineInv
<1>4. sent # <<>> => LineLength(Len(sent))' = LineLength(Len(sent))
  BY <1>1, <1>2 DEF LineLength, IsRTU, LineInv
<1>5. LineInv'
  BY <1>1, <1>2, <1>3, <1>4 DEF LineInv
<1>6. UNCHANGED <<accepted, disturbed, overheard, cutOff, unended>> => HistoryInv'
  BY <1>1 DEF IInv, HistoryInv
<1>. QED  BY <1>5, <1>6

\* A spoilt frame is not one that is heard undisturbed.
LEMMA SpoiltIsDisturbed ==
  ASSUME LineInv, sent' = Spoilt
  PROVE  ~ Undisturbed' /\ HeardInv'
<1>1. Len(Spoilt) = Len(sent) /\ (sent # <<>> => ~ Spoilt[Len(sent)].clean)
  BY SpoiltIs
<1>2. sent = <<>> => Spoilt = <<>>
  BY DEF Spoilt
<1>. QED  BY <1>1, <1>2 DEF Undisturbed, LastFrame, HeardInv

\* eMBInit refuses an address.
LEMMA InitFailureKeeps ==
  ASSUME IInv, NEW address \in InitAddresses, eMBInitFails(address)
  PROVE  IInv'
<1>1. /\ UNCHANGED <<rcvVars, sndVars, ucRTUBuf, eBytePos, portVars, failed, pollVars,
                     lineVars, histVars, event, eMBState, eMBCurrentMode>>
      /\ failed = "none" /\ pc # "send"
  <2>1. eMBInitFails(address) /\ eMBState = "NOT_INITIALIZED"
    BY DEF eMBInitFails, Initializes
  <2>2. pc # "send"
    BY <2>1 DEF IInv, MInv, StackInv, Enabled
  <2>. QED  BY <2>1, <2>2 DEF eMBInitFails, Initializes, Running
<1>2. /\ eRcvState' = eRcvState /\ eSndState' = eSndState /\ eBytePos' = eBytePos
      /\ rxOn' = rxOn /\ txOn' = txOn /\ timer' = timer /\ pc' = pc /\ event' = event
      /\ eMBState' = eMBState /\ eMBCurrentMode' = eMBCurrentMode
      /\ ucRTUBuf' = ucRTUBuf /\ usRcvBufferPos' = usRcvBufferPos
      /\ usSndBufferCount' = usSndBufferCount /\ pucSndBufferCur' = pucSndBufferCur
      /\ usLength' = usLength /\ wire' = wire /\ reply' = reply
      /\ failed' = failed /\ disturbed' = disturbed
      /\ accepted' = accepted /\ sent' = sent
      /\ overheard' = overheard /\ cutOff' = cutOff /\ unended' = unended
  BY <1>1 DEF rcvVars, sndVars, portVars, pollVars, histVars, lineVars
<1>3. StackInv' /\ PortInv' /\ MachineInv' /\ CutOffInv' /\ EndInv'
  BY <1>1, <1>2
  DEF IInv, MInv, StackInv, Enabled, PortInv, MachineInv, CutOffInv, EndInv, IsRTU, IsASCII
<1>4. BoundsInv'
  BY <1>2 DEF IInv, MInv, BoundsInv, SumSize, ByMode
<1>5. LowDigitInv' /\ EventInv' /\ SendingInv'
  BY <1>1, <1>2 DEF IInv, MInv, LowDigitInv, EventInv, SendingInv
<1>6. AnswersInv' /\ PreparedInv' /\ ReplyInv' /\ WireInv'
  BY <1>1, <1>2, SameReplyKeeps DEF stackVars, histVars
<1>7. HistoryInv' /\ AssertionsFailOnly'
  BY <1>1, <1>2 DEF IInv, HistoryInv, AssertionsFailOnly
<1>8. LineInv' /\ HeardInv'
  BY <1>1, <1>2, SameLineKeeps, SameHeardKeeps DEF Pending
<1>. QED  BY <1>3, <1>4, <1>5, <1>6, <1>7, <1>8 DEF IInv, MInv

\* The receiver starts anew; what eMBDisable left of the transmitter stays.
LEMMA EnableKeeps ==
  ASSUME IInv, eMBEnable
  PROVE  IInv'
<1>1. /\ eMBState = "DISABLED" /\ failed = "none" /\ pc = "poll" /\ pc' = "enable"
      /\ UNCHANGED <<stackVars, usLength, lineVars, histVars>>
  BY DEF eMBEnable, Running
<1>2. /\ usLength' = usLength /\ sent' = sent
      /\ accepted' = accepted /\ disturbed' = disturbed
      /\ eMBState' = eMBState /\ eMBCurrentMode' = eMBCurrentMode
      /\ overheard' = overheard /\ cutOff' = cutOff /\ unended' = unended
  BY <1>1 DEF lineVars, histVars, stackVars
<1>3. /\ UNCHANGED <<usRcvBufferPos, sndVars, ucRTUBuf, eBytePos, failed, event>>
      /\ rxOn' = TRUE /\ txOn' = FALSE
      /\ \/ IsRTU /\ eRcvState' = "INIT" /\ timer' = TRUE
         \/ IsASCII /\ eRcvState' = "IDLE" /\ timer' = timer
  <2>1. CASE eMBCurrentMode = "RTU"
    BY <2>1 DEF eMBEnable, ByMode, IsRTU, RTU!eMBRTUStart, RTU!vMBPortSerialEnable, sndVars,
                RTU!sndVars
  <2>2. CASE eMBCurrentMode # "RTU"
    <3>1. IsASCII
      BY <1>1, <2>2 DEF IInv, MInv, StackInv, IsASCII
    <3>. QED
      BY <2>2, <3>1 DEF eMBEnable, ByMode, ASCII!eMBASCIIStart, ASCII!vMBPortSerialEnable,
                sndVars, ASCII!sndVars
  <2>. QED  BY <2>1, <2>2
<1>4. /\ eSndState' = eSndState /\ eBytePos' = eBytePos
      /\ ucRTUBuf' = ucRTUBuf /\ usRcvBufferPos' = usRcvBufferPos
      /\ usSndBufferCount' = usSndBufferCount /\ pucSndBufferCur' = pucSndBufferCur
      /\ failed' = failed /\ event' = event
  BY <1>3 DEF sndVars
<1>5. ~ rxOn /\ ~ txOn /\ ~ timer /\ eMBCurrentMode # "none"
  BY <1>1 DEF IInv, MInv, StackInv, Enabled
<1>6. StackInv' /\ PortInv'
  BY <1>1, <1>2, <1>3, <1>4, <1>5
  DEF IInv, MInv, StackInv, Enabled, PortInv, IsRTU, IsASCII, Events
<1>7. MachineInv'
  BY <1>2, <1>3, <1>4, <1>5 DEF IInv, MInv, MachineInv, IsRTU, IsASCII
<1>8. BoundsInv'
  BY <1>2, <1>4 DEF IInv, MInv, BoundsInv, SumSize, ByMode
<1>9. LowDigitInv' /\ EventInv' /\ SendingInv'
  BY <1>1, <1>2, <1>3, <1>4 DEF LowDigitInv, EventInv, SendingInv
<1>10. AnswersInv' /\ PreparedInv' /\ ReplyInv' /\ WireInv'
  BY <1>1, <1>2, <1>3, SameReplyKeeps DEF stackVars, histVars
<1>11. HistoryInv' /\ AssertionsFailOnly'
  BY <1>1, <1>2, <1>4 DEF IInv, HistoryInv, AssertionsFailOnly
<1>12. CutOffInv' /\ EndInv'
  BY <1>2, <1>3, <1>4, <1>5 DEF IInv, CutOffInv, EndInv, IsRTU, IsASCII
<1>13. LineInv'
  BY <1>1, <1>2, SameLineKeeps
<1>14. HeardInv'
  <2>1. LastFrame' = LastFrame /\ out' = out
    BY <1>1, <1>2 DEF LastFrame, lineVars
  <2>2. eRcvState' \notin {"RCV", "WAIT_EOF", "ERROR"} /\ (Pending' => Pending)
    BY <1>1, <1>3, <1>4 DEF Pending
  <2>. QED  BY <1>2, <1>4, <2>1, <2>2 DEF IInv, HeardInv, Undisturbed
<1>. QED
  BY <1>6, <1>7, <1>8, <1>9, <1>10, <1>11, <1>12, <1>13, <1>14 DEF IInv, MInv

\* The event is posted over another one.
LEMMA EnableEndsKeeps ==
  ASSUME IInv, EnableEnds
  PROVE  IInv'
<1>1. /\ UNCHANGED <<rcvVars, sndVars, ucRTUBuf, eBytePos, portVars, failed, eMBCurrentMode,
                     ucMBAddress, usLength, lineVars, histVars>>
      /\ event' \in {event, "READY"} /\ failed = "none" /\ pc = "enable" /\ pc' = "poll"
      /\ eMBState' = "ENABLED"
  BY DEF EnableEnds, Running, ByMode, xMBPortEventPost
<1>2. /\ eRcvState' = eRcvState /\ eSndState' = eSndState /\ eBytePos' = eBytePos
      /\ rxOn' = rxOn /\ txOn' = txOn /\ timer' = timer
      /\ eMBCurrentMode' = eMBCurrentMode
      /\ ucRTUBuf' = ucRTUBuf /\ usRcvBufferPos' = usRcvBufferPos
      /\ usSndBufferCount' = usSndBufferCount /\ pucSndBufferCur' = pucSndBufferCur
      /\ usLength' = usLength
      /\ failed' = failed /\ disturbed' = disturbed
      /\ accepted' = accepted /\ sent' = sent
      /\ overheard' = overheard /\ cutOff' = cutOff /\ unended' = unended
  BY <1>1 DEF rcvVars, sndVars, portVars, histVars, lineVars
<1>3. eMBCurrentMode # "none" /\ event \in Events
  BY <1>1 DEF IInv, MInv, StackInv
<1>4. StackInv'
  BY <1>1, <1>2, <1>3 DEF IInv, MInv, StackInv, Enabled, Events
<1>5. PortInv' /\ MachineInv' /\ CutOffInv' /\ EndInv'
  BY <1>1, <1>2
  DEF IInv, MInv, PortInv, MachineInv, CutOffInv, EndInv, IsRTU, IsASCII
<1>6. BoundsInv'
  BY <1>2 DEF IInv, MInv, BoundsInv, SumSize, ByMode
<1>7. LowDigitInv' /\ EventInv' /\ SendingInv'
  BY <1>1, <1>2 DEF IInv, MInv, LowDigitInv, EventInv, SendingInv
<1>8. AnswersInv' /\ PreparedInv' /\ ReplyInv' /\ WireInv'
  BY <1>1, <1>2, SameReplyKeeps DEF histVars
<1>9. HistoryInv' /\ AssertionsFailOnly'
  BY <1>1, <1>2 DEF IInv, HistoryInv, AssertionsFailOnly
<1>10. LineInv' /\ HeardInv'
  BY <1>1, <1>2, SameLineKeeps, SameHeardKeeps DEF Pending
<1>. QED  BY <1>4, <1>5, <1>6, <1>7, <1>8, <1>9, <1>10 DEF IInv, MInv

\* A transmission may be cut off.
LEMMA DisableKeeps ==
  ASSUME IInv, eMBDisable
  PROVE  IInv'
<1>1. /\ eMBState' = "DISABLED" /\ eMBState = "ENABLED" /\ failed = "none" /\ pc = "poll"
      /\ UNCHANGED <<eMBCurrentMode, ucMBAddress, pollVars, out, accepted, disturbed,
                     executed, answered, reply, overheard, unended>>
      /\ mishaps' = mishaps + 1 /\ sent' = Spoilt /\ cutOff' = (eSndState # "IDLE")
  BY DEF eMBDisable, Mishap, Running
<1>2. /\ pc' = pc /\ usLength' = usLength
      /\ accepted' = accepted /\ disturbed' = disturbed
      /\ eMBCurrentMode' = eMBCurrentMode
  BY <1>1 DEF pollVars
<1>3. /\ UNCHANGED <<rcvVars, sndVars, ucRTUBuf, eBytePos, event, failed>>
      /\ rxOn' = FALSE /\ txOn' = FALSE /\ timer' = FALSE
  BY DEF eMBDisable, ByMode, RTU!eMBRTUStop, RTU!vMBPortSerialEnable, RTU!sndVars, RTU!rcvVars,
         ASCII!eMBASCIIStop, ASCII!vMBPortSerialEnable, ASCII!sndVars, ASCII!rcvVars,
         sndVars, rcvVars
<1>4. /\ eSndState' = eSndState /\ eBytePos' = eBytePos /\ eRcvState' = eRcvState
      /\ ucRTUBuf' = ucRTUBuf /\ usRcvBufferPos' = usRcvBufferPos
      /\ usSndBufferCount' = usSndBufferCount /\ pucSndBufferCur' = pucSndBufferCur
      /\ failed' = failed /\ event' = event
  BY <1>3 DEF sndVars, rcvVars
<1>5. eMBCurrentMode # "none"
  BY <1>1 DEF IInv, MInv, StackInv
<1>6. StackInv' /\ PortInv'
  BY <1>1, <1>2, <1>3, <1>4, <1>5
  DEF IInv, MInv, StackInv, Enabled, PortInv, IsRTU, IsASCII, Events
<1>7. MachineInv'
  BY <1>2, <1>4, <1>5 DEF IInv, MInv, MachineInv, IsRTU, IsASCII
<1>8. BoundsInv'
  BY <1>2, <1>4 DEF IInv, MInv, BoundsInv, SumSize, ByMode
<1>9. LowDigitInv' /\ EventInv' /\ SendingInv'
  BY <1>2, <1>4 DEF IInv, MInv, LowDigitInv, EventInv, SendingInv
<1>10. AnswersInv' /\ PreparedInv' /\ ReplyInv' /\ WireInv'
  BY <1>1, <1>2, <1>3, SameReplyKeeps
<1>11. CutOffInv' /\ EndInv' /\ AssertionsFailOnly'
  BY <1>1, <1>3, <1>4 DEF CutOffInv, EndInv, AssertionsFailOnly
<1>12. LineInv' /\ HistoryInv'
  <2>1. mishaps' \in Nat
    BY <1>1 DEF IInv, LineInv
  <2>2. LineInv' /\ Len(sent') = Len(sent)
    BY <1>1, <1>2, <2>1, SpoiltKeeps, SpoiltIs DEF IInv
  <2>3. (eSndState # "IDLE") \in BOOLEAN
    OBVIOUS
  <2>4. HistoryInv'
    BY <1>1, <1>2, <2>2, <2>3 DEF IInv, HistoryInv
  <2>. QED  BY <2>2, <2>4
<1>13. HeardInv'
  BY <1>1, SpoiltIsDisturbed DEF IInv
<1>. QED  BY <1>6, <1>7, <1>8, <1>9, <1>10, <1>11, <1>12, <1>13 DEF IInv, MInv

-----------------------------------------------------------------------------
(***************************************************************************)
(* eMBPoll.                                                                *)
(***************************************************************************)
\* The queue is emptied, and what it held chooses what is done.
LEMMA GetEventKeeps ==
  ASSUME IInv, GetEvent
  PROVE  IInv'
<1>1. /\ UNCHANGED <<rcvVars, sndVars, ucRTUBuf, eBytePos, portVars, failed, stackVars,
                     ucRcvAddress, usLength, lineVars, histVars>>
      /\ event' = "none" /\ failed = "none" /\ eMBState = "ENABLED" /\ pc = "poll"
      /\ pc' \in {"poll", "receive", "execute"}
      /\ pc' = "receive" => event = "FRAME_RECEIVED"
  BY DEF GetEvent, Running
<1>2. /\ eRcvState' = eRcvState /\ eSndState' = eSndState /\ eBytePos' = eBytePos
      /\ rxOn' = rxOn /\ txOn' = txOn /\ timer' = timer
      /\ eMBState' = eMBState /\ eMBCurrentMode' = eMBCurrentMode
      /\ ucRTUBuf' = ucRTUBuf /\ usRcvBufferPos' = usRcvBufferPos
      /\ usSndBufferCount' = usSndBufferCount /\ pucSndBufferCur' = pucSndBufferCur
      /\ usLength' = usLength /\ wire' = wire /\ reply' = reply
      /\ failed' = failed /\ disturbed' = disturbed
      /\ accepted' = accepted /\ sent' = sent
      /\ overheard' = overheard /\ cutOff' = cutOff /\ unended' = unended
  BY <1>1 DEF rcvVars, sndVars, portVars, histVars, lineVars, stackVars
<1>3. StackInv' /\ PortInv' /\ MachineInv' /\ CutOffInv' /\ EndInv'
  BY <1>1, <1>2
  DEF IInv, MInv, StackInv, Enabled, PortInv, MachineInv, CutOffInv, EndInv, IsRTU, IsASCII, Events
<1>4. BoundsInv'
  BY <1>2 DEF IInv, MInv, BoundsInv, SumSize, ByMode
<1>5. LowDigitInv' /\ EventInv' /\ SendingInv'
  BY <1>1, <1>2 DEF IInv, MInv, LowDigitInv, EventInv, SendingInv
<1>6. AnswersInv' /\ PreparedInv' /\ ReplyInv' /\ WireInv'
  BY <1>1, <1>2, SameReplyKeeps DEF stackVars, histVars
<1>7. HistoryInv' /\ AssertionsFailOnly'
  BY <1>1, <1>2 DEF IInv, HistoryInv, AssertionsFailOnly
<1>8. LineInv' /\ HeardInv'
  BY <1>1, <1>2, SameLineKeeps, SameHeardKeeps DEF Pending
<1>. QED  BY <1>3, <1>4, <1>5, <1>6, <1>7, <1>8 DEF IInv, MInv

\* EXECUTE is posted over what an interrupt may have left.
LEMMA PostExecuteKeeps ==
  ASSUME IInv, PostExecute
  PROVE  IInv'
<1>1. /\ UNCHANGED <<rcvVars, sndVars, ucRTUBuf, eBytePos, portVars, failed, stackVars,
                     ucRcvAddress, usLength, lineVars, histVars>>
      /\ event' = "EXECUTE" /\ failed = "none" /\ pc = "post" /\ pc' = "poll"
  BY DEF PostExecute, Running, xMBPortEventPost
<1>2. /\ eRcvState' = eRcvState /\ eSndState' = eSndState /\ eBytePos' = eBytePos
      /\ rxOn' = rxOn /\ txOn' = txOn /\ timer' = timer
      /\ eMBState' = eMBState /\ eMBCurrentMode' = eMBCurrentMode
      /\ ucRTUBuf' = ucRTUBuf /\ usRcvBufferPos' = usRcvBufferPos
      /\ usSndBufferCount' = usSndBufferCount /\ pucSndBufferCur' = pucSndBufferCur
      /\ usLength' = usLength /\ wire' = wire /\ reply' = reply
      /\ failed' = failed /\ disturbed' = disturbed
      /\ accepted' = accepted /\ sent' = sent
      /\ overheard' = overheard /\ cutOff' = cutOff /\ unended' = unended
  BY <1>1 DEF rcvVars, sndVars, portVars, histVars, lineVars, stackVars
<1>3. StackInv' /\ PortInv' /\ MachineInv' /\ CutOffInv' /\ EndInv'
  BY <1>1, <1>2
  DEF IInv, MInv, StackInv, Enabled, PortInv, MachineInv, CutOffInv, EndInv, IsRTU, IsASCII, Events
<1>4. BoundsInv'
  BY <1>2 DEF IInv, MInv, BoundsInv, SumSize, ByMode
<1>5. LowDigitInv' /\ EventInv' /\ SendingInv'
  BY <1>1, <1>2 DEF IInv, MInv, LowDigitInv, EventInv, SendingInv
<1>6. AnswersInv' /\ PreparedInv' /\ ReplyInv' /\ WireInv'
  BY <1>1, <1>2, SameReplyKeeps DEF stackVars, histVars
<1>7. HistoryInv' /\ AssertionsFailOnly'
  BY <1>1, <1>2 DEF IInv, HistoryInv, AssertionsFailOnly
<1>8. LineInv' /\ HeardInv'
  BY <1>1, <1>2, SameLineKeeps, SameHeardKeeps DEF Pending
<1>. QED  BY <1>3, <1>4, <1>5, <1>6, <1>7, <1>8 DEF IInv, MInv

\* What a buffer's content is taken for is a frame that was sent, or nothing.
LEMMA ContentIs ==
  ASSUME LineInv, NEW n \in Nat, NEW address
  PROVE  /\ Content(n) \in 0 .. Len(sent)
         /\ SentTo(address, Content(n)) \in 0 .. Len(sent)
<1>1. Len(sent) \in Nat
  BY DEF LineInv
<1>2. Content(n) \in 0 .. Len(sent)
  BY <1>1 DEF Content
<1>3. SentTo(address, Content(n)) \in {0, Content(n)}
  BY DEF SentTo
<1>. QED  BY <1>1, <1>2, <1>3

\* A frame that is accepted is shorter than the buffer.
LEMMA ReceivedLength ==
  ASSUME IInv, eMBCurrentMode # "none",
         ByMode(RTU!ReceiveAsserted, ASCII!ReceiveAsserted),
         ByMode(RTU!FrameReceived, ASCII!FrameReceived),
         usLength' = ByMode(RTU!PDULength, ASCII!PDULength)
  PROVE  usLength' \in Nat /\ usLength' + 1 + SumSize <= MB_SER_PDU_SIZE_MAX
<1>1. usRcvBufferPos \in Nat
  BY Size DEF IInv, MInv, BoundsInv
<1>2. CASE IsRTU
  <2>1. usRcvBufferPos < MB_SER_PDU_SIZE_MAX /\ usRcvBufferPos >= 4
    BY <1>2 DEF IsRTU, ByMode, RTU!ReceiveAsserted, RTU!FrameReceived, RTU!MB_SER_PDU_SIZE_MIN
  <2>2. usLength' = usRcvBufferPos - 1 - 2
    BY <1>2 DEF IsRTU, ByMode, RTU!PDULength, RTU!MB_SER_PDU_PDU_OFF, RTU!MB_SER_PDU_SIZE_CRC
  <2>3. SumSize = 2
    BY <1>2, SumSizeIs
  <2>. QED  BY <1>1, <2>1, <2>2, <2>3, Size
<1>3. CASE ~ IsRTU
  <2>1. usRcvBufferPos < MB_SER_PDU_SIZE_MAX /\ usRcvBufferPos >= 3
    BY <1>3 DEF IsRTU, ByMode, ASCII!ReceiveAsserted, ASCII!FrameReceived,
                ASCII!MB_SER_PDU_SIZE_MIN
  <2>2. usLength' = usRcvBufferPos - 1 - 1
    BY <1>3 DEF IsRTU, ByMode, ASCII!PDULength, ASCII!MB_SER_PDU_PDU_OFF,
                ASCII!MB_SER_PDU_SIZE_LRC
  <2>3. SumSize = 1
    BY <1>3, SumSizeIs
  <2>. QED  BY <1>1, <2>1, <2>2, <2>3, Size
<1>. QED  BY <1>2, <1>3

\* eMBRTUReceive and eMBASCIIReceive.
LEMMA ReceiveFrameKeeps ==
  ASSUME IInv, ReceiveFrame
  PROVE  IInv'
<1>1. /\ failed = "none" /\ pc = "receive"
      /\ UNCHANGED <<stackVars, lineVars, executed, answered, reply, overheard, cutOff,
                     unended>>
  BY DEF ReceiveFrame, Running
<1>2. eMBCurrentMode # "none" /\ eMBState = "ENABLED" /\ Events = Events'
  BY <1>1 DEF IInv, MInv, StackInv, Enabled, Events
<1>3. CASE ~ ByMode(RTU!ReceiveAsserted, ASCII!ReceiveAsserted)
  <2>1. Abort("frame fills the buffer") /\ UNCHANGED <<pollVars, accepted, disturbed>>
    BY <1>3 DEF ReceiveFrame
  <2>2. SameMachines
    BY <1>1, <2>1 DEF Abort, SameMachines
  <2>3. /\ eSndState' = eSndState /\ txOn' = txOn /\ timer' = timer /\ sent' = sent
        /\ eRcvState' = eRcvState /\ usRcvBufferPos' = usRcvBufferPos
        /\ eMBCurrentMode' = eMBCurrentMode
        /\ accepted' = accepted /\ disturbed' = disturbed /\ overheard' = overheard
        /\ cutOff' = cutOff /\ unended' = unended
        /\ failed' = "frame fills the buffer"
    BY <1>1, <2>1 DEF Abort, rcvVars, sndVars, portVars, lineVars, stackVars
  <2>4. CutOffInv' /\ EndInv' /\ HistoryInv'
    BY <2>3 DEF IInv, CutOffInv, EndInv, HistoryInv, IsASCII
  <2>5. LineInv' /\ HeardInv'
    BY <1>1, <2>1, SameLineKeeps, SameHeardKeeps DEF portVars, pollVars, stackVars, Abort, Pending
  <2>6. usRcvBufferPos = MB_SER_PDU_SIZE_MAX
    <3>1. ~ (usRcvBufferPos < MB_SER_PDU_SIZE_MAX)
      BY <1>3 DEF ByMode, RTU!ReceiveAsserted, ASCII!ReceiveAsserted
    <3>. QED  BY <3>1, Size DEF IInv, MInv, BoundsInv
  <2>7. ASSUME Undisturbed PROVE LastFrame.len >= MB_SER_PDU_SIZE_MAX
    <3>1. out \in Nat /\ Pending
      BY <1>1 DEF IInv, LineInv, Pending
    <3>2. usRcvBufferPos <= LastFrame.len
      BY <2>7, <3>1 DEF IInv, HeardInv
    <3>3. LastFrame.len \in Nat
      <4>1. sent \in Seq(SentFrames) /\ sent # <<>>
        BY <2>7 DEF Undisturbed, IInv, LineInv
      <4>2. LastFrame \in SentFrames
        BY <4>1 DEF LastFrame
      <4>. QED  BY <4>2 DEF SentFrames
    <3>. QED  BY <2>6, <3>2, <3>3, Size
  <2>8. AssertionsFailOnly'
    BY <2>3, <2>6, <2>7 DEF AssertionsFailOnly, Undisturbed, LastFrame
  <2>. QED  BY <2>2, <2>4, <2>5, <2>8, SameMachinesKeep DEF IInv
<1>4. CASE ByMode(RTU!ReceiveAsserted, ASCII!ReceiveAsserted)
  <2>1. /\ UNCHANGED serialVars
        /\ IF ByMode(RTU!FrameReceived, ASCII!FrameReceived) THEN Received ELSE NotReceived
    BY <1>4 DEF ReceiveFrame
  <2>2. /\ eRcvState' = eRcvState /\ eSndState' = eSndState /\ eBytePos' = eBytePos
        /\ rxOn' = rxOn /\ txOn' = txOn /\ timer' = timer
        /\ eMBState' = eMBState /\ eMBCurrentMode' = eMBCurrentMode
        /\ ucRTUBuf' = ucRTUBuf /\ usRcvBufferPos' = usRcvBufferPos
        /\ usSndBufferCount' = usSndBufferCount /\ pucSndBufferCur' = pucSndBufferCur
        /\ wire' = wire /\ reply' = reply /\ event' = event
        /\ failed' = failed /\ sent' = sent
    BY <1>1, <2>1 DEF serialVars, rcvVars, sndVars, portVars, lineVars, stackVars
  <2>3. pc' \in {"poll", "post"} /\ (disturbed' \in BOOLEAN)
    <3>1. disturbed \in BOOLEAN
      BY DEF IInv, HistoryInv
    <3>2. (disturbed \/ Hearing) \in BOOLEAN
      OBVIOUS
    <3>. QED  BY <2>1, <3>1, <3>2 DEF Received, NotReceived
  <2>4. usLength' \in Nat /\ usLength' + 1 + SumSize <= MB_SER_PDU_SIZE_MAX
    <3>1. CASE ByMode(RTU!FrameReceived, ASCII!FrameReceived)
      <4>1. usLength' = ByMode(RTU!PDULength, ASCII!PDULength)
        BY <2>1, <3>1 DEF Received
      <4>. QED  BY <1>2, <1>4, <3>1, <4>1, ReceivedLength
    <3>2. CASE ~ ByMode(RTU!FrameReceived, ASCII!FrameReceived)
      <4>1. usLength' = usLength
        BY <2>1, <3>2 DEF NotReceived
      <4>. QED  BY <4>1 DEF IInv, MInv, BoundsInv
    <3>. QED  BY <3>1, <3>2
  <2>5. accepted' \in 0 .. Len(sent)
    <3>1. \/ accepted' = accepted
          \/ accepted' = SentTo(ucRcvAddress', Content(usLength'))
      BY <2>1 DEF Received, NotReceived
    <3>2. SentTo(ucRcvAddress', Content(usLength')) \in 0 .. Len(sent)
      <4>. DEFINE l == usLength'
                  a == ucRcvAddress'
      <4>1. l \in Nat
        BY <2>4
      <4>2. LineInv
        BY DEF IInv
      <4>. HIDE DEF l, a
      <4>3. SentTo(a, Content(l)) \in 0 .. Len(sent)
        BY <4>1, <4>2, ContentIs
      <4>. QED  BY <4>3 DEF l, a
    <3>. QED  BY <3>1, <3>2 DEF IInv, HistoryInv
  <2>6. HistoryInv' /\ AssertionsFailOnly'
    BY <1>1, <2>2, <2>3, <2>5 DEF IInv, HistoryInv, AssertionsFailOnly
  <2>7. StackInv' /\ PortInv' /\ MachineInv' /\ CutOffInv' /\ EndInv'
    BY <1>1, <1>2, <2>2, <2>3
    DEF IInv, MInv, StackInv, Enabled, PortInv, MachineInv, CutOffInv, EndInv, IsRTU, IsASCII
  <2>8. BoundsInv'
    <3>1. SumSize' = SumSize
      BY <2>2 DEF SumSize, ByMode
    <3>. QED  BY <2>2, <2>4, <3>1 DEF IInv, MInv, BoundsInv
  <2>9. LowDigitInv' /\ EventInv' /\ SendingInv'
    BY <1>1, <2>2 DEF IInv, MInv, LowDigitInv, EventInv, SendingInv
  <2>10. AnswersInv' /\ PreparedInv' /\ ReplyInv' /\ WireInv'
    BY <1>1, <2>1, <2>2, <2>3, SameReplyKeeps DEF serialVars
  <2>11. LineInv' /\ HeardInv'
    BY <1>1, <2>1, <2>2, <2>3, SameLineKeeps, SameHeardKeeps DEF serialVars, Pending
  <2>. QED  BY <2>6, <2>7, <2>8, <2>9, <2>10, <2>11 DEF IInv, MInv
<1>. QED  BY <1>3, <1>4

\* The handler replaces the PDU in the buffer.
LEMMA ExecuteKeeps ==
  ASSUME IInv, Execute
  PROVE  IInv'
<1>1. /\ failed = "none" /\ pc = "execute" /\ pc' \in {"poll", "send"}
      /\ executed' = Append(executed, Content(usLength)) /\ Reply(usLength, Len(executed'))
      /\ overheard' = FALSE
      /\ UNCHANGED <<rcvVars, sndVars, eBytePos, portVars, event, failed, stackVars,
                     ucRcvAddress, lineVars, accepted, disturbed, answered, cutOff, unended>>
  BY DEF Execute, Running
<1>2. /\ eRcvState' = eRcvState /\ eSndState' = eSndState /\ eBytePos' = eBytePos
      /\ rxOn' = rxOn /\ txOn' = txOn /\ timer' = timer /\ event' = event
      /\ eMBState' = eMBState /\ eMBCurrentMode' = eMBCurrentMode
      /\ ucMBAddress' = ucMBAddress /\ usRcvBufferPos' = usRcvBufferPos
      /\ usSndBufferCount' = usSndBufferCount /\ pucSndBufferCur' = pucSndBufferCur
      /\ failed' = failed /\ disturbed' = disturbed
      /\ accepted' = accepted /\ sent' = sent
      /\ cutOff' = cutOff /\ unended' = unended
  BY <1>1 DEF rcvVars, sndVars, portVars, lineVars, stackVars
<1>3. eMBCurrentMode # "none" /\ eMBState = "ENABLED" /\ Events' = Events
  BY <1>1 DEF IInv, MInv, StackInv, Enabled, Events
<1>4. StackInv' /\ PortInv' /\ MachineInv' /\ CutOffInv' /\ EndInv'
  BY <1>1, <1>2, <1>3
  DEF IInv, MInv, StackInv, Enabled, PortInv, MachineInv, CutOffInv, EndInv, IsRTU, IsASCII
<1>5. SumSize' = SumSize /\ SumSize \in {1, 2}
  BY <1>2, SumSizeIs DEF SumSize, ByMode
<1>6. BoundsInv'
  <2>1. DOMAIN ucRTUBuf' = DOMAIN ucRTUBuf
    BY <1>1 DEF Reply
  <2>2. usLength' = usLength \/ usLength' \in ReplyLengths
    BY <1>1 DEF Reply
  <2>3. \A n \in ReplyLengths : n \in Nat /\ n + 3 <= MB_SER_PDU_SIZE_MAX
    BY SerialAssumption
  <2>. QED  BY <1>2, <1>5, <2>1, <2>2, <2>3, Size DEF IInv, MInv, BoundsInv
<1>7. LowDigitInv' /\ EventInv' /\ SendingInv'
  BY <1>1, <1>2 DEF IInv, MInv, LowDigitInv, EventInv, SendingInv
<1>8. AnswersInv' /\ ~ Latest'
  <2>1. /\ executed \in Seq(Nat) /\ answered \in Seq(Nat) /\ answered' = answered
        /\ \A i \in 1 .. Len(answered) : answered[i] <= Len(executed)
    BY <1>1 DEF IInv, MInv, AnswersInv
  <2>2. Content(usLength) \in Nat
    <3>1. LineInv /\ usLength \in Nat
      BY DEF IInv, MInv, BoundsInv
    <3>2. Content(usLength) \in 0 .. Len(sent) /\ Len(sent) \in Nat
      BY <3>1, ContentIs DEF LineInv
    <3>. QED  BY <3>2
  <2>3. executed' \in Seq(Nat) /\ Len(executed') = Len(executed) + 1
    BY <1>1, <2>1, <2>2
  <2>4. \A i \in 1 .. Len(answered) :
          answered[i] <= Len(executed') /\ answered[i] < Len(executed')
    BY <2>1, <2>3
  <2>5. AnswersInv'
    BY <2>1, <2>3, <2>4 DEF AnswersInv
  <2>6. answered # <<>> => Len(answered) \in 1 .. Len(answered)
    BY <2>1
  <2>7. answered # <<>> => answered[Len(answered)] # Len(executed')
    <3>. SUFFICES ASSUME answered # <<>> PROVE answered[Len(answered)] # Len(executed')
      OBVIOUS
    <3>1. answered[Len(answered)] \in Nat /\ Len(executed') \in Nat
      BY <2>1, <2>3, <2>6
    <3>. QED  BY <2>4, <2>6, <3>1
  <2>. QED  BY <2>1, <2>5, <2>7 DEF Latest
<1>9. ReplyInv' /\ WireInv'
  BY <1>8 DEF Replying, ReplyInv, WireInv
<1>10. PreparedInv'
  <2>. SUFFICES ASSUME pc' = "send"
                PROVE  reply' = WholeFrame(ucMBAddress, ucRTUBuf, usLength, SumSize)'
    BY DEF PreparedInv
  <2>1. reply' = Whole(ucMBAddress, PDU(usLength)')
    BY DEF Execute
  <2>. QED  BY <1>2, <1>5, <2>1 DEF Whole, PDU, WholeFrame
<1>11. HistoryInv' /\ AssertionsFailOnly'
  BY <1>1, <1>2 DEF IInv, HistoryInv, AssertionsFailOnly
<1>12. LineInv' /\ HeardInv'
  BY <1>1, <1>2, SameLineKeeps, SameHeardKeeps DEF Pending
<1>. QED
  BY <1>4, <1>6, <1>7, <1>8, <1>9, <1>10, <1>11, <1>12 DEF IInv, MInv

\* A frame is a sequence, of so many bytes.
LEMMA WholeFrameSequence ==
  ASSUME NEW a, NEW bytes, NEW n \in Nat, NEW size \in Nat
  PROVE  /\ Len(WholeFrame(a, bytes, n, size)) = n + 1 + size
         /\ \E B : WholeFrame(a, bytes, n, size) \in Seq(B)
<1>. DEFINE message == <<Addr(a)>> \o [i \in 1 .. n |-> bytes[i]]
            sum     == [k \in 1 .. size |-> Sum(message, k)]
            pdu     == [i \in 1 .. n |-> bytes[i]]
            B       == {Addr(a)} \cup { bytes[i] : i \in 1 .. n }
                         \cup { Sum(message, k) : k \in 1 .. size }
<1>1. <<Addr(a)>> \in Seq(B) /\ pdu \in Seq(B) /\ sum \in Seq(B)
  <2>1. Addr(a) \in B /\ (\A i \in 1 .. n : bytes[i] \in B)
        /\ \A k \in 1 .. size : Sum(message, k) \in B
    OBVIOUS
  <2>. HIDE DEF B, message
  <2>. QED  BY <2>1
<1>2. Len(<<Addr(a)>>) = 1 /\ Len(pdu) = n /\ Len(sum) = size
  OBVIOUS
<1>3. WholeFrame(a, bytes, n, size) = (<<Addr(a)>> \o pdu) \o sum
  BY DEF WholeFrame, WithSum
<1>. HIDE DEF sum, pdu, B
<1>4. <<Addr(a)>> \o pdu \in Seq(B) /\ Len(<<Addr(a)>> \o pdu) = n + 1
  BY <1>1, <1>2
<1>5. /\ (<<Addr(a)>> \o pdu) \o sum \in Seq(B)
      /\ Len((<<Addr(a)>> \o pdu) \o sum) = n + 1 + size
  BY <1>1, <1>2, <1>4
<1>. QED  BY <1>3, <1>5

\* Its length alone.
LEMMA WholeFrameLength ==
  ASSUME NEW a, NEW bytes, NEW n \in Nat, NEW size \in Nat
  PROVE  Len(WholeFrame(a, bytes, n, size)) = n + 1 + size
BY WholeFrameSequence

\* Its length and its bytes.
LEMMA WholeFrameIs ==
  ASSUME NEW a, NEW bytes, NEW n \in Nat, NEW size \in Nat
  PROVE  LET whole == WholeFrame(a, bytes, n, size)
         IN  /\ Len(whole) = n + 1 + size
             /\ whole = [i \in 1 .. Len(whole) |-> whole[i]]
<1>. DEFINE whole == WholeFrame(a, bytes, n, size)
<1>1. Len(whole) = n + 1 + size /\ \E B : whole \in Seq(B)
  BY WholeFrameSequence
<1>2. whole = [i \in 1 .. Len(whole) |-> whole[i]]
  <2>. HIDE DEF whole
  <2>. QED  BY <1>1
<1>. QED  BY <1>1, <1>2, Zenon

\* What SendReply does when the receiver is idle.
LEMMA SendIs ==
  ASSUME IInv, SendReply, eRcvState = "IDLE"
  PROVE  LET whole == WholeFrame(ucMBAddress, ucRTUBuf, usLength, SumSize)
         IN  /\ ucRTUBuf' = [i \in DOMAIN ucRTUBuf |->
                               IF i < Len(whole) THEN whole[i + 1] ELSE ucRTUBuf[i]]
             /\ pucSndBufferCur' = 0 /\ usSndBufferCount' = Len(whole) /\ wire' = <<>>
             /\ eSndState' = ByMode("XMIT", "START")
             /\ rxOn' = FALSE /\ txOn' = TRUE
             /\ UNCHANGED <<rcvVars, eBytePos, timer, event, failed>>
<1>. DEFINE whole == WholeFrame(ucMBAddress, ucRTUBuf, usLength, SumSize)
<1>2. CASE IsRTU
  <2>1. RTU!Transmit(usLength, ucMBAddress, 2, "XMIT") /\ SumSize = 2
    BY <1>2, SumSizeIs DEF SendReply, ByMode, IsRTU, RTU!eMBRTUSend, RTU!MB_SER_PDU_SIZE_CRC
  <2>2. /\ ucRTUBuf' = [i \in DOMAIN ucRTUBuf |->
                               IF i < Len(whole) THEN whole[i + 1] ELSE ucRTUBuf[i]]
        /\ usSndBufferCount' = Len(whole)
    BY <2>1 DEF RTU!Transmit, WholeFrame, WithSum, Addr, Sum, RTU!WithSum, RTU!Addr, RTU!Sum
  <2>3. /\ pucSndBufferCur' = 0 /\ wire' = <<>> /\ eSndState' = "XMIT"
        /\ rxOn' = FALSE /\ txOn' = TRUE
        /\ UNCHANGED <<rcvVars, eBytePos, timer, event, failed>>
    BY <2>1 DEF RTU!Transmit, RTU!vMBPortSerialEnable, rcvVars, RTU!rcvVars,
                RTU!MB_SER_PDU_ADDR_OFF
  <2>. QED  BY <1>2, <2>2, <2>3 DEF ByMode, IsRTU
<1>3. CASE ~ IsRTU
  <2>1. ASCII!Transmit(usLength, ucMBAddress, 1, "START") /\ SumSize = 1
    BY <1>3, SumSizeIs
    DEF SendReply, ByMode, IsRTU, ASCII!eMBASCIISend, ASCII!MB_SER_PDU_SIZE_LRC
  <2>2. /\ ucRTUBuf' = [i \in DOMAIN ucRTUBuf |->
                               IF i < Len(whole) THEN whole[i + 1] ELSE ucRTUBuf[i]]
        /\ usSndBufferCount' = Len(whole)
    BY <2>1
    DEF ASCII!Transmit, WholeFrame, WithSum, Addr, Sum, ASCII!WithSum, ASCII!Addr, ASCII!Sum
  <2>3. /\ pucSndBufferCur' = 0 /\ wire' = <<>> /\ eSndState' = "START"
        /\ rxOn' = FALSE /\ txOn' = TRUE
        /\ UNCHANGED <<rcvVars, eBytePos, timer, event, failed>>
    BY <2>1 DEF ASCII!Transmit, ASCII!vMBPortSerialEnable, rcvVars, ASCII!rcvVars,
                ASCII!MB_SER_PDU_ADDR_OFF
  <2>. QED  BY <1>3, <2>2, <2>3 DEF ByMode, IsRTU
<1>. QED  BY <1>2, <1>3

\* eMBRTUSend and eMBASCIISend make the sum of the reply.
LEMMA SendReplyKeeps ==
  ASSUME IInv, SendReply
  PROVE  IInv'
<1>1. /\ failed = "none" /\ pc = "send" /\ pc' = "poll"
      /\ UNCHANGED <<stackVars, ucRcvAddress, usLength, lineVars, accepted, disturbed,
                     executed, reply, overheard, unended>>
  BY DEF SendReply, Running
<1>2. /\ eMBCurrentMode # "none" /\ eMBState = "ENABLED" /\ Events' = Events
      /\ event # "EXECUTE"
  BY <1>1 DEF IInv, MInv, StackInv, Enabled, EventInv, Events
<1>3. /\ eMBState' = eMBState /\ eMBCurrentMode' = eMBCurrentMode
      /\ accepted' = accepted /\ disturbed' = disturbed /\ sent' = sent
      /\ usLength' = usLength /\ ucMBAddress' = ucMBAddress
      /\ overheard' = overheard /\ unended' = unended
  BY <1>1 DEF stackVars, lineVars
<1>4. CASE eRcvState # "IDLE"
  <2>1. UNCHANGED serialVars /\ UNCHANGED <<answered, cutOff>>
    BY <1>4 DEF SendReply, ByMode, RTU!eMBRTUSend, ASCII!eMBASCIISend, RTU!serialVars,
       RTU!rcvVars, RTU!sndVars, RTU!portVars, ASCII!serialVars, ASCII!rcvVars, ASCII!sndVars,
       ASCII!portVars, serialVars, rcvVars, sndVars, portVars
  <2>2. /\ eRcvState' = eRcvState /\ eSndState' = eSndState /\ eBytePos' = eBytePos
        /\ rxOn' = rxOn /\ txOn' = txOn /\ timer' = timer
        /\ ucRTUBuf' = ucRTUBuf /\ usRcvBufferPos' = usRcvBufferPos
        /\ usSndBufferCount' = usSndBufferCount /\ pucSndBufferCur' = pucSndBufferCur
        /\ wire' = wire /\ event' = event /\ failed' = failed
    BY <2>1 DEF serialVars, rcvVars, sndVars, portVars
  <2>3. HistoryInv' /\ AssertionsFailOnly'
    BY <1>1, <1>3, <2>1, <2>2 DEF IInv, HistoryInv, AssertionsFailOnly
  <2>4. StackInv' /\ PortInv' /\ MachineInv' /\ CutOffInv' /\ EndInv'
    BY <1>1, <1>2, <1>3, <2>1, <2>2
    DEF IInv, MInv, StackInv, Enabled, PortInv, MachineInv, CutOffInv, EndInv, IsRTU, IsASCII
  <2>5. BoundsInv'
    BY <1>3, <2>2 DEF IInv, MInv, BoundsInv, SumSize, ByMode
  <2>6. LowDigitInv' /\ EventInv' /\ SendingInv'
    BY <1>1, <2>2 DEF IInv, MInv, LowDigitInv, EventInv, SendingInv
  <2>7. AnswersInv' /\ PreparedInv' /\ ReplyInv' /\ WireInv'
    BY <1>1, <1>3, <2>1, SameReplyKeeps DEF serialVars
  <2>8. LineInv' /\ HeardInv'
    BY <1>1, <1>3, <2>1, <2>2, SameLineKeeps, SameHeardKeeps DEF serialVars, Pending
  <2>. QED  BY <2>3, <2>4, <2>5, <2>6, <2>7, <2>8 DEF IInv, MInv
<1>5. CASE eRcvState = "IDLE"
  <2>. DEFINE whole == WholeFrame(ucMBAddress, ucRTUBuf, usLength, SumSize)
  <2>1. /\ ucRTUBuf' = [i \in DOMAIN ucRTUBuf |->
                               IF i < Len(whole) THEN whole[i + 1] ELSE ucRTUBuf[i]]
        /\ pucSndBufferCur' = 0 /\ usSndBufferCount' = Len(whole) /\ wire' = <<>>
        /\ eSndState' = ByMode("XMIT", "START")
        /\ rxOn' = FALSE /\ txOn' = TRUE
        /\ UNCHANGED <<rcvVars, eBytePos, timer, event, failed>>
        /\ answered' = Append(answered, Len(executed)) /\ cutOff' = FALSE
    BY <1>5, SendIs DEF SendReply
  <2>2. /\ eRcvState' = "IDLE" /\ eBytePos' = eBytePos /\ timer' = timer /\ event' = event
        /\ failed' = failed /\ usRcvBufferPos' = usRcvBufferPos
    BY <1>5, <2>1 DEF rcvVars
  <2>3. /\ SumSize' = SumSize /\ SumSize \in {1, 2}
        /\ DOMAIN ucRTUBuf = 0 .. MB_SER_PDU_SIZE_MAX - 1
    BY <1>3, SumSizeIs DEF SumSize, ByMode, IInv, MInv, BoundsInv
  <2>4. /\ Len(whole) = usLength + 1 + SumSize /\ Len(whole) \in Nat
        /\ Len(whole) <= MB_SER_PDU_SIZE_MAX
        /\ whole = [i \in 1 .. Len(whole) |-> whole[i]]
    <3>1. /\ SumSize \in Nat /\ usLength \in Nat
          /\ usLength + 1 + SumSize <= MB_SER_PDU_SIZE_MAX
      BY <2>3 DEF IInv, MInv, BoundsInv
    <3>2. Len(whole) = usLength + 1 + SumSize /\ whole = [i \in 1 .. Len(whole) |-> whole[i]]
      BY <3>1, WholeFrameIs
    <3>. HIDE DEF whole
    <3>. QED  BY <3>1, <3>2
  <2>. HIDE DEF whole
  <2>5. StackInv' /\ PortInv'
    <3>1. rxOn' = FALSE /\ txOn' = TRUE
      BY <2>1
    <3>. QED
      BY <1>1, <1>2, <1>3, <1>5, <3>1, <2>2 DEF IInv, MInv, StackInv, Enabled, PortInv, IsRTU
  <2>6. MachineInv' /\ CutOffInv' /\ EndInv'
    BY <1>2, <1>3, <1>5, <2>1, <2>2
    DEF IInv, MInv, StackInv, MachineInv, CutOffInv, EndInv, IsRTU, IsASCII, ByMode
  <2>7. BoundsInv'
    <3>1. DOMAIN ucRTUBuf' = DOMAIN ucRTUBuf
      BY <2>1
    <3>. QED  BY <1>3, <2>1, <2>2, <2>3, <2>4, <3>1 DEF IInv, MInv, BoundsInv
  <2>8. LowDigitInv' /\ EventInv' /\ SendingInv'
    BY <1>1, <1>2, <2>2 DEF LowDigitInv, EventInv, SendingInv
  <2>9. AnswersInv' /\ PreparedInv'
    <3>1. /\ executed \in Seq(Nat) /\ answered \in Seq(Nat) /\ executed' = executed
          /\ \A i \in 1 .. Len(answered) : answered[i] <= Len(executed)
      BY <1>1 DEF IInv, MInv, AnswersInv
    <3>2. /\ answered' \in Seq(Nat) /\ Len(answered') = Len(answered) + 1
          /\ \A i \in 1 .. Len(answered') :
               answered'[i] = IF i = Len(answered) + 1 THEN Len(executed) ELSE answered[i]
      <4>1. answered' = Append(answered, Len(executed)) /\ Len(executed) \in Nat
        BY <2>1, <3>1
      <4>. QED  BY <3>1, <4>1
    <3>3. \A i \in 1 .. Len(answered') : answered'[i] <= Len(executed)
      BY <3>1, <3>2
    <3>. QED  BY <1>1, <3>1, <3>2, <3>3 DEF AnswersInv, PreparedInv
  <2>10. ReplyInv'
    <3>. SUFFICES ASSUME Replying' PROVE ReplyInv'
      BY DEF ReplyInv
    <3>1. reply' = whole
      BY <1>1, <1>3 DEF IInv, MInv, PreparedInv, Replying, whole
    <3>2. \A i \in 1 .. Len(whole) : ucRTUBuf'[i - 1] = whole[i]
      <4>. TAKE i \in 1 .. Len(whole)
      <4>1. i - 1 \in 0 .. MB_SER_PDU_SIZE_MAX - 1 /\ i - 1 < Len(whole) /\ i - 1 + 1 = i
        BY <2>4, Size
      <4>2. i - 1 \in DOMAIN ucRTUBuf
        BY <4>1, <2>3
      <4>3. ucRTUBuf'[i - 1] = whole[i - 1 + 1]
        BY <2>1, <4>1, <4>2
      <4>. QED  BY <4>1, <4>3
    <3>3. whole = [i \in 1 .. Len(whole) |-> ucRTUBuf'[i - 1]]
      BY <2>4, <3>2
    <3>4. Len(whole) = pucSndBufferCur' + usSndBufferCount'
      BY <2>1, <2>4
    <3>. QED  BY <3>1, <3>3, <3>4 DEF ReplyInv
  <2>11. WireInv'
    <3>1. eSndState' \in {"XMIT", "START"} /\ eSndState' \notin {"END", "NOTIFY", "DATA"}
      BY <2>1 DEF ByMode
    <3>2. Put' = 0
      BY <2>1, <3>1 DEF Put
    <3>3. wire' = [i \in 1 .. Put' |-> Encoded(reply)'[i]]
      BY <2>1, <3>2
    <3>. QED  BY <2>1, <3>1, <3>3 DEF WireInv
  <2>12. HistoryInv' /\ AssertionsFailOnly'
    BY <1>1, <1>3, <2>1, <2>2 DEF IInv, HistoryInv, AssertionsFailOnly
  <2>13. LineInv' /\ HeardInv'
    BY <1>1, <1>3, <2>1, <2>2, SameLineKeeps, SameHeardKeeps DEF Pending
  <2>. QED
    BY <2>5, <2>6, <2>7, <2>8, <2>9, <2>10, <2>11, <2>12, <2>13 DEF IInv, MInv
<1>. QED  BY <1>4, <1>5

-----------------------------------------------------------------------------
(***************************************************************************)
(* The transmitter's interrupt.  First what is on the line for a reply of  *)
(* L bytes.                                                                *)
(***************************************************************************)
LEMMA AppendIs ==
  ASSUME NEW f, NEW k \in Nat, NEW s, s = [i \in 1 .. k |-> f[i]]
  PROVE  Append(s, f[k + 1]) = [i \in 1 .. k + 1 |-> f[i]]
<1>. DEFINE F == { f[i] : i \in 1 .. k }
<1>1. s \in Seq(F) /\ Len(s) = k
  <2>1. \A i \in 1 .. k : f[i] \in F
    OBVIOUS
  <2>. HIDE DEF F
  <2>. QED  BY <2>1
<1>. QED  BY <1>1

Joins(r, s, t) ==
  /\ Len(r) = Len(s) + Len(t)
  /\ \A i \in 1 .. Len(s) : r[i] = s[i]
  /\ \A i \in 1 .. Len(t) : r[Len(s) + i] = t[i]

\* What Joins says is what \o does.
LEMMA ConcatenationIs ==
  ASSUME NEW C, NEW s \in Seq(C), NEW t \in Seq(C)
  PROVE  s \o t \in Seq(C) /\ Joins(s \o t, s, t)
BY DEF Joins

\* Two characters for each byte, between a colon and CR LF.
LEMMA DigitsAre ==
  ASSUME NEW bytes, NEW L \in Nat, Len(bytes) = L
  PROVE  LET s == ASCII!Encoded(bytes)
         IN  /\ Len(s) = 2 * L + 3 /\ s = [i \in 1 .. 2 * L + 3 |-> s[i]]
             /\ s[1] = ASCII!COLON /\ s[2 * L + 2] = ASCII!CR /\ s[2 * L + 3] = ASCII!LF
             /\ \A k \in 0 .. L - 1 :
                  /\ s[2 * k + 2] = ASCII!prvucMBBIN2CHAR(bytes[k + 1], "high")
                  /\ s[2 * k + 3] = ASCII!prvucMBBIN2CHAR(bytes[k + 1], "low")
<1>. DEFINE Digit(i) == ASCII!prvucMBBIN2CHAR(bytes[(i + 1) \div 2],
                                              IF i % 2 = 1 THEN "high" ELSE "low")
            digits == [i \in 1 .. 2 * L |-> Digit(i)]
            C == { Digit(i) : i \in 1 .. 2 * L }
                   \cup {ASCII!COLON, ASCII!CR, ASCII!LF}
            before == <<ASCII!COLON>>
            end    == <<ASCII!CR, ASCII!LF>>
            s == (before \o digits) \o end
<1>1. ASCII!Encoded(bytes) = s
  BY DEF ASCII!Encoded
<1>2. 2 * L \in Nat
  OBVIOUS
<1>3. before \in Seq(C) /\ digits \in Seq(C) /\ end \in Seq(C)
  <2>1. ASCII!COLON \in C /\ ASCII!CR \in C /\ ASCII!LF \in C
        /\ \A i \in 1 .. 2 * L : Digit(i) \in C
    OBVIOUS
  <2>. HIDE DEF C, Digit
  <2>. QED  BY <1>2, <2>1
<1>4. /\ Len(before) = 1 /\ Len(digits) = 2 * L /\ Len(end) = 2
      /\ before[1] = ASCII!COLON /\ end[1] = ASCII!CR /\ end[2] = ASCII!LF
  BY <1>2
<1>5. \A k \in 0 .. L - 1 :
        /\ 2 * k + 1 \in 1 .. 2 * L /\ 2 * k + 2 \in 1 .. 2 * L
        /\ Digit(2 * k + 1) = ASCII!prvucMBBIN2CHAR(bytes[k + 1], "high")
        /\ Digit(2 * k + 2) = ASCII!prvucMBBIN2CHAR(bytes[k + 1], "low")
  <2>. TAKE k \in 0 .. L - 1
  <2>1. /\ 2 * k + 1 \in 1 .. 2 * L /\ 2 * k + 2 \in 1 .. 2 * L
        /\ (2 * k + 1 + 1) \div 2 = k + 1 /\ (2 * k + 2 + 1) \div 2 = k + 1
        /\ (2 * k + 1) % 2 = 1 /\ (2 * k + 2) % 2 # 1
    OBVIOUS
  <2>. QED  BY <2>1
<1>6. \A k \in 0 .. L - 1 :
        /\ digits[2 * k + 1] = ASCII!prvucMBBIN2CHAR(bytes[k + 1], "high")
        /\ digits[2 * k + 2] = ASCII!prvucMBBIN2CHAR(bytes[k + 1], "low")
  <2>. HIDE DEF Digit
  <2>. QED  BY <1>5
<1>. HIDE DEF digits, C, before, end, Digit
<1>. DEFINE start == before \o digits
<1>7. /\ start \in Seq(C) /\ Len(start) = 2 * L + 1
      /\ start[1] = before[1]
      /\ \A i \in 1 .. 2 * L : start[1 + i] = digits[i]
  <2>1. start \in Seq(C) /\ Joins(start, before, digits)
    BY <1>3, ConcatenationIs
  <2>. HIDE DEF start
  <2>. QED  BY <1>2, <1>4, <2>1 DEF Joins
<1>8. /\ s \in Seq(C) /\ Len(s) = 2 * L + 3 /\ s[1] = before[1]
      /\ \A i \in 1 .. 2 * L : s[1 + i] = start[1 + i]
      /\ s[2 * L + 2] = end[1] /\ s[2 * L + 3] = end[2]
  <2>. HIDE DEF start
  <2>1. s \in Seq(C) /\ Joins(s, start, end)
    BY <1>3, <1>7, ConcatenationIs DEF start
  <2>. HIDE DEF s
  <2>. QED  BY <1>2, <1>4, <1>7, <2>1 DEF Joins
<1>. HIDE DEF s, start
<1>9. \A k \in 0 .. L - 1 :
        s[2 * k + 2] = digits[2 * k + 1] /\ s[2 * k + 3] = digits[2 * k + 2]
  <2>. TAKE k \in 0 .. L - 1
  <2>1. /\ 2 * k + 1 \in 1 .. 2 * L /\ 2 * k + 2 \in 1 .. 2 * L
        /\ 1 + (2 * k + 1) = 2 * k + 2 /\ 1 + (2 * k + 2) = 2 * k + 3
    OBVIOUS
  <2>. QED  BY <1>7, <1>8, <2>1
<1>10. s = [i \in 1 .. 2 * L + 3 |-> s[i]]
  BY <1>8
<1>. QED  BY <1>1, <1>4, <1>6, <1>8, <1>9, <1>10

\* What the interrupt leaves alone.
LEMMA TransmitterFrame ==
  ASSUME IInv, TransmitterEmpty
  PROVE  /\ eRcvState = "IDLE" /\ eMBState = "ENABLED" /\ failed = "none" /\ txOn
         /\ UNCHANGED <<rcvVars, ucRTUBuf, timer, failed, stackVars, pollVars, lineVars,
                        histVars>>
         /\ \/ /\ IsRTU /\ eBytePos' = eBytePos
               /\ RTU!PutByte \/ RTU!Finished
            \/ /\ IsASCII
               /\ \/ ASCII!PutColon \/ ASCII!PutHigh \/ ASCII!PutLow
                  \/ ASCII!PutCR \/ ASCII!PutLF \/ ASCII!Finished
<1>1. /\ txOn /\ failed = "none" /\ UNCHANGED <<stackVars, pollVars, lineVars, histVars>>
      /\ ByMode(RTU!xMBRTUTransmitFSM, ASCII!xMBASCIITransmitFSM)
  BY DEF TransmitterEmpty, Running
<1>2. eRcvState = "IDLE" /\ eMBState = "ENABLED" /\ (IsRTU \/ IsASCII)
  BY <1>1 DEF IInv, MInv, PortInv, StackInv, Enabled, IsRTU, IsASCII
<1>3. CASE IsRTU
  BY <1>1, <1>2, <1>3
  DEF ByMode, IsRTU, RTU!xMBRTUTransmitFSM, rcvVars, RTU!rcvVars
<1>4. CASE IsASCII
  BY <1>1, <1>2, <1>4
  DEF ByMode, IsASCII, ASCII!xMBASCIITransmitFSM, rcvVars, ASCII!rcvVars
<1>. QED  BY <1>2, <1>3, <1>4

\* The states it moves between.
LEMMA TransmitterSteps ==
  ASSUME IInv, TransmitterEmpty
  PROVE  /\ \/ /\ eSndState # "IDLE" /\ eSndState' # "IDLE"
               /\ rxOn' = rxOn /\ txOn' = txOn /\ event' = event
            \/ /\ eSndState' = "IDLE"
               /\ rxOn' = TRUE /\ txOn' = FALSE /\ event' = "FRAME_SENT"
         /\ IsRTU => eSndState' \in {"IDLE", "XMIT"} /\ eBytePos' = eBytePos
         /\ IsASCII => /\ eSndState' \in {"IDLE", "DATA", "END", "NOTIFY"}
                       /\ eBytePos' \in {eBytePos, "high", "low"}
BY TransmitterFrame
DEF IsRTU, IsASCII, RTU!PutByte, RTU!Finished, RTU!xMBPortSerialPutByte,
    RTU!vMBPortSerialEnable, RTU!xMBPortEventPost,
    ASCII!PutColon, ASCII!PutHigh, ASCII!PutLow, ASCII!PutCR, ASCII!PutLF, ASCII!Finished,
    ASCII!vMBPortSerialEnable, ASCII!xMBPortEventPost

\* What is put and what is left to put are the reply, all along.
LEMMA TransmitterCounts ==
  ASSUME IInv, TransmitterEmpty
  PROVE  /\ pucSndBufferCur' \in Nat /\ usSndBufferCount' \in Nat
         /\ pucSndBufferCur' + usSndBufferCount' = pucSndBufferCur + usSndBufferCount
<1>1. pucSndBufferCur \in Nat /\ usSndBufferCount \in Nat
  BY DEF IInv, MInv, BoundsInv
<1>2. \/ /\ pucSndBufferCur' = pucSndBufferCur + 1
         /\ usSndBufferCount' = usSndBufferCount - 1
         /\ usSndBufferCount # 0
      \/ pucSndBufferCur' = pucSndBufferCur /\ usSndBufferCount' = usSndBufferCount
  <2>1. usSndBufferCount > 0 => usSndBufferCount # 0
    BY <1>1
  <2>. QED
    BY <2>1, TransmitterFrame
    DEF RTU!PutByte, RTU!Finished, ASCII!PutColon, ASCII!PutHigh, ASCII!PutLow, ASCII!PutCR,
        ASCII!PutLF, ASCII!Finished
<1>. QED  BY <1>1, <1>2


(***************************************************************************)
(* Each character that is put is the next one of the reply.                *)
(***************************************************************************)
LEMMA NextByteIs ==
  ASSUME ReplyInv, BoundsInv, Replying, usSndBufferCount # 0
  PROVE  /\ Len(reply) \in Nat /\ pucSndBufferCur \in 0 .. Len(reply) - 1
         /\ ucRTUBuf[pucSndBufferCur] = reply[pucSndBufferCur + 1]
<1>1. /\ pucSndBufferCur \in Nat /\ usSndBufferCount \in Nat
      /\ Len(reply) = pucSndBufferCur + usSndBufferCount
      /\ reply = [i \in 1 .. Len(reply) |-> ucRTUBuf[i - 1]]
  BY DEF ReplyInv, BoundsInv
<1>2. pucSndBufferCur \in 0 .. Len(reply) - 1 /\ Len(reply) \in Nat
  BY <1>1
<1>3. pucSndBufferCur + 1 \in 1 .. Len(reply) /\ pucSndBufferCur + 1 - 1 = pucSndBufferCur
  BY <1>1, <1>2
<1>. QED  BY <1>1, <1>2, <1>3

\* WireInv, for one step of the interrupt.
LEMMA TransmitterPuts ==
  ASSUME IInv, TransmitterEmpty
  PROVE  WireInv'
<1>. SUFFICES ASSUME Replying'
              PROVE  WireInv'
  BY DEF WireInv
<1>. DEFINE cur == pucSndBufferCur
            count == usSndBufferCount
            L == Len(reply)
<1>1. /\ reply' = reply /\ eMBCurrentMode' = eMBCurrentMode /\ eSndState' # "IDLE"
      /\ eSndState # "IDLE" /\ Replying
  <2>1. /\ UNCHANGED <<reply, overheard, executed, answered, eMBCurrentMode>>
        /\ eSndState' # "IDLE" /\ eSndState # "IDLE"
    BY TransmitterFrame, TransmitterSteps DEF Replying, histVars, stackVars
  <2>. QED  BY <2>1 DEF Replying, Latest
<1>2. /\ cur \in Nat /\ count \in Nat /\ L = cur + count /\ L \in Nat
  <2>1. cur \in Nat /\ count \in Nat
    BY DEF IInv, MInv, BoundsInv
  <2>2. L = cur + count
    BY <1>1 DEF IInv, MInv, ReplyInv
  <2>. QED  BY <2>1, <2>2
<1>3. count # 0 => ucRTUBuf[cur] = reply[cur + 1] /\ cur \in 0 .. L - 1
  BY <1>1, NextByteIs DEF IInv, MInv
<1>4. /\ wire = [i \in 1 .. Put |-> Encoded(reply)[i]]
      /\ eSndState \in {"END", "NOTIFY"} => usSndBufferCount = 0
      /\ eSndState = "START" => pucSndBufferCur = 0
      /\ eSndState = "DATA" /\ eBytePos = "low" => usSndBufferCount > 0
  BY <1>1 DEF IInv, MInv, WireInv
<1>5. CASE IsRTU /\ eBytePos' = eBytePos /\ (RTU!PutByte \/ RTU!Finished)
  <2>1. /\ eSndState = "XMIT" /\ eSndState' = "XMIT" /\ count # 0
        /\ wire' = Append(wire, ucRTUBuf[cur]) /\ pucSndBufferCur' = cur + 1
    BY <1>1, <1>5 DEF RTU!PutByte, RTU!Finished, RTU!xMBPortSerialPutByte
  <2>2. Put = cur /\ Put' = cur + 1
    BY <2>1 DEF Put
  <2>3. Encoded(reply) = reply /\ Encoded(reply)' = reply
    BY <1>1, <1>5 DEF Encoded, ByMode, IsRTU, RTU!Encoded
  <2>4. wire' = [i \in 1 .. cur + 1 |-> reply[i]]
    <3>1. wire = [i \in 1 .. cur |-> reply[i]]
      BY <1>4, <2>2, <2>3
    <3>2. wire' = Append(wire, reply[cur + 1])
      BY <1>3, <2>1
    <3>. HIDE DEF cur
    <3>. QED  BY <1>2, <3>1, <3>2, AppendIs
  <2>. QED  BY <2>1, <2>2, <2>3, <2>4 DEF WireInv
<1>6. ASSUME IsASCII, NEW c, NEW k \in Nat, Put = k, Put' = k + 1,
             wire' = Append(wire, c), c = Encoded(reply)[k + 1]
      PROVE  wire' = [i \in 1 .. Put' |-> Encoded(reply)'[i]]
  <2>1. Encoded(reply)' = Encoded(reply)
    BY <1>1, <1>6 DEF Encoded, ByMode, IsASCII
  <2>. DEFINE s == Encoded(reply)
  <2>2. wire = [i \in 1 .. k |-> s[i]]
    BY <1>4, <1>6
  <2>3. wire' = Append(wire, s[k + 1])
    BY <1>6
  <2>. HIDE DEF s
  <2>4. wire' = [i \in 1 .. k + 1 |-> s[i]]
    BY <1>6, <2>2, <2>3, AppendIs
  <2>. QED  BY <1>6, <2>1, <2>4 DEF s
<1>7. IsASCII =>
        LET s == Encoded(reply)
        IN  /\ s[1] = ASCII!COLON /\ s[2 * L + 2] = ASCII!CR /\ s[2 * L + 3] = ASCII!LF
            /\ \A k \in 0 .. L - 1 :
                  /\ s[2 * k + 2] = ASCII!prvucMBBIN2CHAR(reply[k + 1], "high")
                  /\ s[2 * k + 3] = ASCII!prvucMBBIN2CHAR(reply[k + 1], "low")
  <2>. SUFFICES ASSUME IsASCII
                PROVE  LET s == Encoded(reply)
                       IN  /\ s[1] = ASCII!COLON /\ s[2 * L + 2] = ASCII!CR
                           /\ s[2 * L + 3] = ASCII!LF
                           /\ \A k \in 0 .. L - 1 :
                                /\ s[2 * k + 2] = ASCII!prvucMBBIN2CHAR(reply[k + 1], "high")
                                /\ s[2 * k + 3] = ASCII!prvucMBBIN2CHAR(reply[k + 1], "low")
    OBVIOUS
  <2>1. Encoded(reply) = ASCII!Encoded(reply)
    BY DEF Encoded, ByMode, IsASCII
  <2>2. LET s == ASCII!Encoded(reply)
        IN  /\ s[1] = ASCII!COLON /\ s[2 * L + 2] = ASCII!CR
            /\ s[2 * L + 3] = ASCII!LF
            /\ \A k \in 0 .. L - 1 :
                 /\ s[2 * k + 2] = ASCII!prvucMBBIN2CHAR(reply[k + 1], "high")
                 /\ s[2 * k + 3] = ASCII!prvucMBBIN2CHAR(reply[k + 1], "low")
    <3>. HIDE DEF L
    <3>1. Len(reply) = L
      BY DEF L
    <3>. QED  BY <1>2, <3>1, DigitsAre
  <2>. HIDE DEF L
  <2>. QED  BY <2>1, <2>2
<1>8. ASSUME IsASCII, ASCII!PutColon
      PROVE  WireInv'
  <2>1. /\ eSndState = "START" /\ eSndState' = "DATA" /\ eBytePos' = "high"
        /\ wire' = Append(wire, ASCII!COLON) /\ pucSndBufferCur' = cur /\ cur = 0
    BY <1>4, <1>8 DEF ASCII!PutColon, ASCII!xMBPortSerialPutByte
  <2>2. Put = 0 /\ Put' = 0 + 1
    BY <2>1 DEF Put
  <2>3. ASCII!COLON = Encoded(reply)[0 + 1]
    BY <1>7, <1>8
  <2>4. wire' = [i \in 1 .. Put' |-> Encoded(reply)'[i]]
    BY <1>6, <1>8, <2>1, <2>2, <2>3
  <2>. QED  BY <2>1, <2>4 DEF WireInv
<1>9. ASSUME IsASCII, ASCII!PutHigh
      PROVE  WireInv'
  <2>1. /\ eSndState = "DATA" /\ eSndState' = "DATA" /\ eBytePos = "high" /\ eBytePos' = "low"
        /\ wire' = Append(wire, ASCII!prvucMBBIN2CHAR(ucRTUBuf[cur], "high"))
        /\ pucSndBufferCur' = cur /\ count > 0 /\ usSndBufferCount' = count
    BY <1>9 DEF ASCII!PutHigh, ASCII!xMBPortSerialPutByte
  <2>2. Put = 2 * cur + 1 /\ Put' = 2 * cur + 2 /\ Put' = 2 * cur + 1 + 1
    BY <1>2, <2>1 DEF Put
  <2>3. ASCII!prvucMBBIN2CHAR(ucRTUBuf[cur], "high") = Encoded(reply)[2 * cur + 1 + 1]
    <3>1. count # 0 /\ 2 * cur + 1 + 1 = 2 * cur + 2
      BY <1>2, <2>1
    <3>. QED  BY <1>3, <1>7, <1>9, <3>1
  <2>4. wire' = [i \in 1 .. Put' |-> Encoded(reply)'[i]]
    <3>1. 2 * cur + 1 \in Nat
      BY <1>2
    <3>. QED  BY <1>6, <1>9, <2>1, <2>2, <2>3, <3>1
  <2>. QED  BY <2>1, <2>4 DEF WireInv
<1>10. ASSUME IsASCII, ASCII!PutLow
       PROVE  WireInv'
  <2>1. /\ eSndState = "DATA" /\ eSndState' = "DATA" /\ eBytePos = "low" /\ eBytePos' = "high"
        /\ wire' = Append(wire, ASCII!prvucMBBIN2CHAR(ucRTUBuf[cur], "low"))
        /\ pucSndBufferCur' = cur + 1 /\ count > 0
    BY <1>10 DEF ASCII!PutLow, ASCII!xMBPortSerialPutByte
  <2>2. Put = 2 * cur + 2 /\ Put' = 2 * cur + 2 + 1
    <3>1. Put = 2 * cur + 2 /\ Put' = 2 * (cur + 1) + 1
      BY <2>1 DEF Put
    <3>. QED  BY <1>2, <3>1
  <2>3. ASCII!prvucMBBIN2CHAR(ucRTUBuf[cur], "low") = Encoded(reply)[2 * cur + 2 + 1]
    <3>1. count # 0 /\ 2 * cur + 2 + 1 = 2 * cur + 3
      BY <1>2, <2>1
    <3>. QED  BY <1>3, <1>7, <1>10, <3>1
  <2>4. wire' = [i \in 1 .. Put' |-> Encoded(reply)'[i]]
    <3>1. 2 * cur + 2 \in Nat
      BY <1>2
    <3>. QED  BY <1>6, <1>10, <2>1, <2>2, <2>3, <3>1
  <2>. QED  BY <2>1, <2>4 DEF WireInv
<1>11. ASSUME IsASCII, ASCII!PutCR
       PROVE  WireInv'
  <2>1. /\ eSndState = "DATA" /\ eSndState' = "END" /\ wire' = Append(wire, ASCII!CR)
        /\ pucSndBufferCur' = cur /\ count = 0 /\ usSndBufferCount' = count
    BY <1>11 DEF ASCII!PutCR, ASCII!xMBPortSerialPutByte
  <2>2. eBytePos # "low" /\ L = cur
    BY <1>2, <1>4, <2>1
  <2>3. Put = 2 * cur + 1 /\ Put' = 2 * cur + 2 /\ Put' = 2 * cur + 1 + 1
    BY <1>2, <2>1, <2>2 DEF Put
  <2>4. ASCII!CR = Encoded(reply)[2 * cur + 1 + 1]
    <3>1. 2 * cur + 1 + 1 = 2 * L + 2
      BY <1>2, <2>2
    <3>. QED  BY <1>7, <1>11, <3>1
  <2>5. wire' = [i \in 1 .. Put' |-> Encoded(reply)'[i]]
    <3>1. 2 * cur + 1 \in Nat
      BY <1>2
    <3>. QED  BY <1>6, <1>11, <2>1, <2>3, <2>4, <3>1
  <2>. QED  BY <2>1, <2>5 DEF WireInv
<1>12. ASSUME IsASCII, ASCII!PutLF
       PROVE  WireInv'
  <2>1. /\ eSndState = "END" /\ eSndState' = "NOTIFY" /\ wire' = Append(wire, ASCII!LF)
        /\ pucSndBufferCur' = cur /\ count = 0 /\ usSndBufferCount' = count
    BY <1>4, <1>12 DEF ASCII!PutLF, ASCII!xMBPortSerialPutByte
  <2>2. Put = 2 * cur + 2 /\ Put' = 2 * cur + 3 /\ Put' = 2 * cur + 2 + 1
    BY <1>2, <2>1 DEF Put
  <2>3. ASCII!LF = Encoded(reply)[2 * cur + 2 + 1]
    <3>1. 2 * cur + 2 + 1 = 2 * L + 3
      BY <1>2, <2>1
    <3>. QED  BY <1>7, <1>12, <3>1
  <2>4. wire' = [i \in 1 .. Put' |-> Encoded(reply)'[i]]
    <3>1. 2 * cur + 2 \in Nat
      BY <1>2
    <3>. QED  BY <1>6, <1>12, <2>1, <2>2, <2>3, <3>1
  <2>. QED  BY <2>1, <2>4 DEF WireInv
<1>13. ASCII!Finished => FALSE
  BY <1>1 DEF ASCII!Finished
<1>. QED  BY <1>1, <1>5, <1>8, <1>9, <1>10, <1>11, <1>12, <1>13, TransmitterFrame
          DEF RTU!Finished

LEMMA TransmitterKeeps ==
  ASSUME IInv, TransmitterEmpty
  PROVE  IInv'
<1>1. /\ eRcvState = "IDLE" /\ eMBState = "ENABLED" /\ failed = "none" /\ txOn
      /\ UNCHANGED <<rcvVars, ucRTUBuf, timer, failed, stackVars, pollVars, lineVars,
                     histVars>>
  BY TransmitterFrame
<1>2. /\ \/ /\ eSndState # "IDLE" /\ eSndState' # "IDLE"
            /\ rxOn' = rxOn /\ txOn' = txOn /\ event' = event
         \/ /\ eSndState' = "IDLE"
            /\ rxOn' = TRUE /\ txOn' = FALSE /\ event' = "FRAME_SENT"
      /\ IsRTU => eSndState' \in {"IDLE", "XMIT"} /\ eBytePos' = eBytePos
      /\ IsASCII => /\ eSndState' \in {"IDLE", "DATA", "END", "NOTIFY"}
                    /\ eBytePos' \in {eBytePos, "high", "low"}
  BY TransmitterSteps
<1>3. /\ pucSndBufferCur' \in Nat /\ usSndBufferCount' \in Nat
      /\ pucSndBufferCur' + usSndBufferCount' = pucSndBufferCur + usSndBufferCount
  BY TransmitterCounts
<1>4. /\ eRcvState' = eRcvState /\ timer' = timer /\ pc' = pc
      /\ eMBState' = eMBState /\ eMBCurrentMode' = eMBCurrentMode
      /\ ucRTUBuf' = ucRTUBuf /\ usRcvBufferPos' = usRcvBufferPos
      /\ usLength' = usLength /\ reply' = reply /\ failed' = failed
      /\ ucMBAddress' = ucMBAddress /\ executed' = executed /\ answered' = answered
      /\ disturbed' = disturbed /\ accepted' = accepted /\ sent' = sent /\ out' = out
      /\ overheard' = overheard /\ cutOff' = cutOff /\ unended' = unended
  BY <1>1 DEF rcvVars, histVars, lineVars, stackVars, pollVars
<1>5. ~ rxOn /\ eMBCurrentMode # "none"
  BY <1>1 DEF IInv, MInv, PortInv, StackInv
<1>6. StackInv' /\ PortInv'
  <2>1. StackInv'
    BY <1>1, <1>2, <1>4, <1>5 DEF IInv, MInv, StackInv, Enabled, Events
  <2>2. /\ {rxOn, txOn, timer} \subseteq BOOLEAN
        /\ IsRTU /\ timer => eRcvState # "IDLE"
    BY DEF IInv, MInv, PortInv
  <2>3. rxOn' \in {rxOn, TRUE} /\ txOn' \in {txOn, FALSE} /\ ~ (rxOn' /\ txOn')
    <3>1. \/ rxOn' = rxOn /\ txOn' = txOn
          \/ rxOn' = TRUE /\ txOn' = FALSE
      BY <1>2
    <3>2. rxOn' = rxOn \/ rxOn' = TRUE
      BY <3>1
    <3>3. txOn' = txOn \/ txOn' = FALSE
      BY <3>1
    <3>4. ~ (rxOn' /\ txOn')
      <4>1. CASE rxOn' = rxOn /\ txOn' = txOn
        BY <1>5, <4>1, Zenon
      <4>2. CASE rxOn' = TRUE /\ txOn' = FALSE
        BY <4>2
      <4>. QED  BY <3>1, <4>1, <4>2
    <3>. QED  BY <3>2, <3>3, <3>4
  <2>4. {rxOn', txOn', timer'} \subseteq BOOLEAN
    BY <1>4, <2>2, <2>3
  <2>5. (txOn => eRcvState = "IDLE")'
    BY <1>1, <1>4
  <2>6. (IsRTU /\ timer => eRcvState # "IDLE")'
    BY <1>4, <2>2 DEF IsRTU
  <2>7. ({rxOn, txOn, timer} \subseteq BOOLEAN)' /\ (~ (rxOn /\ txOn))'
    BY <2>3, <2>4
  <2>8. PortInv'
    BY <2>5, <2>6, <2>7, Zenon DEF PortInv
  <2>. QED  BY <2>1, <2>8
<1>7. MachineInv' /\ CutOffInv' /\ EndInv'
  <2>1. MachineInv'
    BY <1>1, <1>2, <1>4, <1>5 DEF IInv, MInv, MachineInv, IsRTU, IsASCII
  <2>2. eSndState' # "IDLE" => txOn'
    BY <1>1, <1>2
  <2>3. EndInv'
    BY <1>1, <1>4 DEF IInv, EndInv, IsASCII
  <2>. QED  BY <2>1, <2>2, <2>3 DEF CutOffInv
<1>8. BoundsInv'
  BY <1>3, <1>4 DEF IInv, MInv, BoundsInv, SumSize, ByMode
<1>9. LowDigitInv' /\ EventInv' /\ SendingInv' /\ AnswersInv' /\ PreparedInv'
  <2>1. LowDigitInv' /\ EventInv' /\ SendingInv' /\ AnswersInv'
    BY <1>1, <1>2, <1>4 DEF IInv, MInv, LowDigitInv, EventInv, SendingInv, AnswersInv
  <2>2. PreparedInv'
    BY <1>4 DEF IInv, MInv, PreparedInv, SumSize, ByMode
  <2>. QED  BY <2>1, <2>2
<1>10. ReplyInv'
  <2>1. Replying' => Replying
    BY <1>2, <1>4 DEF Replying, Latest
  <2>. QED  BY <1>3, <1>4, <2>1, ZenonT(30) DEF IInv, MInv, ReplyInv
<1>11. WireInv'
  BY TransmitterPuts
<1>12. HistoryInv' /\ AssertionsFailOnly'
  BY <1>1, <1>4 DEF IInv, HistoryInv, AssertionsFailOnly
<1>13. LineInv'
  BY <1>1, <1>4, SameLineKeeps
<1>14. HeardInv'
  <2>1. HeardInv
    BY DEF IInv
  <2>2. eRcvState' = "IDLE" /\ (Pending' => Pending)
    BY <1>1, <1>2, <1>4 DEF Pending
  <2>3. LastFrame' = LastFrame
    BY <1>4 DEF LastFrame
  <2>. QED  BY <1>1, <1>4, <2>1, <2>2, <2>3 DEF HeardInv, Undisturbed
<1>. QED  BY <1>6, <1>7, <1>8, <1>9, <1>10, <1>11, <1>12, <1>13, <1>14 DEF IInv, MInv

-----------------------------------------------------------------------------
(***************************************************************************)
(* A character is heard.  First what a step of either receiver does.       *)
(***************************************************************************)
RtuStep(c) ==
  \/ RTU!FirstByte(c) \/ RTU!NextByte(c) \/ RTU!ByteTooMany \/ RTU!ByteIgnored

AsciiStep(c) ==
  \/ ASCII!Begin(c) \/ ASCII!IdleIgnores(c) \/ ASCII!EndOfData(c) \/ ASCII!FirstDigit(c)
  \/ ASCII!ByteTooMany(c) \/ ASCII!SecondDigit(c) \/ ASCII!EndOfFrame(c)
  \/ ASCII!NoEndOfFrame(c)

LEMMA HeardIs ==
  ASSUME IInv, NEW c, Running, Heard(c)
  PROVE  /\ UNCHANGED <<sndVars, rxOn, txOn, stackVars, pollVars, accepted, executed,
                        answered, reply, cutOff>>
         /\ overheard => overheard'
         /\ rxOn /\ pc = "send" => overheard'
         /\ \/ SameMachines /\ ~ rxOn /\ failed' = failed
            \/ /\ SameMachines /\ rxOn /\ eSndState # "IDLE"
               /\ failed' = "receive while sending"
            \/ /\ rxOn /\ eSndState = "IDLE" /\ failed' = failed
               /\ \/ /\ IsRTU /\ RtuStep(c)
                     /\ timer' = TRUE /\ eBytePos' = eBytePos /\ event' = event
                  \/ IsASCII /\ AsciiStep(c)
<1>1. /\ UNCHANGED <<stackVars, pollVars, accepted, executed, answered, reply, cutOff>>
      /\ overheard => overheard'
      /\ rxOn /\ pc = "send" => overheard'
      /\ rxOn => ByMode(RTU!xMBRTUReceiveFSM(c), ASCII!xMBASCIIReceiveFSM(c))
      /\ ~ rxOn => UNCHANGED serialVars
  BY DEF Heard
<1>2. CASE ~ rxOn
  BY <1>1, <1>2 DEF SameMachines, serialVars, sndVars, portVars
<1>3. CASE rxOn
  <2>1. IsRTU \/ IsASCII
    BY <1>3 DEF IInv, MInv, StackInv, Enabled, IsRTU, IsASCII
  <2>2. CASE IsRTU
    <3>1. RTU!xMBRTUReceiveFSM(c)
      BY <1>1, <1>3, <2>2 DEF ByMode, IsRTU
    <3>2. CASE eSndState # "IDLE"
      <4>1. /\ failed' = "receive while sending"
            /\ UNCHANGED <<rcvVars, sndVars, ucRTUBuf, eBytePos, portVars, event>>
        BY <3>1, <3>2
        DEF RTU!xMBRTUReceiveFSM, RTU!Abort, RTU!rcvVars, RTU!sndVars, RTU!portVars,
            rcvVars, sndVars, portVars
      <4>. QED  BY <1>1, <1>3, <3>2, <4>1 DEF SameMachines, portVars
    <3>3. CASE eSndState = "IDLE"
      BY <1>1, <1>3, <2>2, <3>1, <3>3 DEF RTU!xMBRTUReceiveFSM, RtuStep, sndVars, RTU!sndVars
    <3>. QED  BY <3>2, <3>3
  <2>3. CASE IsASCII
    <3>1. ASCII!xMBASCIIReceiveFSM(c)
      BY <1>1, <1>3, <2>3 DEF ByMode, IsASCII
    <3>2. CASE eSndState # "IDLE"
      <4>1. /\ failed' = "receive while sending"
            /\ UNCHANGED <<rcvVars, sndVars, ucRTUBuf, eBytePos, portVars, event>>
        BY <3>1, <3>2
        DEF ASCII!xMBASCIIReceiveFSM, ASCII!Abort, ASCII!rcvVars, ASCII!sndVars,
            ASCII!portVars, rcvVars, sndVars, portVars
      <4>. QED  BY <1>1, <1>3, <3>2, <4>1 DEF SameMachines, portVars
    <3>3. CASE eSndState = "IDLE"
      BY <1>1, <1>3, <2>3, <3>1, <3>3
      DEF ASCII!xMBASCIIReceiveFSM, AsciiStep, sndVars, ASCII!sndVars
    <3>. QED  BY <3>2, <3>3
  <2>. QED  BY <2>1, <2>2, <2>3
<1>. QED  BY <1>2, <1>3

LEMMA RtuStepKeeps ==
  ASSUME IInv, NEW c, IsRTU, RtuStep(c), eBytePos' = eBytePos
  PROVE  /\ eRcvState' \in {"INIT", "RCV", "ERROR"} /\ LowDigitInv'
         /\ DOMAIN ucRTUBuf' = DOMAIN ucRTUBuf
         /\ usRcvBufferPos' \in 0 .. MB_SER_PDU_SIZE_MAX
<1>1. eRcvState' \in {"INIT", "RCV", "ERROR"}
  BY DEF RtuStep, RTU!FirstByte, RTU!NextByte, RTU!ByteTooMany, RTU!ByteIgnored, RTU!rcvVars
<1>2. DOMAIN ucRTUBuf' = DOMAIN ucRTUBuf
  BY DEF RtuStep, RTU!FirstByte, RTU!NextByte, RTU!ByteTooMany, RTU!ByteIgnored, RTU!Store
<1>3. usRcvBufferPos' \in 0 .. MB_SER_PDU_SIZE_MAX
  <2>1. usRcvBufferPos \in 0 .. MB_SER_PDU_SIZE_MAX
    BY DEF IInv, MInv, BoundsInv
  <2>2. \/ usRcvBufferPos' = 1 \/ usRcvBufferPos' = usRcvBufferPos
        \/ /\ usRcvBufferPos' = usRcvBufferPos + 1
           /\ usRcvBufferPos < MB_SER_PDU_SIZE_MAX
    BY DEF RtuStep, RTU!FirstByte, RTU!NextByte, RTU!ByteTooMany, RTU!ByteIgnored,
           RTU!rcvVars
  <2>. QED  BY <2>1, <2>2, Size
<1>4. LowDigitInv'
  BY DEF LowDigitInv, IInv, MInv, MachineInv
<1>. QED  BY <1>1, <1>2, <1>3, <1>4

LEMMA AsciiStepKeeps ==
  ASSUME IInv, NEW c, IsASCII, rxOn, AsciiStep(c)
  PROVE  /\ eRcvState' \in {"INIT", "IDLE", "RCV", "WAIT_EOF"} /\ LowDigitInv'
         /\ eBytePos' \in {"high", "low"} /\ timer' \in BOOLEAN
         /\ event' \in {event, "FRAME_RECEIVED"}
         /\ DOMAIN ucRTUBuf' = DOMAIN ucRTUBuf
         /\ usRcvBufferPos' \in 0 .. MB_SER_PDU_SIZE_MAX
<1>. USE DEF AsciiStep, ASCII!Begin, ASCII!IdleIgnores, ASCII!EndOfData, ASCII!FirstDigit,
       ASCII!ByteTooMany, ASCII!SecondDigit, ASCII!EndOfFrame, ASCII!NoEndOfFrame,
       ASCII!rcvVars, ASCII!xMBPortEventPost
<1>1. eRcvState \in {"INIT", "IDLE", "RCV", "WAIT_EOF"} /\ eBytePos \in {"high", "low"}
  BY DEF IInv, MInv, MachineInv
<1>2. eRcvState' \in {"INIT", "IDLE", "RCV", "WAIT_EOF"}
  BY <1>1
<1>3. eBytePos' \in {"high", "low"}
  BY <1>1
<1>4. timer' \in BOOLEAN
  <2>1. timer \in BOOLEAN
    BY DEF IInv, MInv, PortInv
  <2>2. timer' = timer \/ timer' = TRUE \/ timer' = FALSE
    OBVIOUS
  <2>. QED  BY <2>1, <2>2
<1>5. event' \in {event, "FRAME_RECEIVED"}
  OBVIOUS
<1>6. DOMAIN ucRTUBuf' = DOMAIN ucRTUBuf
  BY DEF ASCII!Store
<1>7. /\ \/ usRcvBufferPos' = 0 \/ usRcvBufferPos' = usRcvBufferPos
         \/ usRcvBufferPos' = usRcvBufferPos + 1 /\ eRcvState = "RCV" /\ eBytePos = "low"
      /\ \/ ~ (eRcvState' = "RCV" /\ eBytePos' = "low")
         \/ usRcvBufferPos' = usRcvBufferPos /\ usRcvBufferPos < MB_SER_PDU_SIZE_MAX
  BY <1>1 DEF IInv, MInv, MachineInv
<1>8. usRcvBufferPos' \in 0 .. MB_SER_PDU_SIZE_MAX
  <2>1. usRcvBufferPos \in 0 .. MB_SER_PDU_SIZE_MAX
    BY DEF IInv, MInv, BoundsInv
  <2>2. \/ usRcvBufferPos' = 0 \/ usRcvBufferPos' = usRcvBufferPos
        \/ /\ usRcvBufferPos' = usRcvBufferPos + 1
           /\ usRcvBufferPos < MB_SER_PDU_SIZE_MAX
    BY <1>7 DEF IInv, MInv, LowDigitInv
  <2>. QED  BY <2>1, <2>2, Size
<1>9. LowDigitInv'
  BY <1>7 DEF LowDigitInv
<1>. QED  BY <1>2, <1>3, <1>4, <1>5, <1>6, <1>8, <1>9

\* What leaves the timer of ASCII running while its receiver is idle.
LEMMA AsciiTimerIs ==
  ASSUME IInv, NEW c, IsASCII, rxOn, AsciiStep(c), timer', eRcvState' = "IDLE"
  PROVE  c # ASCII!COLON /\ (NoEnd(c) \/ (timer /\ eRcvState = "IDLE"))
BY DEF AsciiStep, ASCII!Begin, ASCII!IdleIgnores, ASCII!EndOfData, ASCII!FirstDigit,
       ASCII!ByteTooMany, ASCII!SecondDigit, ASCII!EndOfFrame, ASCII!NoEndOfFrame,
       ASCII!rcvVars, NoEnd

LEMMA HeardKeepsMachines ==
  ASSUME IInv, NEW c, Running, Heard(c)
  PROVE  MInv'
<1>1. CASE SameMachines
  BY <1>1, SameMachinesKeep
<1>2. ASSUME rxOn, eSndState = "IDLE",
             \/ /\ IsRTU /\ RtuStep(c)
                /\ timer' = TRUE /\ eBytePos' = eBytePos /\ event' = event
             \/ IsASCII /\ AsciiStep(c)
      PROVE  MInv'
  <2>1. /\ UNCHANGED <<sndVars, rxOn, txOn, stackVars, pollVars, executed, answered, reply>>
        /\ pc = "send" => overheard'
    BY <1>2, HeardIs
  <2>2. /\ eMBState' = eMBState /\ eMBCurrentMode' = eMBCurrentMode
        /\ rxOn' = rxOn /\ txOn' = txOn /\ pc' = pc /\ eSndState' = "IDLE"
        /\ usLength' = usLength /\ usSndBufferCount' = usSndBufferCount
        /\ pucSndBufferCur' = pucSndBufferCur /\ (pc = "send" => overheard')
        /\ executed' = executed /\ answered' = answered
    BY <1>2, <2>1 DEF sndVars, stackVars, pollVars
  <2>3. Enabled /\ eMBCurrentMode # "none" /\ ~ txOn
    BY <1>2 DEF IInv, MInv, StackInv, PortInv, Enabled
  <2>4. /\ event' \in {event, "FRAME_RECEIVED"} /\ timer' \in BOOLEAN
        /\ DOMAIN ucRTUBuf' = DOMAIN ucRTUBuf
        /\ usRcvBufferPos' \in 0 .. MB_SER_PDU_SIZE_MAX
        /\ IsRTU => eRcvState' \in {"INIT", "RCV", "ERROR"} /\ eBytePos' = eBytePos
        /\ IsASCII => /\ eRcvState' \in {"INIT", "IDLE", "RCV", "WAIT_EOF"}
                      /\ eBytePos' \in {"high", "low"}
        /\ LowDigitInv'
    <3>1. CASE /\ IsRTU /\ RtuStep(c)
               /\ timer' = TRUE /\ eBytePos' = eBytePos /\ event' = event
      <4>1. ~ IsASCII
        BY <3>1 DEF IsRTU, IsASCII
      <4>. QED  BY <3>1, <4>1, RtuStepKeeps
    <3>2. CASE IsASCII /\ AsciiStep(c)
      <4>1. ~ IsRTU
        BY <3>2 DEF IsRTU, IsASCII
      <4>. QED  BY <1>2, <3>2, <4>1, AsciiStepKeeps
    <3>. QED  BY <1>2, <3>1, <3>2
  <2>5. StackInv'
    BY <2>2, <2>3, <2>4 DEF IInv, MInv, StackInv, Enabled, Events
  <2>6. PortInv'
    <3>1. {rxOn', txOn', timer'} \subseteq BOOLEAN
      BY <2>2, <2>4 DEF IInv, MInv, PortInv
    <3>2. ~ txOn' /\ (IsRTU' => IsRTU) /\ (IsRTU => eRcvState' # "IDLE")
      BY <2>2, <2>3, <2>4 DEF IsRTU
    <3>. QED  BY <3>1, <3>2 DEF PortInv
  <2>7. MachineInv'
    BY <2>2, <2>3, <2>4 DEF IInv, MInv, MachineInv, IsRTU, IsASCII
  <2>8. BoundsInv'
    <3>1. SumSize' = SumSize
      BY <2>2 DEF SumSize, ByMode
    <3>. QED  BY <2>2, <2>4, <3>1 DEF IInv, MInv, BoundsInv
  <2>9. /\ EventInv' /\ SendingInv' /\ AnswersInv' /\ PreparedInv' /\ ReplyInv'
        /\ WireInv'
    BY <2>2, <2>4
    DEF IInv, MInv, EventInv, SendingInv, AnswersInv, PreparedInv, ReplyInv, WireInv, Replying
  <2>. QED  BY <2>4, <2>5, <2>6, <2>7, <2>8, <2>9 DEF MInv
<1>. QED  BY <1>1, <1>2, HeardIs

LEMMA HeardKeepsRest ==
  ASSUME IInv, NEW c, Running, Heard(c), sent' \in {sent, Spoilt}
  PROVE  CutOffInv' /\ EndInv' /\ HistoryInv' /\ AssertionsFailOnly'
<1>1. /\ eSndState' = eSndState /\ txOn' = txOn /\ accepted' = accepted
      /\ cutOff' = cutOff /\ eMBCurrentMode' = eMBCurrentMode
      /\ failed' \in {"none", "receive while sending"}
      /\ failed' # "none" => eSndState # "IDLE" /\ rxOn
  BY HeardIs DEF Running, sndVars, stackVars
<1>2. CutOffInv'
  BY <1>1 DEF IInv, CutOffInv
<1>3. HistoryInv'
  <2>1. Len(sent') = Len(sent)
    BY SpoiltIs DEF IInv
  <2>2. {disturbed', overheard', unended'} \subseteq BOOLEAN
    <3>1. CASE rxOn
      <4>1. /\ disturbed' = (Serving \/ Padding(c) \/ (disturbed /\ ~ Begins(c)))
            /\ overheard' = (overheard \/ pc = "send")
            /\ unended' = ByMode(FALSE, c # ASCII!COLON /\ (unended \/ NoEnd(c)))
        BY <3>1 DEF Heard
      <4>2. disturbed' \in BOOLEAN /\ overheard' \in BOOLEAN
        BY <4>1
      <4>3. unended' \in BOOLEAN
        BY <4>1 DEF ByMode
      <4>. QED  BY <4>2, <4>3
    <3>2. CASE ~ rxOn
      BY <3>2 DEF Heard, IInv, HistoryInv
    <3>. QED  BY <3>1, <3>2
  <2>. QED  BY <1>1, <2>1, <2>2 DEF IInv, HistoryInv
<1>4. AssertionsFailOnly'
  <2>1. failed' # "none" => cutOff
    BY <1>1 DEF IInv, MInv, CutOffInv, PortInv
  <2>. QED  BY <1>1, <2>1 DEF AssertionsFailOnly
<1>5. EndInv'
  <2>. SUFFICES ASSUME failed' = "none", IsASCII, timer', eRcvState' = "IDLE"
                PROVE  unended'
    BY <1>1 DEF EndInv, IsASCII
  <2>1. CASE ~ rxOn
    <3>1. UNCHANGED <<timer, rcvVars, unended, failed>>
      BY <2>1 DEF Heard, serialVars, portVars
    <3>. QED  BY <3>1 DEF IInv, EndInv, rcvVars
  <2>2. CASE rxOn
    <3>1. IsASCII /\ AsciiStep(c) /\ ~ IsRTU
      BY <2>2, HeardIs DEF IsRTU, IsASCII
    <3>2. c # ASCII!COLON /\ (NoEnd(c) \/ (timer /\ eRcvState = "IDLE"))
      BY <2>2, <3>1, AsciiTimerIs
    <3>3. timer /\ eRcvState = "IDLE" => unended
      BY DEF IInv, EndInv, Running
    <3>. QED  BY <2>2, <3>1, <3>2, <3>3 DEF Heard, ByMode, IsRTU
  <2>. QED  BY <2>1, <2>2
<1>. QED  BY <1>2, <1>3, <1>4, <1>5

(***************************************************************************)
(* The characters of a frame that is on the line.                          *)
(***************************************************************************)
LEMMA CharactersAre ==
  ASSUME LineInv, sent # <<>>, IsRTU \/ IsASCII
  PROVE  LET n == Len(sent)
             s == Characters(n)
             len == sent[n].len
         IN  /\ n \in 1 .. Len(sent) /\ len \in Nat /\ len >= 4
             /\ Len(s) = LineLength(n)
             /\ IsASCII =>
                  /\ Len(s) = 2 * len + 3 /\ s[1] = ASCII!COLON
                  /\ s[2 * len + 2] = ASCII!CR /\ s[2 * len + 3] = ASCII!LF
                  /\ \A j \in 2 .. 2 * len + 1 :
                       s[j] \notin {ASCII!COLON, ASCII!CR, ASCII!LF}
<1>. DEFINE n == Len(sent)
            s == Characters(n)
            len == sent[n].len
            bytes == [i \in 1 .. len - 1 - SumSize |-> Data(n, i)]
            whole == WholeFrame(sent[n].addr, bytes, len - 1 - SumSize, SumSize)
<1>1. n \in 1 .. Len(sent) /\ len \in Nat /\ len >= 4
  <2>1. sent \in Seq(SentFrames) /\ \A i \in 1 .. Len(sent) : sent[i].len >= 4
    BY DEF LineInv
  <2>2. n \in 1 .. Len(sent)
    BY <2>1
  <2>3. sent[n] \in SentFrames
    BY <2>1, <2>2
  <2>. QED  BY <2>1, <2>2, <2>3 DEF SentFrames
<1>2. SumSize \in {1, 2}
  BY SumSizeIs
<1>3. Len(whole) = len
  <2>. HIDE DEF len, n, bytes
  <2>1. len - 1 - SumSize \in Nat /\ SumSize \in Nat
    BY <1>1, <1>2
  <2>2. Len(whole) = (len - 1 - SumSize) + 1 + SumSize
    BY <2>1, WholeFrameIs
  <2>. QED  BY <1>1, <1>2, <2>2
<1>4. s = Encoded(whole)
  <2>1. [i \in 1 .. len - 1 - SumSize |-> bytes[i]] = bytes
    OBVIOUS
  <2>. QED  BY <2>1 DEF Characters, Whole, WholeFrame
<1>. HIDE DEF whole
<1>5. CASE IsRTU
  <2>1. s = whole
    BY <1>4, <1>5 DEF Encoded, ByMode, IsRTU, RTU!Encoded
  <2>2. ~ IsASCII
    BY <1>5 DEF IsRTU, IsASCII
  <2>. QED  BY <1>1, <1>3, <1>5, <2>1, <2>2 DEF LineLength
<1>6. CASE IsASCII
  <2>1. s = ASCII!Encoded(whole) /\ ~ IsRTU
    BY <1>4, <1>6 DEF Encoded, ByMode, IsRTU, IsASCII
  <2>. HIDE DEF s, len, n
  <2>2. /\ Len(s) = 2 * len + 3 /\ s[1] = ASCII!COLON
        /\ s[2 * len + 2] = ASCII!CR /\ s[2 * len + 3] = ASCII!LF
        /\ \A k \in 0 .. len - 1 :
             /\ s[2 * k + 2] = ASCII!prvucMBBIN2CHAR(whole[k + 1], "high")
             /\ s[2 * k + 3] = ASCII!prvucMBBIN2CHAR(whole[k + 1], "low")
    BY <1>1, <1>3, <2>1, DigitsAre
  <2>3. \A b : ASCII!prvucMBBIN2CHAR(b, "high") \notin {ASCII!COLON, ASCII!CR, ASCII!LF}
    BY DEF ASCII!prvucMBBIN2CHAR, ASCII!COLON, ASCII!CR, ASCII!LF, ASCII!Control
  <2>4. \A b : ASCII!prvucMBBIN2CHAR(b, "low") \notin {ASCII!COLON, ASCII!CR, ASCII!LF}
    BY DEF ASCII!prvucMBBIN2CHAR, ASCII!COLON, ASCII!CR, ASCII!LF, ASCII!Control
  <2>5. \A j \in 2 .. 2 * len + 1 : s[j] \notin {ASCII!COLON, ASCII!CR, ASCII!LF}
    <3>. TAKE j \in 2 .. 2 * len + 1
    <3>. DEFINE k == (j - 2) \div 2
    <3>1. k \in 0 .. len - 1 /\ (j = 2 * k + 2 \/ j = 2 * k + 3)
      BY <1>1
    <3>. QED  BY <2>2, <2>3, <2>4, <3>1
  <2>. QED  BY <1>1, <2>1, <2>2, <2>5 DEF LineLength, s, len, n
<1>. QED  BY <1>5, <1>6

-----------------------------------------------------------------------------
(***************************************************************************)
(* The masters and the line.                                               *)
(***************************************************************************)
LEMMA FramesHaveMode == ASSUME IInv, sent # <<>> PROVE IsRTU \/ IsASCII
BY DEF IInv, MInv, LineInv, StackInv, IsRTU, IsASCII

LEMMA InFrameIs ==
  ASSUME IInv, InFrame
  PROVE  /\ sent # <<>> /\ out + 1 <= LineLength(Len(sent))
         /\ out < Len(Characters(Len(sent)))
<1>1. sent # <<>> /\ out < Len(Characters(Len(sent)))
  BY DEF InFrame
<1>2. LineInv /\ (IsRTU \/ IsASCII)
  BY <1>1, FramesHaveMode DEF IInv
<1>3. /\ sent[Len(sent)].len \in Nat
      /\ Len(Characters(Len(sent))) = LineLength(Len(sent))
  BY <1>1, <1>2, CharactersAre
<1>4. out \in Nat /\ LineLength(Len(sent)) \in Nat
  BY <1>2, <1>3 DEF LineInv, LineLength
<1>. QED  BY <1>1, <1>3, <1>4

LEMMA LineMoves ==
  ASSUME IInv, sent' \in {sent, Spoilt}, UNCHANGED eMBCurrentMode,
         out' = out \/ (out' = out + 1 /\ InFrame), mishaps' \in Nat
  PROVE  LineInv'
<1>1. /\ sent' \in Seq(SentFrames) /\ Len(sent') = Len(sent)
      /\ \A n \in 1 .. Len(sent) : sent'[n].len = sent[n].len
  BY SpoiltIs DEF IInv, LineInv
<1>2. LineInv
  BY DEF IInv
<1>3. sent' = <<>> <=> sent = <<>>
  BY <1>1, <1>2 DEF LineInv
<1>4. sent # <<>> => LineLength(Len(sent))' = LineLength(Len(sent))
  BY <1>1, <1>2 DEF LineLength, IsRTU, LineInv
<1>5. out' \in Nat
  BY <1>2 DEF LineInv
<1>6. sent # <<>> => out' <= LineLength(Len(sent))
  BY <1>2, InFrameIs DEF LineInv
<1>7. sent = <<>> => out' = 0
  BY <1>2, InFrameIs DEF LineInv
<1>. QED  BY <1>1, <1>2, <1>3, <1>4, <1>5, <1>6, <1>7 DEF LineInv

LEMMA BeginFrameKeeps ==
  ASSUME IInv, BeginFrame
  PROVE  IInv'
<1>. DEFINE before == IF Done /\ Paused THEN sent ELSE Spoilt
<1>1. /\ failed = "none" /\ eMBCurrentMode # "none" /\ ~ InFrame /\ out' = 0
      /\ UNCHANGED <<serialVars, stackVars, pollVars, histVars>>
      /\ mishaps' = mishaps + (IF Done THEN 0 ELSE 1) + (IF Paused THEN 0 ELSE 1)
  BY DEF BeginFrame, Running
<1>2. PICK f \in Frames :
        sent' = Append(before, [addr |-> f.addr, len |-> f.len, clean |-> Done /\ Paused])
  BY DEF BeginFrame
<1>. DEFINE new == [addr |-> f.addr, len |-> f.len, clean |-> Done /\ Paused]
<1>3. f.addr \in Nat /\ f.len \in Nat /\ f.len >= 4
  BY SerialAssumption
<1>4. new \in SentFrames /\ new.len = f.len /\ new.clean = (Done /\ Paused)
  <2>1. (Done /\ Paused) \in BOOLEAN
    OBVIOUS
  <2>. QED  BY <1>3, <2>1 DEF SentFrames
<1>5. /\ before \in Seq(SentFrames) /\ Len(before) = Len(sent)
      /\ \A n \in 1 .. Len(sent) : before[n].len = sent[n].len
  BY SpoiltIs DEF IInv, LineInv
<1>. HIDE DEF new, before
<1>6. /\ sent' \in Seq(SentFrames) /\ Len(sent') = Len(sent) + 1
      /\ \A n \in 1 .. Len(sent) : sent'[n].len = sent[n].len
      /\ sent'[Len(sent) + 1].len = f.len /\ Len(sent) \in Nat
      /\ sent'[Len(sent) + 1].clean = (Done /\ Paused)
  BY <1>2, <1>4, <1>5 DEF new
<1>7. \A n \in 1 .. Len(sent') : sent'[n].len >= 4
  BY <1>3, <1>6 DEF IInv, LineInv
<1>8. MInv'
  BY <1>1, SameMachinesKeep DEF SameMachines, serialVars, histVars
<1>9. /\ eSndState' = eSndState /\ txOn' = txOn /\ accepted' = accepted
      /\ disturbed' = disturbed /\ failed' = failed /\ eMBCurrentMode' = eMBCurrentMode
      /\ eRcvState' = eRcvState /\ usRcvBufferPos' = usRcvBufferPos
      /\ timer' = timer /\ pc' = pc /\ event' = event
      /\ overheard' = overheard /\ cutOff' = cutOff /\ unended' = unended
  BY <1>1 DEF serialVars, sndVars, rcvVars, portVars, histVars, stackVars, pollVars
<1>10. CutOffInv' /\ EndInv' /\ AssertionsFailOnly'
  BY <1>1, <1>9 DEF IInv, CutOffInv, EndInv, IsASCII, AssertionsFailOnly
<1>11. HistoryInv'
  <2>1. accepted' \in 0 .. Len(sent')
    BY <1>6, <1>9 DEF IInv, HistoryInv
  <2>. QED  BY <1>9, <2>1 DEF IInv, HistoryInv
<1>12. LineInv'
  <2>1. mishaps \in Nat
    BY DEF IInv, LineInv
  <2>2. mishaps' \in Nat
    BY <1>1, <2>1
  <2>3. Len(sent') = Len(sent) + 1 /\ LineLength(Len(sent))' >= 0
    BY <1>3, <1>6 DEF LineLength
  <2>. QED  BY <1>1, <1>6, <1>7, <1>9, <2>1, <2>2, <2>3 DEF LineInv
<1>13. HeardInv'
  <2>. SUFFICES ASSUME Undisturbed' PROVE HeardInv'
    BY DEF HeardInv
  <2>1. LastFrame' = sent'[Len(sent) + 1]
    BY <1>6 DEF LastFrame
  <2>2. Done /\ Paused
    BY <1>6, <2>1 DEF Undisturbed
  <2>3. ~ Pending'
    BY <1>9, <2>2 DEF Done, Pending
  <2>4. IsRTU => eRcvState \notin {"RCV", "ERROR"}
    BY <2>2 DEF Paused, IsRTU
  <2>. QED  BY <1>1, <1>9, <2>3, <2>4 DEF HeardInv, IsRTU
<1>. QED  BY <1>8, <1>10, <1>11, <1>12, <1>13 DEF IInv

\* A step of RTU's receiver while a frame is on the line.
LEMMA RtuHearsFrame ==
  ASSUME IInv, NEW c, IsRTU, RtuStep(c), InFrame, Undisturbed
  PROVE  LET len == sent[Len(sent)].len
         IN  /\ \/ usRcvBufferPos' = usRcvBufferPos \/ usRcvBufferPos' <= len
             /\ eRcvState' = "RCV" => usRcvBufferPos' <= out + 1
<1>. DEFINE len == sent[Len(sent)].len
<1>1. out \in Nat /\ out < len /\ len \in Nat /\ len >= 4
  <2>1. /\ sent # <<>> /\ LineInv /\ out < Len(Characters(Len(sent)))
    BY InFrameIs DEF IInv
  <2>2. Len(Characters(Len(sent))) = len /\ len \in Nat /\ len >= 4
    BY <2>1, CharactersAre DEF LineLength
  <2>. QED  BY <2>1, <2>2 DEF LineInv
<1>2. usRcvBufferPos \in Nat
  BY Size DEF IInv, MInv, BoundsInv
<1>3. \/ usRcvBufferPos' = 1
      \/ usRcvBufferPos' = usRcvBufferPos /\ eRcvState' # "RCV"
      \/ usRcvBufferPos' = usRcvBufferPos + 1 /\ eRcvState = "RCV"
  BY DEF RtuStep, RTU!FirstByte, RTU!NextByte, RTU!ByteTooMany, RTU!ByteIgnored,
         RTU!rcvVars
<1>4. eRcvState = "RCV" => usRcvBufferPos <= out
  BY DEF IInv, HeardInv
<1>. HIDE DEF len
<1>5. CASE usRcvBufferPos' = 1
  BY <1>1, <1>5 DEF len
<1>6. CASE usRcvBufferPos' = usRcvBufferPos /\ eRcvState' # "RCV"
  BY <1>6 DEF len
<1>7. CASE usRcvBufferPos' = usRcvBufferPos + 1 /\ eRcvState = "RCV"
  BY <1>1, <1>2, <1>4, <1>7 DEF len
<1>. QED  BY <1>3, <1>5, <1>6, <1>7

\* A step of ASCII's receiver while a frame is on the line.
LEMMA AsciiHearsFrame ==
  ASSUME IInv, NEW c, IsASCII, AsciiStep(c), InFrame, Undisturbed, rxOn,
         c = Characters(Len(sent))[out + 1]
  PROVE  LET len == sent[Len(sent)].len
         IN  /\ \/ usRcvBufferPos' <= len
                \/ /\ usRcvBufferPos' = usRcvBufferPos /\ event' = event
                   /\ eRcvState' \notin {"RCV", "WAIT_EOF"}
             /\ eRcvState' = "RCV" =>
                  /\ 2 * usRcvBufferPos' + 1 <= out + 1
                  /\ eBytePos' = "low" => 2 * usRcvBufferPos' + 2 <= out + 1
                  /\ out + 1 <= 2 * len + 1
             /\ eRcvState' = "WAIT_EOF" => out + 1 = 2 * len + 2
<1>. DEFINE len == sent[Len(sent)].len
            s == Characters(Len(sent))
            pos == usRcvBufferPos
            Within == pos' <= len
            Left   == pos' = pos /\ event' = event /\ eRcvState' \notin {"RCV", "WAIT_EOF"}
            Digits == 2 * pos' + 1 <= out + 1 /\ out + 1 <= 2 * len + 1
            Second == 2 * pos' + 2 <= out + 1
            Ended  == out + 1 = 2 * len + 2
            Goal == /\ Within \/ Left
                    /\ eRcvState' = "RCV" => Digits /\ (eBytePos' = "low" => Second)
                    /\ eRcvState' = "WAIT_EOF" => Ended
<1>1. /\ sent # <<>> /\ LineInv /\ out < Len(s) /\ out \in Nat
  BY InFrameIs DEF IInv, LineInv
<1>2. /\ len \in Nat /\ len >= 4 /\ Len(s) = 2 * len + 3
      /\ s[1] = ASCII!COLON /\ s[2 * len + 2] = ASCII!CR /\ s[2 * len + 3] = ASCII!LF
      /\ \A j \in 2 .. 2 * len + 1 : s[j] \notin {ASCII!COLON, ASCII!CR, ASCII!LF}
  BY <1>1, CharactersAre
<1>3. pos \in Nat
  BY Size DEF IInv, MInv, BoundsInv
<1>4. out > 0 /\ eRcvState = "RCV" => /\ pos <= len /\ 2 * pos + 1 <= out
                                      /\ eBytePos = "low" => 2 * pos + 2 <= out
                                      /\ out <= 2 * len + 1
  BY DEF IInv, HeardInv, DigitsHeard, LastFrame
<1>5. out > 0 /\ eRcvState = "WAIT_EOF" => pos <= len /\ out = 2 * len + 2
  BY DEF IInv, HeardInv, LastFrame
<1>6. out = 0 \/ out > 0
  BY <1>1
<1>7. c = s[out + 1]
  OBVIOUS
<1>8. ASCII!COLON # ASCII!CR /\ ASCII!COLON # ASCII!LF /\ ASCII!CR # ASCII!LF
  BY DEF ASCII!COLON, ASCII!CR, ASCII!LF, ASCII!Control
<1>. HIDE DEF len, s
<1>9. /\ c = ASCII!COLON <=> out = 0
      /\ c = ASCII!CR <=> out = 2 * len + 1
      /\ c = ASCII!LF <=> out = 2 * len + 2
  <2>1. out = 0 \/ out + 1 \in 2 .. 2 * len + 1 \/ out = 2 * len + 1 \/ out = 2 * len + 2
    <3>1. out \in Nat /\ len \in Nat /\ out < 2 * len + 3
      BY <1>1, <1>2
    <3>. QED  BY <3>1
  <2>2. CASE out = 0
    <3>1. c = ASCII!COLON
      BY <1>2, <1>7, <2>2
    <3>2. out # 2 * len + 1 /\ out # 2 * len + 2
      BY <1>2, <2>2
    <3>. QED  BY <1>8, <2>2, <3>1, <3>2
  <2>3. CASE out + 1 \in 2 .. 2 * len + 1
    <3>1. out # 0 /\ out # 2 * len + 1 /\ out # 2 * len + 2
      BY <1>1, <1>2, <2>3
    <3>. QED  BY <1>2, <1>7, <2>3, <3>1
  <2>4. CASE out = 2 * len + 1
    <3>1. out # 0 /\ out # 2 * len + 2 /\ out + 1 = 2 * len + 2
      BY <1>1, <1>2, <2>4
    <3>. QED  BY <1>2, <1>7, <1>8, <2>4, <3>1
  <2>5. CASE out = 2 * len + 2
    <3>1. out # 0 /\ out # 2 * len + 1 /\ out + 1 = 2 * len + 3
      BY <1>1, <1>2, <2>5
    <3>. QED  BY <1>2, <1>7, <1>8, <2>5, <3>1
  <2>. QED  BY <2>1, <2>2, <2>3, <2>4, <2>5
<1>10. ASSUME ASCII!Begin(c) PROVE Goal
  <2>1. out = 0 /\ pos' = 0 /\ eRcvState' = "RCV" /\ eBytePos' = "high"
    BY <1>9, <1>10 DEF ASCII!Begin
  <2>2. Within /\ Digits
    BY <1>2, <2>1
  <2>. HIDE DEF Within, Left, Digits, Second, Ended
  <2>. QED  BY <2>1, <2>2
<1>11. ASSUME ASCII!IdleIgnores(c) PROVE Goal
  <2>1. pos' = pos /\ eRcvState' = "IDLE" /\ event' = event
    BY <1>11 DEF ASCII!IdleIgnores, ASCII!rcvVars
  <2>2. Left
    BY <2>1
  <2>. HIDE DEF Within, Left, Digits, Second, Ended
  <2>. QED  BY <2>1, <2>2
<1>12. ASSUME ASCII!EndOfData(c) PROVE Goal
  <2>1. /\ out = 2 * len + 1 /\ pos' = pos /\ eRcvState = "RCV"
        /\ eRcvState' = "WAIT_EOF"
    BY <1>9, <1>12 DEF ASCII!EndOfData
  <2>2. Within /\ Ended
    <3>1. out > 0
      BY <1>2, <2>1
    <3>. QED  BY <1>1, <1>2, <1>4, <2>1, <3>1
  <2>. HIDE DEF Within, Left, Digits, Second, Ended
  <2>. QED  BY <2>1, <2>2
<1>13. ASSUME ASCII!FirstDigit(c) PROVE Goal
  <2>1. /\ eRcvState = "RCV" /\ eRcvState' = "RCV" /\ pos' = pos
        /\ eBytePos = "high" /\ out # 2 * len + 1 /\ out > 0
    BY <1>6, <1>9, <1>13 DEF ASCII!FirstDigit, ASCII!rcvVars
  <2>2. Within /\ Digits /\ Second
    <3>1. pos <= len /\ 2 * pos + 1 <= out /\ out <= 2 * len + 1
      BY <1>4, <2>1
    <3>2. pos' = pos /\ out # 2 * len + 1
      BY <2>1
    <3>. QED  BY <1>1, <1>2, <1>3, <3>1, <3>2
  <2>. HIDE DEF Within, Left, Digits, Second, Ended
  <2>. QED  BY <2>1, <2>2
<1>14. ASSUME ASCII!ByteTooMany(c) PROVE Goal
  <2>1. pos' = pos /\ eRcvState' = "IDLE" /\ event' = event
    BY <1>14 DEF ASCII!ByteTooMany
  <2>2. Left
    BY <2>1
  <2>. HIDE DEF Within, Left, Digits, Second, Ended
  <2>. QED  BY <2>1, <2>2
<1>15. ASSUME ASCII!SecondDigit(c) PROVE Goal
  <2>1. /\ eRcvState = "RCV" /\ eRcvState' = "RCV" /\ pos' = pos + 1
        /\ eBytePos = "low" /\ eBytePos' = "high" /\ out # 2 * len + 1 /\ out > 0
    BY <1>6, <1>9, <1>15 DEF ASCII!SecondDigit
  <2>2. Within /\ Digits
    <3>1. 2 * pos + 2 <= out /\ out <= 2 * len + 1
      BY <1>4, <2>1
    <3>2. pos' = pos + 1 /\ out # 2 * len + 1
      BY <2>1
    <3>3. 2 * pos' <= out /\ out <= 2 * len
      BY <1>1, <1>2, <1>3, <3>1, <3>2
    <3>. QED  BY <1>1, <1>2, <1>3, <3>2, <3>3
  <2>. HIDE DEF Within, Left, Digits, Second, Ended
  <2>. QED  BY <2>1, <2>2
<1>16. ASSUME ASCII!EndOfFrame(c) PROVE Goal
  <2>1. pos' = pos /\ eRcvState = "WAIT_EOF" /\ eRcvState' = "IDLE" /\ out = 2 * len + 2
    BY <1>9, <1>16 DEF ASCII!EndOfFrame
  <2>2. Within
    <3>1. out > 0
      BY <1>2, <2>1
    <3>. QED  BY <1>5, <2>1, <3>1
  <2>. HIDE DEF Within, Left, Digits, Second, Ended
  <2>. QED  BY <2>1, <2>2
<1>17. ~ ASCII!NoEndOfFrame(c)
  BY <1>5, <1>6, <1>9 DEF ASCII!NoEndOfFrame
<1>. HIDE DEF Goal
<1>18. Goal
  BY <1>10, <1>11, <1>12, <1>13, <1>14, <1>15, <1>16, <1>17 DEF AsciiStep
<1>. QED  BY <1>18, Zenon DEF len, Goal

LEMMA CharacterKeeps ==
  ASSUME IInv, Character
  PROVE  IInv'
<1>. DEFINE c == Characters(Len(sent))[out + 1]
            len == sent[Len(sent)].len
<1>1. /\ Running /\ InFrame /\ Heard(c) /\ out' = out + 1
      /\ sent' = (IF Ready THEN sent ELSE Spoilt) /\ UNCHANGED mishaps
  BY DEF Character
<1>2. mishaps \in Nat /\ LineInv
  BY DEF IInv, LineInv
<1>3. MInv'
  BY <1>1, HeardKeepsMachines
<1>4. CutOffInv' /\ EndInv' /\ HistoryInv' /\ AssertionsFailOnly'
  BY <1>1, HeardKeepsRest
<1>5. /\ eMBCurrentMode' = eMBCurrentMode /\ rxOn' = rxOn /\ pc' = pc
      /\ \/ SameMachines /\ (~ rxOn \/ eSndState # "IDLE")
         \/ rxOn /\ IsRTU /\ RtuStep(c) /\ event' = event
         \/ rxOn /\ IsASCII /\ AsciiStep(c)
  <2>1. UNCHANGED <<rxOn, stackVars, pollVars>>
    BY <1>1, HeardIs
  <2>2. \/ SameMachines /\ (~ rxOn \/ eSndState # "IDLE")
        \/ rxOn /\ IsRTU /\ RtuStep(c) /\ event' = event
        \/ rxOn /\ IsASCII /\ AsciiStep(c)
    BY <1>1, HeardIs
  <2>. QED  BY <2>1, <2>2 DEF stackVars, pollVars
<1>6. LineInv'
  BY <1>1, <1>2, <1>5, LineMoves
<1>. HIDE DEF c
<1>7. CASE ~ Ready
  <2>1. HeardInv'
    BY <1>1, <1>2, <1>7, SpoiltIsDisturbed
  <2>. QED  BY <1>3, <1>4, <1>6, <2>1 DEF IInv
<1>8. CASE Ready
  <2>1. /\ sent' = sent /\ LastFrame' = LastFrame /\ LastFrame.len = len /\ rxOn
        /\ (Undisturbed' <=> Undisturbed)
    BY <1>1, <1>8 DEF LastFrame, Ready, Undisturbed
  <2>2. /\ out \in Nat /\ out' = out + 1 /\ len \in Nat /\ usRcvBufferPos \in Nat
        /\ (IsRTU' <=> IsRTU) /\ (IsASCII' <=> IsASCII) /\ ~ (IsRTU /\ IsASCII)
        /\ (IsRTU => out + 1 <= len)
    <3>1. sent # <<>> /\ out + 1 <= LineLength(Len(sent))
      BY <1>1, InFrameIs
    <3>2. len \in Nat
      BY <1>2, <3>1, FramesHaveMode, CharactersAre
    <3>3. usRcvBufferPos \in Nat /\ out \in Nat
      BY <1>2, Size DEF IInv, MInv, BoundsInv, LineInv
    <3>. QED
      BY <1>1, <1>5, <3>1, <3>2, <3>3 DEF IsRTU, IsASCII, LineLength
  <2>. HIDE DEF len
  <2>. SUFFICES ASSUME Undisturbed PROVE HeardInv'
    BY <1>3, <1>4, <1>6, <2>1 DEF IInv, HeardInv
  <2>3. /\ out = 0 => ~ Pending /\ (IsRTU => eRcvState \notin {"RCV", "ERROR"})
        /\ out > 0 /\ (Pending \/ eRcvState \in {"RCV", "WAIT_EOF"}) =>
             usRcvBufferPos <= len
        /\ IsRTU /\ eRcvState = "RCV" => usRcvBufferPos <= out
    BY <2>1 DEF IInv, HeardInv
  <2>. DEFINE pos    == usRcvBufferPos
              Within == Pending' \/ eRcvState' \in {"RCV", "WAIT_EOF"} => pos' <= len
              Bytes  == pos' <= out + 1
              Ended  == out + 1 = 2 * len + 2
              Goal == /\ Within
                      /\ IsRTU /\ eRcvState' = "RCV" => Bytes
                      /\ IsASCII /\ eRcvState' = "RCV" => DigitsHeard'
                      /\ IsASCII /\ eRcvState' = "WAIT_EOF" => Ended
  <2>4. ASSUME SameMachines, eSndState # "IDLE"
        PROVE  Goal
    <3>1. /\ pos' = pos /\ eRcvState' = eRcvState /\ (Pending' <=> Pending)
      BY <2>4 DEF SameMachines, rcvVars, pollVars, Pending
    <3>2. eRcvState \in {"IDLE", "INIT"}
      BY <2>4 DEF IInv, MInv, SendingInv
    <3>3. out = 0 \/ out > 0
      BY <2>2
    <3>4. Within
      BY <2>3, <3>1, <3>2, <3>3
    <3>. HIDE DEF Within, Bytes, Ended
    <3>. QED  BY <3>1, <3>2, <3>4
  <2>5. ASSUME IsRTU, RtuStep(c), event' = event
        PROVE  Goal
    <3>1. /\ pos' = pos \/ pos' <= len
          /\ eRcvState' = "RCV" => pos' <= out + 1
      BY <1>1, <2>5, RtuHearsFrame DEF len
    <3>2. (Pending' <=> Pending) /\ eRcvState' # "WAIT_EOF"
      <4>1. eRcvState' \in {"INIT", "RCV", "ERROR"}
        BY <2>5 DEF RtuStep, RTU!FirstByte, RTU!NextByte, RTU!ByteTooMany, RTU!ByteIgnored,
                    RTU!rcvVars
      <4>. QED  BY <1>5, <2>5, <4>1 DEF Pending
    <3>3. ASSUME eRcvState' = "RCV" PROVE pos' <= len
      <4>1. pos' \in Nat
        BY <1>3, Size DEF MInv, BoundsInv
      <4>. QED  BY <2>2, <2>5, <3>1, <3>3, <4>1
    <3>4. ASSUME Pending PROVE pos' <= len
      <4>1. out > 0
        BY <2>2, <2>3, <3>4
      <4>. QED  BY <2>3, <3>1, <3>4, <4>1
    <3>5. Within
      BY <3>2, <3>3, <3>4
    <3>6. eRcvState' = "RCV" => Bytes
      BY <3>1
    <3>. HIDE DEF Within, Bytes, Ended
    <3>. QED  BY <2>2, <2>5, <3>5, <3>6
  <2>6. ASSUME IsASCII, AsciiStep(c)
        PROVE  Goal
    <3>1. /\ \/ pos' <= len
             \/ /\ pos' = pos /\ event' = event
                /\ eRcvState' \notin {"RCV", "WAIT_EOF"}
          /\ eRcvState' = "RCV" =>
               /\ 2 * pos' + 1 <= out + 1
               /\ eBytePos' = "low" => 2 * pos' + 2 <= out + 1
               /\ out + 1 <= 2 * len + 1
          /\ eRcvState' = "WAIT_EOF" => out + 1 = 2 * len + 2
      BY <1>1, <2>1, <2>6, AsciiHearsFrame DEF c, len
    <3>2. Within
      <4>1. CASE pos' <= len
        BY <4>1
      <4>2. CASE /\ pos' = pos /\ event' = event
                 /\ eRcvState' \notin {"RCV", "WAIT_EOF"}
        <5>1. Pending' <=> Pending
          BY <1>5, <4>2 DEF Pending
        <5>2. Pending => out > 0
          BY <2>2, <2>3
        <5>. QED  BY <2>3, <4>2, <5>1, <5>2
      <4>. QED  BY <3>1, <4>1, <4>2
    <3>3. eRcvState' = "RCV" => DigitsHeard'
      BY <2>1, <2>2, <3>1 DEF DigitsHeard
    <3>4. eRcvState' = "WAIT_EOF" => Ended
      BY <3>1
    <3>. HIDE DEF Within, Bytes, Ended
    <3>. QED  BY <2>2, <2>6, <3>2, <3>3, <3>4
  <2>. HIDE DEF Goal
  <2>7. Goal
    BY <1>5, <2>1, <2>4, <2>5, <2>6
  <2>8. out' > 0 /\ out' # 0
    BY <2>2
  <2>. QED  BY <2>1, <2>2, <2>7, <2>8, Zenon DEF HeardInv, Goal
<1>. QED  BY <1>7, <1>8

\* What every fault does.
LEMMA FaultIs ==
  ASSUME IInv, Fault
  PROVE  /\ Running /\ mishaps' \in Nat /\ sent' = Spoilt /\ sent' \in {sent, Spoilt}
         /\ ~ Undisturbed' /\ HeardInv'
<1>1. Running /\ mishaps' = mishaps + 1 /\ sent' = Spoilt
  BY DEF Fault, Mishap
<1>2. mishaps \in Nat /\ LineInv
  BY DEF IInv, LineInv
<1>3. ~ Undisturbed' /\ HeardInv'
  BY <1>1, <1>2, SpoiltIsDisturbed
<1>. QED  BY <1>1, <1>2, <1>3

LEMMA LoseCharacterKeeps ==
  ASSUME IInv, LoseCharacter
  PROVE  IInv'
<1>1. /\ InFrame /\ Fault /\ out' = out + 1
      /\ UNCHANGED <<serialVars, stackVars, pollVars, histVars>>
  BY DEF LoseCharacter
<1>2. MInv'
  BY <1>1, SameMachinesKeep DEF SameMachines, serialVars, histVars
<1>3. /\ eSndState' = eSndState /\ eRcvState' = eRcvState /\ txOn' = txOn
      /\ timer' = timer /\ accepted' = accepted /\ disturbed' = disturbed
      /\ overheard' = overheard /\ cutOff' = cutOff /\ unended' = unended
      /\ failed' = "none" /\ failed = "none" /\ eMBCurrentMode' = eMBCurrentMode
  BY <1>1, FaultIs
  DEF serialVars, sndVars, rcvVars, portVars, histVars, stackVars, Running
<1>4. LineInv' /\ HeardInv'
  BY <1>1, <1>3, FaultIs, LineMoves
<1>5. CutOffInv' /\ EndInv' /\ AssertionsFailOnly'
  BY <1>3 DEF IInv, CutOffInv, EndInv, AssertionsFailOnly, IsASCII
<1>6. HistoryInv'
  <2>1. Len(sent') = Len(sent)
    BY <1>1, FaultIs, SpoiltIs DEF IInv
  <2>. QED  BY <1>3, <2>1 DEF IInv, HistoryInv
<1>. QED  BY <1>2, <1>4, <1>5, <1>6 DEF IInv

LEMMA WrongCharacterKeeps ==
  ASSUME IInv, DamageCharacter \/ AddCharacter
  PROVE  IInv'
<1>1. PICK c \in Added : Heard(c)
  BY DEF DamageCharacter, AddCharacter, Added
<1>2. Fault /\ (out' = out \/ (out' = out + 1 /\ InFrame))
  BY DEF DamageCharacter, AddCharacter
<1>3. MInv'
  BY <1>1, <1>2, FaultIs, HeardKeepsMachines
<1>4. CutOffInv' /\ EndInv' /\ HistoryInv' /\ AssertionsFailOnly'
  BY <1>1, <1>2, FaultIs, HeardKeepsRest
<1>5. eMBCurrentMode' = eMBCurrentMode
  BY <1>1 DEF Heard, stackVars
<1>6. LineInv' /\ HeardInv'
  BY <1>2, <1>5, FaultIs, LineMoves
<1>. QED  BY <1>3, <1>4, <1>6 DEF IInv

(***************************************************************************)
(* The timer.                                                              *)
(***************************************************************************)
LEMMA ExpireIs ==
  ASSUME IInv, Running, Expire
  PROVE  /\ Enabled /\ timer /\ eMBCurrentMode # "none"
         /\ \/ /\ SameMachines /\ failed' = "timer while idle"
               /\ IsASCII /\ eRcvState = "IDLE"
            \/ /\ eRcvState' = "IDLE" /\ timer' = FALSE /\ failed' = failed
               /\ event' \in {event, "READY", "FRAME_RECEIVED"}
               /\ \/ event' # "FRAME_RECEIVED" \/ event' = event
                  \/ IsRTU /\ eRcvState = "RCV"
               /\ UNCHANGED <<usRcvBufferPos, sndVars, ucRTUBuf, eBytePos, rxOn, txOn>>
<1>1. timer /\ UNCHANGED <<stackVars, pollVars, histVars, out>>
  BY DEF Expire
<1>2. Enabled /\ eMBCurrentMode # "none" /\ (IsRTU \/ IsASCII)
  BY <1>1 DEF IInv, MInv, StackInv, Enabled, IsRTU, IsASCII
<1>3. CASE IsRTU
  <2>1. eRcvState # "IDLE" /\ eRcvState \in {"INIT", "RCV", "ERROR"}
    BY <1>1, <1>3 DEF IInv, MInv, PortInv, MachineInv
  <2>2. RTU!xMBRTUTimerT35Expired
    BY <1>3 DEF Expire, ByMode, IsRTU
  <2>3. RTU!Expired
    BY <2>1, <2>2 DEF RTU!xMBRTUTimerT35Expired
  <2>4. /\ event' \in {event, "READY", "FRAME_RECEIVED"}
        /\ event' # "FRAME_RECEIVED" \/ event' = event \/ eRcvState = "RCV"
    BY <2>1, <2>3 DEF RTU!Expired, RTU!xMBPortEventPost
  <2>. QED
    BY <1>1, <1>2, <1>3, <2>1, <2>2, <2>4
    DEF RTU!xMBRTUTimerT35Expired, sndVars, RTU!sndVars
<1>4. CASE IsASCII
  <2>1. ASCII!xMBASCIITimerT1SExpired
    BY <1>4 DEF Expire, ByMode, IsASCII
  <2>2. CASE eRcvState = "IDLE"
    <3>1. /\ failed' = "timer while idle"
          /\ UNCHANGED <<rcvVars, sndVars, ucRTUBuf, eBytePos, portVars, event>>
      BY <2>1, <2>2
      DEF ASCII!xMBASCIITimerT1SExpired, ASCII!Abort, ASCII!rcvVars, ASCII!sndVars,
          ASCII!portVars, rcvVars, sndVars, portVars
    <3>. QED  BY <1>1, <1>2, <1>4, <2>2, <3>1 DEF SameMachines, histVars
  <2>3. CASE eRcvState # "IDLE"
    BY <1>1, <1>2, <2>1, <2>3 DEF ASCII!xMBASCIITimerT1SExpired, sndVars, ASCII!sndVars
  <2>. QED  BY <2>2, <2>3
<1>. QED  BY <1>2, <1>3, <1>4

LEMMA ExpireKeeps ==
  ASSUME IInv, Running, Expire, sent' \in {sent, Spoilt}
  PROVE  /\ MInv' /\ CutOffInv' /\ EndInv' /\ HistoryInv' /\ AssertionsFailOnly'
         /\ (UNCHANGED <<sent, mishaps>> => HeardInv')
<1>1. /\ UNCHANGED <<stackVars, pollVars, histVars, out>>
      /\ failed = "none" /\ Enabled /\ timer /\ eMBCurrentMode # "none"
  BY ExpireIs DEF Expire, Running
<1>2. /\ eMBState' = eMBState /\ eMBCurrentMode' = eMBCurrentMode /\ pc' = pc
      /\ usLength' = usLength /\ ucMBAddress' = ucMBAddress /\ reply' = reply
      /\ accepted' = accepted /\ disturbed' = disturbed /\ overheard' = overheard
      /\ cutOff' = cutOff /\ unended' = unended
  BY <1>1 DEF stackVars, pollVars, histVars
<1>3. HistoryInv'
  <2>1. Len(sent') = Len(sent)
    BY SpoiltIs DEF IInv
  <2>. QED  BY <1>2, <2>1 DEF IInv, HistoryInv
<1>4. CASE SameMachines /\ failed' = "timer while idle" /\ IsASCII /\ eRcvState = "IDLE"
  <2>1. unended
    BY <1>1, <1>4 DEF IInv, EndInv
  <2>2. MInv'
    BY <1>4, SameMachinesKeep
  <2>3. /\ eSndState' = eSndState /\ txOn' = txOn /\ rxOn' = rxOn /\ event' = event
        /\ UNCHANGED <<rcvVars, eBytePos>>
    BY <1>4 DEF SameMachines, sndVars, portVars
  <2>4. CutOffInv' /\ EndInv' /\ AssertionsFailOnly'
    BY <1>2, <1>4, <2>1, <2>3 DEF IInv, CutOffInv, EndInv, AssertionsFailOnly, IsASCII
  <2>5. UNCHANGED <<sent, mishaps>> => HeardInv'
    BY <1>1, <1>2, <2>3, SameHeardKeeps DEF lineVars, Pending
  <2>. QED  BY <1>3, <2>2, <2>4, <2>5
<1>5. CASE /\ eRcvState' = "IDLE" /\ timer' = FALSE /\ failed' = failed
           /\ event' \in {event, "READY", "FRAME_RECEIVED"}
           /\ \/ event' # "FRAME_RECEIVED" \/ event' = event
              \/ IsRTU /\ eRcvState = "RCV"
           /\ UNCHANGED <<usRcvBufferPos, sndVars, ucRTUBuf, eBytePos, rxOn, txOn>>
  <2>1. /\ eSndState' = eSndState /\ usSndBufferCount' = usSndBufferCount
        /\ pucSndBufferCur' = pucSndBufferCur /\ wire' = wire
        /\ rxOn' = rxOn /\ txOn' = txOn /\ eBytePos' = eBytePos
        /\ usRcvBufferPos' = usRcvBufferPos /\ ucRTUBuf' = ucRTUBuf
    BY <1>5 DEF sndVars
  <2>2. StackInv'
    BY <1>1, <1>2, <1>5, <2>1 DEF IInv, MInv, StackInv, Enabled, Events
  <2>3. PortInv'
    <3>1. {rxOn', txOn', timer'} \subseteq BOOLEAN
      BY <1>5, <2>1 DEF IInv, MInv, PortInv
    <3>2. ~ (rxOn' /\ txOn')
      BY <2>1, Zenon DEF IInv, MInv, PortInv
    <3>. QED  BY <1>5, <3>1, <3>2 DEF PortInv
  <2>4. MachineInv'
    BY <1>1, <1>2, <1>5, <2>1 DEF IInv, MInv, MachineInv, IsRTU, IsASCII
  <2>5. BoundsInv'
    <3>1. SumSize' = SumSize
      BY <1>2 DEF SumSize, ByMode
    <3>. QED  BY <1>2, <2>1, <3>1 DEF IInv, MInv, BoundsInv
  <2>6. LowDigitInv' /\ EventInv' /\ SendingInv'
    BY <1>2, <1>5, <2>1 DEF IInv, MInv, LowDigitInv, EventInv, SendingInv
  <2>7. AnswersInv' /\ PreparedInv' /\ ReplyInv' /\ WireInv'
    BY <1>1, <1>2, <1>5, <2>1, SameReplyKeeps DEF histVars
  <2>8. CutOffInv' /\ EndInv' /\ AssertionsFailOnly'
    BY <1>1, <1>2, <1>5, <2>1 DEF IInv, CutOffInv, EndInv, AssertionsFailOnly
  <2>9. ASSUME UNCHANGED <<sent, mishaps>>
        PROVE  HeardInv'
    <3>1. sent' = sent /\ out' = out /\ LastFrame' = LastFrame /\ HeardInv
      BY <1>1, <2>9 DEF LastFrame, IInv
    <3>2. Pending' => Pending \/ (IsRTU /\ eRcvState = "RCV")
      BY <1>2, <1>5 DEF Pending
    <3>. QED  BY <1>2, <1>5, <2>1, <3>1, <3>2 DEF HeardInv, Undisturbed, IsRTU
  <2>. QED
    BY <1>3, <2>2, <2>3, <2>4, <2>5, <2>6, <2>7, <2>8, <2>9 DEF MInv
<1>. QED  BY <1>4, <1>5, ExpireIs

LEMMA TimerKeeps ==
  ASSUME IInv, TimerExpired \/ PauseInFrame
  PROVE  IInv'
<1>1. eMBCurrentMode' = eMBCurrentMode /\ out' = out /\ mishaps \in Nat
  BY DEF TimerExpired, PauseInFrame, Expire, stackVars, IInv, LineInv
<1>2. CASE TimerExpired
  <2>1. Running /\ Expire /\ UNCHANGED <<sent, mishaps>>
    BY <1>2 DEF TimerExpired
  <2>2. LineInv'
    BY <1>1, <2>1, LineMoves
  <2>. QED  BY <2>1, <2>2, ExpireKeeps DEF IInv
<1>3. CASE PauseInFrame
  <2>1. Fault /\ Expire
    BY <1>3 DEF PauseInFrame
  <2>2. LineInv' /\ HeardInv'
    BY <1>1, <2>1, FaultIs, LineMoves
  <2>. QED  BY <2>1, <2>2, FaultIs, ExpireKeeps DEF IInv
<1>. QED  BY <1>2, <1>3

-----------------------------------------------------------------------------
LEMMA StutteringKeeps ==
  ASSUME IInv, UNCHANGED vars
  PROVE  IInv'
<1>1. MInv'
  BY SameMachinesKeep DEF vars, SameMachines, serialVars, histVars
<1>2. LineInv' /\ HeardInv'
  BY SameLineKeeps, SameHeardKeeps
  DEF vars, serialVars, portVars, stackVars, pollVars, Pending
<1>3. CutOffInv' /\ EndInv' /\ HistoryInv' /\ AssertionsFailOnly'
  BY DEF vars, serialVars, sndVars, rcvVars, portVars, stackVars, lineVars, histVars, IInv,
         CutOffInv, EndInv, HistoryInv, AssertionsFailOnly, LastFrame, IsASCII
<1>. QED  BY <1>1, <1>2, <1>3 DEF IInv

LEMMA StepKeeps == IInv /\ [Next]_vars => IInv'
<1>. SUFFICES ASSUME IInv, [Next]_vars
              PROVE  IInv'
  OBVIOUS
<1>1. CASE \E eMode \in Modes, address \in InitAddresses : eMBInit(eMode, address)
  BY <1>1, InitializesKeeps
<1>2. CASE \E address \in InitAddresses : eMBInitFails(address)
  BY <1>2, InitFailureKeeps
<1>3. CASE eMBEnable \/ EnableEnds \/ eMBDisable
  BY <1>3, EnableKeeps, EnableEndsKeeps, DisableKeeps
<1>4. CASE eMBPoll
  BY <1>4, GetEventKeeps, ReceiveFrameKeeps, PostExecuteKeeps, ExecuteKeeps, SendReplyKeeps
  DEF eMBPoll
<1>5. CASE TransmitterEmpty \/ BeginFrame \/ Character
  BY <1>5, TransmitterKeeps, BeginFrameKeeps, CharacterKeeps
<1>6. CASE TimerExpired \/ Line
  BY <1>6, TimerKeeps, LoseCharacterKeeps, WrongCharacterKeeps DEF Line
<1>7. CASE UNCHANGED vars
  BY <1>7, StutteringKeeps
<1>. QED  BY <1>1, <1>2, <1>3, <1>4, <1>5, <1>6, <1>7 DEF Next

LEMMA AlwaysIInv == Spec => []IInv
BY InitIsGood, StepKeeps, PTL DEF Spec

-----------------------------------------------------------------------------
(***************************************************************************)
(* The types, and the ranges of the buffer's positions and offsets.        *)
(***************************************************************************)
THEOREM TypeCorrect == Spec => []TypeOK
<1>1. IInv => TypeOK
  <2>. SUFFICES ASSUME IInv PROVE TypeOK
    OBVIOUS
  <2>1. /\ eRcvState \in {"INIT", "IDLE", "RCV", "ERROR", "WAIT_EOF"}
        /\ eSndState \in {"IDLE", "XMIT", "START", "DATA", "END", "NOTIFY"}
    BY DEF IInv, MInv, StackInv, MachineInv, IsRTU, IsASCII
  <2>2. /\ pucSndBufferCur \in Nat /\ usSndBufferCount \in Nat
        /\ pucSndBufferCur + usSndBufferCount <= MB_SER_PDU_SIZE_MAX
        /\ usLength \in Nat /\ usLength + 1 + SumSize <= MB_SER_PDU_SIZE_MAX
        /\ SumSize \in {1, 2}
    BY SumSizeIs DEF IInv, MInv, BoundsInv
  <2>3. /\ usSndBufferCount \in 0 .. MB_SER_PDU_SIZE_MAX
        /\ pucSndBufferCur \in 0 .. MB_SER_PDU_SIZE_MAX
        /\ usLength \in 0 .. MB_SER_PDU_SIZE_MAX
    BY <2>2, Size
  <2>4. {rxOn, txOn, timer, disturbed, overheard, cutOff, unended} \subseteq BOOLEAN
    BY DEF IInv, MInv, PortInv, HistoryInv
  <2>5. /\ event \in Events
        /\ pc \in {"poll", "enable", "receive", "post", "execute", "send"}
    BY DEF IInv, MInv, StackInv
  <2>6. /\ DOMAIN ucRTUBuf = 0 .. MB_SER_PDU_SIZE_MAX - 1
        /\ usRcvBufferPos \in 0 .. MB_SER_PDU_SIZE_MAX
        /\ accepted \in 0 .. Len(sent)
    BY DEF IInv, MInv, BoundsInv, HistoryInv
  <2>7. eRcvState = "RCV" /\ eBytePos = "low" => usRcvBufferPos < MB_SER_PDU_SIZE_MAX
    BY DEF IInv, MInv, LowDigitInv
  <2>. QED  BY <2>1, <2>2, <2>3, <2>4, <2>5, <2>6, <2>7, Zenon DEF TypeOK
<1>. QED  BY <1>1, AlwaysIInv, PTL

(***************************************************************************)
(* The assertions of mbrtu.c and mbascii.c fail only in the cases that     *)
(* AssertionsFailOnly names: never the transmitters', never the timer's of *)
(* RTU.                                                                    *)
(***************************************************************************)
THEOREM AssertionsAreKept == Spec => []AssertionsFailOnly
<1>1. IInv => AssertionsFailOnly
  BY DEF IInv
<1>. QED  BY <1>1, AlwaysIInv, PTL

(***************************************************************************)
(* Only its own interrupt makes the transmitter idle.                      *)
(***************************************************************************)
LEMMA OnlyTransmitterEnds ==
  ASSUME IInv, Next, eSndState # "IDLE", eSndState' = "IDLE"
  PROVE  TransmitterEmpty
<1>1. ASSUME UNCHANGED sndVars \/ UNCHANGED eSndState PROVE FALSE
  BY <1>1 DEF sndVars
<1>2. ~ (\E eMode \in Modes, address \in InitAddresses : eMBInit(eMode, address))
  BY <1>1 DEF eMBInit, Initializes
<1>3. ~ (\E address \in InitAddresses : eMBInitFails(address))
  BY <1>1 DEF eMBInitFails, Initializes
<1>4. ~ (eMBEnable \/ EnableEnds \/ eMBDisable)
  BY <1>1 DEF eMBEnable, EnableEnds, eMBDisable, ByMode, RTU!eMBRTUStart, RTU!eMBRTUStop,
              ASCII!eMBASCIIStart, ASCII!eMBASCIIStop, RTU!sndVars, ASCII!sndVars
<1>5. ~ (GetEvent \/ PostExecute \/ Execute)
  BY <1>1 DEF GetEvent, PostExecute, Execute
<1>6. ~ ReceiveFrame
  BY <1>1 DEF ReceiveFrame, Abort, serialVars
<1>7. ~ SendReply
  <2>. SUFFICES ASSUME SendReply PROVE FALSE
    OBVIOUS
  <2>1. CASE eRcvState = "IDLE"
    <3>1. eSndState' = ByMode("XMIT", "START")
      BY <2>1, SendIs
    <3>. QED  BY <3>1 DEF ByMode
  <2>2. CASE eRcvState # "IDLE"
    BY <1>1, <2>2
    DEF SendReply, ByMode, RTU!eMBRTUSend, ASCII!eMBASCIISend, RTU!serialVars, RTU!sndVars,
        ASCII!serialVars, ASCII!sndVars
  <2>. QED  BY <2>1, <2>2
<1>8. ~ BeginFrame /\ ~ LoseCharacter
  BY <1>1 DEF BeginFrame, LoseCharacter, serialVars
<1>9. ~ (Character \/ DamageCharacter \/ AddCharacter)
  <2>1. ~ (\E c : Running /\ Heard(c))
    BY <1>1, HeardIs
  <2>. QED
    BY <2>1 DEF Character, DamageCharacter, AddCharacter, Fault
<1>10. ~ (TimerExpired \/ PauseInFrame)
  <2>1. ~ (Running /\ Expire)
    BY <1>1, ExpireIs DEF SameMachines
  <2>. QED  BY <2>1 DEF TimerExpired, PauseInFrame, Fault
<1>. QED
  BY <1>2, <1>3, <1>4, <1>5, <1>6, <1>7, <1>8, <1>9, <1>10 DEF Next, eMBPoll, Line

(***************************************************************************)
(* When the transmitter becomes idle, what it put on the line is the whole *)
(* reply as its handler left it, address, PDU and checksum, each character *)
(* once and in order, unless a character was heard before the reply was    *)
(* sent (mbrtu.c:197, mbascii.c:194) or the next request was executed      *)
(* meanwhile.                                                              *)
(***************************************************************************)
THEOREM RepliesAreKept == Spec => RepliesAreWhole
<1>. DEFINE Kept == eSndState # "IDLE" /\ eSndState' = "IDLE" /\ Latest /\ ~ overheard =>
                      wire = Encoded(reply)
<1>1. IInv /\ [Next]_vars => [Kept]_vars
  <2>. SUFFICES ASSUME IInv, Next, eSndState # "IDLE", eSndState' = "IDLE", Latest,
                       ~ overheard
                PROVE  wire = Encoded(reply)
    OBVIOUS
  <2>. DEFINE L == Len(reply)
  <2>1. TransmitterEmpty
    BY OnlyTransmitterEnds
  <2>2. Replying
    BY DEF Replying
  <2>3. /\ wire = [i \in 1 .. Put |-> Encoded(reply)[i]]
        /\ L = pucSndBufferCur + usSndBufferCount
        /\ reply = [i \in 1 .. L |-> ucRTUBuf[i - 1]]
        /\ eSndState = "NOTIFY" => usSndBufferCount = 0
    BY <2>2 DEF IInv, MInv, WireInv, ReplyInv
  <2>4. pucSndBufferCur \in Nat /\ usSndBufferCount \in Nat
    BY DEF IInv, MInv, BoundsInv
  <2>5. CASE IsRTU /\ (RTU!PutByte \/ RTU!Finished)
    <3>1. eSndState = "XMIT" /\ usSndBufferCount = 0
      BY <2>5 DEF RTU!PutByte, RTU!Finished
    <3>2. Put = L
      <4>1. Put = pucSndBufferCur
        BY <3>1 DEF Put
      <4>. QED  BY <2>3, <2>4, <3>1, <4>1
    <3>3. Encoded(reply) = reply
      BY <2>5 DEF Encoded, ByMode, IsRTU, RTU!Encoded
    <3>. QED  BY <2>3, <3>2, <3>3
  <2>6. CASE /\ IsASCII
             /\ \/ ASCII!PutColon \/ ASCII!PutHigh \/ ASCII!PutLow
                \/ ASCII!PutCR \/ ASCII!PutLF \/ ASCII!Finished
    <3>1. eSndState = "NOTIFY"
      BY <2>6 DEF ASCII!PutColon, ASCII!PutHigh, ASCII!PutLow, ASCII!PutCR, ASCII!PutLF,
                  ASCII!Finished
    <3>2. Put = 2 * L + 3 /\ L \in Nat
      <4>1. Put = 2 * pucSndBufferCur + 3
        BY <3>1 DEF Put
      <4>. QED  BY <2>3, <2>4, <3>1, <4>1
    <3>3. Encoded(reply) = [i \in 1 .. 2 * L + 3 |-> Encoded(reply)[i]]
      <4>1. Encoded(reply) = ASCII!Encoded(reply)
        BY <2>6 DEF Encoded, ByMode, IsASCII
      <4>. QED  BY <3>2, <4>1, DigitsAre
    <3>. QED  BY <2>3, <3>2, <3>3
  <2>. QED  BY <2>1, <2>5, <2>6, TransmitterFrame
<1>. QED  BY <1>1, AlwaysIInv, PTL DEF Spec, RepliesAreWhole

-----------------------------------------------------------------------------
(***************************************************************************)
(* MBSerial is the slave of SerialService.  What ties the buffer to the    *)
(* masters' frames: its bytes come from the line, the checksum at the end  *)
(* of a frame tells which one it is, and the first byte of a PDU tells how *)
(* new.  A frame's message is what its checksum is computed from.          *)
(***************************************************************************)
Message(n) ==
  <<Addr(sent[n].addr)>> \o [i \in 1 .. sent[n].len - 1 - SumSize |-> Data(n, i)]

\* The bytes of the line.
LineBytes ==
  {Noise, Zero} \cup { Addr(sent[n].addr) : n \in 1 .. Len(sent) }
    \cup { Data(n, i) : n \in 1 .. Len(sent), i \in Nat }
    \cup { Sum(Message(n), i) : n \in 1 .. Len(sent), i \in Nat }

\* Frame n was sent after all that were executed.
Newer(n) == \A i \in 1 .. Len(executed) : executed[i] < n

\* A frame is in the buffer that has not been received by the poll loop.
Unserved ==
  Hearing \/ pc = "receive" \/ (pc \in {"poll", "enable"} /\ event = "FRAME_RECEIVED")

\* Undisturbed, a frame is heard only while no request is served, and waits to be
\* polled only while none is executed or answered.
AtRestInv ==
  ~ disturbed =>
    /\ ~ (Hearing /\ Serving)
    /\ event = "FRAME_RECEIVED" => pc \in {"poll", "enable", "receive", "post"}

\* The bytes received hold none that the checksum does not tell, but for the first of
\* RTU, which it tells.
Pad(b) == b = Zero \/ (IsRTU /\ b = Addr(0))

NoPads == \A i \in 0 .. usRcvBufferPos - 1 : Pad(ucRTUBuf[i]) => IsRTU /\ i = 0

\* The first byte of a PDU has come.
Written ==
  \/ usRcvBufferPos >= 2
  \/ eRcvState = "RCV" /\ usRcvBufferPos = 1 /\ eBytePos = "low"

\* Undisturbed, the buffer holds bytes of the line only, and no PDU that is not
\* newer than what was executed.
BytesInv ==
  ~ disturbed /\ Unserved =>
    /\ \A i \in 0 .. usRcvBufferPos - 1 : ucRTUBuf[i] \in LineBytes
    /\ NoPads
    /\ \A n \in 1 .. Len(sent) : Written /\ ucRTUBuf[1] = Data(n, 1) => Newer(n)

\* The frames whose PDU has begun to come; no other is in the buffer or was
\* executed.
Known == { n \in 1 .. Len(sent) : n = Len(sent) => out > (IF IsRTU THEN 1 ELSE 3) }

KnownInv ==
  /\ \A n \in Nat \ {0} : ucRTUBuf[1] = Data(n, 1) => n \in Known
  /\ executed \in Seq(Nat)
  /\ \A i \in 1 .. Len(executed) : executed[i] = 0 \/ executed[i] \in Known

\* Undisturbed, a request that is being served is in the buffer as it was sent.
ServeInv ==
  ~ disturbed /\ (pc \in {"post", "execute"} \/ event = "EXECUTE") =>
    /\ accepted \in 1 .. Len(sent) /\ Newer(accepted)
    /\ usLength = sent[accepted].len - 1 - SumSize
    /\ \A i \in 1 .. usLength : ucRTUBuf[i] = Data(accepted, i)

\* Only requests to this slave are served, and a reply is for one that was executed
\* after the last reply, and is no broadcast.
AnswerInv ==
  /\ eMBState = "NOT_INITIALIZED" => event = "none"
  /\ Serving => /\ ForUs(ucRcvAddress)
                /\ accepted # 0 => sent[accepted].addr = ucRcvAddress
  /\ answered \in Seq(Nat)
  /\ \A i \in 1 .. Len(answered) : answered[i] <= Len(executed)
  /\ pc = "send" => /\ Answered /\ executed # <<>>
                    /\ \A i \in 1 .. Len(answered) : answered[i] < Len(executed)

\* With IInv this is inductive as long as the program runs: an assertion that fails
\* leaves the buffer as it is, but not what the masters take it for.
RInv == AtRestInv /\ BytesInv /\ KnownInv /\ ServeInv /\ AnswerInv

-----------------------------------------------------------------------------
\* Bytes of different origin differ.
LEMMA BytesDiffer ==
  ASSUME NEW n, NEW i, NEW m, NEW j, NEW s, NEW a
  PROVE  /\ Noise # Data(n, i) /\ Noise # Sum(s, j) /\ Noise # Addr(a)
         /\ Data(n, i) # Sum(s, j) /\ Data(n, i) # Addr(a) /\ Addr(a) # Sum(s, j)
         /\ Zero # Data(n, i) /\ Zero # Sum(s, j) /\ Zero # Addr(a) /\ Zero # Noise
<1>1. /\ DOMAIN Noise = {"noise"} /\ DOMAIN Data(n, i) = {"of", "at"}
      /\ DOMAIN Sum(s, j) = {"sum", "at"} /\ DOMAIN Addr(a) = {"address"}
      /\ DOMAIN Zero = {"zero"}
  BY DEF Noise, Data, Sum, Addr, Zero
<1>2. /\ {"noise"} # {"of", "at"} /\ {"noise"} # {"sum", "at"} /\ {"noise"} # {"address"}
      /\ {"of", "at"} # {"sum", "at"} /\ {"of", "at"} # {"address"}
      /\ {"address"} # {"sum", "at"}
      /\ {"zero"} # {"of", "at"} /\ {"zero"} # {"sum", "at"} /\ {"zero"} # {"address"}
      /\ {"zero"} # {"noise"}
  OBVIOUS
<1>. QED  BY <1>1, <1>2

\* A byte tells where it comes from.
LEMMA BytesTell ==
  ASSUME NEW n, NEW i, NEW m, NEW j
  PROVE  /\ Data(n, i) = Data(m, j) => n = m /\ i = j
         /\ Sum(n, i) = Sum(m, j) => n = m /\ i = j
         /\ Address(Addr(n)) = n
<1>1. /\ Data(n, i).of = n /\ Data(n, i).at = i /\ Data(m, j).of = m /\ Data(m, j).at = j
      /\ Sum(n, i).sum = n /\ Sum(n, i).at = i /\ Sum(m, j).sum = m /\ Sum(m, j).at = j
      /\ Addr(n).address = n
  BY DEF Data, Sum, Addr
<1>2. Addr(n) # Zero
  BY BytesDiffer
<1>. QED  BY <1>1, <1>2 DEF Address

\* An address and a PDU of L bytes.
LEMMA MessageIs ==
  ASSUME NEW a, NEW n, NEW L \in Nat
  PROVE  LET m == <<Addr(a)>> \o [i \in 1 .. L |-> Data(n, i)]
         IN  /\ Len(m) = L + 1 /\ m[1] = Addr(a)
             /\ \A i \in 1 .. L : m[i + 1] = Data(n, i)
<1>. DEFINE C == {Addr(a)} \cup { Data(n, i) : i \in 1 .. L }
            f == [i \in 1 .. L |-> Data(n, i)]
<1>1. <<Addr(a)>> \in Seq(C) /\ f \in Seq(C)
  <2>1. Addr(a) \in C /\ \A i \in 1 .. L : Data(n, i) \in C
    OBVIOUS
  <2>. HIDE DEF C
  <2>. QED  BY <2>1
<1>2. Len(<<Addr(a)>>) = 1 /\ Len(f) = L /\ \A i \in 1 .. L : f[i] = Data(n, i)
  OBVIOUS
<1>. HIDE DEF f, C
<1>3. Joins(<<Addr(a)>> \o f, <<Addr(a)>>, f)
  BY <1>1, ConcatenationIs
<1>. DEFINE m == <<Addr(a)>> \o f
<1>4. Len(m) = L + 1 /\ m[1] = Addr(a) /\ \A i \in 1 .. L : m[1 + i] = f[i]
  BY <1>2, <1>3 DEF Joins
<1>5. \A i \in 1 .. L : m[i + 1] = Data(n, i)
  <2>. HIDE DEF m
  <2>1. \A i \in 1 .. L : i + 1 = 1 + i
    OBVIOUS
  <2>. QED  BY <1>2, <1>4, <2>1
<1>. QED  BY <1>4, <1>5 DEF f

\* The message of a frame: its length and its bytes.
LEMMA FrameIs ==
  ASSUME LineInv, NEW n \in 1 .. Len(sent)
  PROVE  /\ sent[n].len \in Nat /\ sent[n].len >= 4 /\ sent[n].addr \in Nat
         /\ sent[n].len - 1 - SumSize \in Nat /\ sent[n].len - 1 - SumSize >= 1
         /\ Len(Message(n)) = sent[n].len - SumSize
         /\ Message(n)[1] = Addr(sent[n].addr)
         /\ \A i \in 1 .. sent[n].len - 1 - SumSize : Message(n)[i + 1] = Data(n, i)
<1>. DEFINE L == sent[n].len - 1 - SumSize
<1>1. sent \in Seq(SentFrames) /\ sent[n].len >= 4
  BY DEF LineInv
<1>2. sent[n] \in SentFrames
  BY <1>1
<1>3. sent[n].len \in Nat /\ sent[n].addr \in Nat
  BY <1>2 DEF SentFrames
<1>4. SumSize \in {1, 2}
  BY SumSizeIs
<1>5. L \in Nat /\ L >= 1 /\ L + 1 = sent[n].len - SumSize
  BY <1>1, <1>3, <1>4
<1>6. Message(n) = <<Addr(sent[n].addr)>> \o [i \in 1 .. L |-> Data(n, i)]
  BY DEF Message
<1>. HIDE DEF L
<1>7. /\ Len(Message(n)) = L + 1 /\ Message(n)[1] = Addr(sent[n].addr)
      /\ \A i \in 1 .. L : Message(n)[i + 1] = Data(n, i)
  BY <1>5, <1>6, MessageIs
<1>. QED  BY <1>1, <1>3, <1>5, <1>7 DEF L

\* A buffer that holds the PDU of a frame is taken for that frame.
LEMMA ContentFound ==
  ASSUME LineInv, NEW n \in 1 .. Len(sent), NEW L,
         L = sent[n].len - 1 - SumSize, \A i \in 1 .. L : ucRTUBuf[i] = Data(n, i)
  PROVE  Content(L) = n
<1>. DEFINE IsPDU(m) == /\ L = sent[m].len - 1 - SumSize
                        /\ \A i \in 1 .. L : ucRTUBuf[i] = Data(m, i)
<1>1. L \in Nat /\ L >= 1
  BY FrameIs
<1>2. \A m : IsPDU(m) => m = n
  <2>. SUFFICES ASSUME NEW m, IsPDU(m)
                PROVE  m = n
    OBVIOUS
  <2>1. 1 \in 1 .. L
    BY <1>1
  <2>2. ucRTUBuf[1] = Data(m, 1) /\ ucRTUBuf[1] = Data(n, 1)
    BY <2>1
  <2>. QED  BY <2>2, BytesTell
<1>3. IsPDU(n)
  OBVIOUS
<1>4. Content(L) = IF \E m \in 1 .. Len(sent) : IsPDU(m)
                   THEN CHOOSE m \in 1 .. Len(sent) : IsPDU(m) ELSE 0
  BY DEF Content
<1>. HIDE DEF IsPDU
<1>. QED  BY <1>2, <1>3, <1>4

\* What a buffer is taken for has begun to come.
LEMMA ContentIsKnown ==
  ASSUME LineInv, KnownInv, NEW L \in Nat
  PROVE  Content(L) = 0 \/ Content(L) \in Known
<1>. SUFFICES ASSUME Content(L) # 0 PROVE Content(L) \in Known
  OBVIOUS
<1>. DEFINE IsPDU(m) == /\ L = sent[m].len - 1 - SumSize
                        /\ \A i \in 1 .. L : ucRTUBuf[i] = Data(m, i)
<1>1. Content(L) = IF \E m \in 1 .. Len(sent) : IsPDU(m)
                   THEN CHOOSE m \in 1 .. Len(sent) : IsPDU(m) ELSE 0
  BY DEF Content
<1>2. Content(L) \in 1 .. Len(sent) /\ IsPDU(Content(L))
  <2>. HIDE DEF IsPDU
  <2>. QED  BY <1>1
<1>. DEFINE n == Content(L)
<1>3. n \in 1 .. Len(sent) /\ L = sent[n].len - 1 - SumSize
      /\ \A i \in 1 .. L : ucRTUBuf[i] = Data(n, i)
  BY <1>2
<1>. HIDE DEF n
<1>4. 1 \in 1 .. L
  BY <1>3, FrameIs
<1>5. n \in Nat \ {0}
  BY <1>3 DEF LineInv
<1>6. n \in Known
  BY <1>3, <1>4, <1>5 DEF KnownInv
<1>. QED  BY <1>6 DEF n

\* A frame with its checksum, of bytes of the line, is one that was sent.
LEMMA WholeFrameFound ==
  ASSUME IInv, ByMode(RTU!FrameReceived, ASCII!FrameReceived), NEW L,
         L = ByMode(RTU!PDULength, ASCII!PDULength),
         \A i \in 0 .. usRcvBufferPos - 1 : ucRTUBuf[i] \in LineBytes, NoPads
  PROVE  /\ usRcvBufferPos >= 3
         /\ \E n \in 1 .. Len(sent) :
              /\ L = sent[n].len - 1 - SumSize /\ ucRTUBuf[0] = Addr(sent[n].addr)
              /\ \A i \in 1 .. L : ucRTUBuf[i] = Data(n, i)
<1>. DEFINE p == usRcvBufferPos
            s == SumSize
            B == [i \in 1 .. p - s |-> ucRTUBuf[i - 1]]
            sums == [k \in 1 .. s |-> Sum(B, k)]
<1>1. p \in Nat /\ s \in {1, 2} /\ LineInv
  BY SumSizeIs, Size DEF IInv, MInv, BoundsInv
<1>2. p >= 3 /\ L = p - 1 - s /\ [i \in 1 .. p |-> ucRTUBuf[i - 1]] = B \o sums
  <2>1. CASE IsRTU
    <3>1. s = 2
      BY <2>1, SumSizeIs
    <3>2. p >= 4 /\ L = p - 1 - 2
      BY <2>1 DEF ByMode, IsRTU, RTU!FrameReceived, RTU!PDULength,
         RTU!MB_SER_PDU_SIZE_MIN, RTU!MB_SER_PDU_SIZE_CRC, RTU!MB_SER_PDU_PDU_OFF
    <3>3. [i \in 1 .. p |-> ucRTUBuf[i - 1]]
            = [i \in 1 .. p - 2 |-> ucRTUBuf[i - 1]]
                \o [k \in 1 .. 2 |-> Sum([i \in 1 .. p - 2 |-> ucRTUBuf[i - 1]], k)]
      <4>1. PICK n \in 1 .. p :
              /\ RTU!HasSum(RTU!Buffered(n), 2)
              /\ \A i \in n .. p - 1 : ucRTUBuf[i] \in {Zero, Addr(0)}
        BY <2>1 DEF ByMode, IsRTU, RTU!FrameReceived, RTU!SumIsZero, RTU!Zeros, RTU!Zero,
           RTU!Addr, Zero, Addr, RTU!MB_SER_PDU_SIZE_CRC
      <4>2. n = p
        <5>. SUFFICES ASSUME n # p PROVE FALSE
          OBVIOUS
        <5>. HIDE DEF p
        <5>1. n \in n .. p - 1 /\ n \in 0 .. p - 1 /\ n # 0
          BY <1>1
        <5>2. Pad(ucRTUBuf[n])
          BY <2>1, <4>1, <5>1 DEF Pad
        <5>. QED  BY <5>1, <5>2 DEF NoPads, p
      <4>3. Len([i \in 1 .. p |-> ucRTUBuf[i - 1]]) = p
        <5>. HIDE DEF p
        <5>. QED  BY <1>1
      <4>4. [i \in 1 .. p |-> ucRTUBuf[i - 1]]
              = RTU!WithSum([i \in 1 .. p - 2 |-> [j \in 1 .. p |-> ucRTUBuf[j - 1]][i]], 2)
        BY <4>1, <4>2, <4>3 DEF RTU!HasSum, RTU!Buffered
      <4>5. [i \in 1 .. p - 2 |-> [j \in 1 .. p |-> ucRTUBuf[j - 1]][i]]
              = [i \in 1 .. p - 2 |-> ucRTUBuf[i - 1]]
        <5>. HIDE DEF p
        <5>1. \A i \in 1 .. p - 2 : i \in 1 .. p
          BY <1>1
        <5>. QED  BY <5>1
      <4>. QED  BY <4>4, <4>5 DEF RTU!WithSum, RTU!Sum, Sum
    <3>4. B = [i \in 1 .. p - 2 |-> ucRTUBuf[i - 1]] /\ sums = [k \in 1 .. 2 |-> Sum(B, k)]
      <4>. HIDE DEF s
      <4>. QED  BY <3>1
    <3>5. p >= 3 /\ L = p - 1 - s
      BY <1>1, <3>1, <3>2
    <3>. HIDE DEF B, sums, p, s
    <3>. QED  BY <3>3, <3>4, <3>5
  <2>2. CASE ~ IsRTU
    <3>1. s = 1
      BY <2>2, SumSizeIs
    <3>2. p >= 3 /\ L = p - 1 - 1
      BY <2>2 DEF ByMode, IsRTU, ASCII!FrameReceived, ASCII!PDULength,
         ASCII!MB_SER_PDU_SIZE_MIN, ASCII!MB_SER_PDU_SIZE_LRC, ASCII!MB_SER_PDU_PDU_OFF
    <3>3. [i \in 1 .. p |-> ucRTUBuf[i - 1]]
            = [i \in 1 .. p - 1 |-> ucRTUBuf[i - 1]]
                \o [k \in 1 .. 1 |-> Sum([i \in 1 .. p - 1 |-> ucRTUBuf[i - 1]], k)]
      <4>1. \/ ASCII!HasSum(ASCII!Buffered(p), 1)
            \/ \E i \in 1 .. p : ASCII!Buffered(p)[i] = Zero
        BY <2>2 DEF ByMode, IsRTU, ASCII!FrameReceived, ASCII!SumIsZero,
           ASCII!Zero, Zero, ASCII!MB_SER_PDU_SIZE_LRC
      <4>2. ASSUME NEW i \in 1 .. p
            PROVE  ASCII!Buffered(p)[i] # Zero
        <5>1. ASCII!Buffered(p)[i] = ucRTUBuf[i - 1]
          BY DEF ASCII!Buffered
        <5>2. i - 1 \in 0 .. p - 1
          BY <1>1
        <5>. QED  BY <2>2, <5>1, <5>2 DEF NoPads, Pad
      <4>3. Len([i \in 1 .. p |-> ucRTUBuf[i - 1]]) = p
        <5>. HIDE DEF p
        <5>. QED  BY <1>1
      <4>4. [i \in 1 .. p |-> ucRTUBuf[i - 1]]
              = ASCII!WithSum([i \in 1 .. p - 1 |-> [j \in 1 .. p |-> ucRTUBuf[j - 1]][i]], 1)
        BY <4>1, <4>2, <4>3 DEF ASCII!HasSum, ASCII!Buffered
      <4>5. [i \in 1 .. p - 1 |-> [j \in 1 .. p |-> ucRTUBuf[j - 1]][i]]
              = [i \in 1 .. p - 1 |-> ucRTUBuf[i - 1]]
        <5>. HIDE DEF p
        <5>1. \A i \in 1 .. p - 1 : i \in 1 .. p
          BY <1>1
        <5>. QED  BY <5>1
      <4>. QED  BY <4>4, <4>5 DEF ASCII!WithSum, ASCII!Sum, Sum
    <3>. QED  BY <1>1, <3>1, <3>2, <3>3
  <2>. QED  BY <2>1, <2>2
<1>3. ucRTUBuf[p - s] = Sum(B, 1)
  <2>. DEFINE C == { ucRTUBuf[i - 1] : i \in 1 .. p } \cup { Sum(B, k) : k \in 1 .. s }
  <2>1. B \in Seq(C) /\ sums \in Seq(C)
    <3>1. \A i \in 1 .. p - s : ucRTUBuf[i - 1] \in C
      BY <1>1
    <3>2. \A k \in 1 .. s : Sum(B, k) \in C
      OBVIOUS
    <3>3. p - s \in Nat /\ s \in Nat
      BY <1>1, <1>2
    <3>4. B \in Seq(C)
      <4>. HIDE DEF C, s, p
      <4>. QED  BY <3>1, <3>3
    <3>5. sums \in Seq(C)
      <4>. HIDE DEF C, s, B
      <4>. QED  BY <3>2, <3>3
    <3>. QED  BY <3>4, <3>5
  <2>2. Len(B) = p - s /\ Len(sums) = s /\ sums[1] = Sum(B, 1)
    <3>1. p - s \in Nat /\ s \in Nat /\ 1 \in 1 .. s
      BY <1>1, <1>2
    <3>2. Len(B) = p - s
      <4>. HIDE DEF s, p
      <4>. QED  BY <3>1
    <3>. HIDE DEF B, s
    <3>. QED  BY <3>1, <3>2
  <2>. HIDE DEF B, sums, C, s, p
  <2>3. Joins(B \o sums, B, sums)
    BY <2>1, ConcatenationIs
  <2>4. (B \o sums)[p - s + 1] = Sum(B, 1)
    BY <1>1, <1>2, <2>2, <2>3 DEF Joins
  <2>5. [i \in 1 .. p |-> ucRTUBuf[i - 1]][p - s + 1] = ucRTUBuf[p - s]
    <3>. DEFINE k == p - s + 1
    <3>1. k \in 1 .. p /\ k - 1 = p - s
      BY <1>1, <1>2
    <3>. HIDE DEF k
    <3>2. [i \in 1 .. p |-> ucRTUBuf[i - 1]][k] = ucRTUBuf[p - s]
      BY <3>1
    <3>. QED  BY <3>2 DEF k
  <2>. QED  BY <1>2, <2>4, <2>5
<1>4. Sum(B, 1) \in LineBytes
  <2>1. p - s \in 0 .. p - 1
    BY <1>1, <1>2
  <2>. QED  BY <1>3, <2>1
<1>5. PICK n \in 1 .. Len(sent) : B = Message(n)
  <2>. HIDE DEF B
  <2>1. \E n \in 1 .. Len(sent), i \in Nat : Sum(B, 1) = Sum(Message(n), i)
    BY <1>4, BytesDiffer DEF LineBytes
  <2>. QED  BY <2>1, BytesTell
<1>6. Len(B) = p - s /\ \A i \in 1 .. p - s : B[i] = ucRTUBuf[i - 1]
  <2>1. p - s \in Nat
    BY <1>1, <1>2
  <2>. HIDE DEF s, p
  <2>. QED  BY <2>1
<1>. HIDE DEF B
<1>7. p - s = sent[n].len - s
  BY <1>1, <1>5, <1>6, FrameIs
<1>8. L = sent[n].len - 1 - s /\ L \in Nat /\ L + 1 = p - s
  <2>1. sent[n].len \in Nat /\ sent[n].len - 1 - s \in Nat
    BY <1>1, FrameIs
  <2>2. L = p - 1 - s /\ p \in Nat /\ s \in Nat
    BY <1>1, <1>2
  <2>. HIDE DEF p, s
  <2>3. sent[n].len = p
    BY <1>7, <2>1, <2>2
  <2>. QED  BY <2>1, <2>2, <2>3
<1>9. ucRTUBuf[0] = Addr(sent[n].addr)
  <2>1. 1 \in 1 .. p - s /\ 1 - 1 = 0
    BY <1>1, <1>2
  <2>2. B[1] = ucRTUBuf[0]
    BY <1>6, <2>1
  <2>. QED  BY <1>1, <1>5, <2>2, FrameIs
<1>10. \A i \in 1 .. L : ucRTUBuf[i] = Data(n, i)
  <2>. TAKE i \in 1 .. L
  <2>1. i + 1 \in 1 .. p - s /\ i + 1 - 1 = i
    BY <1>1, <1>8
  <2>2. B[i + 1] = ucRTUBuf[i]
    BY <1>6, <2>1
  <2>. QED  BY <1>1, <1>5, <1>8, <2>2, FrameIs
<1>. QED  BY <1>2, <1>8, <1>9, <1>10

-----------------------------------------------------------------------------
(***************************************************************************)
(* What is known of the frames stays known.                                *)
(***************************************************************************)
FramesKept ==
  /\ eMBCurrentMode' = eMBCurrentMode
  /\ sent' \in Seq(SentFrames) /\ Len(sent') >= Len(sent) /\ out' \in Nat
  /\ \A n \in 1 .. Len(sent) : sent'[n].addr = sent[n].addr /\ sent'[n].len = sent[n].len
  /\ Len(sent') = Len(sent) => out' >= out

\* Frames that follow take nothing away from the line.
LEMMA KnownStays ==
  ASSUME LineInv, FramesKept
  PROVE  /\ LineBytes \subseteq LineBytes' /\ Known \subseteq Known'
         /\ SumSize' = SumSize /\ 1 .. Len(sent) \subseteq 1 .. Len(sent')
<1>1. /\ Len(sent) \in Nat /\ Len(sent') \in Nat /\ Len(sent') >= Len(sent)
      /\ \A n \in 1 .. Len(sent) :
           n \in 1 .. Len(sent') /\ sent'[n].addr = sent[n].addr /\ sent'[n].len = sent[n].len
  BY DEF LineInv, FramesKept
<1>2. SumSize' = SumSize /\ IsRTU' = IsRTU
  BY DEF FramesKept, SumSize, ByMode, IsRTU
<1>3. \A n \in 1 .. Len(sent) : Message(n)' = Message(n)
  BY <1>1, <1>2 DEF Message
<1>4. LineBytes \subseteq LineBytes'
  <2>. SUFFICES ASSUME NEW b \in LineBytes
                PROVE  b \in LineBytes'
    OBVIOUS
  <2>1. CASE b \in {Noise, Zero}
    BY <2>1 DEF LineBytes
  <2>2. CASE \E n \in 1 .. Len(sent) : b = Addr(sent[n].addr)
    <3>1. PICK n \in 1 .. Len(sent) : b = Addr(sent[n].addr)
      BY <2>2
    <3>2. n \in 1 .. Len(sent') /\ b = Addr(sent'[n].addr)
      BY <1>1, <3>1
    <3>. QED  BY <3>2 DEF LineBytes
  <2>3. CASE \E n \in 1 .. Len(sent), i \in Nat : b = Data(n, i)
    <3>1. PICK n \in 1 .. Len(sent), i \in Nat : b = Data(n, i)
      BY <2>3
    <3>2. n \in 1 .. Len(sent')
      BY <1>1
    <3>. QED  BY <3>1, <3>2 DEF LineBytes
  <2>4. CASE \E n \in 1 .. Len(sent), i \in Nat : b = Sum(Message(n), i)
    <3>1. PICK n \in 1 .. Len(sent), i \in Nat : b = Sum(Message(n), i)
      BY <2>4
    <3>2. n \in 1 .. Len(sent') /\ b = Sum(Message(n)', i)
      BY <1>1, <1>3, <3>1
    <3>. QED  BY <3>2 DEF LineBytes
  <2>. QED  BY <2>1, <2>2, <2>3, <2>4 DEF LineBytes
<1>5. Known \subseteq Known'
  <2>. SUFFICES ASSUME NEW n \in Known
                PROVE  n \in Known'
    OBVIOUS
  <2>1. n \in 1 .. Len(sent) /\ (n = Len(sent) => out > (IF IsRTU THEN 1 ELSE 3))
    BY DEF Known
  <2>2. n = Len(sent') => n = Len(sent) /\ out' >= out /\ out \in Nat /\ out' \in Nat
    BY <1>1, <2>1 DEF FramesKept, LineInv
  <2>3. n = Len(sent') => out' > (IF IsRTU' THEN 1 ELSE 3)
    BY <1>2, <2>1, <2>2
  <2>. QED  BY <1>1, <2>1, <2>3 DEF Known
<1>. QED  BY <1>1, <1>2, <1>4, <1>5

\* Nor does spoiling the last one.
LEMMA FramesStay ==
  ASSUME IInv, sent' \in {sent, Spoilt}, out' \in {out, out + 1},
         eMBCurrentMode' = eMBCurrentMode
  PROVE  FramesKept
<1>1. LineInv /\ sent \in Seq(SentFrames) /\ out \in Nat
  BY DEF IInv, LineInv
<1>2. out' \in Nat /\ out' >= out
  BY <1>1
<1>3. CASE sent' = sent
  BY <1>1, <1>2, <1>3 DEF FramesKept
<1>4. CASE sent' = Spoilt
  <2>1. Len(sent) \in Nat
    BY <1>1
  <2>. QED  BY <1>1, <1>2, <1>4, <2>1, SpoiltIs DEF FramesKept
<1>. QED  BY <1>3, <1>4

\* A frame that begins is a request more.
LEMMA NewFrame ==
  ASSUME IInv, BeginFrame
  PROVE  /\ FramesKept
         /\ \E address \in { f.addr : f \in Frames } :
              [n \in DOMAIN sent' |-> sent'[n].addr]
                = Append([n \in DOMAIN sent |-> sent[n].addr], address)
<1>. DEFINE before == IF Done /\ Paused THEN sent ELSE Spoilt
            clean  == Done /\ Paused
<1>1. PICK f \in Frames :
        sent' = Append(before, [addr |-> f.addr, len |-> f.len, clean |-> clean])
  BY DEF BeginFrame
<1>. DEFINE new == [addr |-> f.addr, len |-> f.len, clean |-> clean]
<1>2. out' = 0 /\ eMBCurrentMode' = eMBCurrentMode
  BY DEF BeginFrame, stackVars
<1>3. f.addr \in Nat /\ f.len \in Nat
  BY SerialAssumption
<1>4. new \in SentFrames /\ new.addr = f.addr
  <2>1. clean \in BOOLEAN
    OBVIOUS
  <2>. HIDE DEF clean
  <2>. QED  BY <1>3, <2>1 DEF SentFrames
<1>5. /\ before \in Seq(SentFrames) /\ Len(before) = Len(sent) /\ Len(sent) \in Nat
      /\ \A n \in 1 .. Len(sent) :
           before[n].len = sent[n].len /\ before[n].addr = sent[n].addr
  BY SpoiltIs DEF IInv, LineInv
<1>. HIDE DEF new, before, clean
<1>6. sent' = Append(before, new)
  BY <1>1 DEF new
<1>7. /\ sent' \in Seq(SentFrames) /\ Len(sent') = Len(sent) + 1
      /\ \A n \in 1 .. Len(sent) : sent'[n] = before[n]
      /\ sent'[Len(sent) + 1] = new
  BY <1>4, <1>5, <1>6
<1>8. FramesKept
  BY <1>2, <1>5, <1>7 DEF FramesKept
<1>9. [n \in DOMAIN sent' |-> sent'[n].addr]
        = Append([n \in DOMAIN sent |-> sent[n].addr], f.addr)
  <2>. DEFINE g == [n \in DOMAIN sent |-> sent[n].addr]
              h == [n \in 1 .. Len(sent) + 1 |-> sent'[n].addr]
  <2>1. DOMAIN sent' = 1 .. Len(sent) + 1 /\ DOMAIN sent = 1 .. Len(sent)
    BY <1>5, <1>7 DEF IInv, LineInv
  <2>2. g = [n \in 1 .. Len(sent) |-> h[n]]
    <3>1. \A n \in 1 .. Len(sent) : h[n] = sent[n].addr
      BY <1>5, <1>7
    <3>. HIDE DEF h
    <3>. QED  BY <2>1, <3>1
  <2>3. h[Len(sent) + 1] = f.addr
    BY <1>4, <1>5, <1>7
  <2>4. h = [n \in 1 .. Len(sent) + 1 |-> h[n]]
    OBVIOUS
  <2>. HIDE DEF g, h
  <2>5. Append(g, h[Len(sent) + 1]) = h
    <3>1. Len(sent) \in Nat
      BY <1>5
    <3>2. Append(g, h[Len(sent) + 1]) = [n \in 1 .. Len(sent) + 1 |-> h[n]]
      BY <2>2, <3>1, AppendIs
    <3>. QED  BY <2>4, <3>2
  <2>. QED  BY <2>1, <2>3, <2>5 DEF g, h
<1>. QED  BY <1>8, <1>9

-----------------------------------------------------------------------------
(***************************************************************************)
(* The steps that leave the buffer alone.                                  *)
(***************************************************************************)
LEMMA BytesStay ==
  ASSUME IInv, BytesInv, KnownInv, FramesKept,
         UNCHANGED <<ucRTUBuf, usRcvBufferPos, executed>>,
         ~ disturbed' /\ Unserved' => ~ disturbed /\ Unserved /\ (Written' => Written)
  PROVE  BytesInv'
<1>. SUFFICES ASSUME ~ disturbed', Unserved'
              PROVE  BytesInv'
  BY DEF BytesInv
<1>1. /\ \A i \in 0 .. usRcvBufferPos - 1 : ucRTUBuf[i] \in LineBytes
      /\ NoPads
      /\ \A n \in 1 .. Len(sent) : Written /\ ucRTUBuf[1] = Data(n, 1) => Newer(n)
      /\ Written' => Written
  BY DEF BytesInv
<1>2. LineBytes \subseteq LineBytes' /\ Len(sent') \in Nat
  BY KnownStays DEF IInv, FramesKept
<1>3. \A i \in 0 .. usRcvBufferPos' - 1 : ucRTUBuf'[i] \in LineBytes'
  BY <1>1, <1>2
<1>4. ASSUME NEW n \in 1 .. Len(sent'), Written', ucRTUBuf'[1] = Data(n, 1)
      PROVE  Newer(n)'
  <2>1. n \in Nat \ {0}
    BY <1>2
  <2>2. n \in 1 .. Len(sent)
    BY <1>4, <2>1 DEF KnownInv, Known
  <2>3. Newer(n)
    BY <1>1, <1>4, <2>2
  <2>. QED  BY <2>3 DEF Newer
<1>5. NoPads'
  BY <1>1 DEF NoPads, Pad, IsRTU, FramesKept
<1>. QED  BY <1>3, <1>4, <1>5 DEF BytesInv

\* KnownInv: nothing is executed.
LEMMA ExecutedStay ==
  ASSUME LineInv, KnownInv, FramesKept, executed' = executed,
         \A n \in Nat \ {0} : ucRTUBuf'[1] = Data(n, 1) => n \in Known'
  PROVE  KnownInv'
BY KnownStays DEF KnownInv

\* ServeInv: the buffer keeps the request while it is served.
LEMMA ServedStays ==
  ASSUME LineInv, ServeInv, FramesKept, UNCHANGED <<executed, accepted>>,
         ~ disturbed' /\ (pc' \in {"post", "execute"} \/ event' = "EXECUTE") =>
           /\ ~ disturbed /\ (pc \in {"post", "execute"} \/ event = "EXECUTE")
           /\ UNCHANGED <<ucRTUBuf, usLength>>
  PROVE  ServeInv'
<1>. SUFFICES ASSUME ~ disturbed', pc' \in {"post", "execute"} \/ event' = "EXECUTE"
              PROVE  /\ accepted \in 1 .. Len(sent') /\ Newer(accepted)'
                     /\ usLength' = sent'[accepted].len - 1 - SumSize'
                     /\ \A i \in 1 .. usLength' : ucRTUBuf'[i] = Data(accepted, i)
  BY DEF ServeInv
<1>1. /\ accepted \in 1 .. Len(sent) /\ Newer(accepted)
      /\ usLength = sent[accepted].len - 1 - SumSize
      /\ \A i \in 1 .. usLength : ucRTUBuf[i] = Data(accepted, i)
      /\ ucRTUBuf' = ucRTUBuf /\ usLength' = usLength
  BY DEF ServeInv
<1>2. /\ accepted \in 1 .. Len(sent') /\ sent'[accepted].len = sent[accepted].len
      /\ SumSize' = SumSize
  BY <1>1, KnownStays DEF FramesKept
<1>3. Newer(accepted)'
  BY <1>1 DEF Newer
<1>. QED  BY <1>1, <1>2, <1>3

\* AnswerInv: nothing is executed or answered.
LEMMA AnswersStay ==
  ASSUME IInv, AnswerInv, FramesKept, UNCHANGED <<executed, answered, accepted, ucMBAddress>>,
         Serving' => Serving /\ ucRcvAddress' = ucRcvAddress,
         pc' = "send" => pc = "send",
         eMBState' = "NOT_INITIALIZED" => event' = "none"
  PROVE  AnswerInv'
<1>1. Serving' => /\ ForUs(ucRcvAddress)'
                  /\ accepted' # 0 => sent'[accepted'].addr = ucRcvAddress'
  <2>. SUFFICES ASSUME Serving'
                PROVE  /\ ucRcvAddress \in {ucMBAddress, MB_ADDRESS_BROADCAST}
                       /\ accepted # 0 => sent'[accepted].addr = ucRcvAddress
    BY DEF ForUs
  <2>1. /\ ucRcvAddress \in {ucMBAddress, MB_ADDRESS_BROADCAST}
        /\ accepted # 0 => sent[accepted].addr = ucRcvAddress
    BY DEF AnswerInv, ForUs
  <2>2. accepted # 0 => accepted \in 1 .. Len(sent)
    BY DEF IInv, HistoryInv, LineInv
  <2>. QED  BY <2>1, <2>2 DEF FramesKept
<1>2. pc' = "send" => /\ Answered' /\ executed # <<>>
                      /\ \A i \in 1 .. Len(answered) : answered[i] < Len(executed)
  <2>. SUFFICES ASSUME pc' = "send"
                PROVE  /\ ucRcvAddress' # MB_ADDRESS_BROADCAST /\ executed # <<>>
                       /\ \A i \in 1 .. Len(answered) : answered[i] < Len(executed)
    BY DEF Answered
  <2>1. Serving'
    BY DEF Serving
  <2>. QED  BY <2>1 DEF AnswerInv, Answered
<1>. QED  BY <1>1, <1>2 DEF AnswerInv

\* All of it, for a step that leaves the buffer and the histories alone.
LEMMA BufferStays ==
  ASSUME IInv, RInv, FramesKept,
         UNCHANGED <<ucRTUBuf, usRcvBufferPos, usLength, ucRcvAddress, ucMBAddress>>,
         UNCHANGED <<executed, answered, accepted, disturbed>>,
         ~ disturbed /\ Unserved' => Unserved /\ (Written' => Written),
         Serving' => Serving, pc' = "send" => pc = "send",
         pc' \in {"post", "execute"} \/ event' = "EXECUTE" =>
           pc \in {"post", "execute"} \/ event = "EXECUTE",
         eMBState' = "NOT_INITIALIZED" => event' = "none",
         AtRestInv'
  PROVE  RInv'
<1>1. LineInv /\ BytesInv /\ KnownInv /\ ServeInv /\ AnswerInv
  BY DEF IInv, RInv
<1>2. KnownInv'
  <2>1. Known \subseteq Known'
    BY <1>1, KnownStays
  <2>2. \A n \in Nat \ {0} : ucRTUBuf[1] = Data(n, 1) => n \in Known
    BY <1>1 DEF KnownInv
  <2>. QED  BY <1>1, <2>1, <2>2, ExecutedStay
<1>3. BytesInv'
  BY <1>1, BytesStay
<1>4. ServeInv'
  BY <1>1, ServedStays
<1>5. AnswerInv'
  BY <1>1, AnswersStay
<1>. QED  BY <1>2, <1>3, <1>4, <1>5 DEF RInv

\* Before eMBInit nothing has been sent.
LEMMA InitRests == Init => RInv
<1>. SUFFICES ASSUME Init PROVE RInv
  OBVIOUS
<1>1. AtRestInv /\ BytesInv /\ ServeInv /\ AnswerInv
  BY DEF Init, AtRestInv, BytesInv, ServeInv, AnswerInv, Serving, Unserved, Hearing
<1>2. ucRTUBuf[1] = Noise
  <2>1. 1 \in 0 .. MB_SER_PDU_SIZE_MAX - 1
    BY Size
  <2>. QED  BY <2>1 DEF Init
<1>3. KnownInv
  <2>1. \A n \in Nat \ {0} : ucRTUBuf[1] # Data(n, 1)
    BY <1>2, BytesDiffer
  <2>2. executed \in Seq(Nat) /\ Len(executed) = 0
    BY DEF Init
  <2>. QED  BY <2>1, <2>2 DEF KnownInv
<1>. QED  BY <1>1, <1>3 DEF RInv

\* eMBInit, whether it succeeds or fails.
LEMMA InitializesRests ==
  ASSUME IInv, RInv, NEW address \in InitAddresses, Initializes(address),
         event' \in {"none", event}
  PROVE  RInv'
<1>1. /\ eMBState = "NOT_INITIALIZED" /\ failed = "none"
      /\ UNCHANGED <<rcvVars, ucRTUBuf, eBytePos, pollVars, lineVars, histVars>>
  BY DEF Initializes, Running
<1>2. /\ eRcvState' = eRcvState /\ usRcvBufferPos' = usRcvBufferPos /\ ucRTUBuf' = ucRTUBuf
      /\ eBytePos' = eBytePos /\ pc' = pc /\ sent' = sent /\ out' = out
      /\ executed' = executed /\ answered' = answered /\ accepted' = accepted
      /\ disturbed' = disturbed
  BY <1>1 DEF rcvVars, pollVars, lineVars, histVars
<1>3. eMBCurrentMode = "none" /\ pc = "poll" /\ eRcvState = "INIT" /\ sent = <<>>
  <2>1. eMBCurrentMode = "none" /\ pc = "poll"
    BY <1>1 DEF IInv, MInv, StackInv, Enabled
  <2>. QED  BY <2>1 DEF IInv, MInv, MachineInv, LineInv
<1>4. event = "none" /\ event' = "none"
  BY <1>1 DEF RInv, AnswerInv
<1>5. ~ Serving' /\ ~ Unserved' /\ ~ Hearing'
  BY <1>2, <1>3, <1>4 DEF Serving, Unserved, Hearing
<1>6. AtRestInv' /\ BytesInv' /\ ServeInv'
  BY <1>2, <1>3, <1>4, <1>5 DEF AtRestInv, BytesInv, ServeInv
<1>7. KnownInv'
  <2>1. Known = {}
    BY <1>3 DEF Known
  <2>2. /\ \A n \in Nat \ {0} : ucRTUBuf[1] # Data(n, 1)
        /\ executed \in Seq(Nat)
        /\ \A i \in 1 .. Len(executed) : executed[i] = 0
    BY <2>1 DEF RInv, KnownInv
  <2>. QED  BY <1>2, <2>2 DEF KnownInv
<1>8. AnswerInv'
  BY <1>2, <1>3, <1>4, <1>5 DEF RInv, AnswerInv
<1>. QED  BY <1>6, <1>7, <1>8 DEF RInv

\* eMBEnable: the receiver hears nothing yet.
LEMMA EnableRests ==
  ASSUME IInv, RInv, eMBEnable
  PROVE  RInv'
<1>1. /\ pc = "poll" /\ pc' = "enable" /\ eMBState' = "DISABLED"
      /\ UNCHANGED <<stackVars, ucRcvAddress, usLength, lineVars, histVars>>
  BY DEF eMBEnable, stackVars
<1>2. /\ eRcvState' \in {"INIT", "IDLE"} /\ event' = event
      /\ UNCHANGED <<usRcvBufferPos, ucRTUBuf, eBytePos>>
  BY DEF eMBEnable, ByMode, RTU!eMBRTUStart, ASCII!eMBASCIIStart
<1>3. /\ eMBCurrentMode' = eMBCurrentMode /\ ucMBAddress' = ucMBAddress
      /\ sent' = sent /\ out' = out /\ accepted' = accepted /\ disturbed' = disturbed
      /\ executed' = executed /\ answered' = answered
  BY <1>1 DEF stackVars, lineVars, histVars
<1>4. FramesKept
  BY <1>1, <1>3, FramesStay
<1>5. ~ Hearing'
  BY <1>2 DEF Hearing
<1>6. /\ Unserved' => Unserved
      /\ Written' => Written
      /\ Serving' => Serving
  BY <1>1, <1>2, <1>3, <1>5 DEF Unserved, Written, Serving
<1>7. AtRestInv'
  BY <1>1, <1>2, <1>3, <1>5 DEF RInv, AtRestInv
<1>. QED  BY <1>1, <1>2, <1>3, <1>4, <1>6, <1>7, BufferStays

\* eMBEnable returns: the event it posts is not that of a frame.
LEMMA EnableEndsRests ==
  ASSUME IInv, RInv, EnableEnds
  PROVE  RInv'
<1>1. /\ pc = "enable" /\ pc' = "poll" /\ eMBState' = "ENABLED"
      /\ event' \in {event, "READY"}
      /\ UNCHANGED <<rcvVars, ucRTUBuf, eBytePos, eMBCurrentMode, ucMBAddress,
                     ucRcvAddress, usLength, lineVars, histVars>>
  BY DEF EnableEnds, ByMode, xMBPortEventPost
<1>2. /\ eRcvState' = eRcvState /\ usRcvBufferPos' = usRcvBufferPos
      /\ sent' = sent /\ out' = out /\ accepted' = accepted /\ disturbed' = disturbed
      /\ executed' = executed /\ answered' = answered
  BY <1>1 DEF rcvVars, lineVars, histVars
<1>3. FramesKept
  BY <1>1, <1>2, FramesStay
<1>4. /\ Hearing' = Hearing /\ (Unserved' => Unserved) /\ (Written' => Written)
      /\ Serving' => Serving
  BY <1>1, <1>2 DEF Hearing, Unserved, Written, Serving
<1>5. AtRestInv'
  BY <1>1, <1>2, <1>4 DEF RInv, AtRestInv
<1>. QED  BY <1>1, <1>2, <1>3, <1>4, <1>5, BufferStays

\* eMBDisable leaves the buffer as it is.
LEMMA DisableRests ==
  ASSUME IInv, RInv, eMBDisable
  PROVE  RInv'
<1>1. /\ pc = "poll" /\ eMBState' = "DISABLED" /\ sent' = Spoilt
      /\ UNCHANGED <<eMBCurrentMode, ucMBAddress, pollVars, out>>
      /\ UNCHANGED <<accepted, disturbed, executed, answered>>
  BY DEF eMBDisable
<1>2. UNCHANGED <<eRcvState, event, usRcvBufferPos, ucRTUBuf, eBytePos>>
  BY DEF eMBDisable, ByMode, RTU!eMBRTUStop, ASCII!eMBASCIIStop, rcvVars, RTU!rcvVars,
         ASCII!rcvVars
<1>3. /\ pc' = pc /\ ucRcvAddress' = ucRcvAddress /\ usLength' = usLength
      /\ out' = out /\ accepted' = accepted /\ disturbed' = disturbed
      /\ executed' = executed /\ answered' = answered
  BY <1>1 DEF pollVars
<1>4. FramesKept
  BY <1>1, <1>3, FramesStay
<1>5. Hearing' = Hearing /\ Unserved' = Unserved /\ Written' = Written /\ Serving' = Serving
  BY <1>2, <1>3 DEF Hearing, Unserved, Written, Serving
<1>6. AtRestInv'
  BY <1>2, <1>3, <1>5 DEF RInv, AtRestInv
<1>. QED  BY <1>1, <1>2, <1>3, <1>4, <1>5, <1>6, BufferStays

\* An event is taken from the queue.
LEMMA GetEventRests ==
  ASSUME IInv, RInv, GetEvent
  PROVE  RInv'
<1>1. /\ pc = "poll" /\ eMBState = "ENABLED" /\ event' = "none"
      /\ pc' = CASE event = "FRAME_RECEIVED" -> "receive"
                 [] event = "EXECUTE"        -> "execute"
                 [] OTHER                    -> "poll"
      /\ UNCHANGED <<rcvVars, ucRTUBuf, eBytePos, stackVars, ucRcvAddress, usLength,
                     lineVars, histVars>>
  BY DEF GetEvent
<1>2. /\ eRcvState' = eRcvState /\ usRcvBufferPos' = usRcvBufferPos
      /\ eMBState' = eMBState /\ eMBCurrentMode' = eMBCurrentMode
      /\ ucMBAddress' = ucMBAddress /\ sent' = sent /\ out' = out
      /\ accepted' = accepted /\ disturbed' = disturbed
      /\ executed' = executed /\ answered' = answered
  BY <1>1 DEF rcvVars, stackVars, lineVars, histVars
<1>3. FramesKept
  BY <1>2, FramesStay
<1>4. /\ pc' = "receive" => event = "FRAME_RECEIVED"
      /\ pc' = "execute" => event = "EXECUTE"
      /\ pc' \in {"receive", "execute", "poll"}
  BY <1>1
<1>5. /\ Hearing' = Hearing /\ (Unserved' => Unserved) /\ Written' = Written
      /\ Serving' => Serving
  BY <1>1, <1>2, <1>4 DEF Hearing, Unserved, Written, Serving
<1>6. AtRestInv'
  BY <1>1, <1>2, <1>5 DEF RInv, AtRestInv
<1>. QED  BY <1>1, <1>2, <1>3, <1>4, <1>5, <1>6, BufferStays

\* A request that was accepted waits to be executed.
LEMMA PostExecuteRests ==
  ASSUME IInv, RInv, PostExecute
  PROVE  RInv'
<1>1. /\ pc = "post" /\ pc' = "poll" /\ event' = "EXECUTE"
      /\ UNCHANGED <<rcvVars, ucRTUBuf, eBytePos, stackVars, ucRcvAddress, usLength,
                     lineVars, histVars>>
  BY DEF PostExecute, xMBPortEventPost
<1>2. /\ eRcvState' = eRcvState /\ usRcvBufferPos' = usRcvBufferPos
      /\ eMBState' = eMBState /\ eMBCurrentMode' = eMBCurrentMode
      /\ ucMBAddress' = ucMBAddress /\ sent' = sent /\ out' = out
      /\ accepted' = accepted /\ disturbed' = disturbed
      /\ executed' = executed /\ answered' = answered
  BY <1>1 DEF rcvVars, stackVars, lineVars, histVars
<1>3. FramesKept
  BY <1>2, FramesStay
<1>4. Serving /\ Hearing' = Hearing /\ (Unserved' => Hearing) /\ Written' = Written
  BY <1>1, <1>2 DEF Hearing, Unserved, Written, Serving
<1>5. ~ disturbed => ~ Hearing
  BY <1>4 DEF RInv, AtRestInv
<1>6. AtRestInv'
  BY <1>1, <1>2, <1>4, <1>5 DEF AtRestInv
<1>7. eMBState = "ENABLED"
  BY <1>1 DEF IInv, MInv, StackInv, Enabled
<1>. QED  BY <1>1, <1>2, <1>3, <1>4, <1>5, <1>6, <1>7, BufferStays

\* The transmitter only reads the buffer.
LEMMA TransmitterRests ==
  ASSUME IInv, RInv, TransmitterEmpty
  PROVE  RInv'
<1>1. /\ eRcvState = "IDLE" /\ eMBState = "ENABLED"
      /\ UNCHANGED <<rcvVars, ucRTUBuf, stackVars, pollVars, lineVars, histVars>>
      /\ event' \in {event, "FRAME_SENT"}
  BY TransmitterFrame, TransmitterSteps
<1>2. /\ eRcvState' = eRcvState /\ usRcvBufferPos' = usRcvBufferPos
      /\ eMBState' = eMBState /\ eMBCurrentMode' = eMBCurrentMode
      /\ ucMBAddress' = ucMBAddress /\ sent' = sent /\ out' = out
      /\ pc' = pc /\ usLength' = usLength /\ ucRcvAddress' = ucRcvAddress
      /\ accepted' = accepted /\ disturbed' = disturbed
      /\ executed' = executed /\ answered' = answered
  BY <1>1 DEF rcvVars, stackVars, pollVars, lineVars, histVars
<1>3. FramesKept
  BY <1>2, FramesStay
<1>4. /\ Hearing' = Hearing /\ (Unserved' => Unserved) /\ (Written' => Written)
      /\ Serving' => Serving
  BY <1>1, <1>2 DEF Hearing, Unserved, Written, Serving
<1>5. AtRestInv'
  BY <1>1, <1>2, <1>4 DEF RInv, AtRestInv
<1>. QED  BY <1>1, <1>2, <1>3, <1>4, <1>5, BufferStays

\* A frame begins on the line, not yet in the buffer.
LEMMA BeginFrameRests ==
  ASSUME IInv, RInv, BeginFrame
  PROVE  RInv'
<1>1. UNCHANGED <<serialVars, stackVars, pollVars, histVars>>
  BY DEF BeginFrame
<1>2. /\ eRcvState' = eRcvState /\ usRcvBufferPos' = usRcvBufferPos /\ ucRTUBuf' = ucRTUBuf
      /\ eBytePos' = eBytePos /\ event' = event
      /\ eMBState' = eMBState /\ ucMBAddress' = ucMBAddress
      /\ pc' = pc /\ usLength' = usLength /\ ucRcvAddress' = ucRcvAddress
      /\ accepted' = accepted /\ disturbed' = disturbed
      /\ executed' = executed /\ answered' = answered
  BY <1>1 DEF serialVars, rcvVars, stackVars, pollVars, histVars
<1>3. FramesKept
  BY NewFrame
<1>4. Hearing' = Hearing /\ Unserved' = Unserved /\ Written' = Written /\ Serving' = Serving
  BY <1>2 DEF Hearing, Unserved, Written, Serving
<1>5. AtRestInv' /\ (eMBState' = "NOT_INITIALIZED" => event' = "none")
  BY <1>2, <1>4 DEF RInv, AtRestInv, AnswerInv
<1>. QED  BY <1>2, <1>3, <1>4, <1>5, BufferStays

\* What neither the machines nor the line bring about.
LEMMA MachinesRest ==
  ASSUME IInv, RInv, SameMachines, sent' \in {sent, Spoilt}, out' \in {out, out + 1},
         UNCHANGED <<accepted, disturbed, executed, answered>>
  PROVE  RInv'
<1>1. /\ eRcvState' = eRcvState /\ usRcvBufferPos' = usRcvBufferPos /\ ucRTUBuf' = ucRTUBuf
      /\ eBytePos' = eBytePos /\ event' = event
      /\ eMBState' = eMBState /\ ucMBAddress' = ucMBAddress
      /\ eMBCurrentMode' = eMBCurrentMode
      /\ pc' = pc /\ usLength' = usLength /\ ucRcvAddress' = ucRcvAddress
  BY DEF SameMachines, rcvVars, stackVars, pollVars
<1>2. FramesKept
  BY <1>1, FramesStay
<1>3. Hearing' = Hearing /\ Unserved' = Unserved /\ Written' = Written /\ Serving' = Serving
  BY <1>1 DEF Hearing, Unserved, Written, Serving
<1>4. AtRestInv' /\ (eMBState' = "NOT_INITIALIZED" => event' = "none")
  BY <1>1, <1>3 DEF RInv, AtRestInv, AnswerInv
<1>. QED  BY <1>1, <1>2, <1>3, <1>4, BufferStays

\* The timer tells the end of a frame.
LEMMA TimerRests ==
  ASSUME IInv, RInv, TimerExpired \/ PauseInFrame
  PROVE  RInv'
<1>1. /\ Running /\ Expire /\ sent' \in {sent, Spoilt}
      /\ UNCHANGED <<stackVars, pollVars, histVars, out>>
  BY DEF TimerExpired, PauseInFrame, Fault, Expire
<1>2. /\ eMBState' = eMBState /\ eMBCurrentMode' = eMBCurrentMode
      /\ ucMBAddress' = ucMBAddress
      /\ pc' = pc /\ usLength' = usLength /\ ucRcvAddress' = ucRcvAddress
      /\ accepted' = accepted /\ disturbed' = disturbed
      /\ executed' = executed /\ answered' = answered /\ out' = out
  BY <1>1 DEF stackVars, pollVars, histVars
<1>3. CASE SameMachines
  BY <1>1, <1>2, <1>3, MachinesRest
<1>4. CASE /\ eRcvState' = "IDLE" /\ event' \in {event, "READY", "FRAME_RECEIVED"}
           /\ event' # "FRAME_RECEIVED" \/ event' = event \/ eRcvState = "RCV"
           /\ UNCHANGED <<usRcvBufferPos, ucRTUBuf, eBytePos>>
  <2>1. FramesKept
    BY <1>1, <1>2, FramesStay
  <2>2. eMBState # "NOT_INITIALIZED"
    BY <1>1, ExpireIs DEF IInv, MInv, StackInv
  <2>3. /\ ~ Hearing' /\ (Unserved' => Unserved) /\ (Written' => Written)
        /\ Serving' => Serving
    BY <1>2, <1>4 DEF Hearing, Unserved, Written, Serving
  <2>4. AtRestInv'
    <3>. SUFFICES ASSUME ~ disturbed, event' = "FRAME_RECEIVED"
                  PROVE  pc \in {"poll", "enable", "receive", "post"}
      BY <1>2, <2>3 DEF AtRestInv
    <3>1. CASE event' = event
      BY <3>1 DEF RInv, AtRestInv
    <3>2. CASE eRcvState = "RCV"
      <4>1. ~ Serving
        BY <3>2 DEF RInv, AtRestInv, Hearing
      <4>. QED  BY <4>1 DEF Serving, IInv, MInv, StackInv
    <3>. QED  BY <1>4, <3>1, <3>2
  <2>. QED  BY <1>2, <1>4, <2>1, <2>2, <2>3, <2>4, BufferStays
<1>. QED  BY <1>1, <1>3, <1>4, ExpireIs

\* A character is not heard.
LEMMA LoseCharacterRests ==
  ASSUME IInv, RInv, LoseCharacter
  PROVE  RInv'
<1>1. /\ Fault /\ out' = out + 1
      /\ UNCHANGED <<serialVars, stackVars, pollVars, histVars>>
  BY DEF LoseCharacter
<1>2. SameMachines /\ UNCHANGED <<accepted, disturbed, executed, answered>>
  BY <1>1 DEF SameMachines, serialVars, histVars
<1>. QED  BY <1>1, <1>2, FaultIs, MachinesRest

-----------------------------------------------------------------------------
(***************************************************************************)
(* A frame is received.  What is accepted of a buffer that nothing has     *)
(* disturbed is the frame that the bytes of its checksum tell of.          *)
(***************************************************************************)
LEMMA ReceiveFrameIs ==
  ASSUME IInv, RInv, ReceiveFrame
  PROVE  /\ UNCHANGED <<eRcvState, usRcvBufferPos, ucRTUBuf, eBytePos, event>>
         /\ UNCHANGED <<stackVars, lineVars, executed, answered, reply>>
         /\ ~ Serving /\ Unserved /\ eMBState = "ENABLED"
         /\ \/ SameMachines /\ UNCHANGED <<accepted, disturbed>>
            \/ pc' = "poll" /\ UNCHANGED <<accepted, disturbed>>
            \/ /\ pc' = "post" /\ disturbed' = (disturbed \/ Hearing)
               /\ ForUs(ucRcvAddress') /\ accepted' \in 0 .. Len(sent)
               /\ accepted' # 0 => sent[accepted'].addr = ucRcvAddress'
               /\ ~ disturbed =>
                    /\ accepted' \in 1 .. Len(sent) /\ Newer(accepted')
                    /\ usLength' = sent[accepted'].len - 1 - SumSize
                    /\ \A i \in 1 .. usLength' : ucRTUBuf[i] = Data(accepted', i)
<1>1. /\ pc = "receive" /\ event # "EXECUTE" /\ eMBState = "ENABLED"
      /\ UNCHANGED <<stackVars, lineVars, executed, answered, reply, overheard>>
  BY DEF ReceiveFrame, IInv, MInv, EventInv, StackInv, Enabled
<1>2. ~ Serving /\ Unserved
  BY <1>1 DEF Serving, Unserved
<1>3. CASE ~ ByMode(RTU!ReceiveAsserted, ASCII!ReceiveAsserted)
  <2>1. Abort("frame fills the buffer") /\ UNCHANGED <<pollVars, accepted, disturbed>>
    BY <1>3 DEF ReceiveFrame
  <2>2. SameMachines /\ UNCHANGED <<eRcvState, usRcvBufferPos, ucRTUBuf, eBytePos, event>>
    BY <1>1, <2>1 DEF Abort, SameMachines, rcvVars
  <2>. QED  BY <1>1, <1>2, <2>1, <2>2
<1>4. CASE ByMode(RTU!ReceiveAsserted, ASCII!ReceiveAsserted)
  <2>1. /\ UNCHANGED serialVars
        /\ IF ByMode(RTU!FrameReceived, ASCII!FrameReceived) THEN Received ELSE NotReceived
    BY <1>4 DEF ReceiveFrame
  <2>2. UNCHANGED <<eRcvState, usRcvBufferPos, ucRTUBuf, eBytePos, event>>
    BY <2>1 DEF serialVars, rcvVars
  <2>3. CASE pc' = "poll" /\ UNCHANGED <<accepted, disturbed>>
    BY <1>1, <1>2, <2>2, <2>3
  <2>4. CASE ~ (pc' = "poll" /\ UNCHANGED <<accepted, disturbed>>)
    <3>. DEFINE l == ByMode(RTU!PDULength, ASCII!PDULength)
                a == Address(ucRTUBuf[0])
    <3>1. /\ ByMode(RTU!FrameReceived, ASCII!FrameReceived)
          /\ usLength' = l /\ ucRcvAddress' = a
          /\ ForUs(ucRcvAddress') /\ pc' = "post"
          /\ accepted' = SentTo(ucRcvAddress', Content(usLength'))
          /\ disturbed' = (disturbed \/ Hearing)
      BY <2>1, <2>4 DEF Received, NotReceived, MB_SER_PDU_ADDR_OFF
    <3>2. accepted' = SentTo(a, Content(l))
      BY <3>1
    <3>3. l \in Nat
      BY <1>1, <1>4, <3>1, ReceivedLength DEF IInv, MInv, StackInv
    <3>4. LineInv
      BY DEF IInv
    <3>5. ~ disturbed =>
            \E n \in 1 .. Len(sent) :
              /\ a = sent[n].addr /\ Content(l) = n /\ Newer(n)
              /\ l = sent[n].len - 1 - SumSize
              /\ \A i \in 1 .. l : ucRTUBuf[i] = Data(n, i)
      <4>. SUFFICES ASSUME ~ disturbed
                    PROVE  \E n \in 1 .. Len(sent) :
                             /\ a = sent[n].addr /\ Content(l) = n /\ Newer(n)
                             /\ l = sent[n].len - 1 - SumSize
                             /\ \A i \in 1 .. l : ucRTUBuf[i] = Data(n, i)
        OBVIOUS
      <4>1. /\ \A i \in 0 .. usRcvBufferPos - 1 : ucRTUBuf[i] \in LineBytes
            /\ NoPads
            /\ \A n \in 1 .. Len(sent) : Written /\ ucRTUBuf[1] = Data(n, 1) => Newer(n)
        BY <1>2 DEF RInv, BytesInv
      <4>. HIDE DEF l
      <4>2. /\ usRcvBufferPos >= 3
            /\ \E n \in 1 .. Len(sent) :
                 /\ l = sent[n].len - 1 - SumSize /\ ucRTUBuf[0] = Addr(sent[n].addr)
                 /\ \A i \in 1 .. l : ucRTUBuf[i] = Data(n, i)
        BY <3>1, <4>1, WholeFrameFound DEF l
      <4>3. PICK n \in 1 .. Len(sent) :
              /\ l = sent[n].len - 1 - SumSize /\ ucRTUBuf[0] = Addr(sent[n].addr)
              /\ \A i \in 1 .. l : ucRTUBuf[i] = Data(n, i)
        BY <4>2
      <4>4. Content(l) = n
        BY <3>4, <4>3, ContentFound
      <4>5. a = sent[n].addr
        BY <4>3, BytesTell
      <4>6. Newer(n)
        <5>1. Written
          BY <4>2, Size DEF Written, IInv, MInv, BoundsInv
        <5>2. 1 \in 1 .. l
          BY <3>4, <4>3, FrameIs
        <5>. QED  BY <4>1, <4>3, <5>1, <5>2
      <4>. QED  BY <4>3, <4>4, <4>5, <4>6
    <3>. HIDE DEF l, a
    <3>6. SentTo(a, Content(l)) \in 0 .. Len(sent)
      BY <3>3, <3>4, ContentIs
    <3>7. accepted' # 0 => sent[accepted'].addr = a
      BY <3>2 DEF SentTo
    <3>8. ~ disturbed =>
            /\ accepted' \in 1 .. Len(sent) /\ Newer(accepted')
            /\ usLength' = sent[accepted'].len - 1 - SumSize
            /\ \A i \in 1 .. usLength' : ucRTUBuf[i] = Data(accepted', i)
      <4>. SUFFICES ASSUME ~ disturbed
                    PROVE  /\ accepted' \in 1 .. Len(sent) /\ Newer(accepted')
                           /\ usLength' = sent[accepted'].len - 1 - SumSize
                           /\ \A i \in 1 .. usLength' : ucRTUBuf[i] = Data(accepted', i)
        OBVIOUS
      <4>1. PICK n \in 1 .. Len(sent) :
              /\ a = sent[n].addr /\ Content(l) = n /\ Newer(n)
              /\ l = sent[n].len - 1 - SumSize
              /\ \A i \in 1 .. l : ucRTUBuf[i] = Data(n, i)
        BY <3>5
      <4>2. accepted' = n
        BY <3>2, <4>1 DEF SentTo
      <4>. QED  BY <3>1, <4>1, <4>2
    <3>. QED  BY <1>1, <1>2, <2>2, <3>1, <3>2, <3>6, <3>7, <3>8
  <2>. QED  BY <2>3, <2>4
<1>. QED  BY <1>3, <1>4

\* Receiving keeps the invariant.
LEMMA ReceiveFrameRests ==
  ASSUME IInv, RInv, ReceiveFrame
  PROVE  RInv'
<1>. DEFINE Accepts ==
              /\ pc' = "post" /\ disturbed' = (disturbed \/ Hearing)
              /\ ForUs(ucRcvAddress') /\ accepted' \in 0 .. Len(sent)
              /\ accepted' # 0 => sent[accepted'].addr = ucRcvAddress'
              /\ ~ disturbed =>
                   /\ accepted' \in 1 .. Len(sent) /\ Newer(accepted')
                   /\ usLength' = sent[accepted'].len - 1 - SumSize
                   /\ \A i \in 1 .. usLength' : ucRTUBuf[i] = Data(accepted', i)
<1>1. /\ UNCHANGED <<eRcvState, usRcvBufferPos, ucRTUBuf, eBytePos, event>>
      /\ UNCHANGED <<stackVars, lineVars, executed, answered, reply>>
      /\ ~ Serving /\ Unserved /\ eMBState = "ENABLED"
      /\ \/ SameMachines /\ UNCHANGED <<accepted, disturbed>>
         \/ pc' = "poll" /\ UNCHANGED <<accepted, disturbed>>
         \/ Accepts
  BY ReceiveFrameIs
<1>2. /\ eMBState' = "ENABLED" /\ eMBCurrentMode' = eMBCurrentMode
      /\ ucMBAddress' = ucMBAddress /\ sent' = sent /\ out' = out
      /\ executed' = executed /\ answered' = answered
      /\ eRcvState' = eRcvState /\ usRcvBufferPos' = usRcvBufferPos /\ ucRTUBuf' = ucRTUBuf
      /\ eBytePos' = eBytePos /\ event' = event
  BY <1>1 DEF stackVars, lineVars
<1>3. FramesKept
  BY <1>2, FramesStay
<1>4. Hearing' = Hearing /\ Written' = Written /\ event' # "EXECUTE"
  BY <1>1, <1>2 DEF Hearing, Written, Serving
<1>5. LineInv /\ BytesInv /\ KnownInv /\ ServeInv /\ AnswerInv
  BY DEF IInv, RInv
<1>6. CASE SameMachines /\ UNCHANGED <<accepted, disturbed>>
  BY <1>2, <1>6, MachinesRest
<1>7. KnownInv'
  <2>1. \A n \in Nat \ {0} : ucRTUBuf[1] = Data(n, 1) => n \in Known'
    BY <1>3, <1>5, KnownStays DEF KnownInv
  <2>. QED  BY <1>2, <1>3, <1>5, <2>1, ExecutedStay
<1>8. CASE pc' = "poll" /\ UNCHANGED <<accepted, disturbed>>
  <2>1. ~ Serving'
    BY <1>4, <1>8 DEF Serving
  <2>2. AtRestInv'
    BY <1>8, <2>1 DEF AtRestInv
  <2>3. BytesInv'
    BY <1>1, <1>2, <1>3, <1>4, <1>5, <1>8, BytesStay
  <2>4. ServeInv'
    BY <1>4, <1>8 DEF ServeInv
  <2>5. AnswerInv'
    BY <1>2, <1>3, <1>5, <1>8, <2>1, AnswersStay
  <2>. QED  BY <1>7, <2>2, <2>3, <2>4, <2>5 DEF RInv
<1>9. CASE Accepts
  <2>1. AtRestInv'
    BY <1>4, <1>9 DEF AtRestInv
  <2>2. BytesInv'
    BY <1>1, <1>2, <1>3, <1>4, <1>5, <1>9, BytesStay
  <2>3. ServeInv'
    <3>1. ~ disturbed' => ~ disturbed
      BY <1>9
    <3>2. SumSize' = SumSize
      BY <1>3, <1>5, KnownStays
    <3>. QED  BY <1>2, <1>9, <3>1, <3>2 DEF ServeInv, Newer
  <2>4. AnswerInv'
    BY <1>2, <1>5, <1>9 DEF AnswerInv, ForUs
  <2>. QED  BY <1>7, <2>1, <2>2, <2>3, <2>4 DEF RInv
<1>. QED  BY <1>1, <1>6, <1>8, <1>9

\* The second byte of a frame, if it has a PDU at all.
LEMMA SecondByteIs ==
  ASSUME NEW a, NEW bytes, NEW n \in Nat, NEW size \in Nat, size >= 1
  PROVE  LET whole == WholeFrame(a, bytes, n, size)
         IN  whole[2] = bytes[1] \/ \E s, k : whole[2] = Sum(s, k)
<1>. DEFINE pdu     == [i \in 1 .. n |-> bytes[i]]
            message == <<Addr(a)>> \o pdu
            sum     == [k \in 1 .. size |-> Sum(message, k)]
            B       == {Addr(a)} \cup { bytes[i] : i \in 1 .. n }
                         \cup { Sum(message, k) : k \in 1 .. size }
<1>1. <<Addr(a)>> \in Seq(B) /\ pdu \in Seq(B) /\ sum \in Seq(B)
  <2>1. Addr(a) \in B /\ (\A i \in 1 .. n : bytes[i] \in B)
        /\ \A k \in 1 .. size : Sum(message, k) \in B
    OBVIOUS
  <2>. HIDE DEF B, message
  <2>. QED  BY <2>1
<1>2. /\ Len(<<Addr(a)>>) = 1 /\ Len(pdu) = n /\ Len(sum) = size
      /\ \A i \in 1 .. n : pdu[i] = bytes[i]
  OBVIOUS
<1>3. sum[1] = Sum(message, 1)
  <2>. HIDE DEF message
  <2>. QED  OBVIOUS
<1>4. WholeFrame(a, bytes, n, size) = message \o sum
  BY DEF WholeFrame, WithSum
<1>. HIDE DEF sum, pdu, B
<1>5. message \in Seq(B) /\ Joins(message, <<Addr(a)>>, pdu)
  BY <1>1, ConcatenationIs
<1>. HIDE DEF message
<1>6. Joins(message \o sum, message, sum)
  BY <1>1, <1>5, ConcatenationIs
<1>7. CASE n = 0
  <2>1. Len(message) = 1
    BY <1>2, <1>5, <1>7 DEF Joins
  <2>2. 1 \in 1 .. Len(sum) /\ Len(message) + 1 = 2
    BY <1>2, <2>1
  <2>3. (message \o sum)[2] = sum[1]
    BY <1>6, <2>2 DEF Joins
  <2>. QED  BY <1>3, <1>4, <2>3
<1>8. CASE n # 0
  <2>1. Len(message) = n + 1 /\ 1 \in 1 .. n /\ 2 \in 1 .. n + 1
    BY <1>2, <1>5, <1>8 DEF Joins
  <2>2. (message \o sum)[2] = message[2]
    BY <1>6, <2>1 DEF Joins
  <2>3. message[1 + 1] = pdu[1]
    BY <1>2, <1>5, <2>1 DEF Joins
  <2>. QED  BY <1>2, <1>4, <2>1, <2>2, <2>3
<1>. QED  BY <1>7, <1>8

-----------------------------------------------------------------------------
(***************************************************************************)
(* A request is executed: the one that was accepted, if nothing disturbed  *)
(* it, and never one whose first byte has yet to come.                     *)
(***************************************************************************)
LEMMA ExecuteIs ==
  ASSUME IInv, RInv, Execute
  PROVE  /\ executed' = Append(executed, Content(usLength))
         /\ Content(usLength) = 0 \/ Content(usLength) \in Known
         /\ ~ disturbed =>
              /\ Content(usLength) = accepted /\ accepted \in 1 .. Len(sent)
              /\ Newer(accepted)
         /\ executed' \in Seq(Nat) /\ Len(executed') = Len(executed) + 1
         /\ \A i \in 1 .. Len(executed) : executed'[i] = executed[i]
         /\ executed'[Len(executed) + 1] = Content(usLength)
         /\ Len(executed) \in Nat
<1>1. pc = "execute" /\ executed' = Append(executed, Content(usLength))
  BY DEF Execute
<1>2. LineInv /\ KnownInv /\ ServeInv /\ usLength \in Nat
  BY DEF IInv, RInv, MInv, BoundsInv
<1>. DEFINE n == Content(usLength)
<1>3. (n = 0 \/ n \in Known) /\ n \in Nat
  <2>1. n = 0 \/ n \in Known
    BY <1>2, ContentIsKnown
  <2>2. Len(sent) \in Nat /\ n \in 0 .. Len(sent)
    BY <1>2 DEF LineInv, Content
  <2>. QED  BY <2>1, <2>2
<1>4. ~ disturbed => n = accepted /\ accepted \in 1 .. Len(sent) /\ Newer(accepted)
  <2>. SUFFICES ASSUME ~ disturbed
                PROVE  n = accepted /\ accepted \in 1 .. Len(sent) /\ Newer(accepted)
    OBVIOUS
  <2>1. /\ accepted \in 1 .. Len(sent) /\ Newer(accepted)
        /\ usLength = sent[accepted].len - 1 - SumSize
        /\ \A i \in 1 .. usLength : ucRTUBuf[i] = Data(accepted, i)
    BY <1>1, <1>2 DEF ServeInv
  <2>2. n = accepted
    BY <1>2, <2>1, ContentFound
  <2>. QED  BY <2>1, <2>2
<1>. HIDE DEF n
<1>5. executed \in Seq(Nat) /\ executed' = Append(executed, n)
  BY <1>1, <1>2 DEF KnownInv, n
<1>6. /\ executed' \in Seq(Nat) /\ Len(executed') = Len(executed) + 1
      /\ \A i \in 1 .. Len(executed) : executed'[i] = executed[i]
      /\ executed'[Len(executed) + 1] = n /\ Len(executed) \in Nat
  BY <1>3, <1>5
<1>. QED  BY <1>1, <1>3, <1>4, <1>6 DEF n

\* The handler's reply is no PDU of the masters.
LEMMA ExecuteRests ==
  ASSUME IInv, RInv, Execute
  PROVE  RInv'
<1>1. /\ pc = "execute" /\ pc' = IF Answered THEN "send" ELSE "poll"
      /\ Reply(usLength, Len(executed'))
      /\ UNCHANGED <<rcvVars, sndVars, eBytePos, portVars, event, failed, stackVars,
                     ucRcvAddress, lineVars, accepted, disturbed, answered>>
  BY DEF Execute
<1>2. /\ eRcvState' = eRcvState /\ usRcvBufferPos' = usRcvBufferPos
      /\ eBytePos' = eBytePos /\ event' = event /\ ucRcvAddress' = ucRcvAddress
      /\ eMBState' = eMBState /\ eMBCurrentMode' = eMBCurrentMode
      /\ ucMBAddress' = ucMBAddress /\ sent' = sent /\ out' = out
      /\ accepted' = accepted /\ disturbed' = disturbed /\ answered' = answered
  BY <1>1 DEF rcvVars, stackVars, lineVars
<1>3. event # "EXECUTE" /\ eMBState = "ENABLED"
  BY <1>1 DEF IInv, MInv, EventInv, StackInv, Enabled
<1>4. /\ Serving /\ pc' \in {"send", "poll"} /\ Hearing' = Hearing /\ Known' = Known
  BY <1>1, <1>2 DEF Serving, Hearing, Known, IsRTU
<1>5. ~ disturbed => event # "FRAME_RECEIVED" /\ ~ Hearing /\ ~ Unserved'
  <2>. SUFFICES ASSUME ~ disturbed
                PROVE  event # "FRAME_RECEIVED" /\ ~ Hearing /\ ~ Unserved'
    OBVIOUS
  <2>1. event # "FRAME_RECEIVED" /\ ~ Hearing
    BY <1>1, <1>4 DEF RInv, AtRestInv
  <2>. QED  BY <1>2, <1>4, <2>1 DEF Unserved
<1>6. AtRestInv' /\ BytesInv' /\ ServeInv'
  BY <1>2, <1>3, <1>4, <1>5 DEF AtRestInv, BytesInv, ServeInv
<1>7. /\ Content(usLength) = 0 \/ Content(usLength) \in Known
      /\ executed' \in Seq(Nat) /\ Len(executed') = Len(executed) + 1
      /\ \A i \in 1 .. Len(executed) : executed'[i] = executed[i]
      /\ executed'[Len(executed) + 1] = Content(usLength)
      /\ Len(executed) \in Nat
  BY ExecuteIs
<1>8. KnownInv'
  <2>1. \A n \in Nat \ {0} : ucRTUBuf'[1] = Data(n, 1) => n \in Known
    <3>. SUFFICES ASSUME NEW n \in Nat \ {0}, ucRTUBuf'[1] = Data(n, 1)
                  PROVE  n \in Known
      OBVIOUS
    <3>1. CASE ucRTUBuf'[1] = ucRTUBuf[1]
      BY <3>1 DEF RInv, KnownInv
    <3>2. CASE ucRTUBuf'[1] # ucRTUBuf[1]
      <4>. DEFINE number == Len(executed')
      <4>1. PICK k \in ReplyLengths :
              ucRTUBuf' = [i \in DOMAIN ucRTUBuf |->
                             IF i \in 1 .. k THEN Data(-number, i) ELSE ucRTUBuf[i]]
        BY <1>1, <3>2 DEF Reply
      <4>. HIDE DEF number
      <4>2. 1 \in DOMAIN ucRTUBuf
        BY Size DEF IInv, MInv, BoundsInv
      <4>3. ucRTUBuf'[1] = Data(-number, 1)
        BY <3>2, <4>1, <4>2
      <4>4. n = -number
        BY <3>2, <4>3, BytesTell
      <4>. QED  BY <1>7, <4>4 DEF number
    <3>. QED  BY <3>1, <3>2
  <2>2. \A i \in 1 .. Len(executed') : executed'[i] = 0 \/ executed'[i] \in Known
    <3>. TAKE i \in 1 .. Len(executed')
    <3>1. CASE i \in 1 .. Len(executed)
      BY <1>7, <3>1 DEF RInv, KnownInv
    <3>2. CASE i = Len(executed) + 1
      BY <1>7, <3>2
    <3>. QED  BY <1>7, <3>1, <3>2
  <2>. QED  BY <1>4, <1>7, <2>1, <2>2 DEF KnownInv
<1>9. AnswerInv'
  <2>1. /\ ForUs(ucRcvAddress) /\ (accepted # 0 => sent[accepted].addr = ucRcvAddress)
        /\ answered \in Seq(Nat)
        /\ \A i \in 1 .. Len(answered) : answered[i] <= Len(executed)
    BY <1>4 DEF RInv, AnswerInv
  <2>2. \A i \in 1 .. Len(answered) : answered[i] < Len(executed') /\ answered[i] <= Len(executed')
    <3>. TAKE i \in 1 .. Len(answered)
    <3>1. answered[i] \in Nat /\ answered[i] <= Len(executed)
      BY <2>1
    <3>. QED  BY <1>7, <3>1
  <2>3. pc' = "send" => Answered /\ executed' # <<>>
    BY <1>1, <1>7
  <2>4. (ForUs(ucRcvAddress))' /\ (accepted # 0 => sent[accepted].addr = ucRcvAddress)'
    BY <1>2, <2>1 DEF ForUs
  <2>5. (pc = "send" => Answered /\ executed # <<>>)'
    BY <1>2, <2>3 DEF Answered
  <2>. QED  BY <1>2, <1>3, <2>1, <2>2, <2>4, <2>5 DEF AnswerInv
<1>. QED  BY <1>6, <1>8, <1>9 DEF RInv

\* The reply goes out, or is dropped.
LEMMA SendReplyIs ==
  ASSUME IInv, RInv, SendReply
  PROVE  /\ pc = "send" /\ pc' = "poll" /\ event # "EXECUTE" /\ eMBState = "ENABLED"
         /\ UNCHANGED <<stackVars, ucRcvAddress, usLength, lineVars, accepted, disturbed,
                        executed>>
         /\ UNCHANGED <<eRcvState, usRcvBufferPos, eBytePos, event>>
         /\ answered' \in {answered, Append(answered, Len(executed))}
         /\ \A n : ucRTUBuf'[1] = Data(n, 1) => ucRTUBuf[1] = Data(n, 1)
<1>1. /\ pc = "send" /\ pc' = "poll" /\ event # "EXECUTE" /\ eMBState = "ENABLED"
      /\ UNCHANGED <<stackVars, ucRcvAddress, usLength, lineVars, accepted, disturbed,
                     executed>>
      /\ answered' \in {answered, Append(answered, Len(executed))}
  BY DEF SendReply, IInv, MInv, EventInv, StackInv, Enabled
<1>2. CASE eRcvState # "IDLE"
  BY <1>1, <1>2 DEF SendReply, ByMode, RTU!eMBRTUSend, ASCII!eMBASCIISend, RTU!serialVars,
       RTU!rcvVars, RTU!sndVars, RTU!portVars, ASCII!serialVars, ASCII!rcvVars, ASCII!sndVars,
       ASCII!portVars, serialVars, rcvVars, sndVars, portVars
<1>3. CASE eRcvState = "IDLE"
  <2>. DEFINE whole == WholeFrame(ucMBAddress, ucRTUBuf, usLength, SumSize)
  <2>1. /\ ucRTUBuf' = [i \in DOMAIN ucRTUBuf |->
                               IF i < Len(whole) THEN whole[i + 1] ELSE ucRTUBuf[i]]
        /\ UNCHANGED <<eRcvState, usRcvBufferPos, eBytePos, event>>
    BY <1>3, SendIs DEF rcvVars
  <2>2. usLength \in Nat /\ SumSize \in {1, 2}
    BY SumSizeIs DEF IInv, MInv, BoundsInv
  <2>3. Len(whole) = usLength + 1 + SumSize
    <3>1. usLength \in Nat /\ SumSize \in Nat
      BY <2>2
    <3>. QED  BY <3>1, WholeFrameLength
  <2>4. whole[2] = ucRTUBuf[1] \/ \E s, k : whole[2] = Sum(s, k)
    BY <2>2, SecondByteIs
  <2>5. 1 \in DOMAIN ucRTUBuf
    BY Size DEF IInv, MInv, BoundsInv
  <2>. HIDE DEF whole
  <2>6. ucRTUBuf'[1] = whole[2]
    BY <2>1, <2>2, <2>3, <2>5
  <2>7. \A n : ucRTUBuf'[1] = Data(n, 1) => ucRTUBuf[1] = Data(n, 1)
    BY <2>4, <2>6, BytesDiffer
  <2>. QED  BY <1>1, <2>1, <2>7
<1>. QED  BY <1>2, <1>3

\* Nor is the frame that is sent.
LEMMA SendReplyRests ==
  ASSUME IInv, RInv, SendReply
  PROVE  RInv'
<1>1. /\ pc = "send" /\ pc' = "poll" /\ event # "EXECUTE" /\ eMBState = "ENABLED"
      /\ UNCHANGED <<stackVars, ucRcvAddress, usLength, lineVars, accepted, disturbed,
                     executed>>
      /\ UNCHANGED <<eRcvState, usRcvBufferPos, eBytePos, event>>
      /\ answered' \in {answered, Append(answered, Len(executed))}
      /\ \A n : ucRTUBuf'[1] = Data(n, 1) => ucRTUBuf[1] = Data(n, 1)
  BY SendReplyIs
<1>2. /\ eMBState' = "ENABLED" /\ eMBCurrentMode' = eMBCurrentMode
      /\ ucMBAddress' = ucMBAddress /\ sent' = sent /\ out' = out
  BY <1>1 DEF stackVars, lineVars
<1>3. Serving /\ ~ Serving' /\ Hearing' = Hearing /\ Known' = Known
  BY <1>1, <1>2 DEF Serving, Hearing, Known, IsRTU
<1>4. ~ disturbed => ~ Unserved'
  <2>1. ~ disturbed => event # "FRAME_RECEIVED" /\ ~ Hearing
    BY <1>1, <1>3 DEF RInv, AtRestInv
  <2>. QED  BY <1>1, <1>3, <2>1 DEF Unserved
<1>5. AtRestInv' /\ BytesInv' /\ ServeInv'
  BY <1>1, <1>3, <1>4 DEF AtRestInv, BytesInv, ServeInv
<1>6. KnownInv'
  BY <1>1, <1>3 DEF RInv, KnownInv
<1>7. AnswerInv'
  <2>1. /\ answered \in Seq(Nat)
        /\ \A i \in 1 .. Len(answered) : answered[i] <= Len(executed)
    BY DEF RInv, AnswerInv
  <2>2. Len(executed) \in Nat
    BY DEF RInv, KnownInv
  <2>3. /\ answered' \in Seq(Nat)
        /\ \A i \in 1 .. Len(answered') : answered'[i] <= Len(executed)
    <3>1. CASE answered' = answered
      BY <2>1, <3>1
    <3>2. CASE answered' = Append(answered, Len(executed))
      <4>. DEFINE k == Len(executed)
      <4>1. k \in Nat
        BY <2>2
      <4>. HIDE DEF k
      <4>2. /\ answered' = Append(answered, k)
            /\ \A i \in 1 .. Len(answered) : answered[i] <= k
        BY <2>1, <3>2 DEF k
      <4>3. answered' \in Seq(Nat) /\ Len(answered') = Len(answered) + 1
        BY <2>1, <4>1, <4>2
      <4>4. \A i \in 1 .. Len(answered') : answered'[i] <= k
        BY <2>1, <4>1, <4>2, <4>3
      <4>. QED  BY <4>3, <4>4 DEF k
    <3>. QED  BY <1>1, <3>1, <3>2
  <2>. QED  BY <1>1, <1>2, <1>3, <2>3 DEF AnswerInv
<1>. QED  BY <1>5, <1>6, <1>7 DEF RInv

-----------------------------------------------------------------------------
(***************************************************************************)
(* A character is heard.  It carries a byte of the line, and the first     *)
(* byte of a PDU only as that of the last frame comes.                     *)
(***************************************************************************)
Novel(n) ==
  n = Len(sent) /\ sent # <<>> /\ out = (IF IsRTU THEN 1 ELSE 3) /\ out' = out + 1

Plausible(c) ==
  /\ IsRTU => c \in LineBytes /\ \A n : c = Data(n, 1) => Novel(n)
  /\ IsASCII => /\ c.nibble \in {"high", "low"} => c.of \in LineBytes
                /\ \A n : c.nibble = "high" /\ c.of = Data(n, 1) => Novel(n)

\* What either receiver makes of it.
Hears(c) ==
  /\ \A n : ucRTUBuf'[1] = Data(n, 1) => ucRTUBuf[1] = Data(n, 1) \/ Novel(n)
  /\ \/ /\ Begins(c) /\ ~ Written' /\ NoPads'
        /\ \A i \in 0 .. usRcvBufferPos' - 1 : ucRTUBuf'[i] \in LineBytes
     \/ /\ ~ Begins(c) /\ (Unserved' => Unserved)
        /\ NoPads /\ ~ Padding(c) => NoPads'
        /\ (\A i \in 0 .. usRcvBufferPos - 1 : ucRTUBuf[i] \in LineBytes)
             => \A i \in 0 .. usRcvBufferPos' - 1 : ucRTUBuf'[i] \in LineBytes
        /\ \A n : Written' /\ ucRTUBuf'[1] = Data(n, 1) =>
             Novel(n) \/ (Written /\ ucRTUBuf[1] = Data(n, 1))

\* The receiver of RTU.
LEMMA RtuHears ==
  ASSUME IInv, NEW c, IsRTU, RtuStep(c), Plausible(c), UNCHANGED <<pc, eMBCurrentMode>>,
         eBytePos' = eBytePos, event' = event
  PROVE  Hears(c)
<1>1. /\ DOMAIN ucRTUBuf = 0 .. MB_SER_PDU_SIZE_MAX - 1 /\ 0 \in DOMAIN ucRTUBuf
      /\ 1 \in DOMAIN ucRTUBuf /\ usRcvBufferPos \in Nat /\ MB_SER_PDU_SIZE_MAX \in Nat
  BY Size DEF IInv, MInv, BoundsInv
<1>2. /\ c \in LineBytes /\ (\A n : c = Data(n, 1) => Novel(n))
      /\ Begins(c) = (eRcvState = "IDLE") /\ eBytePos = "high"
      /\ IsRTU' /\ (Padding(c) <=> eRcvState = "RCV" /\ Pad(c))
  <2>1. (\A b : Pad(b) <=> b \in {Zero, Addr(0)}) /\ RTU!Zeros = {Zero, Addr(0)}
    BY DEF Pad, RTU!Zeros, RTU!Zero, RTU!Addr, Zero, Addr
  <2>. QED
    BY <2>1 DEF Plausible, Begins, Padding, ByMode, IsRTU, IInv, MInv, MachineInv
<1>3. CASE RTU!FirstByte(c)
  <2>1. /\ eRcvState = "IDLE" /\ ucRTUBuf' = [ucRTUBuf EXCEPT ![0] = c]
        /\ usRcvBufferPos' = 1
    BY <1>3 DEF RTU!FirstByte, RTU!Store
  <2>2. ~ Written'
    BY <1>2, <2>1 DEF Written
  <2>3. ucRTUBuf'[0] = c /\ ucRTUBuf'[1] = ucRTUBuf[1]
    BY <1>1, <2>1
  <2>4. \A i \in 0 .. usRcvBufferPos' - 1 : i = 0
    BY <2>1
  <2>5. NoPads'
    BY <1>2, <2>4 DEF NoPads
  <2>. QED  BY <1>2, <2>1, <2>2, <2>3, <2>4, <2>5 DEF Hears
<1>4. CASE RTU!NextByte(c)
  <2>. DEFINE p == usRcvBufferPos
  <2>1. /\ eRcvState = "RCV" /\ ucRTUBuf' = [ucRTUBuf EXCEPT ![p] = c]
        /\ usRcvBufferPos' = p + 1 /\ p < MB_SER_PDU_SIZE_MAX
    BY <1>4 DEF RTU!NextByte, RTU!Store
  <2>2. p \in DOMAIN ucRTUBuf /\ p \in Nat
    BY <1>1, <2>1
  <2>. HIDE DEF p
  <2>3. ucRTUBuf'[p] = c /\ \A i \in DOMAIN ucRTUBuf : i # p => ucRTUBuf'[i] = ucRTUBuf[i]
    BY <2>1, <2>2
  <2>4. ~ Begins(c) /\ Unserved
    BY <1>2, <2>1 DEF Unserved, Hearing
  <2>5. (\A i \in 0 .. p - 1 : ucRTUBuf[i] \in LineBytes)
          => \A i \in 0 .. usRcvBufferPos' - 1 : ucRTUBuf'[i] \in LineBytes
    <3>. SUFFICES ASSUME \A i \in 0 .. p - 1 : ucRTUBuf[i] \in LineBytes,
                         NEW i \in 0 .. usRcvBufferPos' - 1
                  PROVE  ucRTUBuf'[i] \in LineBytes
      OBVIOUS
    <3>1. i = p \/ (i \in 0 .. p - 1 /\ i \in DOMAIN ucRTUBuf /\ i # p)
      BY <1>1, <2>1, <2>2
    <3>. QED  BY <1>2, <2>3, <3>1
  <2>6. \A n : ucRTUBuf'[1] = Data(n, 1) => ucRTUBuf[1] = Data(n, 1) \/ Novel(n)
    BY <1>1, <1>2, <2>3
  <2>7. ASSUME NEW n, Written', ucRTUBuf'[1] = Data(n, 1)
        PROVE  Novel(n) \/ (Written /\ ucRTUBuf[1] = Data(n, 1))
    <3>1. p + 1 >= 2
      BY <1>2, <2>1, <2>7 DEF Written
    <3>2. CASE p = 1
      BY <1>2, <2>3, <2>7, <3>2
    <3>3. CASE p # 1
      <4>1. Written
        BY <2>2, <3>1, <3>3 DEF Written, p
      <4>. QED  BY <1>1, <2>3, <2>7, <3>3, <4>1
    <3>. QED  BY <3>2, <3>3
  <2>8. NoPads /\ ~ Padding(c) => NoPads'
    <3>. SUFFICES ASSUME \A i \in 0 .. p - 1 : Pad(ucRTUBuf[i]) => IsRTU /\ i = 0,
                         ~ Pad(c), NEW i \in 0 .. usRcvBufferPos' - 1, i # 0
                  PROVE  ~ Pad(ucRTUBuf'[i])
      BY <1>2, <2>1 DEF NoPads, Pad, p
    <3>1. i = p \/ (i \in 0 .. p - 1 /\ i \in DOMAIN ucRTUBuf /\ i # p)
      BY <1>1, <2>1, <2>2
    <3>. QED  BY <2>3, <3>1
  <2>. QED  BY <2>4, <2>5, <2>6, <2>7, <2>8 DEF Hears, p
<1>5. CASE RTU!ByteTooMany \/ RTU!ByteIgnored
  <2>1. /\ UNCHANGED <<usRcvBufferPos, ucRTUBuf>> /\ eRcvState # "IDLE"
        /\ eRcvState' = "ERROR" \/ eRcvState' = eRcvState
    BY <1>5 DEF RTU!ByteTooMany, RTU!ByteIgnored, RTU!rcvVars
  <2>2. ~ Begins(c) /\ (Unserved' => Unserved) /\ (Written' => Written)
    BY <1>2, <2>1 DEF Unserved, Written, Hearing
  <2>3. NoPads => NoPads'
    BY <1>2, <2>1 DEF NoPads, Pad
  <2>. QED  BY <2>1, <2>2, <2>3 DEF Hears
<1>. QED  BY <1>3, <1>4, <1>5 DEF RtuStep

\* The receiver of ASCII, which makes a byte of two characters.
LEMMA AsciiHears ==
  ASSUME IInv, NEW c, IsASCII, AsciiStep(c), Plausible(c), UNCHANGED <<pc, eMBCurrentMode>>
  PROVE  Hears(c)
<1>. DEFINE p == usRcvBufferPos
<1>1. /\ DOMAIN ucRTUBuf = 0 .. MB_SER_PDU_SIZE_MAX - 1 /\ 1 \in DOMAIN ucRTUBuf
      /\ p \in Nat /\ MB_SER_PDU_SIZE_MAX \in Nat
  BY Size DEF IInv, MInv, BoundsInv
<1>2. /\ c.nibble \in {"high", "low"} => c.of \in LineBytes
      /\ \A n : c.nibble = "high" /\ c.of = Data(n, 1) => Novel(n)
      /\ Begins(c) = (c = ASCII!COLON)
      /\ ~ IsRTU /\ ~ IsRTU' /\ (Padding(c) <=> eRcvState = "RCV" /\ c.of = Zero)
      /\ \A b : (Pad(b) <=> b = Zero) /\ (Pad(b)' <=> b = Zero)
  BY DEF Plausible, Begins, Padding, Pad, ByMode, IsASCII, IsRTU
<1>3. ASCII!CR # ASCII!COLON /\ ASCII!LF # ASCII!COLON /\ \A n : Data(n, 1) # Noise
      /\ ASCII!Noise = Noise /\ Zero # Noise
  BY BytesDiffer DEF ASCII!CR, ASCII!COLON, ASCII!LF, ASCII!Control, ASCII!Noise, Noise
<1>4. CASE ASCII!Begin(c)
  <2>1. /\ c = ASCII!COLON /\ usRcvBufferPos' = 0 /\ eBytePos' = "high"
        /\ ucRTUBuf' = ucRTUBuf
    BY <1>4 DEF ASCII!Begin
  <2>2. Begins(c)
    BY <2>1 DEF Begins, ByMode, IsASCII
  <2>3. ~ Written'
    BY <2>1 DEF Written
  <2>4. \A i \in 0 .. usRcvBufferPos' - 1 : ucRTUBuf'[i] \in LineBytes
    BY <2>1
  <2>5. NoPads'
    BY <2>1 DEF NoPads
  <2>. QED  BY <2>1, <2>2, <2>3, <2>4, <2>5 DEF Hears
<1>5. CASE \/ ASCII!IdleIgnores(c) \/ ASCII!EndOfData(c) \/ ASCII!ByteTooMany(c)
           \/ ASCII!EndOfFrame(c) \/ ASCII!NoEndOfFrame(c)
  <2>1. /\ UNCHANGED <<usRcvBufferPos, ucRTUBuf, eBytePos>> /\ c # ASCII!COLON
        /\ \/ eRcvState' = eRcvState /\ event' = event
           \/ eRcvState \in {"RCV", "WAIT_EOF"} /\ eRcvState' \in {"IDLE", "WAIT_EOF"}
    BY <1>3, <1>5
    DEF ASCII!IdleIgnores, ASCII!EndOfData, ASCII!ByteTooMany, ASCII!EndOfFrame,
        ASCII!NoEndOfFrame, ASCII!rcvVars
  <2>2. ~ Begins(c) /\ (Unserved' => Unserved) /\ (Written' => Written)
    BY <1>2, <2>1 DEF Unserved, Written, Hearing
  <2>3. NoPads => NoPads'
    BY <1>2, <2>1 DEF NoPads
  <2>. QED  BY <2>1, <2>2, <2>3 DEF Hears
<1>6. CASE ASCII!FirstDigit(c)
  <2>1. /\ eRcvState = "RCV" /\ c # ASCII!COLON /\ p < MB_SER_PDU_SIZE_MAX
        /\ ucRTUBuf' = [ucRTUBuf EXCEPT ![p] = ASCII!HighNibble(c)]
        /\ usRcvBufferPos' = p /\ eRcvState' = "RCV"
    BY <1>6 DEF ASCII!FirstDigit, ASCII!Store, ASCII!rcvVars
  <2>2. p \in DOMAIN ucRTUBuf
    BY <1>1, <2>1
  <2>3. /\ ucRTUBuf'[p] = ASCII!HighNibble(c)
        /\ \A i \in DOMAIN ucRTUBuf : i # p => ucRTUBuf'[i] = ucRTUBuf[i]
    <3>. HIDE DEF p
    <3>. QED  BY <2>1, <2>2
  <2>4. ~ Begins(c) /\ Unserved
    BY <1>2, <2>1 DEF Unserved, Hearing
  <2>5. \A n : ASCII!HighNibble(c) = Data(n, 1) => Novel(n)
    BY <1>2, <1>3 DEF ASCII!HighNibble
  <2>6. \A n : ucRTUBuf'[1] = Data(n, 1) => ucRTUBuf[1] = Data(n, 1) \/ Novel(n)
    BY <1>1, <2>3, <2>5
  <2>7. \A i \in 0 .. p - 1 : ucRTUBuf'[i] = ucRTUBuf[i]
    BY <1>1, <2>1, <2>3
  <2>8. ASSUME NEW n, Written', ucRTUBuf'[1] = Data(n, 1)
        PROVE  Novel(n) \/ (Written /\ ucRTUBuf[1] = Data(n, 1))
    <3>1. CASE p = 1
      BY <2>3, <2>5, <2>8, <3>1
    <3>2. CASE p # 1
      <4>1. p >= 2
        BY <1>1, <2>1, <2>8, <3>2 DEF Written
      <4>2. Written
        BY <4>1 DEF Written
      <4>. QED  BY <1>1, <2>3, <2>8, <3>2, <4>2
    <3>. QED  BY <3>1, <3>2
  <2>9. NoPads => NoPads'
    BY <1>2, <2>1, <2>7 DEF NoPads
  <2>. QED  BY <2>1, <2>4, <2>6, <2>7, <2>8, <2>9 DEF Hears
<1>7. CASE ASCII!SecondDigit(c)
  <2>. DEFINE b == ASCII!LowNibble(ucRTUBuf[p], c)
  <2>1. /\ eRcvState = "RCV" /\ c # ASCII!COLON /\ eBytePos = "low"
        /\ ucRTUBuf' = [ucRTUBuf EXCEPT ![p] = b]
        /\ usRcvBufferPos' = p + 1
        /\ eRcvState' = "RCV" /\ eBytePos' = "high"
    BY <1>7 DEF ASCII!SecondDigit, ASCII!Store
  <2>2. p \in DOMAIN ucRTUBuf
    BY <1>1, <2>1 DEF IInv, MInv, LowDigitInv
  <2>3. /\ b \in LineBytes /\ \A n : b = Data(n, 1) => ucRTUBuf[p] = Data(n, 1)
        /\ b = Zero => Padding(c)
    BY <1>2, <1>3, <2>1 DEF ASCII!LowNibble, LineBytes
  <2>. HIDE DEF b
  <2>4. /\ ucRTUBuf'[p] = b
        /\ \A i \in DOMAIN ucRTUBuf : i # p => ucRTUBuf'[i] = ucRTUBuf[i]
    <3>. HIDE DEF p
    <3>. QED  BY <2>1, <2>2
  <2>5. ~ Begins(c) /\ Unserved
    BY <1>2, <2>1 DEF Unserved, Hearing
  <2>6. \A n : ucRTUBuf'[1] = Data(n, 1) => ucRTUBuf[1] = Data(n, 1)
    BY <1>1, <2>3, <2>4
  <2>7. (\A i \in 0 .. p - 1 : ucRTUBuf[i] \in LineBytes)
          => \A i \in 0 .. usRcvBufferPos' - 1 : ucRTUBuf'[i] \in LineBytes
    <3>. SUFFICES ASSUME \A i \in 0 .. p - 1 : ucRTUBuf[i] \in LineBytes,
                         NEW i \in 0 .. usRcvBufferPos' - 1
                  PROVE  ucRTUBuf'[i] \in LineBytes
      OBVIOUS
    <3>1. i = p \/ (i \in 0 .. p - 1 /\ i \in DOMAIN ucRTUBuf /\ i # p)
      BY <1>1, <2>1, <2>2
    <3>. QED  BY <2>3, <2>4, <3>1
  <2>8. Written' => Written
    <3>1. Written' => p + 1 >= 2
      BY <2>1 DEF Written
    <3>. QED  BY <1>1, <2>1, <3>1 DEF Written
  <2>9. NoPads /\ ~ Padding(c) => NoPads'
    <3>. SUFFICES ASSUME \A i \in 0 .. p - 1 : ucRTUBuf[i] # Zero, b # Zero,
                         NEW i \in 0 .. usRcvBufferPos' - 1
                  PROVE  ucRTUBuf'[i] # Zero
      BY <1>2, <2>3 DEF NoPads
    <3>1. i = p \/ (i \in 0 .. p - 1 /\ i \in DOMAIN ucRTUBuf /\ i # p)
      BY <1>1, <2>1, <2>2
    <3>. QED  BY <2>4, <3>1
  <2>. QED  BY <2>5, <2>6, <2>7, <2>8, <2>9 DEF Hears
<1>. QED  BY <1>4, <1>5, <1>6, <1>7 DEF AsciiStep

\* The first byte of a PDU is newer than what was executed.
LEMMA NovelIsNewer ==
  ASSUME LineInv, KnownInv, NEW n, Novel(n)
  PROVE  Newer(n) /\ n \in Nat /\ (FramesKept /\ Len(sent') = Len(sent) => n \in Known')
<1>1. n \in 1 .. Len(sent) /\ Len(sent) \in Nat
  BY DEF Novel, LineInv
<1>2. n \notin Known
  BY DEF Novel, Known
<1>3. Newer(n)
  <2>. SUFFICES ASSUME NEW i \in 1 .. Len(executed)
                PROVE  executed[i] < n
    BY DEF Newer
  <2>1. executed[i] = 0 \/ executed[i] \in Known
    BY DEF KnownInv
  <2>2. \A k \in Known : k \in 1 .. Len(sent)
    BY DEF Known
  <2>. QED  BY <1>1, <1>2, <2>1, <2>2 DEF Novel
<1>4. ASSUME FramesKept, Len(sent') = Len(sent)
      PROVE  n \in Known'
  <2>1. IsRTU' = IsRTU /\ out' > (IF IsRTU THEN 1 ELSE 3)
    BY <1>4 DEF FramesKept, IsRTU, Novel
  <2>. QED  BY <1>1, <1>4, <2>1 DEF Known
<1>. QED  BY <1>1, <1>3, <1>4

\* A message is a sequence of its bytes.
LEMMA MessageIsSequence ==
  ASSUME LineInv, NEW n \in 1 .. Len(sent)
  PROVE  Message(n) = [i \in 1 .. sent[n].len - SumSize |-> Message(n)[i]]
<1>. DEFINE L == sent[n].len - 1 - SumSize
            C == {Addr(sent[n].addr)} \cup { Data(n, i) : i \in 1 .. L }
            f == [i \in 1 .. L |-> Data(n, i)]
<1>1. L \in Nat /\ Len(Message(n)) = sent[n].len - SumSize
  BY FrameIs
<1>2. <<Addr(sent[n].addr)>> \in Seq(C) /\ f \in Seq(C)
  <2>1. Addr(sent[n].addr) \in C /\ \A i \in 1 .. L : Data(n, i) \in C
    OBVIOUS
  <2>. HIDE DEF C, L
  <2>. QED  BY <1>1, <2>1
<1>3. Message(n) = <<Addr(sent[n].addr)>> \o f
  BY DEF Message
<1>. HIDE DEF f, C
<1>4. Message(n) \in Seq(C)
  BY <1>2, <1>3
<1>. QED  BY <1>1, <1>4

\* A character that is heard keeps the invariant, unless an assertion fails.
LEMMA HeardRests ==
  ASSUME IInv, RInv, NEW c, Running, Heard(c), Running', sent' \in {sent, Spoilt},
         out' \in {out, out + 1}, rxOn => Plausible(c)
  PROVE  RInv'
<1>1. /\ UNCHANGED <<stackVars, pollVars, accepted, executed, answered>>
      /\ rxOn => disturbed' = (Serving \/ Padding(c) \/ (disturbed /\ ~ Begins(c)))
      /\ ~ rxOn => disturbed' = disturbed
      /\ disturbed \in BOOLEAN
  BY DEF Heard, IInv, HistoryInv
<1>2. /\ eMBState' = eMBState /\ eMBCurrentMode' = eMBCurrentMode
      /\ ucMBAddress' = ucMBAddress
      /\ pc' = pc /\ usLength' = usLength /\ ucRcvAddress' = ucRcvAddress
      /\ accepted' = accepted /\ executed' = executed /\ answered' = answered
  BY <1>1 DEF stackVars, pollVars
<1>3. FramesKept
  BY <1>2, FramesStay
<1>4. CASE ~ rxOn
  <2>1. SameMachines /\ disturbed' = disturbed
    BY <1>1, <1>4, HeardIs
  <2>. QED  BY <1>2, <2>1, MachinesRest
<1>5. CASE rxOn
  <2>1. /\ \/ /\ IsRTU /\ RtuStep(c)
              /\ timer' = TRUE /\ eBytePos' = eBytePos /\ event' = event
           \/ IsASCII /\ AsciiStep(c)
        /\ eMBState # "NOT_INITIALIZED" /\ Plausible(c)
    BY <1>5, HeardIs DEF Running, IInv, MInv, StackInv, Enabled
  <2>2. Hears(c)
    BY <1>2, <2>1, RtuHears, AsciiHears
  <2>3. event' \in {event, "FRAME_RECEIVED"}
    BY <1>5, <2>1, AsciiStepKeeps
  <2>4. Serving' => Serving
    BY <1>2, <2>3 DEF Serving
  <2>5. LineInv /\ BytesInv /\ KnownInv /\ ServeInv /\ AnswerInv
    BY DEF IInv, RInv
  <2>6. Len(sent') = Len(sent) /\ Len(sent) \in Nat
    BY <2>5, SpoiltIs DEF LineInv
  <2>7. KnownInv'
    <3>1. \A n \in Nat \ {0} : ucRTUBuf'[1] = Data(n, 1) => n \in Known'
      <4>. SUFFICES ASSUME NEW n \in Nat \ {0}, ucRTUBuf'[1] = Data(n, 1)
                    PROVE  n \in Known'
        OBVIOUS
      <4>1. CASE ucRTUBuf[1] = Data(n, 1)
        BY <1>3, <2>5, <4>1, KnownStays DEF KnownInv
      <4>2. CASE Novel(n)
        BY <1>3, <2>5, <2>6, <4>2, NovelIsNewer
      <4>. QED  BY <2>2, <4>1, <4>2 DEF Hears
    <3>. QED  BY <1>2, <1>3, <2>5, <3>1, ExecutedStay
  <2>8. AnswerInv'
    BY <1>2, <1>3, <2>1, <2>4, <2>5, AnswersStay
  <2>9. CASE Serving
    <3>1. disturbed'
      BY <1>1, <1>5, <2>9
    <3>2. AtRestInv' /\ BytesInv' /\ ServeInv'
      BY <3>1 DEF AtRestInv, BytesInv, ServeInv
    <3>. QED  BY <2>7, <2>8, <3>2 DEF RInv
  <2>10. CASE ~ Serving
    <3>1. ~ disturbed' => ~ Padding(c) /\ (~ disturbed \/ Begins(c))
      BY <1>1, <1>5, <2>10
    <3>2. /\ ~ Serving' /\ pc' \in {"poll", "enable", "receive"}
          /\ pc' \notin {"post", "execute"} /\ event' # "EXECUTE"
      BY <1>2, <2>3, <2>10 DEF Serving, IInv, MInv, StackInv
    <3>3. AtRestInv' /\ ServeInv'
      BY <3>2 DEF AtRestInv, ServeInv
    <3>4. BytesInv'
      <4>. SUFFICES ASSUME ~ disturbed', Unserved'
                    PROVE  /\ \A i \in 0 .. usRcvBufferPos' - 1 : ucRTUBuf'[i] \in LineBytes'
                           /\ NoPads'
                           /\ \A n \in 1 .. Len(sent) :
                                Written' /\ ucRTUBuf'[1] = Data(n, 1) => Newer(n)'
        BY <2>6 DEF BytesInv
      <4>1. LineBytes \subseteq LineBytes' /\ \A n : Newer(n)' = Newer(n)
        BY <1>2, <1>3, <2>5, KnownStays DEF Newer
      <4>2. CASE /\ Begins(c) /\ ~ Written' /\ NoPads'
                 /\ \A i \in 0 .. usRcvBufferPos' - 1 : ucRTUBuf'[i] \in LineBytes
        BY <4>1, <4>2
      <4>3. CASE ~ Begins(c)
        <5>1. /\ ~ disturbed /\ Unserved /\ (NoPads => NoPads')
              /\ (\A i \in 0 .. usRcvBufferPos - 1 : ucRTUBuf[i] \in LineBytes)
                   => \A i \in 0 .. usRcvBufferPos' - 1 : ucRTUBuf'[i] \in LineBytes
              /\ \A n : Written' /\ ucRTUBuf'[1] = Data(n, 1) =>
                   Novel(n) \/ (Written /\ ucRTUBuf[1] = Data(n, 1))
          BY <2>2, <3>1, <4>3 DEF Hears
        <5>2. /\ \A i \in 0 .. usRcvBufferPos - 1 : ucRTUBuf[i] \in LineBytes
              /\ NoPads
              /\ \A n \in 1 .. Len(sent) : Written /\ ucRTUBuf[1] = Data(n, 1) => Newer(n)
          BY <2>5, <5>1 DEF BytesInv
        <5>3. \A n \in 1 .. Len(sent) : Written' /\ ucRTUBuf'[1] = Data(n, 1) => Newer(n)
          BY <2>5, <5>1, <5>2, NovelIsNewer
        <5>. QED  BY <4>1, <5>1, <5>2, <5>3
      <4>. QED  BY <2>2, <4>2, <4>3 DEF Hears
    <3>. QED  BY <2>7, <2>8, <3>3, <3>4 DEF RInv
  <2>. QED  BY <2>9, <2>10
<1>. QED  BY <1>4, <1>5

\* The bytes of a frame, and where the first byte of its PDU is.
LEMMA FrameBytesAre ==
  ASSUME LineInv, NEW n \in 1 .. Len(sent)
  PROVE  LET whole == WithSum(Message(n), SumSize)
         IN  /\ Characters(n) = Encoded(whole) /\ Len(whole) = sent[n].len
             /\ \A i \in 1 .. sent[n].len :
                  /\ whole[i] \in LineBytes
                  /\ \A m : whole[i] = Data(m, 1) => m = n /\ i = 2
<1>. DEFINE L == sent[n].len - 1 - SumSize
            m == Message(n)
            s == SumSize
            sums == [k \in 1 .. s |-> Sum(m, k)]
            B == { m[i] : i \in 1 .. L + 1 } \cup { Sum(m, k) : k \in 1 .. s }
<1>1. /\ sent[n].len \in Nat /\ L \in Nat /\ L >= 1 /\ Len(m) = sent[n].len - s
      /\ m[1] = Addr(sent[n].addr)
      /\ \A i \in 1 .. L : m[i + 1] = Data(n, i)
  BY FrameIs
<1>2. s \in {1, 2}
  BY SumSizeIs
<1>3. m \in Seq(B) /\ sums \in Seq(B)
  <2>1. m = [i \in 1 .. L + 1 |-> m[i]]
    BY <1>1, MessageIsSequence, SumSizeIs
  <2>2. \A i \in 1 .. L + 1 : m[i] \in B
    OBVIOUS
  <2>3. \A k \in 1 .. s : Sum(m, k) \in B
    OBVIOUS
  <2>. HIDE DEF B, m, L, s
  <2>4. m \in Seq(B)
    BY <1>1, <2>1, <2>2
  <2>. QED  BY <1>2, <2>3, <2>4
<1>4. Len(sums) = s /\ \A k \in 1 .. s : sums[k] = Sum(m, k)
  <2>. HIDE DEF m, s
  <2>. QED  BY <1>2
<1>5. WithSum(m, s) = m \o sums
  BY DEF WithSum
<1>6. Characters(n) = Encoded(WithSum(m, s))
  BY DEF Characters, Whole, Message
<1>. HIDE DEF sums, B
<1>7. Joins(m \o sums, m, sums)
  BY <1>3, ConcatenationIs
<1>9. sent[n].len = L + 1 + s
  <2>1. sent[n].len \in Nat /\ L = sent[n].len - 1 - SumSize
    BY <1>1
  <2>2. SumSize \in Nat /\ s = SumSize
    BY SumSizeIs
  <2>. HIDE DEF L, s
  <2>. QED  BY <2>1, <2>2
<1>8. /\ Len(m \o sums) = sent[n].len
      /\ (m \o sums)[1] = Addr(sent[n].addr)
      /\ \A i \in 1 .. L : (m \o sums)[i + 1] = Data(n, i)
      /\ \A k \in 1 .. s : (m \o sums)[L + 1 + k] = Sum(m, k)
  <2>. HIDE DEF m, s
  <2>1. Len(m) = L + 1
    BY <1>1, <1>2 DEF s
  <2>2. Len(m \o sums) = L + 1 + s
    BY <1>1, <1>4, <1>7, <2>1 DEF Joins
  <2>3. (m \o sums)[1] = m[1]
    <3>1. 1 \in 1 .. Len(m)
      BY <1>1, <2>1
    <3>. QED  BY <1>7, <3>1 DEF Joins
  <2>4. \A i \in 1 .. L : (m \o sums)[i + 1] = m[i + 1]
    <3>1. \A i \in 1 .. L : i + 1 \in 1 .. Len(m)
      BY <1>1, <2>1
    <3>. QED  BY <1>7, <3>1 DEF Joins
  <2>5. \A k \in 1 .. s : (m \o sums)[L + 1 + k] = sums[k]
    BY <1>4, <1>7, <2>1 DEF Joins
  <2>. QED  BY <1>1, <1>4, <1>9, <2>2, <2>3, <2>4, <2>5
<1>. HIDE DEF L, s, m
<1>10. ASSUME NEW i \in 1 .. sent[n].len
      PROVE  /\ (m \o sums)[i] \in LineBytes
             /\ \A k : (m \o sums)[i] = Data(k, 1) => k = n /\ i = 2
  <2>1. CASE i = 1
    <3>1. (m \o sums)[i] = Addr(sent[n].addr)
      BY <1>8, <2>1
    <3>2. Addr(sent[n].addr) \in LineBytes
      BY DEF LineBytes
    <3>. QED  BY <3>1, <3>2, BytesDiffer
  <2>2. CASE i \in 2 .. L + 1
    <3>. DEFINE j == i - 1
    <3>1. j \in 1 .. L /\ i = j + 1 /\ j \in Nat
      BY <1>1, <2>2
    <3>. HIDE DEF j
    <3>2. (m \o sums)[i] = Data(n, j)
      BY <1>8, <3>1
    <3>3. Data(n, j) \in LineBytes
      BY <3>1 DEF LineBytes
    <3>4. \A k : Data(n, j) = Data(k, 1) => k = n /\ j = 1
      BY BytesTell
    <3>. QED  BY <3>1, <3>2, <3>3, <3>4
  <2>3. CASE i > L + 1
    <3>. DEFINE j == i - 1 - L
    <3>1. j \in 1 .. s /\ i = L + 1 + j /\ j \in Nat
      BY <1>1, <1>2, <1>9, <2>3
    <3>. HIDE DEF j
    <3>2. (m \o sums)[i] = Sum(m, j)
      BY <1>8, <3>1
    <3>3. Sum(m, j) \in LineBytes
      BY <3>1 DEF LineBytes, m
    <3>4. \A k : Data(k, 1) # Sum(m, j)
      BY BytesDiffer
    <3>. QED  BY <3>2, <3>3, <3>4
  <2>4. i = 1 \/ i \in 2 .. L + 1 \/ i > L + 1
    BY <1>1
  <2>. QED  BY <2>1, <2>2, <2>3, <2>4
<1>. QED  BY <1>5, <1>6, <1>8, <1>10 DEF m, s

\* What a frame puts on the line carries its bytes.
LEMMA CharacterIsPlausible ==
  ASSUME IInv, InFrame, out' = out + 1
  PROVE  Plausible(Characters(Len(sent))[out + 1])
<1>. DEFINE n == Len(sent)
            whole == WithSum(Message(n), SumSize)
            len == sent[n].len
            s == Characters(n)
<1>1. /\ sent # <<>> /\ out + 1 <= LineLength(n) /\ LineInv /\ (IsRTU \/ IsASCII)
      /\ out \in Nat
  BY InFrameIs, FramesHaveMode DEF IInv, LineInv
<1>2. n \in 1 .. Len(sent) /\ len \in Nat /\ len >= 4
  BY <1>1, CharactersAre
<1>3. /\ s = Encoded(whole) /\ Len(whole) = len
      /\ \A i \in 1 .. len :
           /\ whole[i] \in LineBytes
           /\ \A m : whole[i] = Data(m, 1) => m = n /\ i = 2
  BY <1>1, <1>2, FrameBytesAre
<1>. HIDE DEF whole
<1>4. CASE IsRTU
  <2>1. s = whole /\ LineLength(n) = len /\ ~ IsASCII
    BY <1>3, <1>4 DEF Encoded, ByMode, IsRTU, IsASCII, RTU!Encoded, LineLength
  <2>. HIDE DEF s
  <2>2. out + 1 \in 1 .. len
    BY <1>1, <1>2, <2>1
  <2>3. whole[out + 1] \in LineBytes /\ \A m : whole[out + 1] = Data(m, 1) => Novel(m)
    BY <1>1, <1>3, <1>4, <2>2 DEF Novel
  <2>. QED  BY <2>1, <2>3 DEF Plausible, s
<1>5. CASE IsASCII
  <2>1. s = ASCII!Encoded(whole) /\ LineLength(n) = 2 * len + 3 /\ ~ IsRTU
    BY <1>3, <1>5 DEF Encoded, ByMode, IsRTU, IsASCII, LineLength
  <2>. HIDE DEF s, len
  <2>2. /\ s[1] = ASCII!COLON
        /\ s[2 * len + 2] = ASCII!CR /\ s[2 * len + 3] = ASCII!LF
        /\ \A k \in 0 .. len - 1 :
             /\ s[2 * k + 2] = ASCII!prvucMBBIN2CHAR(whole[k + 1], "high")
             /\ s[2 * k + 3] = ASCII!prvucMBBIN2CHAR(whole[k + 1], "low")
    <3>1. Len(whole) = len /\ len \in Nat
      BY <1>2, <1>3 DEF len
    <3>. QED  BY <2>1, <3>1, DigitsAre
  <2>3. CASE out = 0 \/ out = 2 * len + 1 \/ out = 2 * len + 2
    <3>1. s[out + 1].nibble = "none"
      BY <1>2, <2>2, <2>3 DEF ASCII!COLON, ASCII!CR, ASCII!LF, ASCII!Control
    <3>. QED  BY <2>1, <3>1 DEF Plausible, s
  <2>4. CASE out \in 1 .. 2 * len
    <3>. DEFINE k == (out - 1) \div 2
    <3>1. k \in 0 .. len - 1 /\ (out + 1 = 2 * k + 2 \/ out + 1 = 2 * k + 3)
      BY <1>1, <1>2, <2>4
    <3>. HIDE DEF k
    <3>2. k + 1 \in 1 .. len
      BY <1>2, <3>1
    <3>3. CASE out + 1 = 2 * k + 2
      <4>1. s[out + 1].of = whole[k + 1]
        <5>1. s[out + 1] = ASCII!prvucMBBIN2CHAR(whole[k + 1], "high")
          BY <2>2, <3>1, <3>3
        <5>. QED  BY <5>1 DEF ASCII!prvucMBBIN2CHAR
      <4>2. \A m : whole[k + 1] = Data(m, 1) => Novel(m)
        BY <1>1, <1>3, <2>1, <3>1, <3>2, <3>3 DEF Novel
      <4>. QED  BY <1>3, <2>1, <3>2, <4>1, <4>2 DEF Plausible, s
    <3>4. CASE out + 1 = 2 * k + 3
      <4>1. s[out + 1].of = whole[k + 1] /\ s[out + 1].nibble = "low"
        <5>1. s[out + 1] = ASCII!prvucMBBIN2CHAR(whole[k + 1], "low")
          BY <2>2, <3>1, <3>4
        <5>. QED  BY <5>1 DEF ASCII!prvucMBBIN2CHAR
      <4>. QED  BY <1>3, <2>1, <3>2, <4>1 DEF Plausible, s
    <3>. QED  BY <3>1, <3>3, <3>4
  <2>. QED  BY <1>1, <1>2, <2>1, <2>3, <2>4
<1>. QED  BY <1>1, <1>4, <1>5

\* The next character of a frame.
LEMMA CharacterRests ==
  ASSUME IInv, RInv, Character, Running'
  PROVE  RInv'
<1>1. /\ Running /\ InFrame /\ Heard(Characters(Len(sent))[out + 1])
      /\ out' = out + 1 /\ sent' \in {sent, Spoilt}
  BY DEF Character
<1>. DEFINE c == Characters(Len(sent))[out + 1]
<1>2. Heard(c) /\ Plausible(c)
  BY <1>1, CharacterIsPlausible
<1>. HIDE DEF c
<1>. QED  BY <1>1, <1>2, HeardRests

\* A character that was damaged or added.
LEMMA WrongCharacterRests ==
  ASSUME IInv, RInv, DamageCharacter \/ AddCharacter, Running'
  PROVE  RInv'
<1>1. PICK c \in Added : Heard(c)
  BY DEF DamageCharacter, AddCharacter, Added
<1>2. /\ Running /\ out' \in {out, out + 1} /\ sent' \in {sent, Spoilt}
  BY FaultIs DEF DamageCharacter, AddCharacter
<1>3. Plausible(c)
  <2>1. CASE IsRTU
    <3>1. c \in {Noise, Zero} /\ ~ IsASCII
      BY <2>1 DEF Added, Damaged, ByMode, IsRTU, IsASCII
    <3>2. c \in LineBytes
      BY <3>1 DEF LineBytes
    <3>3. \A n : c # Data(n, 1)
      BY <3>1, BytesDiffer
    <3>. QED  BY <3>1, <3>2, <3>3 DEF Plausible
  <2>2. CASE ~ IsRTU
    <3>1. c.nibble = "none" \/ c.of = Zero
      BY <2>2
      DEF Added, Damaged, ByMode, IsRTU, ASCII!COLON, ASCII!CR, ASCII!LF, ASCII!NoDigit,
          ASCII!Control, ASCII!prvucMBBIN2CHAR
    <3>2. Zero \in LineBytes /\ \A n : Zero # Data(n, 1)
      BY BytesDiffer DEF LineBytes
    <3>. QED  BY <2>2, <3>1, <3>2 DEF Plausible
  <2>. QED  BY <2>1, <2>2
<1>. QED  BY <1>1, <1>2, <1>3, HeardRests

-----------------------------------------------------------------------------
(***************************************************************************)
(* Every step rests on this invariant while the program runs.              *)
(***************************************************************************)
LEMMA StepRests ==
  IInv /\ (Running => RInv) /\ [Next]_vars => (Running => RInv)'
<1>. SUFFICES ASSUME IInv, Running => RInv, [Next]_vars, Running'
              PROVE  RInv'
  OBVIOUS
<1>1. CASE UNCHANGED vars
  <2>1. /\ Running /\ SameMachines /\ sent' = sent /\ out' = out
        /\ UNCHANGED <<accepted, disturbed, executed, answered>>
    BY <1>1 DEF vars, Running, serialVars, lineVars, histVars, SameMachines
  <2>. QED  BY <2>1, MachinesRest
<1>2. ASSUME NEW eMode \in Modes, NEW address \in InitAddresses, eMBInit(eMode, address)
      PROVE  RInv'
  BY <1>2, InitializesRests DEF eMBInit, Initializes
<1>3. ASSUME NEW address \in InitAddresses, eMBInitFails(address)
      PROVE  RInv'
  BY <1>3, InitializesRests DEF eMBInitFails, Initializes
<1>4. CASE eMBEnable \/ EnableEnds
  BY <1>4, EnableRests, EnableEndsRests DEF eMBEnable, EnableEnds
<1>5. CASE eMBDisable
  BY <1>5, DisableRests DEF eMBDisable
<1>6. CASE GetEvent
  BY <1>6, GetEventRests DEF GetEvent
<1>7. CASE ReceiveFrame
  BY <1>7, ReceiveFrameRests DEF ReceiveFrame
<1>8. CASE PostExecute
  BY <1>8, PostExecuteRests DEF PostExecute
<1>9. CASE Execute
  BY <1>9, ExecuteRests DEF Execute
<1>10. CASE SendReply
  BY <1>10, SendReplyRests DEF SendReply
<1>11. CASE TransmitterEmpty
  BY <1>11, TransmitterRests DEF TransmitterEmpty
<1>12. CASE BeginFrame
  BY <1>12, BeginFrameRests DEF BeginFrame
<1>13. CASE Character
  BY <1>13, CharacterRests DEF Character
<1>14. CASE LoseCharacter
  BY <1>14, LoseCharacterRests DEF LoseCharacter, Fault
<1>15. CASE DamageCharacter \/ AddCharacter
  BY <1>15, WrongCharacterRests DEF DamageCharacter, AddCharacter, Fault
<1>16. CASE TimerExpired \/ PauseInFrame
  BY <1>16, TimerRests DEF TimerExpired, PauseInFrame, Fault
<1>. QED
  BY <1>1, <1>2, <1>3, <1>4, <1>5, <1>6, <1>7, <1>8, <1>9, <1>10, <1>11, <1>12, <1>13,
     <1>14, <1>15, <1>16
  DEF Next, eMBPoll, Line

\* The invariant of every state in which the program runs.
LEMMA AlwaysRInv == Spec => [](Running => RInv)
<1>1. Init => (Running => RInv)
  BY InitRests
<1>. QED  BY <1>1, StepRests, AlwaysIInv, PTL DEF Spec

-----------------------------------------------------------------------------
(***************************************************************************)
(* Each step is one of SerialService, or changes nothing there.            *)
(***************************************************************************)
Own == IF eMBState = "NOT_INITIALIZED" THEN MB_ADDRESS_BROADCAST ELSE ucMBAddress
Requests == [n \in DOMAIN sent |-> sent[n].addr]

\* A spoilt frame is still the same request.
LEMMA SameRequests ==
  ASSUME LineInv, sent' \in {sent, Spoilt}
  PROVE  Requests' = Requests
<1>1. CASE sent' = sent
  BY <1>1 DEF Requests
<1>2. CASE sent' = Spoilt
  <2>1. /\ Spoilt \in Seq(SentFrames) /\ Len(Spoilt) = Len(sent) /\ sent \in Seq(SentFrames)
        /\ \A n \in 1 .. Len(sent) : Spoilt[n].addr = sent[n].addr
    BY SpoiltIs DEF LineInv
  <2>2. DOMAIN Spoilt = 1 .. Len(sent) /\ DOMAIN sent = 1 .. Len(sent)
    BY <2>1
  <2>3. [n \in DOMAIN Spoilt |-> Spoilt[n].addr] = [n \in DOMAIN sent |-> sent[n].addr]
    BY <2>1, <2>2
  <2>. QED  BY <1>2, <2>3 DEF Requests
<1>. QED  BY <1>1, <1>2

\* The requests have the addresses of the frames.
LEMMA RequestsAre ==
  ASSUME LineInv
  PROVE  /\ Len(Requests) = Len(sent) /\ Len(sent) \in Nat
         /\ \A n \in 1 .. Len(sent) : Requests[n] = sent[n].addr
<1>1. sent \in Seq(SentFrames) /\ Len(sent) \in Nat
  BY DEF LineInv
<1>2. DOMAIN sent = 1 .. Len(sent)
  BY <1>1
<1>3. Requests = [n \in 1 .. Len(sent) |-> sent[n].addr]
  BY <1>2 DEF Requests
<1>. QED  BY <1>1, <1>3

\* What leaves the requests and the histories alone is no step there.
LEMMA ServiceStutters ==
  ASSUME UNCHANGED <<Own, Requests, accepted, disturbed, executed, answered>>
  PROVE  UNCHANGED Service!vars
BY DEF Service!vars, Own, Requests

\* Nobody has sent anything.
LEMMA InitRefines == Init => Service!Init
<1>. SUFFICES ASSUME Init PROVE Service!Init
  OBVIOUS
<1>1. sent = <<>>
  BY DEF Init
<1>2. [n \in DOMAIN sent |-> sent[n].addr] = <<>>
  BY <1>1
<1>. QED  BY <1>2 DEF Init, Service!Init

\* Receiving accepts a request, or nothing.
LEMMA ReceiveFrameRefines ==
  ASSUME IInv, RInv, ReceiveFrame
  PROVE  [Service!Next]_(Service!vars)
<1>1. /\ UNCHANGED <<stackVars, lineVars, executed, answered>> /\ eMBState = "ENABLED"
      /\ \/ UNCHANGED <<accepted, disturbed>>
         \/ /\ disturbed' = (disturbed \/ Hearing)
            /\ ForUs(ucRcvAddress') /\ accepted' \in 0 .. Len(sent)
            /\ accepted' # 0 => sent[accepted'].addr = ucRcvAddress'
            /\ ~ disturbed => accepted' \in 1 .. Len(sent) /\ Newer(accepted')
  BY ReceiveFrameIs
<1>2. Own' = Own /\ Requests' = Requests /\ Own = ucMBAddress
  BY <1>1 DEF Own, Requests, stackVars, lineVars
<1>3. CASE UNCHANGED <<accepted, disturbed>>
  BY <1>1, <1>2, <1>3, ServiceStutters
<1>4. CASE /\ disturbed' = (disturbed \/ Hearing)
           /\ ForUs(ucRcvAddress') /\ accepted' \in 0 .. Len(sent)
           /\ accepted' # 0 => sent[accepted'].addr = ucRcvAddress'
           /\ ~ disturbed => accepted' \in 1 .. Len(sent) /\ Newer(accepted')
  <2>1. /\ Len(Requests) = Len(sent) /\ Len(sent) \in Nat
        /\ \A n \in 1 .. Len(sent) : Requests[n] = sent[n].addr
    BY RequestsAre DEF IInv
  <2>2. disturbed \in BOOLEAN
    BY DEF IInv, HistoryInv
  <2>3. disturbed' \in {disturbed, TRUE}
    BY <1>4, <2>2
  <2>4. \/ /\ accepted' \in 1 .. Len(Requests)
           /\ Requests[accepted'] \in {Own, MB_ADDRESS_BROADCAST}
           /\ disturbed \/ Newer(accepted')
        \/ disturbed /\ accepted' = 0
    <3>1. CASE accepted' = 0
      BY <1>4, <3>1
    <3>2. CASE accepted' # 0
      <4>1. accepted' \in 1 .. Len(sent)
        BY <1>4, <2>1, <3>2
      <4>2. Requests[accepted'] = ucRcvAddress'
        BY <1>4, <2>1, <3>2, <4>1
      <4>3. ucRcvAddress' \in {ucMBAddress, MB_ADDRESS_BROADCAST}
        BY <1>4 DEF ForUs
      <4>. QED  BY <1>2, <1>4, <2>1, <4>1, <4>2, <4>3
    <3>. QED  BY <3>1, <3>2
  <2>5. Service!Accept
    BY <1>1, <1>2, <2>3, <2>4 DEF Service!Accept, Service!Newer, Newer, Own, Requests
  <2>. QED  BY <2>5 DEF Service!Next
<1>. QED  BY <1>1, <1>3, <1>4

\* Executing a request.
LEMMA ExecuteRefines ==
  ASSUME IInv, RInv, Execute
  PROVE  [Service!Next]_(Service!vars)
<1>. DEFINE n == Content(usLength)
<1>1. /\ UNCHANGED <<stackVars, lineVars, accepted, disturbed, answered>>
      /\ executed' = Append(executed, n)
  BY DEF Execute
<1>2. Own' = Own /\ Requests' = Requests
  BY <1>1 DEF Own, Requests, stackVars, lineVars
<1>3. /\ Len(Requests) = Len(sent) /\ Len(sent) \in Nat
  BY RequestsAre DEF IInv
<1>4. /\ n = 0 \/ n \in Known
      /\ ~ disturbed => n = accepted /\ accepted \in 1 .. Len(sent) /\ Newer(accepted)
  BY ExecuteIs
<1>. HIDE DEF n
<1>5. n \in 0 .. Len(Requests)
  BY <1>3, <1>4 DEF Known
<1>6. disturbed \/ (n = accepted /\ n # 0 /\ Newer(n))
  BY <1>3, <1>4
<1>7. Service!Execute
  BY <1>1, <1>2, <1>5, <1>6 DEF Service!Execute, Service!Newer, Newer, Own, Requests
<1>. QED  BY <1>7 DEF Service!Next

\* Answering it, if the reply is not dropped.
LEMMA SendReplyRefines ==
  ASSUME IInv, RInv, SendReply
  PROVE  [Service!Next]_(Service!vars)
<1>1. /\ pc = "send" /\ eMBState = "ENABLED"
      /\ UNCHANGED <<stackVars, lineVars, accepted, disturbed, executed>>
      /\ answered' \in {answered, Append(answered, Len(executed))}
  BY SendReplyIs
<1>2. Own' = Own /\ Requests' = Requests /\ Own = ucMBAddress
  BY <1>1 DEF Own, Requests, stackVars, lineVars
<1>3. CASE answered' = answered
  BY <1>1, <1>2, <1>3, ServiceStutters
<1>4. CASE answered' = Append(answered, Len(executed))
  <2>1. /\ Len(Requests) = Len(sent) /\ Len(sent) \in Nat
        /\ \A n \in 1 .. Len(sent) : Requests[n] = sent[n].addr
    BY RequestsAre DEF IInv
  <2>2. /\ ForUs(ucRcvAddress) /\ Answered /\ executed # <<>>
        /\ accepted # 0 => sent[accepted].addr = ucRcvAddress
        /\ \A i \in 1 .. Len(answered) : answered[i] < Len(executed)
    BY <1>1 DEF RInv, AnswerInv, Serving
  <2>3. ucRcvAddress = ucMBAddress
    BY <2>2 DEF ForUs, Answered
  <2>4. accepted # 0 => accepted \in 1 .. Len(sent)
    BY <2>1 DEF IInv, HistoryInv
  <2>5. accepted # 0 => Requests[accepted] = Own
    BY <1>2, <2>1, <2>2, <2>3, <2>4
  <2>6. Service!Answer
    BY <1>1, <1>2, <1>4, <2>2, <2>5 DEF Service!Answer, Own, Requests
  <2>. QED  BY <2>6 DEF Service!Next
<1>. QED  BY <1>1, <1>3, <1>4

\* The steps of the line.
LEMMA LineRefines ==
  ASSUME IInv, BeginFrame \/ Character \/ DamageCharacter \/ AddCharacter
  PROVE  [Service!Next]_(Service!vars)
<1>1. CASE BeginFrame
  <2>1. UNCHANGED <<stackVars, histVars>>
    BY <1>1 DEF BeginFrame
  <2>2. \E address \in { f.addr : f \in Frames } : Requests' = Append(Requests, address)
    BY <1>1, NewFrame DEF Requests
  <2>3. \E address \in { f.addr : f \in Frames } \cup InitAddresses :
          Requests' = Append(Requests, address)
    BY <2>2
  <2>4. /\ Own' = Own /\ accepted' = accepted /\ executed' = executed
        /\ answered' = answered /\ disturbed' = disturbed
    BY <2>1 DEF Own, stackVars, histVars
  <2>5. Service!Request
    BY <2>3, <2>4 DEF Service!Request, Own, Requests
  <2>. QED  BY <2>5 DEF Service!Next
<1>2. CASE Character \/ DamageCharacter \/ AddCharacter
  <2>1. PICK c : Running /\ Heard(c) /\ sent' \in {sent, Spoilt}
    <3>1. CASE Character
      BY <3>1 DEF Character
    <3>2. CASE DamageCharacter \/ AddCharacter
      BY <3>2, FaultIs DEF DamageCharacter, AddCharacter
    <3>. QED  BY <1>2, <3>1, <3>2
  <2>2. /\ UNCHANGED <<stackVars, accepted, executed, answered>>
        /\ rxOn => disturbed' = (Serving \/ Padding(c) \/ (disturbed /\ ~ Begins(c)))
        /\ ~ rxOn => disturbed' = disturbed
    BY <2>1 DEF Heard
  <2>3. disturbed' \in BOOLEAN
    <3>1. disturbed \in BOOLEAN
      BY DEF IInv, HistoryInv
    <3>. QED  BY <2>2, <3>1
  <2>4. Own' = Own /\ Requests' = Requests
    BY <2>1, <2>2, SameRequests DEF Own, stackVars, IInv
  <2>5. Service!Hear
    BY <2>2, <2>3, <2>4 DEF Service!Hear, Own, Requests
  <2>. QED  BY <2>5 DEF Service!Next
<1>. QED  BY <1>1, <1>2

\* All steps.
LEMMA StepRefines ==
  IInv /\ (Running => RInv) /\ [Next]_vars => [Service!Next]_(Service!vars)
<1>. SUFFICES ASSUME IInv, Running => RInv, [Next]_vars
              PROVE  [Service!Next]_(Service!vars)
  OBVIOUS
<1>1. CASE UNCHANGED vars
  BY <1>1, ServiceStutters DEF vars, stackVars, lineVars, histVars, Own, Requests
<1>2. ASSUME NEW eMode \in Modes, NEW address \in InitAddresses, eMBInit(eMode, address)
      PROVE  [Service!Next]_(Service!vars)
  <2>1. /\ eMBState = "NOT_INITIALIZED" /\ eMBState' = "DISABLED" /\ ucMBAddress' = address
        /\ UNCHANGED <<lineVars, histVars>>
    BY <1>2 DEF eMBInit, Initializes
  <2>2. /\ Own = MB_ADDRESS_BROADCAST /\ Own' \in { f.addr : f \in Frames } \cup InitAddresses
        /\ Requests' = Requests /\ accepted' = accepted /\ executed' = executed
        /\ answered' = answered /\ disturbed' = disturbed
    BY <2>1 DEF Own, Requests, lineVars, histVars
  <2>3. Service!Join
    BY <2>2 DEF Service!Join, Own, Requests
  <2>. QED  BY <2>3 DEF Service!Next
<1>3. ASSUME NEW address \in InitAddresses, eMBInitFails(address)
      PROVE  [Service!Next]_(Service!vars)
  <2>1. Own' = Own /\ Requests' = Requests /\ UNCHANGED histVars
    BY <1>3 DEF eMBInitFails, Initializes, Own, Requests, lineVars
  <2>. QED  BY <2>1, ServiceStutters DEF histVars
<1>4. CASE eMBEnable \/ EnableEnds \/ eMBDisable
  <2>1. /\ eMBState # "NOT_INITIALIZED" /\ eMBState' # "NOT_INITIALIZED"
        /\ ucMBAddress' = ucMBAddress /\ sent' \in {sent, Spoilt}
        /\ UNCHANGED <<accepted, disturbed, executed, answered>>
    <3>1. pc = "enable" => eMBState = "DISABLED"
      BY DEF IInv, MInv, StackInv
    <3>. QED
      BY <1>4, <3>1 DEF eMBEnable, EnableEnds, eMBDisable, stackVars, lineVars, histVars
  <2>2. Own' = Own /\ Requests' = Requests
    BY <2>1, SameRequests DEF Own, IInv
  <2>. QED  BY <2>1, <2>2, ServiceStutters
<1>5. CASE GetEvent \/ PostExecute
  <2>1. UNCHANGED <<stackVars, lineVars, histVars>>
    BY <1>5 DEF GetEvent, PostExecute
  <2>2. Own' = Own /\ Requests' = Requests
    BY <2>1 DEF Own, Requests, stackVars, lineVars
  <2>. QED  BY <2>1, <2>2, ServiceStutters DEF histVars
<1>6. CASE ReceiveFrame
  BY <1>6, ReceiveFrameRefines DEF ReceiveFrame
<1>7. CASE Execute
  BY <1>7, ExecuteRefines DEF Execute
<1>8. CASE SendReply
  BY <1>8, SendReplyRefines DEF SendReply
<1>9. CASE TransmitterEmpty \/ LoseCharacter \/ TimerExpired \/ PauseInFrame
  <2>1. UNCHANGED <<stackVars, histVars>> /\ sent' \in {sent, Spoilt}
    BY <1>9
    DEF TransmitterEmpty, LoseCharacter, TimerExpired, PauseInFrame, Expire, Fault, lineVars
  <2>2. Own' = Own /\ Requests' = Requests
    BY <2>1, SameRequests DEF Own, stackVars, IInv
  <2>. QED  BY <2>1, <2>2, ServiceStutters DEF histVars
<1>10. CASE BeginFrame \/ Character \/ DamageCharacter \/ AddCharacter
  BY <1>10, LineRefines
<1>. QED
  BY <1>1, <1>2, <1>3, <1>4, <1>5, <1>6, <1>7, <1>8, <1>9, <1>10 DEF Next, eMBPoll, Line

\* The stack is the slave that SerialService describes.
THEOREM ServiceIsImplemented == Spec => ImplementsService
<1>1. Init => Service!Init
  BY InitRefines
<1>2. IInv /\ (Running => RInv) /\ [Next]_vars => [Service!Next]_(Service!vars)
  BY StepRefines
<1>. QED  BY <1>1, <1>2, AlwaysIInv, AlwaysRInv, PTL DEF Spec, ImplementsService, Service!Spec

=============================================================================
