------------------------------ MODULE MBAscii -------------------------------
(***************************************************************************)
(* mbascii.c: the receiver and the transmitter of Modbus ASCII, where a    *)
(* colon begins a frame, CR LF ends it, and each byte is two hexadecimal   *)
(* characters.                                                             *)
(*                                                                         *)
(* The transmitter's interrupt is on only while it has something to send:  *)
(* the branch of its machine for an idle transmitter is never taken.       *)
(***************************************************************************)
EXTENDS SerialPort

MB_SER_PDU_SIZE_MIN == 3
MB_SER_PDU_SIZE_LRC == 1

\* Characters: the control characters and the two hexadecimal digits of a byte.
Control(name) == [of |-> [control |-> name], nibble |-> "none"]
COLON == Control("colon")
CR    == Control("CR")
LF    == Control("LF")

\* A character that is no hexadecimal digit: prvucMBCHAR2BIN makes 0xFF of it.
NoDigit == [of |-> Noise, nibble |-> "none"]

prvucMBBIN2CHAR(b, nibble) == [of |-> b, nibble |-> nibble]

\* What is on the line for a frame.
Encoded(bytes) ==
  <<COLON>>
    \o [i \in 1 .. 2 * Len(bytes) |->
          prvucMBBIN2CHAR(bytes[(i + 1) \div 2], IF i % 2 = 1 THEN "high" ELSE "low")]
    \o <<CR, LF>>

\* The byte in the buffer after its first character; and after both, the same if
\* they are the high and the low digit of one byte.
HighNibble(c)  == IF c.nibble = "high" THEN c.of ELSE Noise
LowNibble(b, c) == IF c.nibble = "low" /\ c.of = b THEN b ELSE Noise

-----------------------------------------------------------------------------
\* The critical section.  What follows it, EV_READY, is in MBSerial!EnableEnds.
eMBASCIIStart ==
  /\ vMBPortSerialEnable(TRUE, FALSE)
  /\ eRcvState' = "IDLE"
  /\ UNCHANGED <<usRcvBufferPos, sndVars, ucRTUBuf, eBytePos, timer, event, failed>>

eMBASCIIStop ==
  /\ vMBPortSerialEnable(FALSE, FALSE)
  /\ timer' = FALSE
  /\ UNCHANGED <<rcvVars, sndVars, ucRTUBuf, eBytePos, event, failed>>

\* eMBASCIIReceive: its assertion, its check, and the length of the PDU.
ReceiveAsserted == usRcvBufferPos < MB_SER_PDU_SIZE_MAX

\* prvucMBLRC of the bytes received is zero: it does not tell zeros, wherever they are.
SumIsZero ==
  LET received == Buffered(usRcvBufferPos)
      NotZero(b) == b # Zero
  IN  \/ HasSum(received, MB_SER_PDU_SIZE_LRC)
      \/ /\ \E i \in 1 .. usRcvBufferPos : received[i] = Zero
         /\ HasSum(SelectSeq(received, NotZero), MB_SER_PDU_SIZE_LRC)

FrameReceived == usRcvBufferPos >= MB_SER_PDU_SIZE_MIN /\ SumIsZero

PDULength == usRcvBufferPos - MB_SER_PDU_PDU_OFF - MB_SER_PDU_SIZE_LRC

\* The frame is dropped with MB_EIO if the receiver is not idle.
eMBASCIISend(usLength, address) ==
  IF eRcvState = "IDLE"
  THEN Transmit(usLength, address, MB_SER_PDU_SIZE_LRC, "START")
  ELSE UNCHANGED serialVars

-----------------------------------------------------------------------------
\* A colon begins a frame in any state, also in the middle of one.
Begin(c) ==
  /\ c = COLON
  /\ eRcvState' = "RCV" /\ timer' = TRUE
  /\ usRcvBufferPos' = 0 /\ eBytePos' = "high"
  /\ UNCHANGED <<ucRTUBuf, event>>

IdleIgnores(c) ==
  /\ eRcvState = "IDLE" /\ c # COLON
  /\ UNCHANGED <<rcvVars, timer, eBytePos, ucRTUBuf, event>>

EndOfData(c) ==
  /\ eRcvState = "RCV" /\ c = CR
  /\ eRcvState' = "WAIT_EOF" /\ timer' = TRUE
  /\ UNCHANGED <<usRcvBufferPos, eBytePos, ucRTUBuf, event>>

FirstDigit(c) ==
  /\ eRcvState = "RCV" /\ c \notin {COLON, CR}
  /\ eBytePos = "high" /\ usRcvBufferPos < MB_SER_PDU_SIZE_MAX
  /\ Store(usRcvBufferPos, HighNibble(c))
  /\ eBytePos' = "low" /\ timer' = TRUE
  /\ UNCHANGED <<rcvVars, event>>

ByteTooMany(c) ==
  /\ eRcvState = "RCV" /\ c \notin {COLON, CR}
  /\ eBytePos = "high" /\ usRcvBufferPos >= MB_SER_PDU_SIZE_MAX
  /\ eRcvState' = "IDLE" /\ timer' = FALSE
  /\ UNCHANGED <<usRcvBufferPos, eBytePos, ucRTUBuf, event>>

SecondDigit(c) ==
  /\ eRcvState = "RCV" /\ c \notin {COLON, CR}
  /\ eBytePos = "low"
  /\ Store(usRcvBufferPos, LowNibble(ucRTUBuf[usRcvBufferPos], c))
  /\ usRcvBufferPos' = usRcvBufferPos + 1
  /\ eBytePos' = "high" /\ timer' = TRUE
  /\ UNCHANGED <<eRcvState, event>>

EndOfFrame(c) ==
  /\ eRcvState = "WAIT_EOF" /\ c = LF
  /\ eRcvState' = "IDLE" /\ timer' = FALSE
  /\ xMBPortEventPost("FRAME_RECEIVED")
  /\ UNCHANGED <<usRcvBufferPos, eBytePos, ucRTUBuf>>

\* Frame is not okay: the receiver is idle, but its timer keeps running.
NoEndOfFrame(c) ==
  /\ eRcvState = "WAIT_EOF" /\ c \notin {LF, COLON}
  /\ eRcvState' = "IDLE"
  /\ UNCHANGED <<usRcvBufferPos, eBytePos, ucRTUBuf, timer, event>>

xMBASCIIReceiveFSM(c) ==
  IF eSndState # "IDLE" THEN Abort("receive while sending")
  ELSE /\ \/ Begin(c) \/ IdleIgnores(c)
          \/ EndOfData(c) \/ FirstDigit(c) \/ ByteTooMany(c) \/ SecondDigit(c)
          \/ EndOfFrame(c) \/ NoEndOfFrame(c)
       /\ UNCHANGED <<sndVars, rxOn, txOn, failed>>

-----------------------------------------------------------------------------
PutColon ==
  /\ eSndState = "START"
  /\ xMBPortSerialPutByte(COLON)
  /\ eSndState' = "DATA" /\ eBytePos' = "high"
  /\ UNCHANGED <<pucSndBufferCur, usSndBufferCount, rxOn, txOn, event>>

PutHigh ==
  /\ eSndState = "DATA" /\ usSndBufferCount > 0 /\ eBytePos = "high"
  /\ xMBPortSerialPutByte(prvucMBBIN2CHAR(ucRTUBuf[pucSndBufferCur], "high"))
  /\ eBytePos' = "low"
  /\ UNCHANGED <<eSndState, pucSndBufferCur, usSndBufferCount, rxOn, txOn, event>>

PutLow ==
  /\ eSndState = "DATA" /\ usSndBufferCount > 0 /\ eBytePos = "low"
  /\ xMBPortSerialPutByte(prvucMBBIN2CHAR(ucRTUBuf[pucSndBufferCur], "low"))
  /\ pucSndBufferCur' = pucSndBufferCur + 1
  /\ eBytePos' = "high"
  /\ usSndBufferCount' = usSndBufferCount - 1
  /\ UNCHANGED <<eSndState, rxOn, txOn, event>>

PutCR ==
  /\ eSndState = "DATA" /\ usSndBufferCount = 0
  /\ xMBPortSerialPutByte(CR)
  /\ eSndState' = "END"
  /\ UNCHANGED <<eBytePos, pucSndBufferCur, usSndBufferCount, rxOn, txOn, event>>

PutLF ==
  /\ eSndState = "END"
  /\ xMBPortSerialPutByte(LF)
  /\ eSndState' = "NOTIFY"
  /\ UNCHANGED <<eBytePos, pucSndBufferCur, usSndBufferCount, rxOn, txOn, event>>

Finished ==
  /\ eSndState = "NOTIFY"
  /\ eSndState' = "IDLE"
  /\ xMBPortEventPost("FRAME_SENT")
  /\ vMBPortSerialEnable(TRUE, FALSE)
  /\ UNCHANGED <<eBytePos, pucSndBufferCur, usSndBufferCount, wire>>

xMBASCIITransmitFSM ==
  IF eRcvState # "IDLE" THEN Abort("send while receiving")
  ELSE /\ PutColon \/ PutHigh \/ PutLow \/ PutCR \/ PutLF \/ Finished
       /\ UNCHANGED <<rcvVars, ucRTUBuf, timer, failed>>

xMBASCIITimerT1SExpired ==
  IF eRcvState = "IDLE" THEN Abort("timer while idle")
  ELSE /\ eRcvState' = "IDLE" /\ timer' = FALSE
       /\ UNCHANGED <<usRcvBufferPos, sndVars, ucRTUBuf, eBytePos, rxOn, txOn, event,
                      failed>>
=============================================================================
