------------------------------- MODULE MBRtu --------------------------------
(***************************************************************************)
(* mbrtu.c: the receiver and the transmitter of Modbus RTU, where silence  *)
(* of 3.5 characters ends a frame.                                         *)
(*                                                                         *)
(* The transmitter's interrupt is on only while it has something to send:  *)
(* the branch of its machine for an idle transmitter is never taken.       *)
(***************************************************************************)
EXTENDS SerialPort

MB_SER_PDU_SIZE_MIN == 4
MB_SER_PDU_SIZE_CRC == 2

\* What is on the line for a frame: its bytes.
Encoded(bytes) == bytes

\* Mutant of eMBRTUStart: the timer is not started.
StartWithoutTimer ==
  /\ eRcvState' = "INIT"
  /\ vMBPortSerialEnable(TRUE, FALSE)
  /\ UNCHANGED <<usRcvBufferPos, sndVars, ucRTUBuf, eBytePos, timer, event, failed>>

eMBRTUStart ==
  /\ eRcvState' = "INIT"
  /\ vMBPortSerialEnable(TRUE, FALSE)
  /\ timer' = TRUE
  /\ UNCHANGED <<usRcvBufferPos, sndVars, ucRTUBuf, eBytePos, event, failed>>

eMBRTUStop ==
  /\ vMBPortSerialEnable(FALSE, FALSE)
  /\ timer' = FALSE
  /\ UNCHANGED <<rcvVars, sndVars, ucRTUBuf, eBytePos, event, failed>>

\* eMBRTUReceive: its assertion, its check, and the length of the PDU.
ReceiveAsserted == usRcvBufferPos < MB_SER_PDU_SIZE_MAX

\* usMBCRC16 of the bytes received is zero: it stays so when zeros follow a frame,
\* of which the address of a broadcast is one.
Zeros == {Zero, Addr(0)}

SumIsZero ==
  \E n \in 1 .. usRcvBufferPos :
    /\ HasSum(Buffered(n), MB_SER_PDU_SIZE_CRC)
    /\ \A i \in n .. usRcvBufferPos - 1 : ucRTUBuf[i] \in Zeros

FrameReceived == usRcvBufferPos >= MB_SER_PDU_SIZE_MIN /\ SumIsZero

PDULength == usRcvBufferPos - MB_SER_PDU_PDU_OFF - MB_SER_PDU_SIZE_CRC

\* Mutant of eMBRTUSend: the state of the receiver is not looked at.
SendAnyway(usLength, address) ==
  Transmit(usLength, address, MB_SER_PDU_SIZE_CRC, "XMIT")

\* The frame is dropped with MB_EIO if the receiver is not idle.
eMBRTUSend(usLength, address) ==
  IF eRcvState = "IDLE"
  THEN Transmit(usLength, address, MB_SER_PDU_SIZE_CRC, "XMIT")
  ELSE UNCHANGED serialVars

-----------------------------------------------------------------------------
FirstByte(ucByte) ==
  /\ eRcvState = "IDLE"
  /\ Store(0, ucByte)
  /\ usRcvBufferPos' = 1
  /\ eRcvState' = "RCV"

\* Mutant of NextByte: the size of the buffer is not looked at.
NextByteUnchecked(ucByte) ==
  /\ eRcvState = "RCV"
  /\ Store(usRcvBufferPos, ucByte)
  /\ usRcvBufferPos' = usRcvBufferPos + 1
  /\ UNCHANGED eRcvState

NextByte(ucByte) ==
  /\ eRcvState = "RCV"
  /\ usRcvBufferPos < MB_SER_PDU_SIZE_MAX
  /\ Store(usRcvBufferPos, ucByte)
  /\ usRcvBufferPos' = usRcvBufferPos + 1
  /\ UNCHANGED eRcvState

ByteTooMany ==
  /\ eRcvState = "RCV"
  /\ usRcvBufferPos >= MB_SER_PDU_SIZE_MAX
  /\ eRcvState' = "ERROR"
  /\ UNCHANGED <<usRcvBufferPos, ucRTUBuf>>

\* Start-up, or the rest of a frame that is too long.
ByteIgnored ==
  /\ eRcvState \in {"INIT", "ERROR"}
  /\ UNCHANGED <<rcvVars, ucRTUBuf>>

xMBRTUReceiveFSM(ucByte) ==
  IF eSndState # "IDLE" THEN Abort("receive while sending")
  ELSE /\ \/ FirstByte(ucByte) \/ NextByte(ucByte)
          \/ ByteTooMany \/ ByteIgnored
       /\ timer' = TRUE
       /\ UNCHANGED <<sndVars, eBytePos, rxOn, txOn, event, failed>>

-----------------------------------------------------------------------------
PutByte ==
  /\ eSndState = "XMIT" /\ usSndBufferCount # 0
  /\ xMBPortSerialPutByte(ucRTUBuf[pucSndBufferCur])
  /\ pucSndBufferCur' = pucSndBufferCur + 1
  /\ usSndBufferCount' = usSndBufferCount - 1
  /\ UNCHANGED <<eSndState, rxOn, txOn, event>>

Finished ==
  /\ eSndState = "XMIT" /\ usSndBufferCount = 0
  /\ xMBPortEventPost("FRAME_SENT")
  /\ vMBPortSerialEnable(TRUE, FALSE)
  /\ eSndState' = "IDLE"
  /\ UNCHANGED <<pucSndBufferCur, usSndBufferCount, wire>>

xMBRTUTransmitFSM ==
  IF eRcvState # "IDLE" THEN Abort("send while receiving")
  ELSE /\ PutByte \/ Finished
       /\ UNCHANGED <<rcvVars, ucRTUBuf, eBytePos, timer, failed>>

\* Mutant of Expired: the end of a frame is not told.
ExpiredSilently == UNCHANGED event

Expired ==
  CASE eRcvState = "INIT"  -> xMBPortEventPost("READY")
    [] eRcvState = "RCV"   -> xMBPortEventPost("FRAME_RECEIVED")
    [] eRcvState = "ERROR" -> UNCHANGED event

xMBRTUTimerT35Expired ==
  IF eRcvState = "IDLE" THEN Abort("timer while idle")
  ELSE /\ Expired
       /\ timer' = FALSE
       /\ eRcvState' = "IDLE"
       /\ UNCHANGED <<usRcvBufferPos, sndVars, ucRTUBuf, eBytePos, rxOn, txOn, failed>>
=============================================================================
