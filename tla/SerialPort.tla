----------------------------- MODULE SerialPort -----------------------------
(***************************************************************************)
(* What the two serial transmission modes, RTU (MBRtu) and ASCII           *)
(* (MBAscii), share: the static variables of their state machines, the     *)
(* buffer ucRTUBuf (mbascii.c declares it extern), the queue with room for *)
(* one event, and the serial port and timer that a port layer provides.    *)
(* Each mode has statics of its own; only those of the mode that eMBInit   *)
(* selected are in use, and one set of variables stands for them.          *)
(*                                                                         *)
(* A byte is a value that only tells where it comes from: an address, the  *)
(* i-th byte of message m, a byte of the checksum over other bytes, a zero *)
(* from nowhere, or noise.  A checksum is taken to be as good as the bytes *)
(* it is computed from, but for the zero bytes that the real ones do not   *)
(* detect (see MBCodec).                                                   *)
(***************************************************************************)
EXTENDS Integers, Sequences

CONSTANT
  MB_SER_PDU_SIZE_MAX  \* size of ucRTUBuf

VARIABLES
  eRcvState, eSndState,  \* states of the receiver and of the transmitter
  ucRTUBuf,              \* the buffer, for both directions
  usRcvBufferPos,        \* bytes received
  eBytePos,              \* the nibble that is next ("high", "low"), ASCII only
  pucSndBufferCur,       \* offset in ucRTUBuf of the byte that is sent next
  usSndBufferCount,      \* bytes left to send
  rxOn, txOn,            \* receiver, transmitter enabled
  timer,                 \* whether the timer runs
  event,                 \* eQueuedEvent, or "none"
  wire,                  \* characters put on the line by the current transmission
  failed                 \* the assertion that has ended the program, or "none"

rcvVars  == <<eRcvState, usRcvBufferPos>>
sndVars  == <<eSndState, pucSndBufferCur, usSndBufferCount, wire>>
portVars == <<rxOn, txOn, timer>>
serialVars == <<rcvVars, sndVars, ucRTUBuf, eBytePos, portVars, event, failed>>

MB_SER_PDU_ADDR_OFF == 0
MB_SER_PDU_PDU_OFF  == 1

-----------------------------------------------------------------------------
(***************************************************************************)
(* Bytes.                                                                  *)
(***************************************************************************)
Addr(a)    == [address |-> a]
Data(m, i) == [of |-> m, at |-> i]
Sum(s, k)  == [sum |-> s, at |-> k]
Noise      == [noise |-> TRUE]  \* what nobody sent
Zero       == [zero |-> TRUE]   \* a zero that nobody sent

\* The address a frame begins with.
Address(b) == IF b = Zero THEN 0 ELSE b.address

\* The first n bytes of the buffer.
Buffered(n) == [i \in 1 .. n |-> ucRTUBuf[i - 1]]

\* s with its checksum of the given size.
WithSum(s, size) == s \o [k \in 1 .. size |-> Sum(s, k)]

\* Bytes followed by their checksum: the checksum of all of them is zero.
HasSum(s, size) ==
  Len(s) >= size /\ s = WithSum([i \in 1 .. Len(s) - size |-> s[i]], size)

-----------------------------------------------------------------------------
(***************************************************************************)
(* The port.                                                               *)
(***************************************************************************)
vMBPortSerialEnable(xRxEnable, xTxEnable) == rxOn' = xRxEnable /\ txOn' = xTxEnable

xMBPortEventPost(eEvent) == event' = eEvent

xMBPortSerialPutByte(c) == wire' = Append(wire, c)

Store(i, b) == ucRTUBuf' = [ucRTUBuf EXCEPT ![i] = b]

\* assert: the program ends.
Abort(assertion) ==
  /\ failed' = assertion
  /\ UNCHANGED <<rcvVars, sndVars, ucRTUBuf, eBytePos, portVars, event>>

(***************************************************************************)
(* eMBRTUSend and eMBASCIISend differ in the size of the checksum and in   *)
(* the state the transmitter starts in.                                    *)
(***************************************************************************)
\* Mutant of Transmit: the checksum is not counted.
TransmitWithoutSum(usLength, address, size, start) ==
  LET message == <<Addr(address)>> \o [i \in 1 .. usLength |-> ucRTUBuf[i]]
      whole   == WithSum(message, size)
  IN  /\ ucRTUBuf' = [i \in DOMAIN ucRTUBuf |->
                        IF i < Len(whole) THEN whole[i + 1] ELSE ucRTUBuf[i]]
      /\ pucSndBufferCur' = MB_SER_PDU_ADDR_OFF
      /\ usSndBufferCount' = Len(message)
      /\ eSndState' = start
      /\ wire' = <<>>
      /\ vMBPortSerialEnable(FALSE, TRUE)
      /\ UNCHANGED <<rcvVars, eBytePos, timer, event, failed>>

Transmit(usLength, address, size, start) ==
  LET message == <<Addr(address)>> \o [i \in 1 .. usLength |-> ucRTUBuf[i]]
      whole   == WithSum(message, size)
  IN  /\ ucRTUBuf' = [i \in DOMAIN ucRTUBuf |->
                        IF i < Len(whole) THEN whole[i + 1] ELSE ucRTUBuf[i]]
      /\ pucSndBufferCur' = MB_SER_PDU_ADDR_OFF
      /\ usSndBufferCount' = Len(whole)
      /\ eSndState' = start
      /\ wire' = <<>>
      /\ vMBPortSerialEnable(FALSE, TRUE)
      /\ UNCHANGED <<rcvVars, eBytePos, timer, event, failed>>
=============================================================================
