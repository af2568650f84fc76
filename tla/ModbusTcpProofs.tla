-------------------------- MODULE ModbusTcpProofs --------------------------
(***************************************************************************)
(* The safety of ModbusTcp for all connections, frames, buffer sizes and   *)
(* ways the bytes may be cut.  The inductive invariant says, for each      *)
(* place the thread can be in, where the buffer stands in the byte stream  *)
(* of the client and whose bytes it holds.                                 *)
(***************************************************************************)
EXTENDS ModbusTcp, MBFuncProofs

\* No client while the port is coming up or listening; an event waits only in
\* the poll loop, for the client it came from.
ControlInv ==
  /\ pc \in {"init", "enable", "listen"} => xClientSocket = NoConnection
  /\ pc = "send" => xClientSocket # NoConnection
  /\ xEventInQueue => /\ pc = "poll"
                      /\ xClientSocket # NoConnection
                      /\ eQueuedEvent \in {"EV_FRAME_RECEIVED", "EV_EXECUTE"}

\* No more was taken than sent.
BoundsInv == \A c \in Connections : taken[c] <= Len(issued[c])

\* There is a client, and the frame at the head of its stream is being received
\* or has not begun.
Receiving ==
  /\ xClientSocket # NoConnection
  /\ pc \in {"poll", "pool", "send"}
  /\ ~ Queued("EV_FRAME_RECEIVED")

\* The buffer is in step with the stream.
InStep ==
  /\ usTCPBufPos = rcvd
  /\ usTCPFrameBytesLeft > 0
  /\ IF usTCPBufPos < MB_TCP_FUNC
     THEN usTCPBufPos + usTCPFrameBytesLeft = MB_TCP_FUNC
     ELSE /\ taken[xClientSocket] < Len(issued[xClientSocket])
          /\ usTCPBufPos + usTCPFrameBytesLeft = FrameSize(HeadFrame(xClientSocket))

\* The bytes in the buffer are those of the frame at the head.
FromHead ==
  /\ from = {<<xClientSocket, taken[xClientSocket] + 1>>}
  /\ usTCPBufPos > MB_TCP_FUNC => bufFunc = HeadFrame(xClientSocket).pdu.func

ReceivingInv == Receiving => InStep /\ (usTCPBufPos > 0 => FromHead)

ReceivedInv ==
  Queued("EV_FRAME_RECEIVED") =>
    /\ taken[xClientSocket] < Len(issued[xClientSocket])
    /\ usTCPBufPos = FrameSize(HeadFrame(xClientSocket))
    /\ usTCPBufPos >= MB_TCP_FUNC
    /\ FromHead

\* The frame that is being served is the one taken last.
ServingInv ==
  Queued("EV_EXECUTE") \/ pc = "send" =>
    /\ usTCPBufPos = 0
    /\ taken[xClientSocket] >= 1
    /\ from = {<<xClientSocket, taken[xClientSocket]>>}

ExecutingInv ==
  Queued("EV_EXECUTE") =>
    LET f == issued[xClientSocket][taken[xClientSocket]]
    IN  /\ usLength = f.pdu.len
        /\ f.pdu.len > 0 => bufFunc = f.pdu.func

IInv ==
  /\ TypeOK
  /\ ControlInv
  /\ BoundsInv
  /\ ReceivingInv
  /\ ReceivedInv
  /\ ServingInv
  /\ ExecutingInv

-----------------------------------------------------------------------------
(***************************************************************************)
(* Frames.                                                                 *)
(***************************************************************************)
\* What frames are.
LEMMA FrameFacts ==
  ASSUME NEW f \in Frames
  PROVE  /\ IsRequest(f.pdu) /\ f.pdu.func \in 0 .. 255
         /\ f.pdu.len \in Nat
         /\ f.length \in Nat
         /\ f.length = 0 \/ f.length = f.pdu.len + 1
         /\ FrameSize(f) = MB_TCP_UID + f.length /\ FrameSize(f) \in Nat
BY SMTT(30), ModbusTcpAssumption, WordsNat
   DEF IsFrame, IsRequest, FrameSize, MB_TCP_UID

\* The frame at the head of a stream that has more than was taken.
LEMMA HeadFacts ==
  ASSUME TypeOK, NEW c \in Connections, taken[c] < Len(issued[c])
  PROVE  HeadFrame(c) \in Frames
<1>1. issued[c] \in Seq(Frames) /\ taken[c] \in Nat
  BY DEF TypeOK
<1>. QED
  BY <1>1 DEF HeadFrame

\* The frame taken last.
LEMMA LastTakenFacts ==
  ASSUME TypeOK, BoundsInv, NEW c \in Connections, taken[c] >= 1
  PROVE  issued[c][taken[c]] \in Frames
<1>1. issued[c] \in Seq(Frames) /\ taken[c] \in Nat /\ taken[c] <= Len(issued[c])
  BY DEF TypeOK, BoundsInv
<1>. QED
  BY <1>1

-----------------------------------------------------------------------------
\* The first of the three facts about the inductive invariant.
LEMMA InitIInv == Init => IInv
<1>. SUFFICES ASSUME Init PROVE IInv
  OBVIOUS
<1>1. usRegHoldingBuf \in Registers
  BY WordsNat DEF Init, Registers, Words
<1>2. TypeOK
  <2>1. result \in Results
    BY DEF Init, Results, Exceptions
  <2>2. /\ conn \in [Connections -> ConnStates]
        /\ issued \in [Connections -> Seq(Frames)]
        /\ replied \in [Connections -> Seq(Replies)]
        /\ taken \in [Connections -> Nat] /\ backlog \in Seq(Connections)
    BY DEF Init, ConnStates
  <2>3. /\ xClientSocket \in Connections \cup {NoConnection}
        /\ from \subseteq Connections \X Nat
        /\ eMBState \in {"STATE_NOT_INITIALIZED", "STATE_DISABLED", "STATE_ENABLED"}
    BY DEF Init
  <2>4. pc \in PCs
    BY DEF Init, PCs
  <2>5. /\ xEventInQueue \in BOOLEAN
        /\ eQueuedEvent \in {"EV_READY", "EV_FRAME_RECEIVED", "EV_EXECUTE"}
    BY DEF Init
  <2>6. /\ usTCPBufPos \in Nat /\ usTCPFrameBytesLeft \in Nat /\ rcvd \in Nat
        /\ bufFunc \in 0 .. 255 /\ usLength \in Nat
        /\ iBytesSent \in Nat /\ iTimeOut \in Nat
    BY DEF Init
  <2>. QED
    BY <1>1, <2>1, <2>2, <2>3, <2>4, <2>5, <2>6 DEF TypeOK
<1>3. BoundsInv
  BY DEF Init, BoundsInv
<1>. QED
  BY <1>2, <1>3 DEF Init, IInv, ControlInv, ReceivingInv, Receiving, ReceivedInv,
                    ServingInv, ExecutingInv, Queued

-----------------------------------------------------------------------------
(***************************************************************************)
(* Coming up, and the poll loop.                                           *)
(***************************************************************************)
\* The steps before the first poll, and after a failed start.
LEMMA StartIInv ==
  ASSUME IInv, TCPInit \/ TCPInitFails \/ Enable \/ Disable
  PROVE  IInv'
<1>. USE DEF stackVars, recvVars, sendVars, serveVars, clientVars
<1>1. TypeOK'
  <2>1. CASE TCPInit
    BY <2>1 DEF IInv, TypeOK, TCPInit, PCs
  <2>2. CASE TCPInitFails
    BY <2>2 DEF IInv, TypeOK, TCPInitFails, PCs
  <2>3. CASE Enable
    BY <2>3 DEF IInv, TypeOK, Enable, PCs
  <2>4. CASE Disable
    BY <2>4 DEF IInv, TypeOK, Disable, PCs
  <2>. QED
    BY <2>1, <2>2, <2>3, <2>4
<1>2. BoundsInv'
  BY DEF IInv, BoundsInv, TCPInit, TCPInitFails, Enable, Disable
<1>3. ControlInv' /\ ~ xEventInQueue' /\ pc' # "send"
  BY DEF IInv, ControlInv, TCPInit, TCPInitFails, Enable, Disable
<1>4. ~ Receiving'
  BY DEF IInv, ControlInv, Receiving, TCPInit, TCPInitFails, Enable, Disable
<1>. QED
  BY <1>1, <1>2, <1>3, <1>4
     DEF IInv, ReceivingInv, ReceivedInv, ServingInv, ExecutingInv, Queued

\* The step from an empty queue into the port.
LEMMA PollPortIInv ==
  ASSUME IInv, PollPort
  PROVE  IInv'
<1>. USE DEF stackVars, recvVars, sendVars, serveVars, clientVars
<1>1. TypeOK'
  BY DEF IInv, TypeOK, PollPort, PCs
<1>2. BoundsInv'
  BY DEF IInv, BoundsInv, PollPort
<1>3. ControlInv' /\ ~ xEventInQueue' /\ pc' # "send"
  BY DEF IInv, ControlInv, PollPort, QueueEmpty, NoClient
<1>4. ReceivingInv'
  BY DEF IInv, ReceivingInv, Receiving, InStep, FromHead, HeadFrame, PollPort,
         Polling, QueueEmpty, Queued
<1>. QED
  BY <1>1, <1>2, <1>3, <1>4
     DEF IInv, ReceivedInv, ServingInv, ExecutingInv, Queued

\* EV_FRAME_RECEIVED: the head of the stream becomes the frame served.
LEMMA FrameReceivedIInv ==
  ASSUME IInv, FrameReceived
  PROVE  IInv'
<1>. DEFINE x == xClientSocket
<1>. USE DEF stackVars, recvVars, sendVars, serveVars, clientVars
<1>1. /\ x \in Connections /\ taken[x] \in Nat /\ taken[x] < Len(issued[x])
      /\ HeadFrame(x) \in Frames
      /\ usTCPBufPos = FrameSize(HeadFrame(x)) /\ usTCPBufPos >= MB_TCP_FUNC
      /\ FromHead
  BY HeadFacts DEF IInv, TypeOK, ControlInv, ReceivedInv, FrameReceived, Queued
<1>2. /\ PDULength = HeadFrame(x).pdu.len /\ PDULength \in Nat
      /\ PDULength > 0 => usTCPBufPos > MB_TCP_FUNC
  BY <1>1, FrameFacts DEF PDULength, MB_TCP_UID, MB_TCP_FUNC
<1>3. /\ taken' = [taken EXCEPT ![x] = @ + 1] /\ rcvd' = 0
      /\ usTCPBufPos' = 0 /\ usTCPFrameBytesLeft' = MB_TCP_FUNC
      /\ usLength' \in {usLength, PDULength}
      /\ UNCHANGED <<pc, eMBState, xClientSocket, bufFunc, from, result,
                     usRegHoldingBuf, sendVars, clientVars, replied>>
      /\ pc = "poll"
      /\ \/ UNCHANGED xEventInQueue /\ eQueuedEvent' = "EV_EXECUTE"
            /\ usLength' = PDULength /\ xEventInQueue
         \/ xEventInQueue' = FALSE /\ UNCHANGED eQueuedEvent
  BY DEF FrameReceived, ResetBuffer, Post, Consume, Polling, Queued
<1>4. TypeOK'
  <2>1. taken' \in [Connections -> Nat]
    BY <1>1, <1>3 DEF IInv, TypeOK
  <2>2. /\ xEventInQueue' \in BOOLEAN
        /\ eQueuedEvent' \in {"EV_READY", "EV_FRAME_RECEIVED", "EV_EXECUTE"}
    BY <1>3 DEF IInv, TypeOK
  <2>. QED
    BY <1>1, <1>2, <1>3, <2>1, <2>2 DEF IInv, TypeOK, MB_TCP_FUNC
<1>5. BoundsInv'
  BY <1>1, <1>3 DEF IInv, TypeOK, BoundsInv
<1>6. ControlInv'
  BY <1>3 DEF IInv, ControlInv
<1>7. ReceivingInv'
  BY <1>3 DEF ReceivingInv, InStep, MB_TCP_FUNC
<1>8. ReceivedInv'
  BY <1>3 DEF ReceivedInv, Queued
<1>9. taken'[x] = taken[x] + 1
  BY <1>1, <1>3 DEF IInv, TypeOK
<1>10. ServingInv'
  BY <1>1, <1>3, <1>9 DEF ServingInv, FromHead
<1>11. ExecutingInv'
  BY <1>1, <1>2, <1>3, <1>9 DEF ExecutingInv, FromHead, HeadFrame, Queued
<1>. QED
  BY <1>4, <1>5, <1>6, <1>7, <1>8, <1>10, <1>11 DEF IInv

\* The PDU a handler is given is a request, whatever words the buffer held.
LEMMA BufferedRequest ==
  ASSUME IInv, Queued("EV_EXECUTE"), NEW p \in WithStaleWords(BufferedPDU)
  PROVE  IsRequest(p)
<1>. DEFINE f == issued[xClientSocket][taken[xClientSocket]]
<1>1. f \in Frames
  BY LastTakenFacts DEF IInv, TypeOK, ControlInv, ServingInv, Queued
<1>2. usLength \in Nat /\ bufFunc \in 0 .. 255
  BY DEF IInv, TypeOK
<1>3. BufferedPDU = [f.pdu EXCEPT !.func = bufFunc, !.len = usLength]
  BY DEF BufferedPDU
<1>4. IsRequest(BufferedPDU)
  <2>1. ASSUME NEW q, IsRequest(q), NEW func \in 0 .. 255,
               NEW len \in Nat
        PROVE  IsRequest([q EXCEPT !.func = func, !.len = len])
    BY <2>1 DEF IsRequest
  <2>2. IsRequest(f.pdu)
    BY <1>1, FrameFacts
  <2>. QED
    BY <1>2, <1>3, <2>1, <2>2
<1>5. PICK s \in [1 .. MaxWords -> StaleWords] :
        p = [BufferedPDU EXCEPT !.vals =
               [i \in 1 .. MaxWords |-> IF i <= CarriedWords(BufferedPDU)
                                        THEN BufferedPDU.vals[i] ELSE s[i]]]
  BY DEF WithStaleWords
<1>6. StaleWords \subseteq Words
  BY MBFuncAssumption DEF Words, WORD
<1>7. [i \in 1 .. MaxWords |-> IF i <= CarriedWords(BufferedPDU)
                               THEN BufferedPDU.vals[i] ELSE s[i]]
        \in [1 .. MaxWords -> Words]
  BY <1>4, <1>6 DEF IsRequest
<1>. QED
  BY <1>4, <1>5, <1>7 DEF IsRequest

\* EV_EXECUTE: the handlers keep the registers and the reply in their bounds.
LEMMA ExecuteIInv ==
  ASSUME IInv, Execute
  PROVE  IInv'
<1>. USE DEF stackVars, recvVars, sendVars, serveVars, clientVars
<1>1. PICK p \in WithStaleWords(BufferedPDU) :
        LET res == Dispatch(p, usRegHoldingBuf)
        IN  /\ usRegHoldingBuf' = res.regs
            /\ usLength' = res.len
            /\ result' = [ex |-> res.ex, out |-> res.out]
            /\ bufFunc' = IF res.ex = "MB_EX_NONE" THEN bufFunc ELSE ErrorCode(bufFunc)
  BY DEF Execute
<1>2. Queued("EV_EXECUTE")
  BY DEF Execute
<1>3. IsResult(Dispatch(p, usRegHoldingBuf))
  BY <1>2, BufferedRequest, DispatchIsResult DEF IInv, TypeOK
<1>4. /\ usRegHoldingBuf' \in Registers /\ usLength' \in Nat
      /\ result' \in Results
  BY <1>1, <1>3 DEF IsResult, Results
<1>5. bufFunc' \in 0 .. 255
  <2>1. bufFunc \in 0 .. 255
    BY DEF IInv, TypeOK
  <2>2. bufFunc' = bufFunc \/ bufFunc' = ErrorCode(bufFunc)
    BY <1>1
  <2>. QED
    BY <2>1, <2>2 DEF ErrorCode
<1>6. /\ pc' = "send" /\ xEventInQueue' = FALSE
      /\ iBytesSent' = 0 /\ iTimeOut' = SEND_RETRIES
      /\ UNCHANGED <<eMBState, eQueuedEvent, xClientSocket, recvVars, clientVars,
                     taken, replied>>
      /\ pc = "poll"
  BY DEF Execute, Consume, Polling
<1>7. TypeOK'
  BY <1>4, <1>5, <1>6, ModbusTcpAssumption DEF IInv, TypeOK, PCs
<1>8. BoundsInv'
  BY <1>6 DEF IInv, BoundsInv
<1>9. ControlInv'
  BY <1>2, <1>6 DEF IInv, ControlInv, Queued
<1>10. ReceivingInv' /\ ServingInv'
  <2>1. ServingInv'
    BY <1>2, <1>6 DEF IInv, ServingInv
  <2>2. Receiving
    BY <1>2, <1>6 DEF IInv, ControlInv, Receiving, Queued
  <2>3. usTCPBufPos = 0
    BY <1>2 DEF IInv, ServingInv
  <2>4. rcvd = 0 /\ usTCPFrameBytesLeft = MB_TCP_FUNC
    BY <2>2, <2>3 DEF IInv, TypeOK, ReceivingInv, InStep, MB_TCP_FUNC
  <2>5. ReceivingInv'
    BY <1>6, <2>3, <2>4 DEF ReceivingInv, InStep, MB_TCP_FUNC
  <2>. QED
    BY <2>1, <2>5
<1>. QED
  BY <1>6, <1>7, <1>8, <1>9, <1>10 DEF IInv, ReceivedInv, ExecutingInv, Queued

-----------------------------------------------------------------------------
(***************************************************************************)
(* A new client, and the receive loop.                                     *)
(***************************************************************************)
\* A new client starts with an empty buffer.
LEMMA AcceptIInv ==
  ASSUME IInv, Accept
  PROVE  IInv'
<1>. USE DEF stackVars, recvVars, sendVars, serveVars, clientVars
<1>1. Head(backlog) \in Connections /\ Tail(backlog) \in Seq(Connections)
  BY DEF Accept, IInv, TypeOK
<1>2. Head(backlog) # NoConnection
  BY <1>1, ModbusTcpAssumption
<1>3. TypeOK'
  BY <1>1 DEF IInv, TypeOK, Accept, ResetBuffer, MB_TCP_FUNC, PCs
<1>4. BoundsInv'
  BY DEF IInv, BoundsInv, Accept
<1>5. ControlInv' /\ ~ xEventInQueue' /\ pc' = "pool"
  BY DEF IInv, ControlInv, Accept
<1>6. ReceivingInv'
  BY DEF Accept, ResetBuffer, ReceivingInv, InStep, MB_TCP_FUNC
<1>. QED
  BY <1>3, <1>4, <1>5, <1>6 DEF IInv, ReceivedInv, ServingInv, ExecutingInv, Queued

\* A failed accept leaves the thread without a client.
LEMMA AcceptFailsIInv ==
  ASSUME IInv, AcceptFails
  PROVE  IInv'
<1>. USE DEF stackVars, recvVars, sendVars, serveVars, clientVars
<1>1. TypeOK'
  BY DEF IInv, TypeOK, AcceptFails, PCs
<1>2. BoundsInv'
  BY DEF IInv, BoundsInv, AcceptFails
<1>3. ControlInv' /\ ~ xEventInQueue' /\ pc' # "send" /\ xClientSocket' = NoConnection
  BY DEF IInv, ControlInv, AcceptFails
<1>. QED
  BY <1>1, <1>2, <1>3
     DEF IInv, ReceivingInv, Receiving, ReceivedInv, ServingInv, ExecutingInv, Queued

\* What recv finds and what a byte more makes of the buffer.
LEMMA RecvFacts ==
  ASSUME IInv, NEW k \in 1 .. MB_TCP_BUF_SIZE, Arrive(k), RecvBytes(k)
  PROVE  /\ k \in Nat /\ k >= 1 /\ k <= usTCPFrameBytesLeft
         /\ xClientSocket \in Connections /\ pc = "pool" /\ ~ xEventInQueue
         /\ taken[xClientSocket] < Len(issued[xClientSocket])
         /\ HeadFrame(xClientSocket) \in Frames
         /\ InStep
         /\ UNCHANGED <<eMBState, xClientSocket, serveVars, sendVars, clientVars, taken,
                        replied>>
         /\ usTCPBufPos' = usTCPBufPos + k /\ rcvd' = rcvd + k
         /\ from' = {<<xClientSocket, taken[xClientSocket] + 1>>}
         /\ bufFunc' \in 0 .. 255
         /\ usTCPBufPos' > MB_TCP_FUNC
              => bufFunc' = HeadFrame(xClientSocket).pdu.func
<1>. DEFINE x == xClientSocket
<1>1. /\ k \in Nat /\ k >= 1 /\ k <= usTCPFrameBytesLeft /\ k <= Available(x)
      /\ pc = "pool" /\ x # NoConnection
  BY ModbusTcpAssumption DEF Arrive, MayArrive, Pooling
<1>2. x \in Connections /\ ~ xEventInQueue
  BY <1>1 DEF IInv, TypeOK, ControlInv
<1>3. taken[x] < Len(issued[x])
  <2>1. taken[x] \in Nat /\ issued[x] \in Seq(Frames) /\ taken[x] <= Len(issued[x])
    BY <1>2 DEF IInv, TypeOK, BoundsInv
  <2>2. Len(issued[x]) - taken[x] # 0
    BY <1>1 DEF Available
  <2>. QED
    BY <2>1, <2>2
<1>4. HeadFrame(x) \in Frames
  BY <1>2, <1>3, HeadFacts DEF IInv
<1>5. InStep /\ (usTCPBufPos > 0 => FromHead)
  BY <1>1, <1>2 DEF IInv, ReceivingInv, Receiving, Queued
<1>6. /\ UNCHANGED <<eMBState, xClientSocket, serveVars, sendVars, clientVars, taken,
                     replied>>
      /\ usTCPBufPos' = usTCPBufPos + k /\ rcvd' = rcvd + k
      /\ from' = (IF usTCPBufPos = 0 THEN {} ELSE from) \cup {<<x, taken[x] + 1>>}
      /\ bufFunc' = IF usTCPBufPos <= MB_TCP_FUNC /\ usTCPBufPos + k > MB_TCP_FUNC
                    THEN HeadFrame(x).pdu.func ELSE bufFunc
  BY DEF RecvBytes
<1>7. usTCPBufPos \in Nat /\ bufFunc \in 0 .. 255
  BY DEF IInv, TypeOK
<1>8. from' = {<<x, taken[x] + 1>>}
  BY <1>5, <1>6, <1>7 DEF FromHead
<1>9. bufFunc' \in 0 .. 255
  BY <1>4, <1>6, <1>7, FrameFacts
<1>10. usTCPBufPos' > MB_TCP_FUNC => bufFunc' = HeadFrame(x).pdu.func
  BY <1>5, <1>6, <1>7 DEF FromHead, MB_TCP_FUNC
<1>. QED
  BY <1>1, <1>2, <1>3, <1>4, <1>5, <1>6, <1>8, <1>9, <1>10

\* The types and bounds that all three outcomes of recv keep.
LEMMA RecvTypes ==
  ASSUME IInv, NEW k \in 1 .. MB_TCP_BUF_SIZE, Arrive(k), RecvBytes(k),
         usTCPFrameBytesLeft' \in Nat, pc' \in PCs, xEventInQueue' \in BOOLEAN,
         eQueuedEvent' \in {"EV_READY", "EV_FRAME_RECEIVED", "EV_EXECUTE"}
  PROVE  TypeOK' /\ BoundsInv'
<1>. USE DEF recvVars, sendVars, serveVars, clientVars
<1>1. TypeOK'
  <2>1. from' \subseteq Connections \X Nat
    <3>1. from' = {<<xClientSocket, taken[xClientSocket] + 1>>} /\ xClientSocket \in Connections
      BY RecvFacts
    <3>2. taken[xClientSocket] + 1 \in Nat
      BY <3>1 DEF IInv, TypeOK
    <3>. QED
      BY <3>1, <3>2
  <2>2. usTCPBufPos' \in Nat /\ rcvd' \in Nat /\ bufFunc' \in 0 .. 255
    <3>1. /\ usTCPBufPos' = usTCPBufPos + k /\ rcvd' = rcvd + k /\ k \in Nat
          /\ bufFunc' \in 0 .. 255
      BY RecvFacts
    <3>2. usTCPBufPos \in Nat /\ rcvd \in Nat
      BY DEF IInv, TypeOK
    <3>. QED
      BY <3>1, <3>2
  <2>. QED
    BY <2>1, <2>2, RecvFacts DEF IInv, TypeOK
<1>2. BoundsInv'
  BY RecvFacts DEF IInv, BoundsInv
<1>. QED
  BY <1>1, <1>2

\* recv leaves the header or the frame incomplete.
LEMMA RecvPartIInv ==
  ASSUME IInv, NEW k \in 1 .. MB_TCP_BUF_SIZE, RecvPart(k)
  PROVE  IInv'
<1>. DEFINE x    == xClientSocket
            size == FrameSize(HeadFrame(x))
            pos  == usTCPBufPos + k
<1>. USE DEF recvVars, sendVars, serveVars, clientVars
<1>1. /\ Arrive(k) /\ RecvBytes(k) /\ UNCHANGED <<pc, xEventInQueue, eQueuedEvent>>
      /\ IF pos >= MB_TCP_FUNC
         THEN pos < size /\ usTCPFrameBytesLeft' = size - pos
         ELSE usTCPFrameBytesLeft' = usTCPFrameBytesLeft - k
  BY DEF RecvPart, HeaderComplete
<1>2. size \in Nat /\ usTCPBufPos \in Nat /\ usTCPFrameBytesLeft \in Nat
  BY <1>1, RecvFacts, FrameFacts DEF IInv, TypeOK
<1>3. /\ usTCPFrameBytesLeft' \in Nat /\ usTCPFrameBytesLeft' > 0
      /\ usTCPBufPos' = pos /\ pos > 0
  BY SMTT(30), <1>1, <1>2, RecvFacts, ModbusTcpAssumption DEF InStep, MB_TCP_FUNC
<1>4. TypeOK' /\ BoundsInv'
  BY <1>1, <1>3, RecvTypes DEF IInv, TypeOK
<1>5. ControlInv' /\ ~ xEventInQueue' /\ pc' # "send"
  BY <1>1, RecvFacts DEF IInv, ControlInv
<1>6. UNCHANGED <<xClientSocket, taken, issued>>
  BY <1>1, RecvFacts
<1>7. HeadFrame(x)' = HeadFrame(x)
  BY <1>6 DEF HeadFrame
<1>8. InStep'
  <2>1. usTCPBufPos' = rcvd'
    BY <1>1, RecvFacts DEF InStep
  <2>2. CASE pos < MB_TCP_FUNC
    <3>1. usTCPBufPos < MB_TCP_FUNC /\ InStep /\ k \in Nat
      BY <1>1, <1>2, <2>2, RecvFacts DEF MB_TCP_FUNC
    <3>2. usTCPFrameBytesLeft' = usTCPFrameBytesLeft - k
      BY <1>1, <1>2, <2>2, <3>1 DEF MB_TCP_FUNC
    <3>3. usTCPBufPos' + usTCPFrameBytesLeft' = MB_TCP_FUNC
      BY <1>2, <1>3, <3>1, <3>2 DEF InStep, MB_TCP_FUNC
    <3>. QED
      BY <1>3, <2>1, <2>2, <3>3 DEF InStep
  <2>3. CASE pos >= MB_TCP_FUNC
    BY <1>1, <1>2, <1>3, <1>6, <1>7, <2>1, <2>3, RecvFacts DEF InStep, MB_TCP_FUNC
  <2>4. pos \in Nat
    BY <1>1, <1>2, RecvFacts
  <2>. QED
    BY <2>2, <2>3, <2>4 DEF MB_TCP_FUNC
<1>9. FromHead'
  BY <1>1, <1>6, <1>7, RecvFacts DEF FromHead
<1>. QED
  BY <1>4, <1>5, <1>8, <1>9
     DEF IInv, ReceivingInv, ReceivedInv, ServingInv, ExecutingInv, Queued

\* recv completes the frame.
LEMMA RecvFrameIInv ==
  ASSUME IInv, NEW k \in 1 .. MB_TCP_BUF_SIZE, RecvFrame(k)
  PROVE  IInv'
<1>. DEFINE x    == xClientSocket
            size == FrameSize(HeadFrame(x))
            pos  == usTCPBufPos + k
<1>. USE DEF recvVars, sendVars, serveVars, clientVars
<1>1. /\ Arrive(k) /\ RecvBytes(k)
      /\ pos >= MB_TCP_FUNC /\ pos = size
      /\ usTCPFrameBytesLeft' = usTCPFrameBytesLeft - k
      /\ xEventInQueue' = TRUE /\ eQueuedEvent' = "EV_FRAME_RECEIVED" /\ pc' = "poll"
  BY DEF RecvFrame, FrameComplete, HeaderComplete, Post
<1>2. usTCPFrameBytesLeft' \in Nat /\ usTCPBufPos' = pos
  <2>1. /\ usTCPBufPos' = usTCPBufPos + k
        /\ k \in Nat /\ k <= usTCPFrameBytesLeft
    BY <1>1, RecvFacts
  <2>2. usTCPBufPos \in Nat /\ usTCPFrameBytesLeft \in Nat
    BY DEF IInv, TypeOK
  <2>. QED
    BY <1>1, <2>1, <2>2, ModbusTcpAssumption
<1>3. TypeOK' /\ BoundsInv'
  BY <1>1, <1>2, RecvTypes DEF PCs
<1>4. UNCHANGED <<xClientSocket, taken, issued>> /\ x # NoConnection
  BY <1>1, RecvFacts, ModbusTcpAssumption
<1>5. HeadFrame(x)' = HeadFrame(x)
  BY <1>4 DEF HeadFrame
<1>6. ControlInv'
  BY <1>1, <1>4 DEF ControlInv
<1>7. FromHead'
  BY <1>1, <1>4, <1>5, RecvFacts DEF FromHead
<1>8. ReceivedInv'
  BY <1>1, <1>2, <1>4, <1>5, <1>7, RecvFacts DEF ReceivedInv
<1>. QED
  BY <1>1, <1>3, <1>6, <1>7, <1>8
     DEF IInv, ReceivingInv, Receiving, ServingInv, ExecutingInv, Queued

\* recv got more than the frame has: the process is aborted.
LEMMA RecvBeyondIInv ==
  ASSUME IInv, NEW k \in 1 .. MB_TCP_BUF_SIZE, RecvBeyond(k)
  PROVE  IInv'
<1>1. /\ Arrive(k) /\ RecvBytes(k)
      /\ usTCPFrameBytesLeft' = usTCPFrameBytesLeft - k
      /\ pc' = "aborted" /\ UNCHANGED <<xEventInQueue, eQueuedEvent>>
  BY DEF RecvBeyond
<1>2. usTCPFrameBytesLeft' \in Nat
  <2>1. /\ usTCPBufPos' = usTCPBufPos + k
        /\ k \in Nat /\ k <= usTCPFrameBytesLeft
    BY <1>1, RecvFacts
  <2>2. usTCPBufPos \in Nat /\ usTCPFrameBytesLeft \in Nat
    BY DEF IInv, TypeOK
  <2>. QED
    BY <1>1, <2>1, <2>2, ModbusTcpAssumption
<1>3. TypeOK' /\ BoundsInv'
  BY <1>1, <1>2, RecvTypes DEF IInv, TypeOK, PCs
<1>4. ~ xEventInQueue'
  BY <1>1, RecvFacts
<1>. QED
  BY <1>1, <1>3, <1>4
     DEF IInv, ControlInv, ReceivingInv, Receiving, ReceivedInv, ServingInv,
         ExecutingInv, Queued

\* recv went past the end of the buffer: nothing is said of what follows.
LEMMA RecvPastEndIInv ==
  ASSUME IInv, RecvPastEnd
  PROVE  IInv'
<1>. USE DEF stackVars, recvVars, sendVars, serveVars, clientVars
<1>1. TypeOK'
  BY DEF IInv, TypeOK, RecvPastEnd, PCs
<1>2. BoundsInv'
  BY DEF IInv, BoundsInv, RecvPastEnd
<1>3. ControlInv' /\ ~ xEventInQueue' /\ pc' = "overrun"
  BY DEF IInv, ControlInv, RecvPastEnd, MayArrive, Pooling
<1>. QED
  BY <1>1, <1>2, <1>3
     DEF IInv, ReceivingInv, Receiving, ReceivedInv, ServingInv, ExecutingInv, Queued

\* The client is released.
LEMMA RecvEndIInv ==
  ASSUME IInv, RecvEnd
  PROVE  IInv'
<1>. USE DEF stackVars, recvVars, sendVars, serveVars, clientVars
<1>1. TypeOK'
  BY DEF IInv, TypeOK, RecvEnd, ConnStates, PCs
<1>2. BoundsInv'
  BY DEF IInv, BoundsInv, RecvEnd
<1>3. ControlInv' /\ ~ xEventInQueue' /\ pc' # "send" /\ xClientSocket' = NoConnection
  BY DEF IInv, ControlInv, RecvEnd, Pooling
<1>. QED
  BY <1>1, <1>2, <1>3
     DEF IInv, ReceivingInv, Receiving, ReceivedInv, ServingInv, ExecutingInv, Queued

-----------------------------------------------------------------------------
(***************************************************************************)
(* The send loop and the clients leave the buffer and the frames already   *)
(* sent alone.                                                             *)
(***************************************************************************)
\* The streams only grow at their ends.
Grows ==
  \A c \in Connections :
    /\ Len(issued[c]) <= Len(issued'[c])
    /\ \A i \in 1 .. Len(issued[c]) : issued'[c][i] = issued[c][i]

\* The steps that touch neither buffer nor position keep the invariant.
LEMMA StreamKept ==
  ASSUME IInv, TypeOK', ControlInv', Grows,
         UNCHANGED <<stackVars, xClientSocket, recvVars, bufFunc, usLength, taken>>,
         pc' = "send" => pc = "send",
         Receiving' => Receiving
  PROVE  IInv'
<1>. DEFINE x == xClientSocket
<1>. USE DEF stackVars, recvVars
<1>1. \A c \in Connections :
        /\ taken[c] \in Nat /\ Len(issued[c]) \in Nat /\ Len(issued'[c]) \in Nat
        /\ taken[c] <= Len(issued[c]) /\ Len(issued[c]) <= Len(issued'[c])
  BY SMTT(30) DEF IInv, TypeOK, BoundsInv, Grows
<1>2. BoundsInv'
  BY <1>1 DEF IInv, BoundsInv
<1>3. ASSUME x \in Connections, taken[x] < Len(issued[x])
      PROVE  HeadFrame(x)' = HeadFrame(x) /\ taken'[x] < Len(issued'[x])
  BY SMTT(30), <1>1, <1>3 DEF HeadFrame, Grows
<1>4. ASSUME x \in Connections, taken[x] >= 1
      PROVE  issued'[x][taken[x]] = issued[x][taken[x]]
  BY <1>1, <1>4 DEF Grows
<1>5. ReceivingInv'
  <2>. SUFFICES ASSUME Receiving' PROVE InStep' /\ (usTCPBufPos > 0 => FromHead')
    BY DEF ReceivingInv
  <2>1. x \in Connections /\ InStep /\ (usTCPBufPos > 0 => FromHead)
    BY DEF IInv, TypeOK, ReceivingInv, Receiving
  <2>2. usTCPBufPos \in Nat
    BY DEF IInv, TypeOK
  <2>3. CASE usTCPBufPos < MB_TCP_FUNC
    BY <2>1, <2>2, <2>3 DEF InStep, FromHead, MB_TCP_FUNC
  <2>4. CASE ~ (usTCPBufPos < MB_TCP_FUNC)
    <3>1. taken[x] < Len(issued[x])
      BY <2>1, <2>4 DEF InStep
    <3>2. HeadFrame(x)' = HeadFrame(x) /\ taken'[x] < Len(issued'[x])
      BY <1>3, <2>1, <3>1
    <3>3. InStep'
      BY <2>1, <2>4, <3>2 DEF InStep
    <3>. QED
      BY <2>1, <3>2, <3>3 DEF FromHead
  <2>. QED
    BY <2>3, <2>4
<1>6. ReceivedInv'
  <2>. SUFFICES ASSUME Queued("EV_FRAME_RECEIVED") PROVE ReceivedInv'
    BY DEF ReceivedInv, Queued
  <2>1. x \in Connections /\ taken[x] < Len(issued[x])
    BY DEF IInv, TypeOK, ControlInv, ReceivedInv, Queued
  <2>2. HeadFrame(x)' = HeadFrame(x) /\ taken'[x] < Len(issued'[x])
    BY <1>3, <2>1
  <2>. QED
    BY <2>2 DEF IInv, ReceivedInv, FromHead
<1>7. ServingInv'
  BY DEF IInv, ServingInv, Queued
<1>8. ExecutingInv'
  <2>. SUFFICES ASSUME Queued("EV_EXECUTE") PROVE ExecutingInv'
    BY DEF ExecutingInv, Queued
  <2>1. x \in Connections /\ taken[x] >= 1
    BY DEF IInv, TypeOK, ControlInv, ServingInv, Queued
  <2>2. issued'[x'][taken'[x']] = issued[x][taken[x]]
    BY <1>4, <2>1
  <2>. QED
    BY <2>2 DEF IInv, ExecutingInv
<1>. QED
  BY <1>2, <1>5, <1>6, <1>7, <1>8 DEF IInv

\* Streams that stay as they are have grown.
LEMMA SameStreams ==
  ASSUME UNCHANGED issued
  PROVE  Grows
BY DEF Grows

\* The send loop.
LEMMA SendIInv ==
  ASSUME IInv,
         \/ \E k \in 1 .. MB_TCP_BUF_SIZE : SendPart(k)
         \/ Send \/ SendRetry \/ SendAbort \/ SendKilled
  PROVE  IInv'
<1>. USE DEF stackVars, recvVars, sendVars, serveVars, clientVars
<1>1. pc = "send" /\ pc' \in {"send", "poll", "killed"} /\ ~ xEventInQueue
  BY DEF IInv, ControlInv, SendPart, Send, SendRetry, SendAbort, SendKilled, Sending,
         SendError
<1>2. UNCHANGED <<stackVars, xClientSocket, recvVars, bufFunc, usLength, taken, issued>>
  BY DEF SendPart, Send, SendRetry, SendAbort, SendKilled
<1>3. TypeOK'
  <2>0. xClientSocket \in Connections
    BY <1>1 DEF IInv, TypeOK, ControlInv
  <2>1. ASSUME NEW k \in 1 .. MB_TCP_BUF_SIZE, SendPart(k)
        PROVE  TypeOK'
    <3>1. iBytesSent' \in Nat
      BY <2>1, ModbusTcpAssumption DEF SendPart, IInv, TypeOK
    <3>. QED
      BY <2>1, <3>1 DEF IInv, TypeOK, SendPart
  <2>2. CASE Send
    <3>1. iBytesSent' \in Nat
      BY <2>2 DEF Send, usTCPLength, MB_TCP_FUNC, IInv, TypeOK
    <3>2. [from |-> from, ex |-> result.ex, len |-> usLength, out |-> result.out]
            \in Replies
      BY DEF IInv, TypeOK, Results, Replies
    <3>3. replied' \in [Connections -> Seq(Replies)]
      BY <2>2, <2>0, <3>2 DEF Send, IInv, TypeOK
    <3>. QED
      BY <2>2, <3>1, <3>3 DEF IInv, TypeOK, Send, PCs
  <2>3. SendError => conn' \in [Connections -> ConnStates]
    BY <2>0 DEF SendError, IInv, TypeOK, ConnStates
  <2>4. CASE SendRetry
    BY <2>3, <2>4 DEF IInv, TypeOK, SendRetry
  <2>5. CASE SendAbort
    BY <2>3, <2>5 DEF IInv, TypeOK, SendAbort, PCs
  <2>6. CASE SendKilled
    BY <2>6 DEF IInv, TypeOK, SendKilled, PCs
  <2>. QED
    BY <2>1, <2>2, <2>4, <2>5, <2>6
<1>4. ControlInv'
  BY <1>1, <1>2 DEF IInv, ControlInv
<1>5. Receiving' => Receiving
  BY <1>1, <1>2 DEF Receiving, Queued
<1>. QED
  BY <1>1, <1>2, <1>3, <1>4, <1>5, SameStreams, StreamKept

\* The clients.
LEMMA ClientIInv ==
  ASSUME IInv, NEW c \in Connections, Client(c)
  PROVE  IInv'
<1>. USE DEF stackVars, recvVars, sendVars, serveVars, clientVars, serverVars
<1>1. UNCHANGED serverVars
  BY DEF Client, Connect, Issue, Finish, Reset, ResetByClosed
<1>2. /\ conn' \in [Connections -> ConnStates]
      /\ backlog' \in Seq(Connections)
      /\ issued' \in [Connections -> Seq(Frames)]
      /\ Grows
  <2>1. ASSUME UNCHANGED <<backlog, issued>>,
               \E s \in ConnStates : conn' = [conn EXCEPT ![c] = s]
        PROVE  /\ conn' \in [Connections -> ConnStates]
               /\ backlog' \in Seq(Connections)
               /\ issued' \in [Connections -> Seq(Frames)]
               /\ Grows
    BY <2>1, SameStreams DEF IInv, TypeOK
  <2>2. CASE Connect(c)
    BY <2>2, SameStreams DEF Connect, IInv, TypeOK, ConnStates
  <2>3. CASE Issue(c)
    <3>1. PICK f \in Frames : issued' = [issued EXCEPT ![c] = Append(@, f)]
      BY <2>3 DEF Issue
    <3>2. issued \in [Connections -> Seq(Frames)]
      BY DEF IInv, TypeOK
    <3>3. Grows
      BY <3>1, <3>2 DEF Grows
    <3>. QED
      BY <2>3, <3>1, <3>2, <3>3 DEF Issue, IInv, TypeOK
  <2>4. CASE Finish(c)
    BY <2>1, <2>4 DEF Finish, ConnStates
  <2>5. CASE Reset(c)
    BY <2>1, <2>5 DEF Reset, ConnStates
  <2>6. CASE ResetByClosed(c)
    BY <2>1, <2>6 DEF ResetByClosed, ConnStates
  <2>. QED
    BY <2>2, <2>3, <2>4, <2>5, <2>6 DEF Client
<1>3. TypeOK'
  BY <1>1, <1>2 DEF IInv, TypeOK
<1>4. ControlInv' /\ (Receiving' => Receiving)
  BY <1>1 DEF IInv, ControlInv, Receiving, Queued
<1>. QED
  BY <1>1, <1>2, <1>3, <1>4, StreamKept

\* The second fact: every step keeps the invariant.
LEMMA NextIInv == IInv /\ [Next]_vars => IInv'
<1>. SUFFICES ASSUME IInv, [Next]_vars PROVE IInv'
  OBVIOUS
<1>1. CASE ModbusThread
  BY <1>1, StartIInv, PollPortIInv, FrameReceivedIInv, ExecuteIInv, AcceptIInv,
     AcceptFailsIInv, RecvPartIInv, RecvFrameIInv, RecvBeyondIInv, RecvPastEndIInv,
     RecvEndIInv, SendIInv
     DEF ModbusThread
<1>2. ASSUME NEW c \in Connections, Client(c)
      PROVE  IInv'
  BY <1>2, ClientIInv
<1>3. CASE UNCHANGED vars
  BY <1>3 DEF vars, stackVars, recvVars, sendVars, serveVars, clientVars, IInv, TypeOK,
       ControlInv, BoundsInv, ReceivingInv, Receiving, InStep, FromHead,
       HeadFrame, ReceivedInv, ServingInv, ExecutingInv, Queued
<1>. QED
  BY <1>1, <1>2, <1>3 DEF Next

\* What the theorems below follow from.
THEOREM IInvHolds == Spec => []IInv
BY InitIInv, NextIInv, PTL DEF Spec

-----------------------------------------------------------------------------
(***************************************************************************)
(* The theorems.                                                           *)
(***************************************************************************)

\* Every variable of the Modbus thread keeps its type; the registers in
\* particular keep their domain, no handler having written past the array.
THEOREM TypeCorrect == Spec => []TypeOK
BY IInvHolds, PTL DEF IInv

\* However the bytes are cut, whoever disconnects: the buffer is in step with
\* the byte stream of the connected client each time recv is called.
THEOREM FramesInSync == Spec => []FrameSync
<1>1. IInv => FrameSync
  BY DEF IInv, TypeOK, ControlInv, ReceivingInv, Receiving, InStep, FrameSync, Pooling,
         Queued
<1>. QED
  BY <1>1, IInvHolds, PTL

\* The frame in which recv went past the end of the buffer stays at the head.
TooLongInv ==
  pc = "overrun" =>
    /\ xClientSocket \in Connections
    /\ taken[xClientSocket] < Len(issued[xClientSocket])
    /\ FrameSize(HeadFrame(xClientSocket)) > MB_TCP_BUF_SIZE

\* Room past the end of the buffer is room for the frame at the head.
LEMMA RoomIsHeads ==
  ASSUME IInv, Pooling, usTCPBufPos + usTCPFrameBytesLeft > MB_TCP_BUF_SIZE
  PROVE  /\ xClientSocket \in Connections
         /\ taken[xClientSocket] < Len(issued[xClientSocket])
         /\ FrameSize(HeadFrame(xClientSocket)) > MB_TCP_BUF_SIZE
<1>1. InStep /\ xClientSocket \in Connections
  BY DEF IInv, TypeOK, ControlInv, ReceivingInv, Receiving, Pooling, Queued
<1>2. usTCPBufPos \in Nat /\ usTCPFrameBytesLeft \in Nat
  BY DEF IInv, TypeOK
<1>3. MB_TCP_BUF_SIZE \in Nat /\ MB_TCP_BUF_SIZE >= MB_TCP_FUNC
  BY ModbusTcpAssumption, MBFuncAssumption DEF MB_TCP_FUNC
<1>4. usTCPBufPos >= MB_TCP_FUNC
  BY <1>1, <1>2, <1>3 DEF InStep, MB_TCP_FUNC
<1>. QED
  BY <1>1, <1>2, <1>3, <1>4 DEF InStep, MB_TCP_FUNC

LEMMA NextTooLong == IInv /\ TooLongInv /\ [Next]_vars => TooLongInv'
<1>. SUFFICES ASSUME IInv, TooLongInv, [Next]_vars, pc' = "overrun" PROVE TooLongInv'
  BY DEF TooLongInv
<1>. USE DEF stackVars, recvVars, sendVars, serveVars, clientVars, serverVars
<1>1. CASE RecvPastEnd
  <2>1. Pooling /\ usTCPBufPos + usTCPFrameBytesLeft > MB_TCP_BUF_SIZE
    BY <1>1, ModbusTcpAssumption DEF RecvPastEnd, MayArrive, IInv, TypeOK
  <2>2. UNCHANGED <<xClientSocket, taken, issued>>
    BY <1>1 DEF RecvPastEnd
  <2>. QED
    BY <2>1, <2>2, RoomIsHeads DEF TooLongInv, HeadFrame
<1>2. CASE ModbusThread /\ ~ RecvPastEnd
  BY <1>2 DEF ModbusThread, TCPInit, TCPInitFails, Enable, Disable, PollPort, FrameReceived,
     Execute, Polling, Accept, AcceptFails, RecvPart, RecvFrame, RecvBeyond, Arrive, MayArrive,
     Pooling, RecvEnd, SendPart, Send, SendRetry, SendAbort, SendKilled, SendError, Sending
<1>3. ASSUME NEW c \in Connections, Client(c)
      PROVE  TooLongInv'
  <2>1. UNCHANGED serverVars
    BY <1>3 DEF Client, Connect, Issue, Finish, Reset, ResetByClosed
  <2>2. Grows
    <3>1. CASE UNCHANGED issued
      BY <3>1, SameStreams
    <3>2. CASE Issue(c)
      BY <3>2 DEF Issue, Grows, IInv, TypeOK
    <3>. QED
      BY <1>3, <3>1, <3>2 DEF Client, Connect, Finish, Reset, ResetByClosed
  <2>3. /\ pc = "overrun" /\ UNCHANGED <<xClientSocket, taken>>
        /\ taken[xClientSocket] \in Nat /\ issued \in [Connections -> Seq(Frames)]
    BY <2>1 DEF TooLongInv, IInv, TypeOK
  <2>4. /\ taken[xClientSocket] < Len(issued'[xClientSocket])
        /\ HeadFrame(xClientSocket)' = HeadFrame(xClientSocket)
    <3>1. /\ xClientSocket \in Connections /\ taken[xClientSocket] < Len(issued[xClientSocket])
          /\ Len(issued[xClientSocket]) \in Nat
          /\ Len(issued[xClientSocket]) <= Len(issued'[xClientSocket])
          /\ taken[xClientSocket] + 1 \in 1 .. Len(issued[xClientSocket])
          /\ taken' = taken /\ xClientSocket' = xClientSocket
      BY <2>2, <2>3 DEF TooLongInv, Grows
    <3>2. Len(issued'[xClientSocket]) \in Nat
      BY <1>3, <3>1, ClientIInv DEF IInv, TypeOK
    <3>. QED
      BY <2>2, <2>3, <3>1, <3>2 DEF Grows, HeadFrame
  <2>. QED
    BY <2>3, <2>4 DEF TooLongInv
<1>4. CASE UNCHANGED vars
  BY <1>4 DEF vars, TooLongInv, HeadFrame
<1>. QED
  BY <1>1, <1>2, <1>3, <1>4 DEF Next

\* recv gets room past the end of aucTCPBuf only for a frame whose own Length says so:
\* never by what an earlier frame or client has left in position and bytes left.
THEOREM BufferIsBounded == Spec => []BufferBound
<1>1. IInv /\ TooLongInv => BufferBound
  BY RoomIsHeads DEF BufferBound, TooLongInv
<1>2. Init => TooLongInv
  BY DEF Init, TooLongInv
<1>. QED
  BY <1>1, <1>2, IInvHolds, NextTooLong, PTL DEF Spec

\* A frame that is served holds no byte of another frame or client.
THEOREM FramesHaveOneSource == Spec => []OneSource
<1>1. IInv => OneSource
  BY DEF IInv, ReceivedInv, FromHead, ServingInv, OneSource
<1>. QED
  BY <1>1, IInvHolds, PTL

\* eMBPoll works on the function code and the length that were sent.
THEOREM WhatWasSentIsExecuted == Spec => []ExecutesWhatWasSent
<1>1. IInv => ExecutesWhatWasSent
  BY DEF IInv, ExecutingInv, ExecutesWhatWasSent
<1>. QED
  BY <1>1, IInvHolds, PTL

\* While an event waits in its single slot, or a reply is being sent, nothing is
\* received into the buffer and the client is not exchanged.
THEOREM ServingIsUndisturbed == Spec => ServedUndisturbed
<1>. DEFINE Kept == xEventInQueue \/ pc = "send" =>
                      rcvd' \in {0, rcvd} /\ xClientSocket' = xClientSocket
<1>1. IInv /\ [Next]_vars => [Kept]_vars
  <2>. SUFFICES ASSUME IInv, Next, xEventInQueue \/ pc = "send"
                PROVE  rcvd' \in {0, rcvd} /\ xClientSocket' = xClientSocket
    OBVIOUS
  <2>. USE DEF stackVars, recvVars, sendVars, serveVars, clientVars, serverVars
  <2>1. pc \in {"poll", "send"} /\ (pc = "poll" => xEventInQueue)
    BY DEF IInv, ControlInv
  <2>2. CASE ModbusThread
    <3>1. CASE FrameReceived \/ Execute
      BY <3>1 DEF FrameReceived, Execute
    <3>2. CASE \/ \E k \in 1 .. MB_TCP_BUF_SIZE : SendPart(k)
               \/ Send \/ SendRetry \/ SendAbort \/ SendKilled
      BY <3>2 DEF SendPart, Send, SendRetry, SendAbort, SendKilled
    <3>3. CASE \/ TCPInit \/ TCPInitFails \/ Enable \/ Disable \/ PollPort
               \/ Accept \/ AcceptFails \/ RecvPastEnd \/ RecvEnd
               \/ \E k \in 1 .. MB_TCP_BUF_SIZE :
                    RecvPart(k) \/ RecvFrame(k) \/ RecvBeyond(k)
      BY <2>1, <3>3 DEF TCPInit, TCPInitFails, Enable, Disable, PollPort, QueueEmpty,
         Accept, AcceptFails, RecvEnd, RecvPart, RecvFrame, RecvBeyond, RecvPastEnd,
         Arrive, MayArrive, Pooling
    <3>. QED
      BY <2>2, <3>1, <3>2, <3>3 DEF ModbusThread
  <2>3. ASSUME NEW c \in Connections, Client(c)
        PROVE  UNCHANGED <<rcvd, xClientSocket>>
    BY <2>3 DEF Client, Connect, Issue, Finish, Reset, ResetByClosed
  <2>. QED
    BY <2>2, <2>3 DEF Next
<1>. QED
  BY <1>1, IInvHolds, PTL DEF Spec, ServedUndisturbed

-----------------------------------------------------------------------------
(***************************************************************************)
(* The order of the replies.  RepliesInOrder is inductive together with    *)
(* what it leaves open: that the frame being served is one of Modbus and   *)
(* has not been replied to.                                                *)
(***************************************************************************)
UnansweredInv ==
  Queued("EV_EXECUTE") \/ pc = "send" =>
    LET x == xClientSocket
    IN  /\ issued[x][taken[x]].pid = 0
        /\ \A j \in DOMAIN replied[x] : ~ RepliesTo(x, j, taken[x])

OrderInv == RepliesInOrder /\ UnansweredInv

\* A reply in order stays in order when its connection gets no reply before it
\* and its requests stay what they are.
LEMMA InOrderKept ==
  ASSUME IInv, IInv', NEW c \in Connections, NEW j \in Nat, InOrder(c, j), Grows,
         taken[c] <= taken'[c],
         \A h \in 1 .. j : replied'[c][h] = replied[c][h], j >= 1
  PROVE  InOrder(c, j)'
<1>1. PICK i \in 1 .. taken[c] :
        /\ RepliesTo(c, j, i) /\ issued[c][i].pid = 0
        /\ \A h \in 1 .. j - 1 : ~ RepliesTo(c, h, i)
        /\ j > 1 => \E g \in 1 .. i - 1 : RepliesTo(c, j - 1, g)
  BY DEF InOrder
<1>2. /\ taken[c] \in Nat /\ taken'[c] \in Nat
      /\ taken[c] <= Len(issued[c]) /\ Len(issued[c]) \in Nat
  BY DEF IInv, TypeOK, BoundsInv
<1>3. i \in 1 .. taken'[c] /\ i \in 1 .. Len(issued[c])
  BY <1>2
<1>4. issued'[c][i] = issued[c][i]
  BY <1>3 DEF Grows
<1>5. \A h \in 1 .. j, g \in Nat : RepliesTo(c, h, g)' <=> RepliesTo(c, h, g)
  BY DEF RepliesTo
<1>6. RepliesTo(c, j, i)' /\ \A h \in 1 .. j - 1 : ~ RepliesTo(c, h, i)'
  BY <1>1, <1>3, <1>5
<1>7. j > 1 => \E g \in 1 .. i - 1 : RepliesTo(c, j - 1, g)'
  <2>. SUFFICES ASSUME j > 1 PROVE \E g \in 1 .. i - 1 : RepliesTo(c, j - 1, g)'
    OBVIOUS
  <2>1. PICK g \in 1 .. i - 1 : RepliesTo(c, j - 1, g)
    BY <1>1
  <2>2. RepliesTo(c, j - 1, g)'
    BY <1>3, <1>5, <2>1
  <2>. QED
    BY <2>2
<1>. QED
  BY <1>1, <1>3, <1>4, <1>6, <1>7 DEF InOrder

\* A step that sends no reply leaves the replies in order.
LEMMA RepliesKept ==
  ASSUME IInv, IInv', RepliesInOrder, Grows, UNCHANGED replied,
         \A c \in Connections : taken[c] <= taken'[c]
  PROVE  RepliesInOrder'
<1>. SUFFICES ASSUME NEW c \in Connections, NEW j \in DOMAIN replied[c]
              PROVE  InOrder(c, j)'
  BY DEF RepliesInOrder
<1>1. replied[c] \in Seq(Replies)
  BY DEF IInv, TypeOK
<1>2. j \in Nat /\ j >= 1
  BY <1>1
<1>3. InOrder(c, j)
  BY DEF RepliesInOrder
<1>. QED
  BY <1>2, <1>3, InOrderKept

\* What a reply in order says of itself.
LEMMA InOrderPick ==
  ASSUME NEW c, NEW j, InOrder(c, j)
  PROVE  \E i \in 1 .. taken[c] : RepliesTo(c, j, i)
BY DEF InOrder

\* A reply answers one request.
LEMMA OneRequest ==
  ASSUME NEW c, NEW j, NEW i, NEW h, RepliesTo(c, j, i), RepliesTo(c, j, h)
  PROVE  i = h
<1>1. {<<c, i>>} = {<<c, h>>}
  BY DEF RepliesTo
<1>2. <<c, i>> = <<c, h>>
  BY <1>1
<1>. QED
  BY <1>2

\* The reply that Send appends answers the request taken last.
LEMMA SendOrder ==
  ASSUME IInv, IInv', OrderInv, Send
  PROVE  OrderInv'
<1>0. xClientSocket \in Connections /\ taken[xClientSocket] \in Nat
      /\ Len(replied[xClientSocket]) \in Nat
  BY DEF Send, Sending, IInv, TypeOK, ControlInv
<1>. SUFFICES ASSUME NEW x \in Connections, x = xClientSocket,
                     NEW n \in Nat, n = Len(replied[x]),
                     NEW t \in Nat, t = taken[x]
              PROVE  OrderInv'
  BY <1>0
<1>. DEFINE r == [from |-> from, ex |-> result.ex, len |-> usLength, out |-> result.out]
<1>. USE DEF stackVars, recvVars, sendVars, serveVars, clientVars
<1>1. /\ t >= 1
      /\ from = {<<x, t>>}
      /\ DOMAIN replied[x] = 1 .. n /\ replied[x] \in Seq(Replies)
  BY DEF Send, Sending, IInv, TypeOK, ControlInv, ServingInv
<1>2. /\ issued[x][t].pid = 0
      /\ \A j \in 1 .. n : ~ RepliesTo(x, j, t)
  BY <1>1 DEF OrderInv, UnansweredInv, Send, Sending
<1>3. /\ replied' = [replied EXCEPT ![x] = Append(@, r)]
      /\ pc' = "poll" /\ UNCHANGED <<stackVars, xClientSocket, issued, taken>>
  BY DEF Send
<1>4. /\ replied'[x] = Append(replied[x], r)
      /\ \A c \in Connections \ {x} : replied'[c] = replied[c]
  BY <1>1, <1>3 DEF IInv, TypeOK
<1>5. /\ DOMAIN replied'[x] = 1 .. n + 1
      /\ replied'[x][n + 1] = r
      /\ \A j \in 1 .. n : replied'[x][j] = replied[x][j]
  BY <1>1, <1>4
<1>6. \A c \in Connections : \A j \in DOMAIN replied[c] : InOrder(c, j)
  BY DEF OrderInv, RepliesInOrder
<1>7. ASSUME n >= 1
      PROVE  \E g \in 1 .. t - 1 : RepliesTo(x, n, g)
  <2>0. InOrder(x, n)
    BY <1>1, <1>6, <1>7
  <2>1. PICK i \in 1 .. t : RepliesTo(x, n, i)
    BY <2>0, InOrderPick
  <2>2. i # t
    BY <1>1, <1>2, <1>7, <2>1
  <2>. QED
    BY <1>1, <2>1, <2>2
<1>8. Grows /\ \A c \in Connections : taken[c] \in Nat /\ taken[c] <= taken'[c]
  BY SMTT(30), <1>3, SameStreams DEF IInv, TypeOK
<1>9. InOrder(x, n + 1)'
  <2>1. \A h \in 1 .. n : ~ RepliesTo(x, h, t)'
    BY <1>1, <1>2, <1>3, <1>5 DEF RepliesTo
  <2>2. RepliesTo(x, n + 1, t)'
    BY <1>1, <1>3, <1>5 DEF RepliesTo
  <2>3. n + 1 > 1 => \E g \in 1 .. t - 1 : RepliesTo(x, n, g)'
    <3>. SUFFICES ASSUME n >= 1
                  PROVE  \E g \in 1 .. t - 1 : RepliesTo(x, n, g)'
      BY <1>1
    <3>1. PICK g \in 1 .. t - 1 : RepliesTo(x, n, g)
      BY <1>7
    <3>2. RepliesTo(x, n, g)'
      BY <1>1, <1>3, <1>5, <3>1 DEF RepliesTo
    <3>. QED
      BY <3>2
  <2>4. t \in 1 .. t /\ (n + 1) - 1 = n
    BY <1>1
  <2>5. /\ \A h \in 1 .. (n + 1) - 1 : ~ RepliesTo(x, h, t)'
        /\ n + 1 > 1 => \E g \in 1 .. t - 1 : RepliesTo(x, (n + 1) - 1, g)'
    BY <2>1, <2>3, <2>4, Zenon
  <2>6. t \in 1 .. taken'[x] /\ issued'[x][t].pid = 0
    BY <1>2, <1>3, <2>4
  <2>. QED
    BY <2>2, <2>5, <2>6, Zenon DEF InOrder
<1>10. RepliesInOrder'
  <2>. SUFFICES ASSUME NEW c \in Connections, NEW j \in DOMAIN replied'[c]
                PROVE  InOrder(c, j)'
    BY DEF RepliesInOrder
  <2>1. CASE c # x
    <3>1. replied'[c] = replied[c] /\ replied[c] \in Seq(Replies)
      BY <1>4, <2>1 DEF IInv, TypeOK
    <3>2. j \in Nat /\ j >= 1 /\ InOrder(c, j)
      BY <1>6, <3>1
    <3>. QED
      BY <1>8, <3>1, <3>2, InOrderKept
  <2>2. CASE c = x /\ j \in 1 .. n
    <3>1. j \in Nat /\ j >= 1 /\ InOrder(x, j)
      BY <1>1, <1>6, <2>2
    <3>2. \A h \in 1 .. j : replied'[x][h] = replied[x][h]
      BY <1>1, <1>5, <2>2
    <3>. QED
      BY <1>1, <1>8, <2>2, <3>1, <3>2, InOrderKept
  <2>3. CASE c = x /\ j = n + 1
    BY <1>9, <2>3
  <2>. QED
    BY <1>1, <1>5, <2>1, <2>2, <2>3
<1>11. UnansweredInv'
  BY <1>3 DEF UnansweredInv, Send, Sending, IInv, ControlInv, Queued
<1>. QED
  BY <1>10, <1>11 DEF OrderInv

\* A frame newly taken has no reply yet.
LEMMA FrameReceivedOrder ==
  ASSUME IInv, IInv', OrderInv, FrameReceived
  PROVE  OrderInv'
<1>. DEFINE x == xClientSocket
<1>. USE DEF stackVars, recvVars, sendVars, serveVars, clientVars
<1>1. /\ x \in Connections /\ taken[x] \in Nat
      /\ taken' = [taken EXCEPT ![x] = @ + 1]
      /\ UNCHANGED <<pc, xClientSocket, issued, replied>> /\ pc = "poll"
  BY DEF FrameReceived, Polling, Queued, IInv, TypeOK, ControlInv
<1>2. /\ taken'[x] = taken[x] + 1
      /\ \A c \in Connections : taken[c] \in Nat /\ taken[c] <= taken'[c]
  <2>1. taken \in [Connections -> Nat]
    BY DEF IInv, TypeOK
  <2>. QED
    BY <1>1, <2>1
<1>3. RepliesInOrder'
  BY <1>1, <1>2, SameStreams, RepliesKept DEF OrderInv
<1>4. ASSUME Queued("EV_EXECUTE")'
      PROVE  issued[x][taken[x] + 1].pid = 0
  BY <1>4 DEF FrameReceived, Queued, Consume, Post, IsModbus, HeadFrame
<1>5. ASSUME NEW j \in DOMAIN replied[x]
      PROVE  ~ RepliesTo(x, j, taken[x] + 1)
  <2>1. InOrder(x, j)
    BY <1>1 DEF OrderInv, RepliesInOrder
  <2>2. PICK i \in 1 .. taken[x] : RepliesTo(x, j, i)
    BY <2>1, InOrderPick
  <2>3. i # taken[x] + 1
    BY <1>1, <2>2
  <2>. QED
    BY <2>2, <2>3, OneRequest
<1>6. UnansweredInv'
  BY <1>1, <1>2, <1>4, <1>5 DEF UnansweredInv, RepliesTo
<1>. QED
  BY <1>3, <1>6 DEF OrderInv

\* The other steps take no frame and send no reply.
LEMMA OtherOrder ==
  ASSUME IInv, IInv', OrderInv, Grows, UNCHANGED <<xClientSocket, taken, replied>>,
         (Queued("EV_EXECUTE") \/ pc = "send")' => Queued("EV_EXECUTE") \/ pc = "send"
  PROVE  OrderInv'
<1>1. \A c \in Connections : taken[c] <= taken'[c]
  BY DEF IInv, TypeOK
<1>2. RepliesInOrder'
  BY <1>1, RepliesKept DEF OrderInv
<1>3. UnansweredInv'
  <2>. SUFFICES ASSUME Queued("EV_EXECUTE") \/ pc = "send" PROVE UnansweredInv'
    BY DEF UnansweredInv
  <2>1. /\ xClientSocket \in Connections
        /\ taken[xClientSocket] \in 1 .. Len(issued[xClientSocket])
    BY DEF IInv, TypeOK, ControlInv, ServingInv, BoundsInv, Queued
  <2>2. issued'[xClientSocket][taken[xClientSocket]] =
          issued[xClientSocket][taken[xClientSocket]]
    BY <2>1 DEF Grows
  <2>. QED
    BY <2>2 DEF OrderInv, UnansweredInv, RepliesTo
<1>. QED
  BY <1>2, <1>3 DEF OrderInv

\* Nothing is replied at first.
LEMMA InitOrder == Init => OrderInv
BY DEF Init, OrderInv, RepliesInOrder, UnansweredInv, Queued

\* Every step keeps the replies in order.
LEMMA NextOrder == IInv /\ IInv' /\ OrderInv /\ [Next]_vars => OrderInv'
<1>. SUFFICES ASSUME IInv, IInv', OrderInv, [Next]_vars PROVE OrderInv'
  OBVIOUS
<1>. DEFINE Other == /\ Grows /\ UNCHANGED <<xClientSocket, taken, replied>>
                     /\ (Queued("EV_EXECUTE") \/ pc = "send")'
                          => Queued("EV_EXECUTE") \/ pc = "send"
<1>. USE DEF stackVars, recvVars, sendVars, serveVars, clientVars, serverVars
<1>1. CASE FrameReceived
  BY <1>1, FrameReceivedOrder
<1>2. CASE Send
  BY <1>2, SendOrder
<1>3. CASE Accept \/ RecvEnd
  <2>1. ~ xEventInQueue' /\ pc' # "send" /\ UNCHANGED <<issued, taken, replied>>
    BY <1>3 DEF Accept, RecvEnd, Pooling, IInv, ControlInv
  <2>2. \A c \in Connections : taken[c] <= taken'[c]
    BY <2>1 DEF IInv, TypeOK
  <2>3. RepliesInOrder'
    BY <2>1, <2>2, SameStreams, RepliesKept DEF OrderInv
  <2>. QED
    BY <2>1, <2>3 DEF OrderInv, UnansweredInv, Queued
<1>4. ASSUME \/ TCPInit \/ TCPInitFails \/ Enable \/ Disable \/ PollPort \/ Execute
             \/ AcceptFails \/ RecvPastEnd
             \/ \E k \in 1 .. MB_TCP_BUF_SIZE :
                  RecvPart(k) \/ RecvFrame(k) \/ RecvBeyond(k)
             \/ \E k \in 1 .. MB_TCP_BUF_SIZE : SendPart(k)
             \/ SendRetry \/ SendAbort \/ SendKilled
      PROVE  Other
  <2>1. UNCHANGED <<xClientSocket, taken, replied, issued>>
    BY <1>4 DEF TCPInit, TCPInitFails, Enable, Disable, PollPort, Execute, AcceptFails,
       RecvPart, RecvFrame, RecvBeyond, RecvPastEnd, RecvBytes, SendPart, SendRetry, SendAbort,
       SendKilled
  <2>2. (Queued("EV_EXECUTE") \/ pc = "send")' => Queued("EV_EXECUTE") \/ pc = "send"
    BY <1>4 DEF TCPInit, TCPInitFails, Enable, Disable, PollPort, Execute, AcceptFails,
       RecvPart, RecvFrame, RecvBeyond, RecvPastEnd, SendPart, SendRetry, SendAbort, SendKilled,
       Sending, SendError, Post, Queued
  <2>. QED
    BY <2>1, <2>2, SameStreams
<1>5. ASSUME NEW c \in Connections, Client(c)
      PROVE  Other
  <2>1. UNCHANGED serverVars
    BY <1>5 DEF Client, Connect, Issue, Finish, Reset, ResetByClosed
  <2>2. Grows
    <3>1. CASE UNCHANGED issued
      BY <3>1, SameStreams
    <3>2. CASE Issue(c)
      BY <3>2 DEF Issue, Grows, IInv, TypeOK
    <3>. QED
      BY <1>5, <3>1, <3>2 DEF Client, Connect, Finish, Reset, ResetByClosed
  <2>. QED
    BY <2>1, <2>2 DEF Queued
<1>6. CASE UNCHANGED vars
  <2>1. Other
    BY <1>6, SameStreams DEF vars, Queued
  <2>. QED
    BY <2>1, OtherOrder
<1>. QED
  <2>1. Other => OrderInv'
    BY OtherOrder
  <2>. HIDE DEF Other
  <2>. QED
    BY <1>1, <1>2, <1>3, <1>4, <1>5, <1>6, <2>1 DEF Next, ModbusThread

\* A client is sent at most one reply to each of its own Modbus requests, in the
\* order in which it sent them, whatever becomes of its connection or of others.
THEOREM RepliesComeInOrder == Spec => []RepliesInOrder
<1>1. OrderInv => RepliesInOrder
  BY DEF OrderInv
<1>. QED
  BY <1>1, IInvHolds, InitOrder, NextOrder, PTL DEF Spec
=============================================================================
