----------------------------- MODULE ModbusTcp -----------------------------
(***************************************************************************)
(* The Modbus thread of src/main.cc (modbus_task) down to the socket calls *)
(* of its port: eMBTCPInit, eMBEnable, eMBPoll (mb.c), the event queue of  *)
(* one slot (portevent.c), the frame assembly, accept and send of          *)
(* porttcp.c and the MBAP layer of mbtcp.c, together with the clients and  *)
(* what TCP may do to their connections.                                   *)
(*                                                                         *)
(* pc is where the thread is: at the top of its poll loop ("poll"), in the *)
(* select for a new client ("listen"), in the receive loop of              *)
(* xMBPortTCPPool ("pool") or in the send loop ("send").  Bytes are        *)
(* counted, not spelled out: a frame has 6 + length of them, and recv and  *)
(* send may move any number of those they are asked to move.               *)
(***************************************************************************)
EXTENDS MBFunc

CONSTANTS
  Connections,      \* the connections clients open, each once
  Frames,           \* the frames they send
  MaxRequests,      \* bound: frames sent on one connection
  MB_TCP_BUF_SIZE,  \* 263
  LISTEN_BACKLOG,   \* the argument of listen: 5
  SEND_RETRIES,     \* MB_TCP_READ_TIMEOUT / MB_TCP_READ_CYCLE: 10
  AcceptMayFail,    \* whether accept may return -1
  SendMayFail,      \* whether send may return -1 on a sound connection
  NoConnection      \* INVALID_SOCKET

MB_TCP_UID  == 6
MB_TCP_FUNC == 7

(***************************************************************************)
(* The receive buffer "Must hold a complete Modbus TCP frame" with the     *)
(* longest PDU there is.  Clients may announce a longer one: nothing in    *)
(* the code holds the Length field against the size of the buffer.         *)
(***************************************************************************)
ASSUME ModbusTcpAssumption ==
  /\ NoConnection \notin Connections
  /\ \A f \in Frames : IsFrame(f)
  /\ MaxRequests \in Nat
  /\ MB_TCP_BUF_SIZE \in Nat /\ MB_TCP_FUNC + MB_PDU_SIZE_MAX <= MB_TCP_BUF_SIZE
  /\ LISTEN_BACKLOG \in Nat /\ SEND_RETRIES \in Nat
  /\ AcceptMayFail \in BOOLEAN /\ SendMayFail \in BOOLEAN

VARIABLES
  \* the thread
  pc,
  eMBState,             \* "STATE_NOT_INITIALIZED", "..._DISABLED", "..._ENABLED"
  xEventInQueue,        \* the event queue of portevent.c
  eQueuedEvent,
  \* porttcp.c
  xClientSocket,
  usTCPBufPos,
  usTCPFrameBytesLeft,
  bufFunc,              \* the byte at MB_TCP_FUNC of aucTCPBuf
  from,                 \* history: the frames the received bytes belong to
  \* eMBPoll and the send loop
  usLength,             \* length of the PDU in the buffer
  result,               \* exception and words of the reply in the buffer
  iBytesSent,
  iTimeOut,             \* retries left
  usRegHoldingBuf,
  \* the kernel's side of the connections
  conn,                 \* state of each connection
  backlog,              \* established and not yet accepted
  issued,               \* the frames sent on each connection
  taken,                \* how many of them went up the stack
  rcvd,                 \* bytes received of the frame after those
  replied               \* history: the replies each connection was sent

stackVars  == <<eMBState, xEventInQueue, eQueuedEvent>>
recvVars   == <<usTCPBufPos, usTCPFrameBytesLeft, from, rcvd>>
sendVars   == <<iBytesSent, iTimeOut>>
serveVars  == <<usLength, result, usRegHoldingBuf>>
clientVars == <<conn, backlog, issued>>
vars == <<pc, stackVars, xClientSocket, recvVars, bufFunc, serveVars, sendVars,
          clientVars, taken, replied>>

ConnStates == {"new", "open", "fin", "reset", "broken", "closed"}

Init ==
  /\ pc = "init"
  /\ eMBState = "STATE_NOT_INITIALIZED"
  /\ xEventInQueue = FALSE /\ eQueuedEvent = "EV_READY"
  /\ xClientSocket = NoConnection
  /\ usTCPBufPos = 0 /\ usTCPFrameBytesLeft = 0
  /\ bufFunc = 0 /\ from = {}
  /\ usLength = 0 /\ result = [ex |-> "MB_EX_NONE", out |-> <<>>]
  /\ iBytesSent = 0 /\ iTimeOut = 0
  /\ usRegHoldingBuf = [r \in HoldingIndex |-> 0]
  /\ conn = [c \in Connections |-> "new"]
  /\ backlog = <<>>
  /\ issued = [c \in Connections |-> <<>>]
  /\ taken = [c \in Connections |-> 0]
  /\ rcvd = 0
  /\ replied = [c \in Connections |-> <<>>]

Down == pc \in {"ended", "aborted", "killed", "overrun"}

-----------------------------------------------------------------------------
(***************************************************************************)
(* modbus_task: initialisation and its failure.  A poll never fails, so    *)
(* that the thread gets to eMBDisable only when it could not initialise.   *)
(***************************************************************************)
TCPInit ==
  /\ pc = "init"
  /\ eMBState' = "STATE_DISABLED"
  /\ xEventInQueue' = FALSE
  /\ pc' = "enable"
  /\ UNCHANGED <<eQueuedEvent, xClientSocket, recvVars, bufFunc, serveVars,
                 sendVars, clientVars, taken, replied>>

\* socket, bind or listen failed.
TCPInitFails ==
  /\ pc = "init"
  /\ eMBState' = "STATE_DISABLED"
  /\ pc' = "disable"
  /\ UNCHANGED <<xEventInQueue, eQueuedEvent, xClientSocket, recvVars, bufFunc,
                 serveVars, sendVars, clientVars, taken, replied>>

Enable ==
  /\ pc = "enable" /\ eMBState = "STATE_DISABLED"
  /\ eMBState' = "STATE_ENABLED"
  /\ pc' = "poll"
  /\ UNCHANGED <<xEventInQueue, eQueuedEvent, xClientSocket, recvVars, bufFunc,
                 serveVars, sendVars, clientVars, taken, replied>>

Disable ==
  /\ pc = "disable"
  /\ pc' = "ended"
  /\ UNCHANGED <<stackVars, xClientSocket, recvVars, bufFunc, serveVars,
                 sendVars, clientVars, taken, replied>>

-----------------------------------------------------------------------------
(***************************************************************************)
(* eMBPoll, xMBPortEventGet and xMBPortEventPost.                          *)
(***************************************************************************)
Polling == pc = "poll" /\ eMBState = "STATE_ENABLED"

\* Mutant of QueueEmpty: the port is polled while an event waits.
QueueNotLookedAt == TRUE

QueueEmpty == ~ xEventInQueue

\* Mutant of NoClient: the listening socket is never selected on.
ClientTakenForGranted == FALSE

NoClient == xClientSocket = NoConnection

Queued(e) == xEventInQueue /\ eQueuedEvent = e

\* Mutant of Post: the event is lost.
PostLost(e) == UNCHANGED <<xEventInQueue, eQueuedEvent>>

Post(e) == xEventInQueue' = TRUE /\ eQueuedEvent' = e

\* Mutant of Consume: the event stays in the queue.
ConsumeNothing == UNCHANGED <<xEventInQueue, eQueuedEvent>>

Consume == xEventInQueue' = FALSE /\ UNCHANGED eQueuedEvent

\* An empty queue sends xMBPortEventGet into xMBPortTCPPool.
PollPort ==
  /\ Polling /\ QueueEmpty
  /\ pc' = IF NoClient THEN "listen" ELSE "pool"
  /\ UNCHANGED <<stackVars, xClientSocket, recvVars, bufFunc, serveVars,
                 sendVars, clientVars, taken, replied>>

\* The frame that is being received from c or has just been received.
HeadFrame(c) == issued[c][taken[c] + 1]

\* Mutant of ResetBuffer: the position is not reset.
ResetBytesLeft == UNCHANGED usTCPBufPos /\ usTCPFrameBytesLeft' = MB_TCP_FUNC

ResetBuffer == usTCPBufPos' = 0 /\ usTCPFrameBytesLeft' = MB_TCP_FUNC

\* Mutants of PDULength: the unit identifier is counted in; the length is read
\* after the buffer was reset.
PDULengthWithUnit  == usTCPBufPos - MB_TCP_UID
PDULengthTooLate   == usTCPBufPos' - MB_TCP_FUNC

PDULength == usTCPBufPos - MB_TCP_FUNC

\* Mutant of IsModbus: the protocol identifier is not looked at.
AnyProtocol(f) == TRUE

IsModbus(f) == f.pid = 0

\* EV_FRAME_RECEIVED: eMBTCPReceive takes the buffer and drops the frames of
\* other protocols; the rest is posted for execution.
FrameReceived ==
  /\ Polling /\ Queued("EV_FRAME_RECEIVED")
  /\ ResetBuffer
  /\ IF IsModbus(HeadFrame(xClientSocket))
     THEN Post("EV_EXECUTE") /\ usLength' = PDULength
     ELSE Consume /\ UNCHANGED usLength
  /\ taken' = [taken EXCEPT ![xClientSocket] = @ + 1]
  /\ rcvd' = 0
  /\ UNCHANGED <<pc, eMBState, xClientSocket, bufFunc, from, result,
                 usRegHoldingBuf, sendVars, clientVars, replied>>

\* The PDU in the buffer: its length is the one eMBTCPReceive worked out, its
\* function code the byte at MB_TCP_FUNC, whoever put it there.
BufferedPDU ==
  LET f == issued[xClientSocket][taken[xClientSocket]]
  IN  [f.pdu EXCEPT !.func = bufFunc, !.len = usLength]

\* EV_EXECUTE: the handler works on the registers and leaves a reply or an
\* error frame in the buffer.
Execute ==
  /\ Polling /\ Queued("EV_EXECUTE")
  /\ Consume
  /\ \E p \in WithStaleWords(BufferedPDU) :
       LET res == Dispatch(p, usRegHoldingBuf)
       IN  /\ usRegHoldingBuf' = res.regs
           /\ usLength' = res.len
           /\ result' = [ex |-> res.ex, out |-> res.out]
           /\ bufFunc' = IF res.ex = "MB_EX_NONE" THEN bufFunc ELSE ErrorCode(bufFunc)
  /\ iBytesSent' = 0 /\ iTimeOut' = SEND_RETRIES
  /\ pc' = "send"
  /\ UNCHANGED <<eMBState, xClientSocket, recvVars, clientVars, taken, replied>>

-----------------------------------------------------------------------------
(***************************************************************************)
(* xMBPortTCPPool without a client: wait for one, accept it, and go on to  *)
(* the receive loop.  The result of prvbMBPortAcceptClient is not looked   *)
(* at: after a failed accept the receive loop selects on no descriptor for *)
(* ever, a stuttering step here.                                           *)
(***************************************************************************)
Accept ==
  /\ pc = "listen" /\ backlog # <<>>
  /\ xClientSocket' = Head(backlog)
  /\ backlog' = Tail(backlog)
  /\ ResetBuffer
  /\ rcvd' = 0
  /\ pc' = "pool"
  /\ UNCHANGED <<stackVars, bufFunc, from, serveVars, sendVars, conn, issued,
                 taken, replied>>

AcceptFails ==
  /\ pc = "listen" /\ backlog # <<>>
  /\ AcceptMayFail
  /\ pc' = "pool"
  /\ UNCHANGED <<stackVars, xClientSocket, recvVars, bufFunc, serveVars,
                 sendVars, clientVars, taken, replied>>

-----------------------------------------------------------------------------
(***************************************************************************)
(* The receive loop.                                                       *)
(***************************************************************************)
FrameSize(f) == MB_TCP_UID + f.length

\* Bytes of c in the kernel, as far as the next recv can tell them apart.
Available(c) ==
  LET left == Len(issued[c]) - taken[c]
  IN  IF left = 0 THEN 0
      ELSE FrameSize(HeadFrame(c)) - rcvd
           + IF left = 1 THEN 0 ELSE FrameSize(issued[c][taken[c] + 2])

Pooling == pc = "pool" /\ xClientSocket # NoConnection

MayArrive(k) ==
  Pooling /\ k \in 1 .. usTCPFrameBytesLeft /\ k <= Available(xClientSocket)

\* recv returns k bytes, no more than it was asked for and than have arrived.
Arrive(k) == MayArrive(k) /\ usTCPBufPos + k <= MB_TCP_BUF_SIZE

\* recv writes past the end of aucTCPBuf.  What the memory behind it holds, and what
\* becomes of the process, is not modelled: it goes no further here.
RecvPastEnd ==
  /\ MayArrive(MB_TCP_BUF_SIZE - usTCPBufPos + 1)
  /\ pc' = "overrun"
  /\ UNCHANGED <<stackVars, xClientSocket, recvVars, bufFunc, serveVars, sendVars,
                 clientVars, taken, replied>>

RecvBytes(k) ==
  /\ usTCPBufPos' = usTCPBufPos + k
  /\ rcvd' = rcvd + k
  /\ from' = (IF usTCPBufPos = 0 THEN {} ELSE from)
               \cup {<<xClientSocket, taken[xClientSocket] + 1>>}
  /\ bufFunc' = IF /\ usTCPBufPos <= MB_TCP_FUNC
                   /\ usTCPBufPos + k > MB_TCP_FUNC
                THEN HeadFrame(xClientSocket).pdu.func ELSE bufFunc
  /\ UNCHANGED <<eMBState, xClientSocket, serveVars, sendVars, clientVars, taken,
                 replied>>

\* Mutant of HeaderComplete: the length is used one byte too late.
HeaderPassed(pos) == pos > MB_TCP_FUNC

HeaderComplete(pos) == pos >= MB_TCP_FUNC

\* The header, or the frame it announces, is not complete yet.
RecvPart(k) ==
  /\ Arrive(k)
  /\ LET pos == usTCPBufPos + k
     IN  IF HeaderComplete(pos)
         THEN /\ pos < FrameSize(HeadFrame(xClientSocket))
              /\ usTCPFrameBytesLeft' = FrameSize(HeadFrame(xClientSocket)) - pos
         ELSE usTCPFrameBytesLeft' = usTCPFrameBytesLeft - k
  /\ RecvBytes(k)
  /\ UNCHANGED <<pc, xEventInQueue, eQueuedEvent>>

\* Mutant of FrameComplete: the last byte may belong to the next frame.
FrameCompleteOrMore(pos, f) == HeaderComplete(pos) /\ pos >= FrameSize(f)

FrameComplete(pos, f) == HeaderComplete(pos) /\ pos = FrameSize(f)

RecvFrame(k) ==
  /\ Arrive(k)
  /\ FrameComplete(usTCPBufPos + k, HeadFrame(xClientSocket))
  /\ RecvBytes(k)
  /\ usTCPFrameBytesLeft' = usTCPFrameBytesLeft - k
  /\ Post("EV_FRAME_RECEIVED")
  /\ pc' = "poll"

\* More bytes than the frame has: the assert ends the process.
RecvBeyond(k) ==
  /\ Arrive(k)
  /\ HeaderComplete(usTCPBufPos + k)
  /\ usTCPBufPos + k > FrameSize(HeadFrame(xClientSocket))
  /\ RecvBytes(k)
  /\ usTCPFrameBytesLeft' = usTCPFrameBytesLeft - k
  /\ pc' = "aborted"
  /\ UNCHANGED <<xEventInQueue, eQueuedEvent>>

\* recv returns 0 after the last byte of a closed connection, or -1.
\* Mutant of AtEnd: only errors of recv end the connection.
AtError(c) == conn[c] \in {"reset", "broken"}

AtEnd(c) ==
  \/ conn[c] = "fin" /\ Available(c) = 0
  \/ conn[c] \in {"reset", "broken"}

RecvEnd ==
  /\ Pooling
  /\ AtEnd(xClientSocket)
  /\ conn' = [conn EXCEPT ![xClientSocket] = "closed"]
  /\ xClientSocket' = NoConnection
  /\ pc' = "poll"
  /\ UNCHANGED <<stackVars, recvVars, bufFunc, serveVars, sendVars, backlog,
                 issued, taken, replied>>

-----------------------------------------------------------------------------
(***************************************************************************)
(* The send loop of xMBTCPPortSendResponse.  A reset connection fails send *)
(* once; from then on, send raises SIGPIPE, which nothing handles.         *)
(***************************************************************************)
usTCPLength == usLength + MB_TCP_FUNC

Sending == pc = "send" /\ conn[xClientSocket] \in {"open", "fin"}

SendPart(k) ==
  /\ Sending
  /\ iBytesSent + k < usTCPLength
  /\ iBytesSent' = iBytesSent + k
  /\ UNCHANGED <<pc, stackVars, xClientSocket, recvVars, bufFunc, serveVars,
                 iTimeOut, clientVars, taken, replied>>

Send ==
  /\ Sending
  /\ iBytesSent' = usTCPLength
  /\ replied' = [replied EXCEPT ![xClientSocket] =
                   Append(@, [from |-> from, ex |-> result.ex,
                              len |-> usLength, out |-> result.out])]
  /\ pc' = "poll"
  /\ UNCHANGED <<stackVars, xClientSocket, recvVars, bufFunc, serveVars,
                 iTimeOut, clientVars, taken>>

SendError ==
  /\ pc = "send"
  /\ conn[xClientSocket] = "reset" \/ (SendMayFail /\ Sending)
  /\ conn' = IF Sending THEN conn ELSE [conn EXCEPT ![xClientSocket] = "broken"]

SendRetry ==
  /\ SendError
  /\ iTimeOut > 0 /\ iTimeOut' = iTimeOut - 1
  /\ UNCHANGED <<pc, stackVars, xClientSocket, recvVars, bufFunc, serveVars,
                 iBytesSent, backlog, issued, taken, replied>>

\* The caller ignores that the reply was not sent; the client stays connected.
SendAbort ==
  /\ SendError
  /\ iTimeOut = 0
  /\ pc' = "poll"
  /\ UNCHANGED <<stackVars, xClientSocket, recvVars, bufFunc, serveVars, sendVars,
                 backlog, issued, taken, replied>>

SendKilled ==
  /\ pc = "send" /\ conn[xClientSocket] = "broken"
  /\ pc' = "killed"
  /\ UNCHANGED <<stackVars, xClientSocket, recvVars, bufFunc, serveVars,
                 sendVars, clientVars, taken, replied>>

-----------------------------------------------------------------------------
(***************************************************************************)
(* The clients and the network.                                            *)
(***************************************************************************)
serverVars == <<pc, stackVars, xClientSocket, recvVars, bufFunc, serveVars,
                sendVars, taken, replied>>

Listening == pc \in {"enable", "poll", "listen", "pool", "send"}

\* The kernel completes the handshake as long as its accept queue has room.
Connect(c) ==
  /\ Listening /\ conn[c] = "new" /\ Len(backlog) <= LISTEN_BACKLOG
  /\ conn' = [conn EXCEPT ![c] = "open"]
  /\ backlog' = Append(backlog, c)
  /\ UNCHANGED <<serverVars, issued>>

Issue(c) ==
  /\ Listening /\ conn[c] = "open" /\ Len(issued[c]) < MaxRequests
  /\ \E f \in Frames : issued' = [issued EXCEPT ![c] = Append(@, f)]
  /\ UNCHANGED <<serverVars, conn, backlog>>

\* The client closes its end; what it sent before arrives.
Finish(c) ==
  /\ Listening /\ conn[c] = "open"
  /\ conn' = [conn EXCEPT ![c] = "fin"]
  /\ UNCHANGED <<serverVars, backlog, issued>>

\* The client or the network resets the connection; what it sent may be lost.
Reset(c) ==
  /\ Listening /\ conn[c] = "open"
  /\ conn' = [conn EXCEPT ![c] = "reset"]
  /\ UNCHANGED <<serverVars, backlog, issued>>

\* A client that has closed answers bytes of the server with a reset.
ResetByClosed(c) ==
  /\ Listening /\ conn[c] = "fin"
  /\ \/ replied[c] # <<>>
     \/ pc = "send" /\ xClientSocket = c /\ iBytesSent > 0
  /\ conn' = [conn EXCEPT ![c] = "broken"]
  /\ UNCHANGED <<serverVars, backlog, issued>>

-----------------------------------------------------------------------------
ModbusThread ==
  \/ TCPInit \/ TCPInitFails \/ Enable \/ Disable
  \/ PollPort \/ FrameReceived \/ Execute
  \/ Accept \/ AcceptFails
  \/ \E k \in 1 .. MB_TCP_BUF_SIZE : RecvPart(k) \/ RecvFrame(k) \/ RecvBeyond(k)
  \/ RecvPastEnd \/ RecvEnd
  \/ \E k \in 1 .. MB_TCP_BUF_SIZE : SendPart(k)
  \/ Send \/ SendRetry \/ SendAbort \/ SendKilled

Client(c) ==
  Connect(c) \/ Issue(c) \/ Finish(c) \/ Reset(c) \/ ResetByClosed(c)

Next == ModbusThread \/ \E c \in Connections : Client(c)

Spec == Init /\ [][Next]_vars

\* The thread keeps running; a client has to do nothing but read its replies.
FairSpec == Spec /\ WF_vars(ModbusThread)

-----------------------------------------------------------------------------
(***************************************************************************)
(* Safety.                                                                 *)
(***************************************************************************)
PCs == {"init", "enable", "disable", "poll", "listen", "pool", "send",
        "ended", "aborted", "killed", "overrun"}

Results == [ex : Exceptions, out : Seq(Words)]
Replies == [from : SUBSET (Connections \X Nat), ex : Exceptions, len : Nat,
            out : Seq(Words)]

\* The types of the thread's variables: lengths and positions never go below
\* zero, the registers keep their domain, what is queued is a known event.
TypeOK ==
  /\ pc \in PCs
  /\ eMBState \in {"STATE_NOT_INITIALIZED", "STATE_DISABLED", "STATE_ENABLED"}
  /\ xEventInQueue \in BOOLEAN
  /\ eQueuedEvent \in {"EV_READY", "EV_FRAME_RECEIVED", "EV_EXECUTE"}
  /\ xClientSocket \in Connections \cup {NoConnection}
  /\ usTCPBufPos \in Nat /\ usTCPFrameBytesLeft \in Nat
  /\ bufFunc \in 0 .. 255
  /\ from \subseteq Connections \X Nat
  /\ usLength \in Nat /\ result \in Results
  /\ iBytesSent \in Nat /\ iTimeOut \in Nat
  /\ usRegHoldingBuf \in Registers
  /\ conn \in [Connections -> ConnStates]
  /\ backlog \in Seq(Connections)
  /\ issued \in [Connections -> Seq(Frames)]
  /\ taken \in [Connections -> Nat]
  /\ rcvd \in Nat
  /\ replied \in [Connections -> Seq(Replies)]

\* Between recv calls the buffer is in step with the stream of the connected
\* client: it holds exactly the bytes taken of the frame at the head, and the
\* next recv asks for no byte past the header or past that frame, across
\* partial reads, dropped connections and new clients.  (usTCPBufPos and
\* usTCPFrameBytesLeft are set in four functions.)
FrameSync ==
  Pooling =>
    /\ usTCPBufPos = rcvd
    /\ usTCPFrameBytesLeft > 0
    /\ IF usTCPBufPos < MB_TCP_FUNC
       THEN usTCPBufPos + usTCPFrameBytesLeft = MB_TCP_FUNC
       ELSE /\ taken[xClientSocket] < Len(issued[xClientSocket])
            /\ usTCPBufPos + usTCPFrameBytesLeft = FrameSize(HeadFrame(xClientSocket))

\* recv is given room past the end of aucTCPBuf, or writes there, only in the middle of
\* a frame whose own Length field goes past it, which the code does not check: not
\* because of what is left of an earlier frame or client.
BufferBound ==
  \/ pc = "overrun"
  \/ Pooling /\ usTCPBufPos + usTCPFrameBytesLeft > MB_TCP_BUF_SIZE
  => /\ taken[xClientSocket] < Len(issued[xClientSocket])
     /\ FrameSize(HeadFrame(xClientSocket)) > MB_TCP_BUF_SIZE

\* The bytes of a frame that goes up the stack, or is executed, all come from
\* that frame: none of an earlier client, of a connection that broke in the
\* middle of a frame, or of the frame before.
OneSource ==
  /\ Queued("EV_FRAME_RECEIVED") =>
       /\ from = {<<xClientSocket, taken[xClientSocket] + 1>>}
       /\ usTCPBufPos = FrameSize(HeadFrame(xClientSocket))
  /\ Queued("EV_EXECUTE") \/ pc = "send" =>
       from = {<<xClientSocket, taken[xClientSocket]>>}

\* When a frame is executed, the length and the function code that eMBPoll uses
\* are those the frame was sent with (an empty PDU has no function code).
ExecutesWhatWasSent ==
  Polling /\ Queued("EV_EXECUTE") =>
    LET f == issued[xClientSocket][taken[xClientSocket]]
    IN  usLength = f.pdu.len /\ (f.pdu.len > 0 => bufFunc = f.pdu.func)

RepliesTo(c, j, i) == replied[c][j].from = {<<c, i>>}

\* The j-th reply of c is the first one to a request after that of the last one.
InOrder(c, j) ==
  \E i \in 1 .. taken[c] :
    /\ RepliesTo(c, j, i) /\ issued[c][i].pid = 0
    /\ \A h \in 1 .. j - 1 : ~ RepliesTo(c, h, i)
    /\ j > 1 => \E g \in 1 .. i - 1 : RepliesTo(c, j - 1, g)

\* A connection is sent at most one reply for each of its own requests, in the
\* order of the requests, and none for a frame of another protocol.
RepliesInOrder == \A c \in Connections : \A j \in DOMAIN replied[c] : InOrder(c, j)

\* From the last byte of a frame to the end of its reply nothing is received
\* into aucTCPBuf, so that no event is posted over the one that waits in the
\* single slot of the queue, and the client socket stays the asker's.
ServedUndisturbed ==
  [][xEventInQueue \/ pc = "send" =>
       rcvd' \in {0, rcvd} /\ xClientSocket' = xClientSocket]_vars

-----------------------------------------------------------------------------
(***************************************************************************)
(* Liveness, under FairSpec.                                               *)
(***************************************************************************)
Answered(c, i) == \E j \in DOMAIN replied[c] : RepliesTo(c, j, i)

WellFormed(c, i) == \A h \in 1 .. i : issued[c][h].length > 0

\* Every request of the connected client is answered, however its bytes come
\* in, also when the client has shut down its sending side; unless the
\* connection is lost or the thread has come to an end.
RequestsAnswered ==
  \A c \in Connections : \A i \in 1 .. MaxRequests :
    (/\ xClientSocket = c /\ i <= Len(issued[c])
     /\ issued[c][i].pid = 0 /\ WellFormed(c, i))
      ~> (Answered(c, i) \/ conn[c] \in {"reset", "broken"} \/ Down)

\* "In case of an FD_CLOSE the client connection is released".
ClosedIsReleased ==
  \A c \in Connections :
    (xClientSocket = c /\ conn[c] \in {"fin", "reset", "broken"})
      ~> (conn[c] = "closed" \/ Down)

\* "If a new client is connected and there are still client slots left ... then
\* the connection is accepted".
FreeSlotAccepts ==
  (Polling /\ xClientSocket = NoConnection /\ backlog # <<>>)
    ~> (xClientSocket # NoConnection \/ Down)

-----------------------------------------------------------------------------
(***************************************************************************)
(* What comments say and the code does not do.                             *)
(***************************************************************************)

\* "This can not happend because we always calculate the number of bytes to
\* receive."
NeverBeyondFrame == pc # "aborted"

\* "In case of an FD_CLOSE the client connection is released": losing a client
\* does not end the process.
LostClientIsReleased == pc # "killed"

-----------------------------------------------------------------------------
(***************************************************************************)
(* The thread implements the service of ModbusService.                     *)
(***************************************************************************)
Executing(c) == xClientSocket = c /\ Queued("EV_EXECUTE")

ReqOf(f) == (CHOOSE x \in f : TRUE)[2]

Service == INSTANCE ModbusService WITH
  asked     <- issued,
  seen      <- [c \in Connections |-> IF Executing(c) THEN taken[c] - 1 ELSE taken[c]],
  registers <- usRegHoldingBuf,
  pending   <- IF pc = "send"
               THEN <<[to |-> xClientSocket, req |-> ReqOf(from), ex |-> result.ex,
                       len |-> usLength, out |-> result.out]>>
               ELSE <<>>,
  answers   <- [c \in Connections |->
                 [j \in DOMAIN replied[c] |->
                   [to |-> c, req |-> ReqOf(replied[c][j].from),
                    ex |-> replied[c][j].ex, len |-> replied[c][j].len,
                    out |-> replied[c][j].out]]]

\* Each request is performed in one step, in the order sent, on the registers
\* the ones before it left, at most once, and answered only to its sender.
ImplementsService == Service!ServiceSpec
=============================================================================
