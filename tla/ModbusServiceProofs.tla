------------------------ MODULE ModbusServiceProofs ------------------------
(***************************************************************************)
(* ModbusTcp implements ModbusService, for all connections, frames and     *)
(* ways the bytes may be cut.                                              *)
(***************************************************************************)
EXTENDS ModbusTcpProofs

\* The service dispatches requests to the handlers of the thread.
LEMMA SameInc == \A a : Service!Inc(a) = Inc(a)
BY Zenon DEF Service!Inc, Inc, Service!WORD, WORD

LEMMA SameAnswers ==
  /\ \A n, regs, out : Service!Answer(n, regs, out) = Answer(n, regs, out)
  /\ \A regs : Service!BadValue(regs) = BadValue(regs)
  /\ \A regs : Service!BadAddress(regs) = BadAddress(regs)
BY Zenon DEF Service!Answer, Answer, Service!BadValue, BadValue,
               Service!BadAddress, BadAddress,
             Service!Exception, Exception

LEMMA SameCallbacks ==
  /\ \A addr, n : Service!HoldingInRange(addr, n) = HoldingInRange(addr, n)
  /\ \A addr, n : Service!InputInRange(addr, n) = InputInRange(addr, n)
  /\ \A regs, addr, n : Service!ReadHolding(regs, addr, n) = ReadHolding(regs, addr, n)
  /\ \A regs, addr, vals, n :
       Service!WriteHolding(regs, addr, vals, n) = WriteHolding(regs, addr, vals, n)
  /\ \A n : Service!ReadInput(n) = ReadInput(n)
<1>1. \A addr, n : Service!HoldingInRange(addr, n) = HoldingInRange(addr, n)
  BY Zenon DEF Service!HoldingInRange, HoldingInRange
<1>2. \A addr, n : Service!InputInRange(addr, n) = InputInRange(addr, n)
  BY Zenon DEF Service!InputInRange, InputInRange
<1>3. \A regs, addr, n : Service!ReadHolding(regs, addr, n) = ReadHolding(regs, addr, n)
  BY Zenon DEF Service!ReadHolding, ReadHolding
<1>4. \A regs, addr, vals, n :
       Service!WriteHolding(regs, addr, vals, n) = WriteHolding(regs, addr, vals, n)
  BY Zenon DEF Service!WriteHolding, WriteHolding
<1>5. \A n : Service!ReadInput(n) = ReadInput(n)
  BY Zenon DEF Service!ReadInput, ReadInput
<1>. QED
  BY <1>1, <1>2, <1>3, <1>4, <1>5

LEMMA SameDispatch == \A p, regs : Service!Dispatch(p, regs) = Dispatch(p, regs)
<1>. TAKE p, regs
<1>1. Service!eMBFuncReportSlaveID(regs) = eMBFuncReportSlaveID(regs)
  BY SameAnswers, Zenon DEF Service!eMBFuncReportSlaveID, eMBFuncReportSlaveID
<1>2. Service!eMBFuncReadInputRegister(p, regs) = eMBFuncReadInputRegister(p, regs)
  BY SameAnswers, SameInc, SameCallbacks, Zenon
     DEF Service!eMBFuncReadInputRegister, eMBFuncReadInputRegister
<1>3. Service!eMBFuncReadHoldingRegister(p, regs) = eMBFuncReadHoldingRegister(p, regs)
  BY SameAnswers, SameInc, SameCallbacks, Zenon
     DEF Service!eMBFuncReadHoldingRegister, eMBFuncReadHoldingRegister
<1>4. Service!eMBFuncWriteMultipleHoldingRegister(p, regs)
        = eMBFuncWriteMultipleHoldingRegister(p, regs)
  BY SameAnswers, SameInc, SameCallbacks, Zenon
     DEF Service!eMBFuncWriteMultipleHoldingRegister, eMBFuncWriteMultipleHoldingRegister
<1>5. Service!eMBFuncWriteHoldingRegister(p, regs) = eMBFuncWriteHoldingRegister(p, regs)
  BY SameAnswers, SameInc, SameCallbacks, Zenon
     DEF Service!eMBFuncWriteHoldingRegister, eMBFuncWriteHoldingRegister
<1>6. Service!eMBFuncReadWriteMultipleHoldingRegister(p, regs)
        = eMBFuncReadWriteMultipleHoldingRegister(p, regs)
  BY SameAnswers, SameInc, SameCallbacks, Zenon
     DEF Service!eMBFuncReadWriteMultipleHoldingRegister,
         eMBFuncReadWriteMultipleHoldingRegister
<1>7. Service!eMBFuncReadCoils(p, regs) = eMBFuncReadCoils(p, regs)
  BY SameAnswers, Zenon DEF Service!eMBFuncReadCoils, eMBFuncReadCoils
<1>8. Service!eMBFuncReadDiscreteInputs(p, regs) = eMBFuncReadDiscreteInputs(p, regs)
  BY <1>7, Zenon DEF Service!eMBFuncReadDiscreteInputs, eMBFuncReadDiscreteInputs
<1>9. Service!eMBFuncWriteCoil(p, regs) = eMBFuncWriteCoil(p, regs)
  BY SameAnswers, Zenon DEF Service!eMBFuncWriteCoil, eMBFuncWriteCoil
<1>10. Service!eMBFuncWriteMultipleCoils(p, regs) = eMBFuncWriteMultipleCoils(p, regs)
  BY SameAnswers, Zenon DEF Service!eMBFuncWriteMultipleCoils, eMBFuncWriteMultipleCoils
<1>11. Service!Exception("MB_EX_ILLEGAL_FUNCTION", regs)
         = Exception("MB_EX_ILLEGAL_FUNCTION", regs)
  BY Zenon DEF Service!Exception, Exception
<1>. QED
  BY <1>1, <1>2, <1>3, <1>4, <1>5, <1>6, <1>7, <1>8, <1>9, <1>10, <1>11, Zenon
     DEF Service!Dispatch, Dispatch

LEMMA SameStaleWords == \A p : Service!WithStaleWords(p) = WithStaleWords(p)
BY Zenon DEF Service!WithStaleWords, WithStaleWords, Service!CarriedWords, CarriedWords,
       Service!MaxWords, MaxWords

-----------------------------------------------------------------------------
(***************************************************************************)
(* The refinement mapping of ModbusTcp, by name.                           *)
(***************************************************************************)
SeenOf(c) == IF Executing(c) THEN taken[c] - 1 ELSE taken[c]
Seen      == [c \in Connections |-> SeenOf(c)]

Reply   == [to |-> xClientSocket, req |-> ReqOf(from), ex |-> result.ex, len |-> usLength,
            out |-> result.out]
Pending == IF pc = "send" THEN <<Reply>> ELSE <<>>

AnswerOf(c, r) == [to |-> c, req |-> ReqOf(r.from), ex |-> r.ex, len |-> r.len, out |-> r.out]
Answers == [c \in Connections |-> [j \in DOMAIN replied[c] |-> AnswerOf(c, replied[c][j])]]

\* The number of the one request a reply is for.
LEMMA RequestNumber == \A c, i : ReqOf({<<c, i>>}) = i
<1>. SUFFICES ASSUME NEW c, NEW i PROVE ReqOf({<<c, i>>}) = i
  OBVIOUS
<1>1. (CHOOSE x \in {<<c, i>>} : TRUE) = <<c, i>>
  OBVIOUS
<1>. QED
  BY <1>1 DEF ReqOf

\* The steps of the service, said of the mapped variables.
LEMMA QuietStep ==
  ASSUME UNCHANGED <<issued, usRegHoldingBuf, Seen, Pending, Answers>>
  PROVE  UNCHANGED Service!serviceVars
BY Zenon DEF Service!serviceVars, Seen, SeenOf, Pending, Reply, Answers, AnswerOf

LEMMA AskStep ==
  ASSUME NEW c \in Connections, Issue(c), UNCHANGED <<Seen, Pending, Answers>>
  PROVE  Service!Ask(c)
BY Zenon DEF Issue, serverVars, serveVars, Service!Ask, Seen, SeenOf, Pending, Reply, Answers,
             AnswerOf

LEMMA SkipStep ==
  ASSUME NEW c \in Connections, Pending = <<>>, Seen[c] < Len(issued[c]),
         issued[c][Seen[c] + 1].pid # 0, Seen' = [Seen EXCEPT ![c] = @ + 1],
         UNCHANGED <<issued, usRegHoldingBuf, Pending, Answers>>
  PROVE  Service!Skip(c)
BY Zenon DEF Service!Skip, Service!Taken, Seen, SeenOf, Pending, Reply, Answers, AnswerOf

LEMMA PerformStep ==
  ASSUME NEW c \in Connections, Pending = <<>>, Seen[c] < Len(issued[c]),
         issued[c][Seen[c] + 1].pid = 0, issued[c][Seen[c] + 1].length > 0,
         NEW p \in Service!Readings(issued[c][Seen[c] + 1].pdu),
         NEW res, res = Dispatch(p, usRegHoldingBuf), usRegHoldingBuf' = res.regs,
         Pending' = <<[to |-> c, req |-> Seen[c] + 1, ex |-> res.ex, len |-> res.len,
                       out |-> res.out]>>,
         Seen' = [Seen EXCEPT ![c] = @ + 1],
         UNCHANGED <<issued, Answers>>
  PROVE  Service!Perform(c)
<1>1. res = Service!Dispatch(p, usRegHoldingBuf)
  BY SameDispatch
<1>. QED
  BY <1>1, Zenon DEF Service!Perform, Service!Taken, Seen, SeenOf, Pending, Reply, Answers,
                     AnswerOf

LEMMA DeliverStep ==
  ASSUME Pending # <<>>, Pending' = <<>>,
         Answers' = [Answers EXCEPT ![Pending[1].to] = Append(@, Pending[1])],
         UNCHANGED <<issued, Seen, usRegHoldingBuf>>
  PROVE  Service!Deliver
BY Zenon DEF Service!Deliver, Seen, SeenOf, Pending, Reply, Answers, AnswerOf

LEMMA LoseStep ==
  ASSUME Pending # <<>>, Pending' = <<>>, UNCHANGED <<issued, Seen, usRegHoldingBuf, Answers>>
  PROVE  Service!Lose
BY Zenon DEF Service!Lose, Seen, SeenOf, Pending, Reply, Answers, AnswerOf

LEMMA StartStep ==
  ASSUME Init, Seen = [c \in Connections |-> 0], Pending = <<>>,
         Answers = [c \in Connections |-> <<>>]
  PROVE  Service!ServiceInit
BY Zenon DEF Init, Service!ServiceInit, Service!HoldingIndex, HoldingIndex, Seen, SeenOf,
             Pending, Reply, Answers, AnswerOf

-----------------------------------------------------------------------------
(***************************************************************************)
(* A frame that is executed has a PDU: the length field of a frame without *)
(* one ends its reception before there is a PDU length to work out.        *)
(***************************************************************************)
LengthInv ==
  Queued("EV_EXECUTE") => issued[xClientSocket][taken[xClientSocket]].length > 0

LEMMA InitLength == Init => LengthInv
BY DEF Init, LengthInv, Queued

\* Only FrameReceived posts the event, and only Execute takes it.
LEMMA ExecuteWaits ==
  ASSUME IInv, Next, ~ FrameReceived, Queued("EV_EXECUTE")'
  PROVE  Queued("EV_EXECUTE") /\ Grows /\ UNCHANGED <<xClientSocket, taken>>
<1>. USE DEF stackVars, recvVars, sendVars, serveVars, clientVars, serverVars
<1>1. xEventInQueue => pc = "poll"
  BY DEF IInv, ControlInv
<1>2. CASE ModbusThread
  <2>1. UNCHANGED <<xEventInQueue, eQueuedEvent, xClientSocket, taken, issued>>
    <3>1. CASE TCPInit \/ TCPInitFails \/ Enable \/ Disable \/ PollPort \/ Execute
      BY <3>1 DEF TCPInit, TCPInitFails, Enable, Disable, PollPort, Execute, Consume, Queued
    <3>2. CASE Accept \/ RecvEnd \/ AcceptFails \/ RecvPastEnd
      BY <1>1, <3>2 DEF Accept, RecvEnd, AcceptFails, RecvPastEnd, MayArrive, Pooling, Queued
    <3>3. CASE \E k \in 1 .. MB_TCP_BUF_SIZE : RecvPart(k) \/ RecvFrame(k) \/ RecvBeyond(k)
      BY <1>1, <3>3 DEF RecvPart, RecvFrame, RecvBeyond, RecvBytes, Arrive, MayArrive, Pooling, Post,
                        Queued
    <3>4. CASE \/ \E k \in 1 .. MB_TCP_BUF_SIZE : SendPart(k)
               \/ Send \/ SendRetry \/ SendAbort \/ SendKilled
      BY <3>4 DEF SendPart, Send, SendRetry, SendAbort, SendKilled
    <3>. QED
      BY <1>2, <3>1, <3>2, <3>3, <3>4 DEF ModbusThread
  <2>. QED
    BY <2>1, SameStreams DEF Queued
<1>3. ASSUME NEW c \in Connections, Client(c)
      PROVE  Queued("EV_EXECUTE") /\ Grows /\ UNCHANGED <<xClientSocket, taken>>
  <2>1. UNCHANGED serverVars
    BY <1>3 DEF Client, Connect, Issue, Finish, Reset, ResetByClosed
  <2>2. CASE UNCHANGED issued
    BY <2>1, <2>2, SameStreams DEF Queued
  <2>3. CASE Issue(c)
    BY <2>1, <2>3 DEF Issue, Grows, IInv, TypeOK, Queued
  <2>. QED
    BY <1>3, <2>2, <2>3 DEF Client, Connect, Finish, Reset, ResetByClosed
<1>. QED
  BY <1>2, <1>3 DEF Next

LEMMA NextLength == IInv /\ LengthInv /\ [Next]_vars => LengthInv'
<1>. SUFFICES ASSUME IInv, LengthInv, [Next]_vars, Queued("EV_EXECUTE")' PROVE LengthInv'
  BY DEF LengthInv
<1>1. CASE UNCHANGED vars
  BY <1>1, Zenon DEF vars, stackVars, clientVars, LengthInv, Queued
<1>2. CASE Next /\ ~ FrameReceived
  <2>1. Queued("EV_EXECUTE") /\ Grows /\ UNCHANGED <<xClientSocket, taken>>
    BY <1>2, ExecuteWaits
  <2>2. /\ xClientSocket \in Connections
        /\ taken[xClientSocket] \in 1 .. Len(issued[xClientSocket])
    BY <2>1 DEF IInv, TypeOK, ControlInv, ServingInv, BoundsInv, Queued
  <2>. QED
    BY <2>1, <2>2 DEF LengthInv, Grows
<1>3. CASE FrameReceived
  <2>. DEFINE x == xClientSocket
  <2>1. /\ x \in Connections /\ taken[x] \in Nat /\ taken[x] < Len(issued[x])
        /\ HeadFrame(x) \in Frames
        /\ usTCPBufPos = FrameSize(HeadFrame(x)) /\ usTCPBufPos >= MB_TCP_FUNC
    BY <1>3, HeadFacts DEF IInv, TypeOK, ControlInv, ReceivedInv, FrameReceived, Queued
  <2>2. HeadFrame(x).length > 0
    BY <2>1, FrameFacts DEF MB_TCP_UID, MB_TCP_FUNC
  <2>3. /\ taken' = [taken EXCEPT ![x] = @ + 1]
        /\ UNCHANGED <<xClientSocket, issued>>
    BY <1>3 DEF FrameReceived, clientVars
  <2>4. taken'[x] = taken[x] + 1
    BY <2>1, <2>3 DEF IInv, TypeOK
  <2>. QED
    BY <2>2, <2>3, <2>4 DEF LengthInv, HeadFrame
<1>. QED
  BY <1>1, <1>2, <1>3

ServiceInv == IInv /\ OrderInv /\ LengthInv

LEMMA ServiceInvHolds == Spec => []ServiceInv
<1>1. IInv /\ OrderInv /\ LengthInv => ServiceInv
  BY DEF ServiceInv
<1>. QED
  BY <1>1, IInvHolds, InitOrder, NextOrder, InitLength, NextLength, PTL DEF Spec

-----------------------------------------------------------------------------
(***************************************************************************)
(* The steps of the thread.                                                *)
(***************************************************************************)
\* Away from the send loop and from a waiting frame the service shows nothing.
LEMMA Still ==
  ASSUME UNCHANGED <<issued, usRegHoldingBuf, taken, replied>>,
         pc # "send", pc' # "send",
         \A c \in Connections : Executing(c)' <=> Executing(c)
  PROVE  UNCHANGED Service!serviceVars
<1>1. \A c \in Connections : SeenOf(c)' = SeenOf(c)
  BY DEF SeenOf
<1>2. Seen' = Seen
  BY <1>1, Zenon DEF Seen
<1>3. Pending' = Pending
  BY Zenon DEF Pending
<1>4. Answers' = Answers
  BY Zenon DEF Answers
<1>. QED
  BY <1>2, <1>3, <1>4, QuietStep

LEMMA ReceivedRefines ==
  ASSUME ServiceInv, FrameReceived
  PROVE  \/ \E c \in Connections : Service!Skip(c)
         \/ UNCHANGED Service!serviceVars
<1>. DEFINE x == xClientSocket
<1>1. /\ x \in Connections /\ taken \in [Connections -> Nat] /\ taken[x] < Len(issued[x])
      /\ pc = "poll" /\ ~ Queued("EV_EXECUTE")
  BY DEF ServiceInv, IInv, TypeOK, ControlInv, ReceivedInv, FrameReceived, Polling, Queued
<1>2. /\ taken' = [taken EXCEPT ![x] = @ + 1]
      /\ UNCHANGED <<pc, xClientSocket, issued, usRegHoldingBuf, replied>>
  BY DEF FrameReceived, clientVars
<1>3. Pending = <<>> /\ Pending' = <<>> /\ Answers' = Answers
  BY <1>1, <1>2, Zenon DEF Pending, Answers
<1>4. \A c \in Connections : SeenOf(c) = taken[c] /\ ~ Executing(c)
  BY <1>1 DEF SeenOf, Executing
<1>5. Seen = [c \in Connections |-> taken[c]]
  BY <1>4, Zenon DEF Seen
<1>6. CASE IsModbus(HeadFrame(x))
  <2>1. Queued("EV_EXECUTE")'
    BY <1>6 DEF FrameReceived, Post, Queued
  <2>2. \A c \in Connections : SeenOf(c)' = taken[c]
    BY <1>1, <1>2, <2>1 DEF SeenOf, Executing
  <2>3. Seen' = Seen
    BY <1>5, <2>2, Zenon DEF Seen
  <2>. QED
    BY <1>2, <1>3, <2>3, QuietStep
<1>7. CASE ~ IsModbus(HeadFrame(x))
  <2>1. ~ Queued("EV_EXECUTE")'
    BY <1>7 DEF FrameReceived, Consume, Queued
  <2>2. \A c \in Connections : SeenOf(c)' = taken'[c]
    BY <2>1 DEF SeenOf, Executing
  <2>3. Seen' = [c \in Connections |-> taken'[c]]
    BY <2>2, Zenon DEF Seen
  <2>4. Seen' = [Seen EXCEPT ![x] = @ + 1] /\ Seen[x] = taken[x]
    BY <1>1, <1>2, <1>5, <2>3
  <2>5. issued[x][Seen[x] + 1].pid # 0
    BY <1>7, <2>4 DEF IsModbus, HeadFrame
  <2>. QED
    BY <1>1, <1>2, <1>3, <2>4, <2>5, SkipStep
<1>. QED
  BY <1>6, <1>7

\* The words that the buffer may hold for the PDU of a frame.
LEMMA BufferedReading ==
  ASSUME ServiceInv, Queued("EV_EXECUTE"), NEW f,
         f = issued[xClientSocket][taken[xClientSocket]],
         NEW p \in WithStaleWords(BufferedPDU)
  PROVE  p \in Service!Readings(f.pdu)
<1>1. f \in Frames
  BY LastTakenFacts DEF ServiceInv, IInv, TypeOK, ControlInv, ServingInv, Queued
<1>2. IsRequest(f.pdu) /\ f.pdu.len \in Nat
  BY <1>1, FrameFacts
<1>3. usLength = f.pdu.len /\ bufFunc \in 0 .. 255 /\ (f.pdu.len > 0 => bufFunc = f.pdu.func)
  BY DEF ServiceInv, IInv, TypeOK, ExecutingInv
<1>4. bufFunc \in IF f.pdu.len = 0 THEN 0 .. 255 ELSE {f.pdu.func}
  BY SMTT(30), <1>2, <1>3
<1>5. BufferedPDU = [f.pdu EXCEPT !.func = bufFunc, !.len = f.pdu.len]
  BY SMTT(30), <1>3 DEF BufferedPDU
<1>6. ASSUME NEW q, IsRequest(q), NEW func
      PROVE  [q EXCEPT !.func = func, !.len = q.len] = [q EXCEPT !.func = func]
  BY <1>6 DEF IsRequest
<1>7. BufferedPDU = [f.pdu EXCEPT !.func = bufFunc]
  BY <1>2, <1>5, <1>6
<1>8. p \in Service!WithStaleWords([f.pdu EXCEPT !.func = bufFunc])
  BY <1>7, SameStaleWords
<1>. QED
  BY <1>4, <1>8, Zenon DEF Service!Readings

LEMMA ExecuteRefines ==
  ASSUME ServiceInv, Execute
  PROVE  \E c \in Connections : Service!Perform(c)
<1>0. xClientSocket \in Connections
  BY DEF ServiceInv, IInv, TypeOK, ControlInv, Execute, Queued
<1>. SUFFICES ASSUME NEW x \in Connections, x = xClientSocket
              PROVE  Service!Perform(x)
  BY <1>0
<1>. DEFINE f == issued[x][taken[x]]
<1>1. /\ x \in Connections /\ taken \in [Connections -> Nat]
      /\ taken[x] >= 1 /\ taken[x] <= Len(issued[x])
      /\ pc = "poll" /\ Queued("EV_EXECUTE") /\ Len(issued[x]) \in Nat
      /\ from = {<<x, taken[x]>>}
  BY DEF ServiceInv, IInv, TypeOK, ControlInv, ServingInv, BoundsInv, Execute, Polling, Queued
<1>2. /\ pc' = "send" /\ ~ Queued("EV_EXECUTE")'
      /\ UNCHANGED <<xClientSocket, issued, taken, replied, from>>
  BY DEF Execute, Consume, Queued, clientVars, recvVars
<1>3. PICK p \in WithStaleWords(BufferedPDU) :
        LET res == Dispatch(p, usRegHoldingBuf)
        IN  /\ usRegHoldingBuf' = res.regs
            /\ usLength' = res.len
            /\ result' = [ex |-> res.ex, out |-> res.out]
  BY DEF Execute
<1>r. PICK res : res = Dispatch(p, usRegHoldingBuf)
  OBVIOUS
<1>4. f.pid = 0 /\ f.length > 0
  BY <1>1 DEF ServiceInv, OrderInv, UnansweredInv, LengthInv
<1>5. \A c \in Connections : /\ SeenOf(c) = IF c = x THEN taken[c] - 1 ELSE taken[c]
                             /\ SeenOf(c)' = taken[c]
  BY <1>1, <1>2 DEF SeenOf, Executing
<1>6. Seen[x] = taken[x] - 1 /\ Seen[x] + 1 = taken[x]
  BY <1>1, <1>5 DEF Seen
<1>7. Seen' = [Seen EXCEPT ![x] = @ + 1]
  <2>1. Seen' = [c \in Connections |-> taken[c]]
    BY <1>5, Zenon DEF Seen
  <2>2. Seen = [c \in Connections |-> IF c = x THEN taken[c] - 1 ELSE taken[c]]
    BY <1>5, Zenon DEF Seen
  <2>. QED
    BY <1>1, <2>1, <2>2
<1>8. Pending = <<>> /\ Answers' = Answers
  BY <1>1, <1>2, Zenon DEF Pending, Answers
<1>9. Pending' = <<[to |-> x, req |-> Seen[x] + 1, ex |-> res.ex, len |-> res.len,
                    out |-> res.out]>>
  <2>1. ReqOf(from)' = taken[x]
    BY <1>1, <1>2, RequestNumber
  <2>2. result'.ex = res.ex /\ result'.out = res.out /\ usLength' = res.len
    BY <1>3, <1>r
  <2>. QED
    BY <1>2, <1>6, <2>1, <2>2 DEF Pending, Reply
<1>10. p \in Service!Readings(issued[x][Seen[x] + 1].pdu)
  BY <1>1, <1>6, BufferedReading
<1>11. /\ Seen[x] < Len(issued[x])
       /\ issued[x][Seen[x] + 1].pid = 0 /\ issued[x][Seen[x] + 1].length > 0
  BY <1>1, <1>4, <1>6
<1>12. usRegHoldingBuf' = res.regs
  BY <1>3, <1>r
<1>. QED
  BY <1>2, <1>r, <1>7, <1>8, <1>9, <1>10, <1>11, <1>12, PerformStep

\* A sequence is mapped element by element.
LEMMA MappedAppend ==
  ASSUME NEW S, NEW s \in Seq(S), NEW e, NEW c
  PROVE  [j \in DOMAIN Append(s, e) |-> AnswerOf(c, Append(s, e)[j])] =
           Append([j \in DOMAIN s |-> AnswerOf(c, s[j])], AnswerOf(c, e))
<1>. DEFINE F(x) == AnswerOf(c, x)
<1>. HIDE DEF F
<1>1. ASSUME NEW t \in Seq(S), NEW n \in Nat, n = Len(t)
      PROVE  [j \in DOMAIN Append(t, e) |-> F(Append(t, e)[j])] =
               Append([j \in DOMAIN t |-> F(t[j])], F(e))
  BY <1>1
<1>2. [j \in DOMAIN Append(s, e) |-> F(Append(s, e)[j])] =
        Append([j \in DOMAIN s |-> F(s[j])], F(e))
  BY <1>1
<1>. QED
  BY <1>2 DEF F

\* In the send loop no event waits.
LEMMA SendingSeen ==
  ASSUME ServiceInv, pc = "send", UNCHANGED <<stackVars, taken>>
  PROVE  Seen' = Seen
<1>1. ~ xEventInQueue /\ ~ xEventInQueue'
  BY DEF ServiceInv, IInv, ControlInv, stackVars
<1>2. \A c \in Connections : SeenOf(c) = taken[c] /\ SeenOf(c)' = taken[c]
  BY <1>1 DEF SeenOf, Executing, Queued
<1>. QED
  BY <1>2, Zenon DEF Seen

LEMMA SendRefines ==
  ASSUME ServiceInv, Send
  PROVE  Service!Deliver
<1>0. xClientSocket \in Connections
  BY DEF ServiceInv, IInv, TypeOK, ControlInv, Send, Sending
<1>. SUFFICES ASSUME NEW x \in Connections, x = xClientSocket
              PROVE  Service!Deliver
  BY <1>0
<1>. DEFINE r == [from |-> from, ex |-> result.ex, len |-> usLength, out |-> result.out]
<1>1. /\ pc = "send" /\ pc' = "poll"
      /\ UNCHANGED <<issued, usRegHoldingBuf, stackVars, taken>>
      /\ replied' = [replied EXCEPT ![x] = Append(@, r)]
  BY DEF Send, Sending, clientVars, serveVars
<1>2. Seen' = Seen
  BY <1>1, SendingSeen
<1>3. Pending = <<Reply>> /\ Pending' = <<>>
  BY <1>1 DEF Pending
<1>4. Reply = AnswerOf(x, r) /\ Reply.to = x
  BY DEF Reply, AnswerOf
<1>5. /\ replied \in [Connections -> Seq(Replies)]
      /\ replied'[x] = Append(replied[x], r)
      /\ \A c \in Connections \ {x} : replied'[c] = replied[c]
  BY <1>1 DEF ServiceInv, IInv, TypeOK
<1>6. Answers'[x] = Append(Answers[x], AnswerOf(x, r))
  <2>1. Answers'[x] = [j \in DOMAIN replied'[x] |-> AnswerOf(x, replied'[x][j])]
    BY Zenon DEF Answers
  <2>2. Answers[x] = [j \in DOMAIN replied[x] |-> AnswerOf(x, replied[x][j])]
    BY Zenon DEF Answers
  <2>3. replied[x] \in Seq(Replies)
    BY <1>5
  <2>. HIDE DEF r
  <2>. QED
    BY <1>5, <2>1, <2>2, <2>3, MappedAppend
<1>7. \A c \in Connections \ {x} : Answers'[c] = Answers[c]
  BY <1>5, Zenon DEF Answers
<1>. HIDE DEF r
<1>8. Answers' = [Answers EXCEPT ![x] = Append(@, AnswerOf(x, r))]
  <2>1. /\ Answers' = [c \in Connections |-> Answers'[c]]
        /\ Answers = [c \in Connections |-> Answers[c]]
    BY DEF Answers
  <2>. HIDE DEF Answers
  <2>. QED
    BY <1>6, <1>7, <2>1
<1>9. Pending[1].to = x /\ Pending[1] = AnswerOf(x, r) /\ Pending # <<>>
  BY <1>3, <1>4
<1>. QED
  BY <1>1, <1>2, <1>3, <1>8, <1>9, DeliverStep

LEMMA LoseRefines ==
  ASSUME ServiceInv, SendAbort \/ SendKilled
  PROVE  Service!Lose
<1>1. /\ pc = "send" /\ pc' # "send"
      /\ UNCHANGED <<issued, usRegHoldingBuf, stackVars, taken, replied>>
  BY DEF SendAbort, SendKilled, SendError, Sending, clientVars, serveVars
<1>2. Seen' = Seen
  BY <1>1, SendingSeen
<1>3. Pending = <<Reply>> /\ Pending' = <<>>
  BY <1>1 DEF Pending
<1>4. Pending # <<>>
  BY <1>3
<1>5. Answers' = Answers
  BY <1>1, Zenon DEF Answers
<1>. QED
  BY <1>1, <1>2, <1>3, <1>4, <1>5, LoseStep

\* Parts of a reply, and retries.
LEMMA SendingRefines ==
  ASSUME ServiceInv, SendRetry \/ \E k \in 1 .. MB_TCP_BUF_SIZE : SendPart(k)
  PROVE  UNCHANGED Service!serviceVars
<1>1. /\ pc = "send"
      /\ UNCHANGED <<pc, issued, usRegHoldingBuf, stackVars, taken, replied, xClientSocket,
                     from, result, usLength>>
  BY DEF SendRetry, SendPart, SendError, Sending, clientVars, serveVars, recvVars
<1>2. Seen' = Seen
  BY <1>1, SendingSeen
<1>3. Pending' = Pending /\ Answers' = Answers
  BY <1>1, Zenon DEF Pending, Reply, Answers
<1>. QED
  BY <1>1, <1>2, <1>3, QuietStep

\* Coming up, polling, accepting and receiving.
LEMMA StillRefines ==
  ASSUME ServiceInv,
         \/ TCPInit \/ TCPInitFails \/ Enable \/ Disable \/ PollPort
         \/ Accept \/ AcceptFails \/ RecvPastEnd \/ RecvEnd
         \/ \E k \in 1 .. MB_TCP_BUF_SIZE : RecvPart(k) \/ RecvFrame(k) \/ RecvBeyond(k)
  PROVE  UNCHANGED Service!serviceVars
<1>. USE DEF stackVars, recvVars, sendVars, serveVars, clientVars
<1>1. xEventInQueue => pc = "poll"
  BY DEF ServiceInv, IInv, ControlInv
<1>2. UNCHANGED <<issued, usRegHoldingBuf, taken, replied>>
  BY DEF TCPInit, TCPInitFails, Enable, Disable, PollPort, Accept, AcceptFails, RecvEnd,
         RecvPart, RecvFrame, RecvBeyond, RecvPastEnd, RecvBytes
<1>3. pc # "send" /\ pc' # "send" /\ ~ Queued("EV_EXECUTE")
  BY <1>1 DEF TCPInit, TCPInitFails, Enable, Disable, PollPort, Polling, QueueEmpty, Accept,
              AcceptFails, RecvEnd, RecvPart, RecvFrame, RecvBeyond, RecvPastEnd, Arrive,
              MayArrive, Pooling, Queued
<1>4. ~ Queued("EV_EXECUTE")'
  BY <1>1, <1>3 DEF TCPInit, TCPInitFails, Enable, Disable, PollPort, Accept, AcceptFails,
                    RecvEnd, RecvPart, RecvFrame, RecvBeyond, RecvPastEnd, Post, Queued
<1>. QED
  BY <1>2, <1>3, <1>4, Still DEF Executing

\* The clients: what the service sees of them is what they ask.
LEMMA ClientRefines ==
  ASSUME ServiceInv, NEW c \in Connections, Client(c)
  PROVE  Service!Ask(c) \/ UNCHANGED Service!serviceVars
<1>1. UNCHANGED serverVars
  BY DEF Client, Connect, Issue, Finish, Reset, ResetByClosed
<1>2. Seen' = Seen /\ Pending' = Pending /\ Answers' = Answers
  <2>1. /\ UNCHANGED <<pc, xEventInQueue, eQueuedEvent, xClientSocket, taken, replied, from>>
        /\ UNCHANGED <<result, usLength>>
    BY <1>1 DEF serverVars, stackVars, recvVars, serveVars
  <2>2. \A d \in Connections : SeenOf(d)' = SeenOf(d)
    BY <2>1, Zenon DEF SeenOf, Executing, Queued
  <2>. QED
    BY <2>1, <2>2, Zenon DEF Seen, Pending, Reply, Answers
<1>3. CASE Issue(c)
  BY <1>2, <1>3, AskStep
<1>4. CASE ~ Issue(c)
  <2>1. UNCHANGED issued /\ UNCHANGED usRegHoldingBuf
    BY <1>1, <1>4 DEF Client, Connect, Finish, Reset, ResetByClosed, serverVars, serveVars
  <2>. QED
    BY <1>2, <2>1, QuietStep
<1>. QED
  BY <1>3, <1>4

LEMMA InitRefines == Init => Service!ServiceInit
<1>. SUFFICES ASSUME Init PROVE Service!ServiceInit
  OBVIOUS
<1>1. /\ pc = "init" /\ xEventInQueue = FALSE
      /\ taken = [c \in Connections |-> 0] /\ replied = [c \in Connections |-> <<>>]
  BY Zenon DEF Init
<1>2. Pending = <<>>
  BY <1>1 DEF Pending
<1>3. \A c \in Connections : SeenOf(c) = 0
  BY <1>1 DEF SeenOf, Executing, Queued
<1>4. Seen = [c \in Connections |-> 0]
  BY <1>3, Zenon DEF Seen
<1>5. \A c \in Connections : [j \in DOMAIN replied[c] |-> AnswerOf(c, replied[c][j])] = <<>>
  <2>. SUFFICES ASSUME NEW c \in Connections
                PROVE  [j \in DOMAIN replied[c] |-> AnswerOf(c, replied[c][j])] = <<>>
    OBVIOUS
  <2>1. DOMAIN replied[c] = {}
    BY <1>1
  <2>. QED
    BY <2>1
<1>6. Answers = [c \in Connections |-> <<>>]
  BY <1>5, Zenon DEF Answers
<1>. QED
  BY <1>2, <1>4, <1>6, StartStep

LEMMA NextRefines ==
  ServiceInv /\ [Next]_vars => [Service!ServiceNext]_(Service!serviceVars)
<1>. SUFFICES ASSUME ServiceInv, [Next]_vars
              PROVE  Service!ServiceNext \/ UNCHANGED Service!serviceVars
  OBVIOUS
<1>1. CASE ModbusThread
  <2>1. CASE FrameReceived
    BY <2>1, ReceivedRefines DEF Service!ServiceNext
  <2>2. CASE Execute
    BY <2>2, ExecuteRefines DEF Service!ServiceNext
  <2>3. CASE Send
    BY <2>3, SendRefines DEF Service!ServiceNext
  <2>4. CASE SendAbort \/ SendKilled
    BY <2>4, LoseRefines DEF Service!ServiceNext
  <2>5. CASE SendRetry \/ \E k \in 1 .. MB_TCP_BUF_SIZE : SendPart(k)
    BY <2>5, SendingRefines
  <2>6. CASE \/ TCPInit \/ TCPInitFails \/ Enable \/ Disable \/ PollPort
             \/ Accept \/ AcceptFails \/ RecvPastEnd \/ RecvEnd
             \/ \E k \in 1 .. MB_TCP_BUF_SIZE : RecvPart(k) \/ RecvFrame(k) \/ RecvBeyond(k)
    BY <2>6, StillRefines
  <2>. QED
    BY <1>1, <2>1, <2>2, <2>3, <2>4, <2>5, <2>6 DEF ModbusThread
<1>2. ASSUME NEW c \in Connections, Client(c)
      PROVE  Service!ServiceNext \/ UNCHANGED Service!serviceVars
  BY <1>2, ClientRefines DEF Service!ServiceNext
<1>3. CASE UNCHANGED vars
  <2>1. /\ UNCHANGED <<pc, xEventInQueue, eQueuedEvent, xClientSocket, taken, replied, from>>
        /\ UNCHANGED <<result, usLength, issued, usRegHoldingBuf>>
    BY <1>3 DEF vars, stackVars, recvVars, serveVars, clientVars
  <2>2. \A d \in Connections : SeenOf(d)' = SeenOf(d)
    BY <2>1, Zenon DEF SeenOf, Executing, Queued
  <2>3. Seen' = Seen /\ Pending' = Pending /\ Answers' = Answers
    BY <2>1, <2>2, Zenon DEF Seen, Pending, Reply, Answers
  <2>. QED
    BY <2>1, <2>3, QuietStep
<1>. QED
  BY <1>1, <1>2, <1>3 DEF Next

(***************************************************************************)
(* The Modbus thread does what ModbusService promises: a request is        *)
(* performed in one step, in the order of its connection, at most once, on *)
(* the registers that the requests before it left, and its answer goes to  *)
(* its sender or is lost, however many pieces TCP makes of the bytes and   *)
(* whatever becomes of the connections.                                    *)
(***************************************************************************)
THEOREM ServiceIsImplemented == Spec => ImplementsService
<1>1. Spec => Service!ServiceInit
  BY InitRefines DEF Spec
<1>2. Spec => [][Service!ServiceNext]_(Service!serviceVars)
  BY NextRefines, ServiceInvHolds, PTL DEF Spec
<1>. QED
  BY <1>1, <1>2, PTL DEF ImplementsService, Service!ServiceSpec
=============================================================================
