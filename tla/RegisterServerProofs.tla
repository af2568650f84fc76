------------------------ MODULE RegisterServerProofs ------------------------
(***************************************************************************)
(* RegisterServer for every value of the constants: its invariants, and    *)
(* what the steps of its runs may never do.                                *)
(***************************************************************************)
EXTENDS RegisterServer, MBFuncProofs

(***************************************************************************)
(* The inductive invariant: TypeOK and ReplyFits say too little of the     *)
(* reply's words to be preserved by themselves.                            *)
(***************************************************************************)
IInv ==
  /\ usRegHoldingBuf \in Registers
  /\ request \in Requests
  /\ IsResult(reply)

\* The registers start at zero, without a reply.
LEMMA InitIInv == Init => IInv
<1>. SUFFICES ASSUME Init PROVE IInv
  OBVIOUS
<1>1. usRegHoldingBuf \in Registers
  BY WordsNat DEF Init, Registers, Words
<1>2. 0 \in Nat /\ 0 <= MB_PDU_SIZE_MAX
  BY MBFuncAssumption
<1>3. IsResult(NoReply)
  BY <1>1, <1>2, NoWords, AnswerIsResult DEF NoReply
<1>. QED
  BY <1>1, <1>3 DEF Init, IInv

\* Every request leaves registers and a result.
LEMMA NextIInv == IInv /\ [Next]_vars => IInv'
<1>. SUFFICES ASSUME IInv, [Next]_vars PROVE IInv'
  OBVIOUS
<1>1. ASSUME NEW p \in Requests, Execute(p)
      PROVE  IInv'
  <2>1. IsResult(Dispatch(p, usRegHoldingBuf))
    BY <1>1, RegisterServerAssumption, DispatchIsResult DEF IInv
  <2>2. /\ usRegHoldingBuf' = Dispatch(p, usRegHoldingBuf).regs
        /\ request' = p
        /\ reply' = Dispatch(p, usRegHoldingBuf)
    BY <1>1 DEF Execute
  <2>3. usRegHoldingBuf' \in Registers
    BY <2>1, <2>2 DEF IsResult
  <2>4. IsResult(reply')
    BY <2>1, <2>2
  <2>. QED
    BY <1>1, <2>2, <2>3, <2>4 DEF IInv, IsResult
<1>2. CASE UNCHANGED vars
  BY <1>2 DEF vars, IInv, IsResult
<1>. QED
  BY <1>1, <1>2 DEF Next

\* What the theorems below follow from.
THEOREM IInvHolds == Spec => []IInv
BY InitIInv, NextIInv, PTL DEF Spec

\* The registers keep their type and every reply is one of a handler's.
THEOREM TypeCorrect == Spec => []TypeOK
<1>1. IInv => TypeOK
  BY DEF IInv, IsResult, TypeOK
<1>. QED
  BY <1>1, IInvHolds, PTL

\* No reply overruns the PDU of the frame buffer it is built in, whatever was
\* asked for, and the length that is sent is that of the words in it.
THEOREM RepliesFit == Spec => []ReplyFits
<1>1. IInv => ReplyFits
  BY DEF IInv, IsResult, ReplyFits
<1>. QED
  BY <1>1, IInvHolds, PTL

-----------------------------------------------------------------------------
(***************************************************************************)
(* What a handler does to the registers: nothing, or one write in range.   *)
(***************************************************************************)
WroteAt(res, regs, a, vals, n) ==
  /\ HoldingInRange(Inc(a), n)
  /\ res.regs = WriteHolding(regs, Inc(a), vals, n)

\* By cases on the function code.
LEMMA HandlerWrites ==
  ASSUME NEW p, NEW regs
  PROVE  LET res == Dispatch(p, regs) IN
         \/ res.regs = regs
         \/ p.func = 6 /\ WroteAt(res, regs, p.addr, <<p.cnt>>, 1)
         \/ /\ p.func = 16 /\ p.cnt <= WRITE_MUL_REGCNT_MAX
            /\ WroteAt(res, regs, p.addr, p.vals, p.cnt)
         \/ /\ p.func = 23 /\ p.wcnt <= READWRITE_WRITE_MAX
            /\ WroteAt(res, regs, p.waddr, p.vals, p.wcnt)
<1>. DEFINE res == Dispatch(p, regs)
<1>1. CASE p.func = 6
  BY <1>1 DEF Dispatch, eMBFuncWriteHoldingRegister, WroteAt, Answer, BadValue,
              BadAddress, Exception
<1>2. CASE p.func = 16
  BY <1>2 DEF Dispatch, eMBFuncWriteMultipleHoldingRegister, WroteAt, Answer,
              BadValue, BadAddress, Exception
<1>3. CASE p.func = 23
  BY <1>3 DEF Dispatch, eMBFuncReadWriteMultipleHoldingRegister, WroteAt, Answer,
              BadValue, BadAddress, Exception
<1>4. CASE p.func \notin {6, 16, 23}
  BY <1>4 DEF Dispatch, eMBFuncReadHoldingRegister, eMBFuncReadInputRegister,
              eMBFuncReadCoils, eMBFuncReadDiscreteInputs, eMBFuncWriteCoil,
              eMBFuncWriteMultipleCoils,
              eMBFuncReportSlaveID, Answer, BadValue, BadAddress, Exception
<1>. QED
  BY <1>1, <1>2, <1>3, <1>4

\* The ++ of the handlers does not wrap for an address that passes the range
\* check: the register written first is the one the request names.
LEMMA InRangeAddress ==
  ASSUME NEW a \in Words, NEW n \in Nat, HoldingInRange(Inc(a), n)
  PROVE  /\ Inc(a) \in Nat /\ Inc(a) - REG_HOLDING_START = Register(a)
         /\ Register(a) \in Nat /\ Register(a) + n <= REG_HOLDING_NREGS
<1>1. a \in Nat
  BY WordsNat DEF Words
<1>2. Inc(a) = a + 1
  BY IncCases, MBFuncAssumption DEF HoldingInRange
<1>. QED
  BY <1>1, <1>2, MBFuncAssumption DEF HoldingInRange, Register

\* A write in range changes the registers of its window, to the words it brings.
LEMMA WriteFillsWindow ==
  ASSUME NEW regs \in Registers, NEW a \in Words, NEW n \in Nat, NEW vals,
         \A i \in 1 .. n : vals[i] \in Words,
         HoldingInRange(Inc(a), n)
  PROVE  \A r \in HoldingIndex :
           WriteHolding(regs, Inc(a), vals, n)[r] =
             IF r \in Window(a, n) THEN vals[r - Register(a) + 1] ELSE regs[r]
<1>2. /\ Inc(a) \in Nat /\ Inc(a) - REG_HOLDING_START = Register(a)
      /\ Register(a) \in Nat
  BY InRangeAddress
<1>3. \A r \in HoldingIndex :
        WriteHolding(regs, Inc(a), vals, n)[r] =
          IF r \in Register(a) .. Register(a) + n - 1
          THEN vals[r - Register(a) + 1] ELSE regs[r]
  BY <1>2, WriteHoldingInRange
<1>4. \A r \in HoldingIndex :
        r \in Register(a) .. Register(a) + n - 1 <=> r \in Window(a, n)
  BY <1>2, MBFuncAssumption DEF Window, HoldingIndex
<1>. QED
  BY <1>3, <1>4

\* A request leaves the registers alone, or every register of its window takes
\* the word that the request brings for it and no other register changes.
LEMMA RequestWrites ==
  ASSUME NEW p, IsRequest(p), NEW regs \in Registers
  PROVE  LET res == Dispatch(p, regs) IN
         \/ res.regs = regs
         \/ /\ p.func \in {6, 16, 23}
            /\ \A r \in HoldingIndex :
                 res.regs[r] = IF r \in WriteWindow(p) THEN NewWord(p, r) ELSE regs[r]
<1>. DEFINE res == Dispatch(p, regs)
<1>1. CASE res.regs = regs
  BY <1>1
<1>2. CASE p.func = 6 /\ WroteAt(res, regs, p.addr, <<p.cnt>>, 1)
  <2>1. \A i \in 1 .. 1 : <<p.cnt>>[i] \in Words
    BY RequestFields
  <2>2. \A r \in HoldingIndex :
          WriteHolding(regs, Inc(p.addr), <<p.cnt>>, 1)[r] =
            IF r \in Window(p.addr, 1)
            THEN <<p.cnt>>[r - Register(p.addr) + 1] ELSE regs[r]
    BY <1>2, <2>1, RequestFields, WriteFillsWindow DEF WroteAt
  <2>. QED
    BY <1>2, <2>2 DEF WroteAt, WriteWindow, NewWord, WriteWords, WriteAddress
<1>3. CASE /\ p.func = 16 /\ p.cnt <= WRITE_MUL_REGCNT_MAX
           /\ WroteAt(res, regs, p.addr, p.vals, p.cnt)
  <2>1. \A i \in 1 .. p.cnt : p.vals[i] \in Words
    BY <1>3, RequestFields
  <2>2. \A r \in HoldingIndex :
          WriteHolding(regs, Inc(p.addr), p.vals, p.cnt)[r] =
            IF r \in Window(p.addr, p.cnt)
            THEN p.vals[r - Register(p.addr) + 1] ELSE regs[r]
    BY <1>3, <2>1, RequestFields, WriteFillsWindow DEF WroteAt
  <2>. QED
    BY <1>3, <2>2 DEF WroteAt, WriteWindow, NewWord, WriteWords, WriteAddress
<1>4. CASE /\ p.func = 23 /\ p.wcnt <= READWRITE_WRITE_MAX
           /\ WroteAt(res, regs, p.waddr, p.vals, p.wcnt)
  <2>1. \A i \in 1 .. p.wcnt : p.vals[i] \in Words
    BY <1>4, RequestFields
  <2>2. \A r \in HoldingIndex :
          WriteHolding(regs, Inc(p.waddr), p.vals, p.wcnt)[r] =
            IF r \in Window(p.waddr, p.wcnt)
            THEN p.vals[r - Register(p.waddr) + 1] ELSE regs[r]
    BY <1>4, <2>1, RequestFields, WriteFillsWindow DEF WroteAt
  <2>. QED
    BY <1>4, <2>2 DEF WroteAt, WriteWindow, NewWord, WriteWords, WriteAddress
<1>. QED
  BY <1>1, <1>2, <1>3, <1>4, HandlerWrites

\* The registers of a window are registers.
LEMMA WindowsAreRegisters ==
  ASSUME NEW p
  PROVE  WriteWindow(p) \subseteq HoldingIndex
BY DEF WriteWindow, Window

-----------------------------------------------------------------------------
(***************************************************************************)
(* The action properties.                                                  *)
(***************************************************************************)

\* What a step of the server does.
LEMMA StepIsDispatch ==
  ASSUME IInv, Next
  PROVE  /\ IsRequest(request') /\ usRegHoldingBuf \in Registers
         /\ reply' = Dispatch(request', usRegHoldingBuf)
         /\ usRegHoldingBuf' = reply'.regs
         /\ usRegHoldingBuf' \in Registers
<1>1. PICK p \in Requests : Execute(p)
  BY DEF Next
<1>2. IsRequest(p)
  BY RegisterServerAssumption
<1>3. IsResult(Dispatch(p, usRegHoldingBuf))
  BY <1>2, DispatchIsResult DEF IInv
<1>. QED
  BY <1>1, <1>2, <1>3 DEF Execute, IInv, IsResult

\* No request writes outside of the window it names, whatever its fields: the
\* range check of eMBRegHoldingCB covers every index its loop uses, and the ++
\* of the handlers cannot wrap into it.
THEOREM WritesStay == Spec => WritesStayInWindow
<1>. DEFINE Stays == \A r \in HoldingIndex :
                       usRegHoldingBuf'[r] # usRegHoldingBuf[r]
                         => r \in WriteWindow(request')
<1>1. IInv /\ [Next]_vars => [Stays]_vars
  <2>. SUFFICES ASSUME IInv, Next PROVE Stays
    OBVIOUS
  <2>. QED
    BY StepIsDispatch, RequestWrites
<1>. QED
  BY <1>1, IInvHolds, PTL DEF Spec, WritesStayInWindow

\* No request leaves its window half written.
THEOREM WritesWhole == Spec => WritesAreWhole
<1>. DEFINE Whole == \/ usRegHoldingBuf' = usRegHoldingBuf
                     \/ \A r \in WriteWindow(request') :
                          usRegHoldingBuf'[r] = NewWord(request', r)
<1>1. IInv /\ [Next]_vars => [Whole]_vars
  <2>. SUFFICES ASSUME IInv, Next PROVE Whole
    OBVIOUS
  <2>. QED
    BY StepIsDispatch, RequestWrites, WindowsAreRegisters
<1>. QED
  BY <1>1, IInvHolds, PTL DEF Spec, WritesAreWhole

\* The answer to a 6 or a 16 says whether it was done.
LEMMA AnsweredMeansWritten ==
  ASSUME NEW p, IsRequest(p), NEW regs \in Registers, p.func \in {6, 16}
  PROVE  LET res == Dispatch(p, regs) IN
         IF res.ex = "MB_EX_NONE"
         THEN \A r \in WriteWindow(p) : res.regs[r] = NewWord(p, r)
         ELSE res.regs = regs
<1>. DEFINE res == Dispatch(p, regs)
<1>1. CASE p.func = 6
  <2>1. IF res.ex = "MB_EX_NONE"
        THEN WroteAt(res, regs, p.addr, <<p.cnt>>, 1) ELSE res.regs = regs
    BY <1>1 DEF Dispatch, eMBFuncWriteHoldingRegister, WroteAt, Answer, BadValue,
                BadAddress, Exception
  <2>2. \A i \in 1 .. 1 : <<p.cnt>>[i] \in Words
    BY RequestFields
  <2>3. ASSUME HoldingInRange(Inc(p.addr), 1)
        PROVE  \A r \in HoldingIndex :
                 WriteHolding(regs, Inc(p.addr), <<p.cnt>>, 1)[r] =
                   IF r \in Window(p.addr, 1)
                   THEN <<p.cnt>>[r - Register(p.addr) + 1] ELSE regs[r]
    BY <2>2, <2>3, RequestFields, WriteFillsWindow
  <2>. QED
    BY <1>1, <2>1, <2>3, WindowsAreRegisters
       DEF WroteAt, WriteWindow, NewWord, WriteWords, WriteAddress
<1>2. CASE p.func = 16
  <2>1. IF res.ex = "MB_EX_NONE"
        THEN p.cnt <= WRITE_MUL_REGCNT_MAX /\ WroteAt(res, regs, p.addr, p.vals, p.cnt)
        ELSE res.regs = regs
    BY <1>2 DEF Dispatch, eMBFuncWriteMultipleHoldingRegister, WroteAt, Answer,
                BadValue, BadAddress, Exception
  <2>2. ASSUME p.cnt <= WRITE_MUL_REGCNT_MAX, HoldingInRange(Inc(p.addr), p.cnt)
        PROVE  \A r \in HoldingIndex :
                 WriteHolding(regs, Inc(p.addr), p.vals, p.cnt)[r] =
                   IF r \in Window(p.addr, p.cnt)
                   THEN p.vals[r - Register(p.addr) + 1] ELSE regs[r]
    <3>1. \A i \in 1 .. p.cnt : p.vals[i] \in Words
      BY <2>2, RequestFields
    <3>. QED
      BY <2>2, <3>1, RequestFields, WriteFillsWindow
  <2>. QED
    BY <1>2, <2>1, <2>2, WindowsAreRegisters
       DEF WroteAt, WriteWindow, NewWord, WriteWords, WriteAddress
<1>. QED
  BY <1>1, <1>2

\* A client that sees its 6 or 16 answered can rely on the write, one that sees
\* it refused on nothing having been written.
THEOREM AnswersTell == Spec => AnswerTellsTheWrite
<1>. DEFINE Tells == request'.func \in {6, 16} =>
                       IF Answered
                       THEN \A r \in WriteWindow(request') :
                              usRegHoldingBuf'[r] = NewWord(request', r)
                       ELSE usRegHoldingBuf' = usRegHoldingBuf
<1>1. IInv /\ [Next]_vars => [Tells]_vars
  <2>. SUFFICES ASSUME IInv, Next PROVE Tells
    OBVIOUS
  <2>. QED
    BY StepIsDispatch, AnsweredMeansWritten DEF Answered
<1>. QED
  BY <1>1, IInvHolds, PTL DEF Spec, AnswerTellsTheWrite

\* The words of a reply to a 3 or a 23 are those of the registers as the handler
\* leaves them.
LEMMA ReplyWords ==
  ASSUME NEW p, IsRequest(p), NEW regs \in Registers, p.func \in {3, 23}
  PROVE  LET res == Dispatch(p, regs) IN
         \A i \in DOMAIN res.out :
           res.out[i] = res.regs[Register(p.addr) + i - 1]
<1>. DEFINE res == Dispatch(p, regs)
            n   == IF p.func = 3 THEN p.cnt % BYTE ELSE p.cnt
<1>1. n \in Nat
  BY RequestFields, LowByte
<1>2. \/ res.out = <<>>
      \/ /\ HoldingInRange(Inc(p.addr), n)
         /\ res.out = ReadHolding(res.regs, Inc(p.addr), n)
  <2>1. CASE p.func = 3
    BY <2>1 DEF Dispatch, eMBFuncReadHoldingRegister, Answer, BadValue, BadAddress,
                Exception
  <2>2. CASE p.func = 23
    BY <2>2 DEF Dispatch, eMBFuncReadWriteMultipleHoldingRegister, Answer, BadValue,
                BadAddress, Exception
  <2>. QED
    BY <2>1, <2>2
<1>3. ASSUME HoldingInRange(Inc(p.addr), n), NEW i \in 1 .. n
      PROVE  ReadHolding(res.regs, Inc(p.addr), n)[i] =
               res.regs[Register(p.addr) + i - 1]
  <2>1. Inc(p.addr) - REG_HOLDING_START = Register(p.addr)
    BY <1>1, <1>3, RequestFields, InRangeAddress
  <2>. QED
    BY <1>3, <2>1 DEF ReadHolding
<1>4. DOMAIN ReadHolding(res.regs, Inc(p.addr), n) = 1 .. n
  BY DEF ReadHolding
<1>5. ASSUME NEW i \in DOMAIN res.out
      PROVE  res.out[i] = res.regs[Register(p.addr) + i - 1]
  <2>. HIDE DEF res, n
  <2>1. res.out # <<>>
    BY <1>5
  <2>2. /\ HoldingInRange(Inc(p.addr), n)
        /\ res.out = ReadHolding(res.regs, Inc(p.addr), n)
    BY <1>2, <2>1
  <2>. QED
    BY <1>3, <1>4, <1>5, <2>2
<1>. QED
  BY <1>5

\* A client never reads a word the registers do not hold when its request ends.
THEOREM ReadsCurrent == Spec => ReadsAreCurrent
<1>. DEFINE Current == request'.func \in {3, 23} /\ Answered =>
                         \A i \in DOMAIN reply'.out :
                           reply'.out[i] =
                             usRegHoldingBuf'[Register(request'.addr) + i - 1]
<1>1. IInv /\ [Next]_vars => [Current]_vars
  <2>. SUFFICES ASSUME IInv, Next PROVE Current
    OBVIOUS
  <2>. QED
    BY StepIsDispatch, ReplyWords
<1>. QED
  BY <1>1, IInvHolds, PTL DEF Spec, ReadsAreCurrent
=============================================================================
