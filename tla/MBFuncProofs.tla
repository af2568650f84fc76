---------------------------- MODULE MBFuncProofs ----------------------------
(***************************************************************************)
(* What the handlers of MBFunc do for every request and all values of the  *)
(* constants: no index of the holding registers is out of range, what they *)
(* leave has the type of the registers, and every reply fits a PDU and     *)
(* carries the words it announces.                                         *)
(***************************************************************************)
EXTENDS MBFunc, TLAPS

\* Bytes and words are numbers.
LEMMA WordsNat == WORD \in Nat /\ WORD > 0 /\ BYTE \in Nat /\ BYTE > 0
BY MBFuncAssumption DEF WORD

\* usRegAddress++ either counts up or wraps to zero.
LEMMA IncCases ==
  ASSUME NEW a \in Words
  PROVE  Inc(a) \in Nat /\ (Inc(a) = a + 1 \/ Inc(a) = 0)
<1>. a \in 0 .. WORD - 1
  BY DEF Words
<1>1. CASE a + 1 < WORD
  BY <1>1, WordsNat DEF Inc
<1>2. CASE a + 1 = WORD
  BY <1>2, WordsNat DEF Inc
<1>. QED
  BY <1>1, <1>2, WordsNat

\* The low byte of a count.
LEMMA LowByte ==
  ASSUME NEW n \in Words
  PROVE  n % BYTE \in Nat /\ n % BYTE < BYTE
BY WordsNat DEF Words

\* What a handler may return.
IsResult(res) ==
  /\ res.ex \in Exceptions
  /\ res.len \in Nat /\ res.len <= MB_PDU_SIZE_MAX
  /\ res.regs \in Registers
  /\ res.out \in Seq(Words)
  /\ res.out # <<>> => res.len = 2 + 2 * Len(res.out)

\* A write in range leaves registers of the same type, and changes those of its
\* window only, to the words it brings.
LEMMA WriteHoldingInRange ==
  ASSUME NEW regs \in Registers, NEW addr \in Nat, NEW n \in Nat, NEW vals,
         \A i \in 1 .. n : vals[i] \in Words,
         HoldingInRange(addr, n)
  PROVE  /\ WriteHolding(regs, addr, vals, n) \in Registers
         /\ \A r \in HoldingIndex :
              WriteHolding(regs, addr, vals, n)[r] =
                IF r \in addr - REG_HOLDING_START .. addr - REG_HOLDING_START + n - 1
                THEN vals[r - (addr - REG_HOLDING_START) + 1] ELSE regs[r]
<1>. DEFINE first == addr - REG_HOLDING_START
            written == first .. first + n - 1
<1>1. REG_HOLDING_START \in Nat /\ REG_HOLDING_NREGS \in Nat
  BY MBFuncAssumption
<1>2. first \in Nat
  BY <1>1 DEF HoldingInRange
<1>3. DOMAIN regs \cup written = HoldingIndex
  BY <1>1, <1>2 DEF HoldingInRange, Registers, HoldingIndex
<1>4. ASSUME NEW r \in HoldingIndex, r \in written
      PROVE  vals[r - first + 1] \in Words
  BY <1>4, <1>2, <1>1 DEF HoldingIndex
<1>5. ASSUME NEW r \in HoldingIndex
      PROVE  regs[r] \in Words
  BY <1>5 DEF Registers
<1>6. WriteHolding(regs, addr, vals, n) =
        [r \in HoldingIndex |->
           IF r \in written THEN vals[r - first + 1] ELSE regs[r]]
  BY <1>3 DEF WriteHolding
<1>7. WriteHolding(regs, addr, vals, n) \in Registers
  BY <1>4, <1>5, <1>6 DEF Registers
<1>8. \A r \in HoldingIndex :
        WriteHolding(regs, addr, vals, n)[r] =
          IF r \in written THEN vals[r - first + 1] ELSE regs[r]
  BY <1>6
<1>. QED
  BY <1>7, <1>8

\* A read in range yields n words, those of the registers of its window.
LEMMA ReadHoldingInRange ==
  ASSUME NEW regs \in Registers, NEW addr \in Nat, NEW n \in Nat,
         HoldingInRange(addr, n)
  PROVE  /\ ReadHolding(regs, addr, n) \in Seq(Words)
         /\ Len(ReadHolding(regs, addr, n)) = n
<1>1. REG_HOLDING_START \in Nat /\ REG_HOLDING_NREGS \in Nat
  BY MBFuncAssumption
<1>2. ASSUME NEW i \in 1 .. n
      PROVE  regs[addr - REG_HOLDING_START + i - 1] \in Words
  <2>1. addr - REG_HOLDING_START + i - 1 \in HoldingIndex
    BY <1>1 DEF HoldingInRange, HoldingIndex
  <2>. QED
    BY <2>1 DEF Registers
<1>. QED
  BY <1>2 DEF ReadHolding

\* Input registers read as words.
LEMMA ReadInputWords ==
  ASSUME NEW n \in Nat
  PROVE  ReadInput(n) \in Seq(Words) /\ Len(ReadInput(n)) = n
<1>1. 0 \in Words
  BY WordsNat DEF Words
<1>. QED
  BY <1>1 DEF ReadInput

\* An exception frame is two bytes, and leaves the registers alone.
LEMMA RefusalIsResult ==
  ASSUME NEW regs \in Registers, NEW e \in Exceptions
  PROVE  IsResult(Exception(e, regs))
BY MBFuncAssumption DEF Exception, IsResult

\* So are the two refusals of the handlers.
LEMMA BadsAreResults ==
  ASSUME NEW regs \in Registers
  PROVE  IsResult(BadValue(regs)) /\ IsResult(BadAddress(regs))
BY RefusalIsResult DEF BadValue, BadAddress, Exceptions

\* A reply in its bounds.
LEMMA AnswerIsResult ==
  ASSUME NEW regs \in Registers, NEW n \in Nat, n <= MB_PDU_SIZE_MAX,
         NEW out \in Seq(Words), out # <<>> => n = 2 + 2 * Len(out)
  PROVE  IsResult(Answer(n, regs, out))
BY DEF Answer, IsResult, Exceptions

\* The fields of a request are numbers; vals has a word for every register that
\* a valid request may write.
LEMMA RequestFields ==
  ASSUME NEW p, IsRequest(p)
  PROVE  /\ p.addr \in Words /\ p.cnt \in Words /\ p.waddr \in Words /\ p.wcnt \in Words
         /\ p.cnt \in Nat /\ p.wcnt \in Nat /\ p.bytes \in Nat
         /\ p.len \in Nat
         /\ \A n \in Nat :
              n <= WRITE_MUL_REGCNT_MAX \/ n <= READWRITE_WRITE_MAX
                => \A i \in 1 .. n : p.vals[i] \in Words
<1>1. p.addr \in Words /\ p.cnt \in Words /\ p.waddr \in Words /\ p.wcnt \in Words
  BY DEF IsRequest
<1>2. p.cnt \in Nat /\ p.wcnt \in Nat /\ p.bytes \in Nat
  BY <1>1, WordsNat DEF IsRequest, Words, Bytes
<1>3. p.len \in Nat
  BY DEF IsRequest
<1>4. ASSUME NEW n \in Nat,
             n <= WRITE_MUL_REGCNT_MAX \/ n <= READWRITE_WRITE_MAX,
             NEW i \in 1 .. n
      PROVE  p.vals[i] \in Words
  <2>1. i \in 1 .. MaxWords
    BY <1>4, MBFuncAssumption DEF MaxWords
  <2>. QED
    BY <2>1 DEF IsRequest
<1>. QED
  BY <1>1, <1>2, <1>3, <1>4

\* A reply without words.
LEMMA NoWords == <<>> \in Seq(Words) /\ Len(<<>>) = 0
OBVIOUS

-----------------------------------------------------------------------------
(***************************************************************************)
(* One lemma per handler.                                                  *)
(***************************************************************************)
\* Function 6.
LEMMA WriteHoldingRegisterIsResult ==
  ASSUME NEW p, IsRequest(p), NEW regs \in Registers
  PROVE  IsResult(eMBFuncWriteHoldingRegister(p, regs))
<1>. DEFINE addr == Inc(p.addr)
<1>1. addr \in Nat /\ p.cnt \in Words /\ 5 <= MB_PDU_SIZE_MAX
  BY RequestFields, IncCases, MBFuncAssumption
<1>2. \A i \in 1 .. 1 : <<p.cnt>>[i] \in Words
  BY <1>1
<1>3. ASSUME HoldingInRange(addr, 1), p.len = 5
      PROVE  IsResult(Answer(p.len, WriteHolding(regs, addr, <<p.cnt>>, 1), <<>>))
  <2>. HIDE DEF addr
  <2>1. WriteHolding(regs, addr, <<p.cnt>>, 1) \in Registers
    BY <1>1, <1>2, <1>3, WriteHoldingInRange
  <2>2. p.len \in Nat /\ p.len <= MB_PDU_SIZE_MAX
    BY <1>1, <1>3
  <2>. QED
    BY <2>1, <2>2, NoWords, AnswerIsResult
<1>. QED
  BY <1>3, BadsAreResults DEF eMBFuncWriteHoldingRegister

\* Function 16.
LEMMA WriteMultipleIsResult ==
  ASSUME NEW p, IsRequest(p), NEW regs \in Registers
  PROVE  IsResult(eMBFuncWriteMultipleHoldingRegister(p, regs))
<1>. DEFINE addr == Inc(p.addr)
<1>1. addr \in Nat /\ p.cnt \in Nat
  BY RequestFields, IncCases
<1>2. ASSUME HoldingInRange(addr, p.cnt), p.cnt <= WRITE_MUL_REGCNT_MAX
      PROVE  IsResult(Answer(5, WriteHolding(regs, addr, p.vals, p.cnt), <<>>))
  <2>. HIDE DEF addr
  <2>1. \A i \in 1 .. p.cnt : p.vals[i] \in Words
    BY <1>1, <1>2, RequestFields
  <2>2. WriteHolding(regs, addr, p.vals, p.cnt) \in Registers
    BY <1>1, <1>2, <2>1, WriteHoldingInRange
  <2>3. 5 \in Nat /\ 5 <= MB_PDU_SIZE_MAX
    BY MBFuncAssumption
  <2>. QED
    BY <2>2, <2>3, NoWords, AnswerIsResult
<1>. QED
  BY <1>2, BadsAreResults DEF eMBFuncWriteMultipleHoldingRegister

\* Function 3.
LEMMA ReadHoldingRegisterIsResult ==
  ASSUME NEW p, IsRequest(p), NEW regs \in Registers
  PROVE  IsResult(eMBFuncReadHoldingRegister(p, regs))
<1>. DEFINE addr == Inc(p.addr)
            cnt  == p.cnt % BYTE
<1>1. addr \in Nat /\ cnt \in Nat
  BY RequestFields, IncCases, LowByte
<1>2. ASSUME HoldingInRange(addr, cnt), cnt <= READ_REGCNT_MAX
      PROVE  IsResult(Answer(2 + 2 * cnt, regs, ReadHolding(regs, addr, cnt)))
  <2>. HIDE DEF addr, cnt
  <2>1. /\ ReadHolding(regs, addr, cnt) \in Seq(Words)
        /\ Len(ReadHolding(regs, addr, cnt)) = cnt
    BY <1>1, <1>2, ReadHoldingInRange
  <2>2. 2 + 2 * cnt \in Nat /\ 2 + 2 * cnt <= MB_PDU_SIZE_MAX
    BY <1>1, <1>2, MBFuncAssumption
  <2>. QED
    BY <2>1, <2>2, AnswerIsResult
<1>. QED
  BY <1>2, BadsAreResults DEF eMBFuncReadHoldingRegister

\* Function 23.
LEMMA ReadWriteMultipleIsResult ==
  ASSUME NEW p, IsRequest(p), NEW regs \in Registers
  PROVE  IsResult(eMBFuncReadWriteMultipleHoldingRegister(p, regs))
<1>. DEFINE raddr   == Inc(p.addr)
            waddr   == Inc(p.waddr)
            written == WriteHolding(regs, waddr, p.vals, p.wcnt)
<1>1. raddr \in Nat /\ waddr \in Nat /\ p.cnt \in Nat /\ p.wcnt \in Nat
  BY RequestFields, IncCases
<1>2. p.len < 10 => IsResult(Answer(p.len, regs, <<>>))
  <2>1. p.len < 10 => p.len \in Nat /\ p.len <= MB_PDU_SIZE_MAX
    BY RequestFields, MBFuncAssumption
  <2>. QED
    BY <2>1, NoWords, AnswerIsResult
<1>3. ASSUME HoldingInRange(waddr, p.wcnt), p.wcnt <= READWRITE_WRITE_MAX
      PROVE  written \in Registers
  <2>1. \A i \in 1 .. p.wcnt : p.vals[i] \in Words
    BY <1>1, <1>3, RequestFields
  <2>. HIDE DEF waddr
  <2>. QED
    BY <1>1, <1>3, <2>1, WriteHoldingInRange
<1>4. ASSUME written \in Registers, HoldingInRange(raddr, p.cnt),
             p.cnt <= READ_REGCNT_MAX
      PROVE  IsResult(Answer(2 + 2 * p.cnt, written,
                             ReadHolding(written, raddr, p.cnt)))
  <2>. HIDE DEF raddr, written
  <2>1. /\ ReadHolding(written, raddr, p.cnt) \in Seq(Words)
        /\ Len(ReadHolding(written, raddr, p.cnt)) = p.cnt
    BY <1>1, <1>4, ReadHoldingInRange
  <2>2. 2 + 2 * p.cnt \in Nat /\ 2 + 2 * p.cnt <= MB_PDU_SIZE_MAX
    BY <1>1, <1>4, MBFuncAssumption
  <2>. QED
    BY <1>4, <2>1, <2>2, AnswerIsResult
<1>5. written \in Registers => IsResult(BadAddress(written))
  BY BadsAreResults
<1>. QED
  BY <1>2, <1>3, <1>4, <1>5, BadsAreResults
     DEF eMBFuncReadWriteMultipleHoldingRegister

\* Function 4.
LEMMA ReadInputRegisterIsResult ==
  ASSUME NEW p, IsRequest(p), NEW regs \in Registers
  PROVE  IsResult(eMBFuncReadInputRegister(p, regs))
<1>1. p.cnt \in Nat
  BY RequestFields
<1>2. ASSUME p.cnt < READ_REGCNT_MAX
      PROVE  IsResult(Answer(2 + 2 * p.cnt, regs, ReadInput(p.cnt)))
  <2>1. 2 + 2 * p.cnt \in Nat /\ 2 + 2 * p.cnt <= MB_PDU_SIZE_MAX
    BY <1>1, <1>2, MBFuncAssumption
  <2>. QED
    BY <1>1, <2>1, ReadInputWords, AnswerIsResult
<1>. QED
  BY <1>2, BadsAreResults DEF eMBFuncReadInputRegister

\* Function 17.
LEMMA ReportSlaveIDIsResult ==
  ASSUME NEW regs \in Registers
  PROVE  IsResult(eMBFuncReportSlaveID(regs))
<1>1. 1 + usMBSlaveIDLen \in Nat /\ 1 + usMBSlaveIDLen <= MB_PDU_SIZE_MAX
  BY MBFuncAssumption
<1>. QED
  BY <1>1, NoWords, AnswerIsResult DEF eMBFuncReportSlaveID

\* Functions 1, 2, 5 and 15, and the codes without a handler.
LEMMA OthersAreResults ==
  ASSUME NEW p, NEW regs \in Registers
  PROVE  /\ IsResult(eMBFuncReadCoils(p, regs))
         /\ IsResult(eMBFuncReadDiscreteInputs(p, regs))
         /\ IsResult(eMBFuncWriteCoil(p, regs))
         /\ IsResult(eMBFuncWriteMultipleCoils(p, regs))
         /\ IsResult(Exception("MB_EX_ILLEGAL_FUNCTION", regs))
<1>1. IsResult(Exception("MB_EX_ILLEGAL_FUNCTION", regs))
  BY RefusalIsResult DEF Exceptions
<1>. QED
  BY <1>1, BadsAreResults
     DEF eMBFuncReadCoils, eMBFuncReadDiscreteInputs, eMBFuncWriteCoil,
         eMBFuncWriteMultipleCoils

\* Whatever request arrives, its handler leaves registers of the same type, with
\* no index out of their range, and a reply that fits the PDU and is as long as
\* the words in it make it: xFuncHandlers and the handlers it lists.
THEOREM DispatchIsResult ==
  ASSUME NEW p, IsRequest(p), NEW regs \in Registers
  PROVE  IsResult(Dispatch(p, regs))
BY WriteHoldingRegisterIsResult, WriteMultipleIsResult, ReadHoldingRegisterIsResult,
   ReadWriteMultipleIsResult, ReadInputRegisterIsResult, ReportSlaveIDIsResult,
   OthersAreResults
   DEF Dispatch
=============================================================================
