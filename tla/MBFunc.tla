------------------------------- MODULE MBFunc -------------------------------
(***************************************************************************)
(* The Modbus function handlers of lib/freemodbus/modbus/functions and the *)
(* register callbacks of src/freemodbus_tcp, as operators on a decoded     *)
(* request.                                                                *)
(*                                                                         *)
(* A request is a record of the fields the handlers pick out of the frame: *)
(*   func   the function code byte                                         *)
(*   addr   first word  (register/coil address, the READ address of 23)    *)
(*   cnt    second word (register/coil count; the value of 5 and 6)        *)
(*   waddr  third word  (write address of 23)                              *)
(*   wcnt   fourth word (write count of 23)                                *)
(*   bytes  the byte count byte of 15, 16 and 23                           *)
(*   vals   the register words that follow it                              *)
(*   len    the number of bytes of the PDU that were received              *)
(* A handler reads its fields from the buffer whatever len is, so words of *)
(* vals past len are what the buffer held before.                          *)
(*                                                                         *)
(* A handler returns [ex, len, regs, out]: the exception, the length of    *)
(* the reply PDU, the holding registers afterwards and the words read.     *)
(***************************************************************************)
EXTENDS Integers, Sequences

CONSTANTS
  BYTE,                  \* number of values of a UCHAR: 256
  REG_HOLDING_START,     \* 1
  REG_HOLDING_NREGS,     \* 496
  REG_INPUT_START,       \* 1000
  REG_INPUT_NREGS,       \* 4
  READ_REGCNT_MAX,       \* 0x7D: MB_PDU_FUNC_READ_REGCNT_MAX
  WRITE_MUL_REGCNT_MAX,  \* 0x78: MB_PDU_FUNC_WRITE_MUL_REGCNT_MAX
  READWRITE_WRITE_MAX,   \* 0x79: the write limit of function 23
  READ_COILCNT_MAX,      \* 0x7D0
  WRITE_MUL_COILCNT_MAX, \* 0x7B0
  MB_PDU_SIZE_MAX,       \* 253
  StaleWords,            \* words the buffer may hold past the received bytes
  usMBSlaveIDLen         \* bytes of the slave id; 0 unless eMBSetSlaveID ran

(***************************************************************************)
(* What the C constants satisfy and the handlers rely on: the byte count   *)
(* of the longest transfer fits one UCHAR, the longest replies fit a PDU.  *)
(***************************************************************************)
ASSUME MBFuncAssumption ==
  /\ BYTE \in Nat \ {0}
  /\ REG_HOLDING_START \in Nat \ {0} /\ REG_HOLDING_NREGS \in Nat
  /\ REG_INPUT_START \in Nat \ {0} /\ REG_INPUT_NREGS \in Nat
  /\ READ_REGCNT_MAX \in Nat /\ WRITE_MUL_REGCNT_MAX \in Nat
  /\ READWRITE_WRITE_MAX \in Nat
  /\ READ_COILCNT_MAX \in Nat /\ WRITE_MUL_COILCNT_MAX \in Nat
  /\ 2 * READ_REGCNT_MAX < BYTE
  /\ 2 * WRITE_MUL_REGCNT_MAX < BYTE /\ 2 * READWRITE_WRITE_MAX < BYTE
  /\ MB_PDU_SIZE_MAX \in Nat /\ 2 + 2 * READ_REGCNT_MAX <= MB_PDU_SIZE_MAX
  /\ 10 <= MB_PDU_SIZE_MAX
  /\ StaleWords \subseteq 0 .. BYTE * BYTE - 1 /\ 0 \in StaleWords
  /\ usMBSlaveIDLen \in Nat /\ 1 + usMBSlaveIDLen <= MB_PDU_SIZE_MAX

WORD  == BYTE * BYTE
Bytes == 0 .. BYTE - 1
Words == 0 .. WORD - 1

\* Mutant of Inc: the handler passes the address of the frame on.
NoInc(a) == a

\* usRegAddress++ on a USHORT.
Inc(a) == (a + 1) % WORD

HoldingIndex == 0 .. REG_HOLDING_NREGS - 1
Registers    == [HoldingIndex -> Words]

\* The longest write, in words.
MaxWords == IF WRITE_MUL_REGCNT_MAX >= READWRITE_WRITE_MAX
            THEN WRITE_MUL_REGCNT_MAX ELSE READWRITE_WRITE_MAX

\* A request PDU as the buffer presents it, with every word a handler may read.
IsRequest(p) ==
  p \in [func : 0 .. 255, addr : Words, cnt : Words, waddr : Words, wcnt : Words,
         bytes : Bytes, vals : [1 .. MaxWords -> Words], len : Nat]

\* A frame on the wire: the Length and Protocol Identifier fields of its MBAP
\* header and the PDU.  Length counts the unit identifier and the PDU; it is any
\* word, whatever the receive buffer can hold.
IsFrame(f) ==
  /\ IsRequest(f.pdu)
  /\ f.pid \in Words /\ f.length \in Words
  /\ f.length = 0 \/ f.length = f.pdu.len + 1

\* The number of whole words of vals among the received bytes of a 16 or a 23.
CarriedWords(p) == IF p.func = 23 THEN (p.len - 10) \div 2 ELSE (p.len - 6) \div 2

\* The PDUs a handler may see when the buffer holds p: the words that p did not
\* bring along are left over from earlier frames.
WithStaleWords(p) ==
  { [p EXCEPT !.vals = [i \in 1 .. MaxWords |->
                          IF i <= CarriedWords(p) THEN p.vals[i] ELSE s[i]]] :
      s \in [1 .. MaxWords -> StaleWords] }

-----------------------------------------------------------------------------
(***************************************************************************)
(* Exceptions and the results of a handler.                                *)
(***************************************************************************)
Exceptions == {"MB_EX_NONE", "MB_EX_ILLEGAL_FUNCTION",
               "MB_EX_ILLEGAL_DATA_ADDRESS", "MB_EX_ILLEGAL_DATA_VALUE"}

\* A reply of n bytes that carries the words of out.
Answer(n, regs, out) ==
  [ex |-> "MB_EX_NONE", len |-> n, regs |-> regs, out |-> out]

\* eMBPoll replaces the reply by the two bytes of an error frame.
Exception(e, regs) == [ex |-> e, len |-> 2, regs |-> regs, out |-> <<>>]

BadValue(regs)   == Exception("MB_EX_ILLEGAL_DATA_VALUE", regs)

\* Mutant of BadAddress: MB_ENOREG is not made an exception.
AnsweredBadAddress(regs) == Answer(2, regs, <<>>)

BadAddress(regs) == Exception("MB_EX_ILLEGAL_DATA_ADDRESS", regs)

-----------------------------------------------------------------------------
(***************************************************************************)
(* The register callbacks.                                                 *)
(***************************************************************************)
HoldingInRange(addr, n) ==
  /\ addr >= REG_HOLDING_START
  /\ addr + n <= REG_HOLDING_START + REG_HOLDING_NREGS

InputInRange(addr, n) ==
  /\ addr >= REG_INPUT_START
  /\ addr + n <= REG_INPUT_START + REG_INPUT_NREGS

\* Mutant of ReadHolding: the low byte of a register is sent first.
ReadLowByteFirst(regs, addr, n) ==
  [i \in 1 .. n |-> LET w == regs[addr - REG_HOLDING_START + i - 1]
                    IN  (w % BYTE) * BYTE + w \div BYTE]

\* eMBRegHoldingCB in mode MB_REG_READ: the words of n registers.
ReadHolding(regs, addr, n) ==
  [i \in 1 .. n |-> regs[addr - REG_HOLDING_START + i - 1]]

\* Mutant of WriteHolding: the loop ends one register early.
WriteAllButLast(regs, addr, vals, n) ==
  LET first   == addr - REG_HOLDING_START
      written == first .. first + n - 2
  IN  [r \in DOMAIN regs \cup written |->
         IF r \in written THEN vals[r - first + 1] ELSE regs[r]]

\* eMBRegHoldingCB in mode MB_REG_WRITE: n registers take the words of vals.  An
\* index past the array would show as a new element of the function.
WriteHolding(regs, addr, vals, n) ==
  LET first   == addr - REG_HOLDING_START
      written == first .. first + n - 1
  IN  [r \in DOMAIN regs \cup written |->
         IF r \in written THEN vals[r - first + 1] ELSE regs[r]]

\* eMBRegInputCB: usRegInputBuf is never written, every register reads zero.
ReadInput(n) == [i \in 1 .. n |-> 0]

-----------------------------------------------------------------------------
(***************************************************************************)
(* The handlers of the holding registers.                                  *)
(***************************************************************************)
\* Mutant of eMBFuncWriteHoldingRegister: the callback does not look at the range.
WriteHoldingRegisterAnywhere(p, regs) ==
  IF p.len # 5 THEN BadValue(regs)
  ELSE Answer(p.len, WriteHolding(regs, Inc(p.addr), <<p.cnt>>, 1), <<>>)

eMBFuncWriteHoldingRegister(p, regs) ==
  LET addr == Inc(p.addr)
  IN  IF p.len # 5 THEN BadValue(regs)
      ELSE IF ~ HoldingInRange(addr, 1) THEN BadAddress(regs)
      ELSE Answer(p.len, WriteHolding(regs, addr, <<p.cnt>>, 1), <<>>)

eMBFuncWriteMultipleHoldingRegister(p, regs) ==
  LET addr  == Inc(p.addr)
      valid == /\ p.len >= 6
               /\ p.cnt >= 1 /\ p.cnt <= WRITE_MUL_REGCNT_MAX
               /\ p.bytes = (2 * p.cnt) % BYTE
  IN  IF ~ valid THEN BadValue(regs)
      ELSE IF ~ HoldingInRange(addr, p.cnt) THEN BadAddress(regs)
      ELSE Answer(5, WriteHolding(regs, addr, p.vals, p.cnt), <<>>)

\* The second assignment to usRegCount drops the high byte.
eMBFuncReadHoldingRegister(p, regs) ==
  LET addr  == Inc(p.addr)
      cnt   == p.cnt % BYTE
      valid == p.len = 5 /\ cnt >= 1 /\ cnt <= READ_REGCNT_MAX
  IN  IF ~ valid THEN BadValue(regs)
      ELSE IF ~ HoldingInRange(addr, cnt) THEN BadAddress(regs)
      ELSE Answer(2 + 2 * cnt, regs, ReadHolding(regs, addr, cnt))

\* A request that is too short is not refused: the frame is sent back as it is.
\* The write is done before the read address is looked at.
eMBFuncReadWriteMultipleHoldingRegister(p, regs) ==
  LET raddr   == Inc(p.addr)
      waddr   == Inc(p.waddr)
      valid   == /\ p.cnt >= 1 /\ p.cnt <= READ_REGCNT_MAX
                 /\ p.wcnt >= 1 /\ p.wcnt <= READWRITE_WRITE_MAX
                 /\ 2 * p.wcnt = p.bytes
      written == WriteHolding(regs, waddr, p.vals, p.wcnt)
  IN  IF p.len < 10 THEN Answer(p.len, regs, <<>>)
      ELSE IF ~ valid THEN BadValue(regs)
      ELSE IF ~ HoldingInRange(waddr, p.wcnt) THEN BadAddress(regs)
      ELSE IF ~ HoldingInRange(raddr, p.cnt) THEN BadAddress(written)
      ELSE Answer(2 + 2 * p.cnt, written, ReadHolding(written, raddr, p.cnt))

-----------------------------------------------------------------------------
(***************************************************************************)
(* The handlers of input registers, coils, discrete inputs and slave id.   *)
(* The callbacks for coils and discrete inputs always return MB_ENOREG.    *)
(***************************************************************************)
\* Mutant of eMBFuncReadInputRegister: registers are counted as bytes.
ReadInputRegisterBytes(p, regs) ==
  LET valid == p.len = 5 /\ p.cnt >= 1 /\ p.cnt < READ_REGCNT_MAX
  IN  IF ~ valid THEN BadValue(regs)
      ELSE IF ~ InputInRange(Inc(p.addr), p.cnt) THEN BadAddress(regs)
      ELSE Answer(2 + p.cnt, regs, ReadInput(p.cnt))

eMBFuncReadInputRegister(p, regs) ==
  LET addr  == Inc(p.addr)
      valid == p.len = 5 /\ p.cnt >= 1 /\ p.cnt < READ_REGCNT_MAX
  IN  IF ~ valid THEN BadValue(regs)
      ELSE IF ~ InputInRange(addr, p.cnt) THEN BadAddress(regs)
      ELSE Answer(2 + 2 * p.cnt, regs, ReadInput(p.cnt))

eMBFuncReadCoils(p, regs) ==
  IF p.len = 5 /\ p.cnt >= 1 /\ p.cnt < READ_COILCNT_MAX
  THEN BadAddress(regs) ELSE BadValue(regs)

\* The same checks, with a limit of the same value.
eMBFuncReadDiscreteInputs(p, regs) == eMBFuncReadCoils(p, regs)

\* The value is 0xFF00 or 0x0000.
eMBFuncWriteCoil(p, regs) ==
  IF p.len = 5 /\ p.cnt \in {0, (BYTE - 1) * BYTE}
  THEN BadAddress(regs) ELSE BadValue(regs)

eMBFuncWriteMultipleCoils(p, regs) ==
  IF /\ p.len > 5
     /\ p.cnt >= 1 /\ p.cnt <= WRITE_MUL_COILCNT_MAX
     /\ p.bytes = ((p.cnt + 7) \div 8) % BYTE
  THEN BadAddress(regs) ELSE BadValue(regs)

eMBFuncReportSlaveID(regs) == Answer(1 + usMBSlaveIDLen, regs, <<>>)

-----------------------------------------------------------------------------
(***************************************************************************)
(* The table xFuncHandlers and the search of eMBPoll.                      *)
(***************************************************************************)
Dispatch(p, regs) ==
  CASE p.func = 17       -> eMBFuncReportSlaveID(regs)
    [] p.func = 4        -> eMBFuncReadInputRegister(p, regs)
    [] p.func = 3        -> eMBFuncReadHoldingRegister(p, regs)
    [] p.func = 16       -> eMBFuncWriteMultipleHoldingRegister(p, regs)
    [] p.func = 6        -> eMBFuncWriteHoldingRegister(p, regs)
    [] p.func = 23       -> eMBFuncReadWriteMultipleHoldingRegister(p, regs)
    [] p.func = 1        -> eMBFuncReadCoils(p, regs)
    [] p.func = 2        -> eMBFuncReadDiscreteInputs(p, regs)
    [] p.func = 5        -> eMBFuncWriteCoil(p, regs)
    [] p.func = 15       -> eMBFuncWriteMultipleCoils(p, regs)
    [] OTHER             -> Exception("MB_EX_ILLEGAL_FUNCTION", regs)

\* ucFunctionCode | MB_FUNC_ERROR
ErrorCode(func) == IF func >= 128 THEN func ELSE func + 128
=============================================================================
