--------------------------- MODULE RegisterServer ---------------------------
(***************************************************************************)
(* The holding registers of src/freemodbus_tcp/freemodbus_tcp.c under any  *)
(* sequence of request PDUs: one step is one EV_EXECUTE of eMBPoll         *)
(* (lib/freemodbus/modbus/mb.c), which finds the handler of the function   *)
(* code, lets it work on the registers and makes its reply.  How the PDUs  *)
(* reach the stack is the subject of ModbusTcp.                            *)
(***************************************************************************)
EXTENDS MBFunc

CONSTANT
  Requests  \* the PDUs that may arrive

ASSUME RegisterServerAssumption == \A p \in Requests : IsRequest(p)

VARIABLES
  usRegHoldingBuf,  \* the holding registers
  request,          \* history: the PDU of the last step
  reply             \* history: its result

vars == <<usRegHoldingBuf, request, reply>>

NoReply == Answer(0, usRegHoldingBuf, <<>>)

Init ==
  /\ usRegHoldingBuf = [r \in HoldingIndex |-> 0]
  /\ request \in Requests
  /\ reply = NoReply

Execute(p) ==
  LET res == Dispatch(p, usRegHoldingBuf)
  IN  /\ usRegHoldingBuf' = res.regs
      /\ request' = p
      /\ reply' = res

Next == \E p \in Requests : Execute(p)

Spec == Init /\ [][Next]_vars

-----------------------------------------------------------------------------
(***************************************************************************)
(* What a request asks for, read from its fields as the protocol counts    *)
(* them, from zero; the application counts from one.                       *)
(***************************************************************************)
Register(a)  == a + 1 - REG_HOLDING_START
Window(a, n) == { r \in HoldingIndex : Register(a) <= r /\ r < Register(a) + n }

WriteWindow(p) ==
  CASE p.func = 6  -> Window(p.addr, 1)
    [] p.func = 16 -> Window(p.addr, p.cnt)
    [] p.func = 23 -> Window(p.waddr, p.wcnt)
    [] OTHER       -> {}

WriteAddress(p) == IF p.func = 23 THEN p.waddr ELSE p.addr
WriteWords(p)   == IF p.func = 6 THEN <<p.cnt>> ELSE p.vals

Answered == reply'.ex = "MB_EX_NONE"

\* The registers keep their type and the reply is one of a handler's.
TypeOK ==
  /\ usRegHoldingBuf \in Registers
  /\ request \in Requests
  /\ reply.ex \in Exceptions
  /\ reply.len \in Nat

\* No request of any function changes a register outside of the window it
\* names: eMBRegHoldingCB's index arithmetic, with the ++ of the handlers,
\* never strays, wraps or reaches below the first register.
WritesStayInWindow ==
  [][\A r \in HoldingIndex :
       usRegHoldingBuf'[r] # usRegHoldingBuf[r] => r \in WriteWindow(request')]_vars

\* The words a write request brings for the registers of its window.
NewWord(p, r) == WriteWords(p)[r - Register(WriteAddress(p)) + 1]

\* A write is never half done: every register of the window takes its word, or
\* no register changes at all.  A 23 whose read part is refused still writes.
WritesAreWhole ==
  [][\/ usRegHoldingBuf' = usRegHoldingBuf
     \/ \A r \in WriteWindow(request') :
          usRegHoldingBuf'[r] = NewWord(request', r)]_vars

\* A write that the client sees answered was done, one that it sees refused was
\* not; function 23 alone may write and then refuse, and may answer a request
\* too short to be looked at.
AnswerTellsTheWrite ==
  [][request'.func \in {6, 16} =>
       IF Answered
       THEN \A r \in WriteWindow(request') :
              usRegHoldingBuf'[r] = NewWord(request', r)
       ELSE usRegHoldingBuf' = usRegHoldingBuf]_vars

\* The words of a holding register reply are those the registers hold when the
\* request ends, also where a 23 has just overwritten them.
ReadsAreCurrent ==
  [][request'.func \in {3, 23} /\ Answered =>
       \A i \in DOMAIN reply'.out :
         reply'.out[i] = usRegHoldingBuf'[Register(request'.addr) + i - 1]]_vars

\* A reply carries the words it announces and fits the PDU buffer of the frame.
ReplyFits ==
  /\ reply.len <= MB_PDU_SIZE_MAX
  /\ reply.out # <<>> => reply.len = 2 + 2 * Len(reply.out)

-----------------------------------------------------------------------------
(***************************************************************************)
(* What a comment of a handler says and the handler does not do.           *)
(***************************************************************************)

\* "Check if the number of registers to read is valid. If not return Modbus
\* illegal data value exception": a read of holding registers that is answered
\* returns as many words as were asked for, and 0x7D at most.
ReadCountIsChecked ==
  [][request'.func = 3 /\ Answered =>
       /\ request'.cnt \in 1 .. READ_REGCNT_MAX
       /\ Len(reply'.out) = request'.cnt]_vars
=============================================================================
