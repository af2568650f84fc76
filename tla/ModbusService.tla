---------------------------- MODULE ModbusService ----------------------------
(***************************************************************************)
(* What the Modbus server promises its clients, whatever TCP does to the   *)
(* bytes: the requests of a connection are taken in the order they were    *)
(* sent, each at most once; each is performed in one step, on the          *)
(* registers that the requests performed before it left, and its answer    *)
(* goes to the connection it came from, or is lost with it.                *)
(*                                                                         *)
(* ModbusTcp implements this specification.                                *)
(***************************************************************************)
EXTENDS MBFunc

CONSTANTS
  Connections,  \* the connections clients open
  Frames,       \* the frames they send
  MaxRequests   \* bound: frames sent on one connection

\* What may be performed for p: an empty PDU has left its function code to
\* whatever was in the buffer.
Readings(p) ==
  UNION { WithStaleWords([p EXCEPT !.func = f]) :
            f \in IF p.len = 0 THEN 0 .. 255 ELSE {p.func} }

VARIABLES
  asked,      \* the frames sent on each connection
  seen,       \* how many of them the server has taken
  registers,  \* the holding registers
  pending,    \* at most one answer under way: a sequence of length 0 or 1
  answers     \* the answers each connection received

serviceVars == <<asked, seen, registers, pending, answers>>

ServiceInit ==
  /\ asked = [c \in Connections |-> <<>>]
  /\ seen = [c \in Connections |-> 0]
  /\ registers = [r \in HoldingIndex |-> 0]
  /\ pending = <<>>
  /\ answers = [c \in Connections |-> <<>>]

Ask(c) ==
  /\ Len(asked[c]) < MaxRequests
  /\ \E f \in Frames : asked' = [asked EXCEPT ![c] = Append(@, f)]
  /\ UNCHANGED <<seen, registers, pending, answers>>

\* The frame the server takes next from c.
Taken(c) == asked[c][seen[c] + 1]

\* A frame of another protocol is dropped without an answer.
Skip(c) ==
  /\ pending = <<>>
  /\ seen[c] < Len(asked[c])
  /\ Taken(c).pid # 0
  /\ seen' = [seen EXCEPT ![c] = @ + 1]
  /\ UNCHANGED <<asked, registers, pending, answers>>

Perform(c) ==
  /\ pending = <<>>
  /\ seen[c] < Len(asked[c])
  /\ Taken(c).pid = 0 /\ Taken(c).length > 0
  /\ \E p \in Readings(Taken(c).pdu) :
       LET res == Dispatch(p, registers)
       IN  /\ registers' = res.regs
           /\ pending' = <<[to |-> c, req |-> seen[c] + 1, ex |-> res.ex,
                            len |-> res.len, out |-> res.out]>>
  /\ seen' = [seen EXCEPT ![c] = @ + 1]
  /\ UNCHANGED <<asked, answers>>

Deliver ==
  /\ pending # <<>>
  /\ answers' = [answers EXCEPT ![pending[1].to] = Append(@, pending[1])]
  /\ pending' = <<>>
  /\ UNCHANGED <<asked, seen, registers>>

Lose ==
  /\ pending # <<>>
  /\ pending' = <<>>
  /\ UNCHANGED <<asked, seen, registers, answers>>

ServiceNext ==
  \/ \E c \in Connections : Ask(c) \/ Skip(c) \/ Perform(c)
  \/ Deliver
  \/ Lose

ServiceSpec == ServiceInit /\ [][ServiceNext]_serviceVars
=============================================================================
