-------------------------- MODULE MCRegisterServer --------------------------
(***************************************************************************)
(* RegisterServer for TLC: a byte of eight values, three registers, and     *)
(* requests at and around every bound a handler looks at.                  *)
(***************************************************************************)
EXTENDS RegisterServer

PDU(f, a, n, wa, wn, b, v, l) ==
  [func |-> f, addr |-> a, cnt |-> n, waddr |-> wa, wcnt |-> wn,
   bytes |-> b, vals |-> v, len |-> l]

NoVals == <<0, 0, 0>>

\* The first register, the last two, one past the last, and the word that the
\* ++ of the handlers wraps to zero.
Addrs == {0, 1, 2, 3, 63}

\* Counts 9 and 18 are 1 and 2 in their low byte.
Reads ==
  { PDU(3, a, n, 0, 0, 0, NoVals, l) :
      a \in Addrs, n \in {0, 1, 2, 3, 4, 9, 18}, l \in {4, 5} }

SingleWrites ==
  { PDU(6, a, v, 0, 0, 0, NoVals, l) : a \in Addrs, v \in {1, 2}, l \in {5, 6} }

\* Lengths 6 and 8 leave words of vals to what the buffer held before.
MultipleWrites ==
  { PDU(16, a, n, 0, 0, b, v, l) :
      a \in Addrs, n \in {0, 1, 2, 3}, b \in {2, 4, 6},
      v \in {<<1, 2, 1>>, <<2, 2, 1>>}, l \in {5, 6, 8, 10} }

ReadWrites ==
  { PDU(23, a, n, wa, wn, 2 * wn, <<2, 1, 1>>, l) :
      a \in {0, 1, 3}, n \in {1, 2, 4}, wa \in Addrs, wn \in {1, 2, 3},
      l \in {9, 12} }

Others ==
  { PDU(4, a, n, 0, 0, 0, NoVals, 5) : a \in {7, 8, 9, 10}, n \in {1, 2, 3} }
    \cup { PDU(f, 0, n, 0, 0, 1, NoVals, l) :
             f \in {0, 1, 2, 5, 15, 17, 99}, n \in {0, 8, 56}, l \in {5, 6} }

AllRequests ==
  Reads \cup SingleWrites
    \cup { p \in MultipleWrites : p.bytes = 2 * p.cnt \/ p.bytes = 2 }
    \cup { p \in ReadWrites : p.wcnt < 3 \/ p.addr = 0 }
    \cup Others
=============================================================================
