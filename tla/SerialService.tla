--------------------------- MODULE SerialService ----------------------------
(***************************************************************************)
(* What a Modbus slave on a serial line promises to the masters, whatever  *)
(* the line does to their frames: it executes only requests that were sent *)
(* to it, each as it was sent, at most once and in the order in which they *)
(* were sent, and answers only what it executed, never a broadcast.        *)
(*                                                                         *)
(* Two things it does not promise, until a frame begins that finds it at   *)
(* rest (disturbed).  A request that is being served stays in the buffer   *)
(* of the receiver: when a frame is heard meanwhile the slave executes     *)
(* whatever the buffer holds, and may take that for its next request.  And *)
(* the checksums do not tell a zero byte that is added to a frame: the     *)
(* slave executes it as a longer request, which nobody sent.               *)
(***************************************************************************)
EXTENDS Integers, Sequences

CONSTANTS
  Addresses,  \* of the slaves on the line, and the broadcast address
  Broadcast   \* the address of all slaves

VARIABLES
  own,        \* the address of this slave, Broadcast until it has one
  requests,   \* addresses of the frames sent, in order
  serving,    \* number of the request that is being served, 0 for something else
  disturbed,  \* whether a frame was heard while a request was served, or a zero in one
  executed,   \* numbers of the requests executed, 0 for what nobody sent
  answered    \* how many executed requests had been when each reply was begun

vars == <<own, requests, serving, disturbed, executed, answered>>

Init ==
  /\ own = Broadcast
  /\ requests = <<>> /\ executed = <<>> /\ answered = <<>>
  /\ serving = 0 /\ disturbed = FALSE

Join ==
  /\ own = Broadcast
  /\ own' \in Addresses
  /\ UNCHANGED <<requests, serving, disturbed, executed, answered>>

Request ==
  /\ \E address \in Addresses : requests' = Append(requests, address)
  /\ UNCHANGED <<own, serving, executed, answered, disturbed>>

Newer(n) == \A i \in 1 .. Len(executed) : executed[i] < n

\* A request is accepted once, and by then a frame may be on its way.
Accept ==
  /\ \/ \E n \in 1 .. Len(requests) :
          requests[n] \in {own, Broadcast} /\ (disturbed \/ Newer(n)) /\ serving' = n
     \/ disturbed /\ serving' = 0
  /\ disturbed' \in {disturbed, TRUE}
  /\ UNCHANGED <<own, requests, executed, answered>>

\* A frame is heard while a request is served, or with a zero, or finds the slave at
\* rest.
Hear ==
  /\ disturbed' \in BOOLEAN
  /\ UNCHANGED <<own, requests, serving, executed, answered>>

Execute ==
  /\ \E n \in 0 .. Len(requests) :
       /\ disturbed \/ (n = serving /\ n # 0 /\ Newer(n))
       /\ executed' = Append(executed, n)
  /\ UNCHANGED <<own, requests, serving, disturbed, answered>>

Answer ==
  /\ executed # <<>>
  /\ \A i \in 1 .. Len(answered) : answered[i] < Len(executed)
  /\ serving # 0 => requests[serving] = own
  /\ answered' = Append(answered, Len(executed))
  /\ UNCHANGED <<own, requests, serving, disturbed, executed>>

Next == Join \/ Request \/ Accept \/ Hear \/ Execute \/ Answer

Spec == Init /\ [][Next]_vars
=============================================================================
