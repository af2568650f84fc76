---------------------------- MODULE MCModbusTcp ----------------------------
(***************************************************************************)
(* ModbusTcp for TLC.  Frames are few and short, and each is there for     *)
(* something the port or the stack does: a write and a read that tell the  *)
(* order of requests, a write that brings too few words, a frame of        *)
(* another protocol, a frame without a PDU, one without a unit identifier  *)
(* and one that is longer than the buffer.                                 *)
(***************************************************************************)
EXTENDS ModbusTcp

PDU(f, a, n, wa, wn, b, v, l) ==
  [func |-> f, addr |-> a, cnt |-> n, waddr |-> wa, wcnt |-> wn,
   bytes |-> b, vals |-> v, len |-> l]

Frame(proto, p) == [length |-> p.len + 1, pid |-> proto, pdu |-> p]

WriteOne   == Frame(0, PDU(6, 0, 1, 0, 0, 0, <<0, 0>>, 5))
WriteTwo   == Frame(0, PDU(16, 0, 2, 0, 0, 4, <<2, 3>>, 10))
ReadTwo    == Frame(0, PDU(3, 0, 2, 0, 0, 0, <<0, 0>>, 5))
ShortWrite == Frame(0, PDU(16, 0, 2, 0, 0, 4, <<2, 0>>, 8))
ReportID   == Frame(0, PDU(17, 0, 0, 0, 0, 0, <<0, 0>>, 1))
Foreign    == Frame(1, PDU(6, 0, 3, 0, 0, 0, <<0, 0>>, 2))
NoPDU      == Frame(0, PDU(0, 0, 0, 0, 0, 0, <<0, 0>>, 0))
NoUnit     == [NoPDU EXCEPT !.length = 0]
TooLong    == Frame(0, PDU(16, 0, 2, 0, 0, 4, <<2, 3>>, 11))

OrderFrames  == {WriteOne, ReadTwo}
MixedFrames  == {ShortWrite, Foreign, ReportID, NoPDU, NoUnit, TooLong}
ReportFrames == {ReportID, Foreign}
=============================================================================
