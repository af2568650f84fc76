------------------------------ MODULE Overlay -------------------------------
(***************************************************************************)
(* The command structure of the R5 overlays the holding registers, and     *)
(* eMBRegHoldingCB writes a register in two assignments: the high byte,    *)
(* which clears a small value, and the low byte or'ed to what is there.    *)
(* Another thread may write in between; the build may keep the register's  *)
(* value or read it again.  Values have two bits here.                     *)
(***************************************************************************)
EXTENDS Integers

Bit(v, i)    == (v \div 2 ^ i) % 2
BitsOr(v, w) == (IF Bit(v, 0) + Bit(w, 0) > 0 THEN 1 ELSE 0)
                  + (IF Bit(v, 1) + Bit(w, 1) > 0 THEN 2 ELSE 0)

\* What a register that holds w may hold after the low byte v is or'ed to it.
AfterLowByte(v, w) == {v, BitsOr(v, w)}
=============================================================================
