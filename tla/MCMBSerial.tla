----------------------------- MODULE MCMBSerial -----------------------------
(***************************************************************************)
(* MBSerial for TLC.  The buffer has six bytes, and the frames are those   *)
(* that something is done for: the slave's own, a broadcast, another       *)
(* slave's, and one that fills the buffer; with a character added it does  *)
(* not fit.                                                                *)
(*                                                                         *)
(* The codec that MBSerial takes for granted is checked here, too.         *)
(***************************************************************************)
EXTENDS MBSerial, MBCodec

Frame(a, n) == [addr |-> a, len |-> n]

AllFrames == { Frame(1, 4), Frame(0, 4), Frame(2, 4), Frame(1, 6) }

\* A frame takes more than twice as many characters in ASCII.
MishapsByMode == [mode \in Modes |-> IF mode = "RTU" THEN 2 ELSE 1]

-----------------------------------------------------------------------------
\* Inputs of the codec: bytes with none, one, several and all bits, and short frames.
SomeBytes  == {0, 1, 165, 255}
SomeFrames == UNION { [1 .. n -> SomeBytes] : n \in 1 .. 3 }

\* Every entry of the two tables of mbcrc.c is that of the polynomial: one byte
\* through the tables is eight steps of the shift register.
ASSUME TablesAreThePolynomial ==
  \A crc \in {0, 255, 256, 43690, 65535}, byte \in Byte :
    NextCRC(crc, byte) = ShiftedCRC(crc, byte)

\* The receivers' checks (mbrtu.c:160, mbascii.c:160) accept what the senders append.
ASSUME WholeFramesAreAccepted ==
  \A f \in SomeFrames :
    usMBCRC16(WithCRC(f)) = 0 /\ prvucMBLRC(WithLRC(f)) = 0

\* They refuse a frame of which one byte is another, the checksum's own included.
ASSUME DamagedBytesAreDetected ==
  \A f \in SomeFrames, byte \in SomeBytes, i \in 1 .. 5 :
    LET Refused(sum(_), g) ==
          i \in DOMAIN g /\ byte # g[i] => sum([g EXCEPT ![i] = byte]) # 0
    IN  Refused(usMBCRC16, WithCRC(f)) /\ Refused(prvucMBLRC, WithLRC(f))

\* A zero heard before a frame is refused by RTU, whose sum begins with all bits
\* set; one heard after it is accepted by both, as part of a longer PDU.  The sum
\* of ASCII does not tell in which order the bytes came.
ASSUME AddedZeros ==
  \A f \in SomeFrames :
    /\ usMBCRC16(<<0>> \o WithCRC(f)) # 0
    /\ usMBCRC16(Append(WithCRC(f), 0)) = 0
    /\ prvucMBLRC(Append(WithLRC(f), 0)) = 0
    /\ prvucMBLRC(Reverse(WithLRC(f))) = 0

\* Two characters are received as the byte they were sent for.  A character that is
\* no digit, a letter of lower case for one, makes 0xFF of the byte it ends.
ASSUME CharactersAreBytes ==
  /\ \A b \in Byte :
       Assembled(prvucMBBIN2CHAR(b \div 16), prvucMBBIN2CHAR(b % 16)) = b
  /\ \A c \in Byte :
       prvucMBCHAR2BIN(c) = 255 <=> ~ \E n \in 0 .. 15 : c = prvucMBBIN2CHAR(n)
  /\ \A c \in 48 .. 70, d \in Byte :
       prvucMBCHAR2BIN(d) = 255 => Assembled(c, d) = 255

\* A value that fits its field is set there, nothing else changes, and it is read
\* back; a value that does not fit is or'ed into the bits above the field.
ASSUME FieldsAreSet ==
  \A buf \in [1 .. 3 -> {90, 255}], off \in 0 .. 15, n \in 0 .. 8, v \in SomeBytes :
    LET new   == xMBUtilSetBits(buf, off, n, v)
        field == off .. off + n - 1
        value == { off + i : i \in BitsSet(v) }
    IN  /\ Bits(new) = (Bits(buf) \ field) \cup value
        /\ v < 2 ^ n => xMBUtilGetBits(new, off, n) = v
=============================================================================
