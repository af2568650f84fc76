------------------------------ MODULE MBCodec -------------------------------
(***************************************************************************)
(* The calculations on bytes of the serial modes and of the bit utilities: *)
(* the two checksums, the hexadecimal characters of ASCII, and the fields  *)
(* of bits in a buffer of coils.  MBSerial takes checksums and characters  *)
(* for granted; what they really do is stated here, each against a         *)
(* reference definition over bounded inputs.                               *)
(***************************************************************************)
EXTENDS Integers, Sequences, FiniteSets, SequencesExt, Bitwise

Byte == 0 .. 255

-----------------------------------------------------------------------------
(***************************************************************************)
(* usMBCRC16: the tables as they are in mbcrc.c, from index 0.             *)
(***************************************************************************)
aucCRCHi == <<
    0, 193, 129, 64, 1, 192, 128, 65, 1, 192, 128, 65, 0, 193, 129, 64, 1, 192, 128, 65,
    0, 193, 129, 64, 0, 193, 129, 64, 1, 192, 128, 65, 1, 192, 128, 65, 0, 193, 129, 64,
    0, 193, 129, 64, 1, 192, 128, 65, 0, 193, 129, 64, 1, 192, 128, 65, 1, 192, 128, 65,
    0, 193, 129, 64, 1, 192, 128, 65, 0, 193, 129, 64, 0, 193, 129, 64, 1, 192, 128, 65,
    0, 193, 129, 64, 1, 192, 128, 65, 1, 192, 128, 65, 0, 193, 129, 64, 0, 193, 129, 64,
    1, 192, 128, 65, 1, 192, 128, 65, 0, 193, 129, 64, 1, 192, 128, 65, 0, 193, 129, 64,
    0, 193, 129, 64, 1, 192, 128, 65, 1, 192, 128, 65, 0, 193, 129, 64, 0, 193, 129, 64,
    1, 192, 128, 65, 0, 193, 129, 64, 1, 192, 128, 65, 1, 192, 128, 65, 0, 193, 129, 64,
    0, 193, 129, 64, 1, 192, 128, 65, 1, 192, 128, 65, 0, 193, 129, 64, 1, 192, 128, 65,
    0, 193, 129, 64, 0, 193, 129, 64, 1, 192, 128, 65, 0, 193, 129, 64, 1, 192, 128, 65,
    1, 192, 128, 65, 0, 193, 129, 64, 1, 192, 128, 65, 0, 193, 129, 64, 0, 193, 129, 64,
    1, 192, 128, 65, 1, 192, 128, 65, 0, 193, 129, 64, 0, 193, 129, 64, 1, 192, 128, 65,
    0, 193, 129, 64, 1, 192, 128, 65, 1, 192, 128, 65, 0, 193, 129, 64 >>

aucCRCLo == <<
    0, 192, 193, 1, 195, 3, 2, 194, 198, 6, 7, 199, 5, 197, 196, 4, 204, 12, 13, 205,
    15, 207, 206, 14, 10, 202, 203, 11, 201, 9, 8, 200, 216, 24, 25, 217, 27, 219, 218, 26,
    30, 222, 223, 31, 221, 29, 28, 220, 20, 212, 213, 21, 215, 23, 22, 214, 210, 18, 19, 211,
    17, 209, 208, 16, 240, 48, 49, 241, 51, 243, 242, 50, 54, 246, 247, 55, 245, 53, 52, 244,
    60, 252, 253, 61, 255, 63, 62, 254, 250, 58, 59, 251, 57, 249, 248, 56, 40, 232, 233, 41,
    235, 43, 42, 234, 238, 46, 47, 239, 45, 237, 236, 44, 228, 36, 37, 229, 39, 231, 230, 38,
    34, 226, 227, 35, 225, 33, 32, 224, 160, 96, 97, 161, 99, 163, 162, 98, 102, 166, 167, 103,
    165, 101, 100, 164, 108, 172, 173, 109, 175, 111, 110, 174, 170, 106, 107, 171, 105, 169, 168, 104,
    120, 184, 185, 121, 187, 123, 122, 186, 190, 126, 127, 191, 125, 189, 188, 124, 180, 116, 117, 181,
    119, 183, 182, 118, 114, 178, 179, 115, 177, 113, 112, 176, 80, 144, 145, 81, 147, 83, 82, 146,
    150, 86, 87, 151, 85, 149, 148, 84, 156, 92, 93, 157, 95, 159, 158, 94, 90, 154, 155, 91,
    153, 89, 88, 152, 136, 72, 73, 137, 75, 139, 138, 74, 78, 142, 143, 79, 141, 77, 76, 140,
    68, 132, 133, 69, 135, 71, 70, 134, 130, 66, 67, 131, 65, 129, 128, 64 >>

\* One byte: the low half of the sum selects the entry.
NextCRC(crc, byte) ==
  LET iIndex == ((crc % 256) ^^ byte) + 1
  IN  256 * aucCRCLo[iIndex] + ((crc \div 256) ^^ aucCRCHi[iIndex])

usMBCRC16(frame) == FoldLeft(NextCRC, 65535, frame)

\* The bytes that eMBRTUSend appends.
WithCRC(frame) ==
  LET crc == usMBCRC16(frame) IN frame \o <<crc % 256, crc \div 256>>

\* Reference: one byte through the shift register of the polynomial 0xA001.
ShiftedCRC(crc, byte) ==
  LET Shift(reg, bit) == (reg \div 2) ^^ (IF reg % 2 = 1 THEN 40961 ELSE 0)
  IN  FoldLeft(Shift, crc ^^ byte, [bit \in 1 .. 8 |-> bit])

-----------------------------------------------------------------------------
(***************************************************************************)
(* prvucMBLRC: the sum of the bytes, without carry, as two's complement.   *)
(***************************************************************************)
prvucMBLRC(frame) ==
  LET sum == FoldLeft(LAMBDA ucLRC, byte : (ucLRC + byte) % 256, 0, frame)
  IN  (256 - sum) % 256

WithLRC(frame) == Append(frame, prvucMBLRC(frame))

(***************************************************************************)
(* Hexadecimal characters, as ASCII codes: '0' is 48 and 'A' is 65.        *)
(***************************************************************************)
prvucMBBIN2CHAR(ucByte) == IF ucByte <= 9 THEN 48 + ucByte ELSE ucByte - 10 + 65

prvucMBCHAR2BIN(ucCharacter) ==
  CASE ucCharacter \in 48 .. 57 -> ucCharacter - 48
    [] ucCharacter \in 65 .. 70 -> ucCharacter - 65 + 10
    [] OTHER -> 255

\* The byte that xMBASCIIReceiveFSM stores for two characters.
Assembled(high, low) ==
  ((prvucMBCHAR2BIN(high) * 16) % 256) | prvucMBCHAR2BIN(low)

-----------------------------------------------------------------------------
(***************************************************************************)
(* xMBUtilSetBits and xMBUtilGetBits: ucNBits bits from usBitOffset on, in *)
(* a word of two bytes of the buffer, which is a sequence from offset 0.   *)
(* Arithmetic is in 16 bits.                                               *)
(***************************************************************************)
Word(buf, offset) == buf[offset + 1] + 256 * buf[offset + 2]

Mask(ucNBits) == 2 ^ ucNBits - 1

xMBUtilSetBits(buf, usBitOffset, ucNBits, ucValue) ==
  LET usByteOffset == usBitOffset \div 8
      usNPreBits   == usBitOffset - usByteOffset * 8
      usMask       == (Mask(ucNBits) * 2 ^ usNPreBits) % 65536
      usValue      == (ucValue * 2 ^ usNPreBits) % 65536
      usWordBuf    == (Word(buf, usByteOffset) & (65535 - usMask)) | usValue
  IN  [buf EXCEPT ![usByteOffset + 1] = usWordBuf % 256,
                  ![usByteOffset + 2] = usWordBuf \div 256]

xMBUtilGetBits(buf, usBitOffset, ucNBits) ==
  LET usByteOffset == usBitOffset \div 8
      usNPreBits   == usBitOffset - usByteOffset * 8
  IN  (Word(buf, usByteOffset) \div 2 ^ usNPreBits) & Mask(ucNBits)

\* Reference: a buffer as the set of its bits that are set.
BitsSet(n) == { i \in 0 .. 7 : (n \div 2 ^ i) % 2 = 1 }
Bits(buf)  == UNION { { 8 * (k - 1) + i : i \in BitsSet(buf[k]) } : k \in DOMAIN buf }
=============================================================================
