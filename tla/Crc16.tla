------------------------------- MODULE Crc16 -------------------------------
(***************************************************************************)
(* driver-bitmain.c: the checksum of the tokens sent to the device and of  *)
(* the packets it sends, by table, and what the tables stand for: division *)
(* by the polynomial of CRC-16, one bit at a time.                         *)
(***************************************************************************)
EXTENDS Integers, Sequences, SequencesExt, FiniteSetsExt

\* The bits that two words of sixteen bits do not share.
BitsApart(x, y) == {n \in 0 .. 15 : (x \div 2 ^ n) % 2 # (y \div 2 ^ n) % 2}
x ^^ y == MapThenSumSet(LAMBDA n : 2 ^ n, BitsApart(x, y))

chCRCHTalbe == <<
    0, 193, 129, 64, 1, 192, 128, 65, 1, 192, 128, 65, 0, 193, 129, 64, 1, 192, 128, 65, 0, 193,
    129, 64, 0, 193, 129, 64, 1, 192, 128, 65, 1, 192, 128, 65, 0, 193, 129, 64, 0, 193, 129, 64,
    1, 192, 128, 65, 0, 193, 129, 64, 1, 192, 128, 65, 1, 192, 128, 65, 0, 193, 129, 64, 1, 192,
    128, 65, 0, 193, 129, 64, 0, 193, 129, 64, 1, 192, 128, 65, 0, 193, 129, 64, 1, 192, 128, 65,
    1, 192, 128, 65, 0, 193, 129, 64, 0, 193, 129, 64, 1, 192, 128, 65, 1, 192, 128, 65, 0, 193,
    129, 64, 1, 192, 128, 65, 0, 193, 129, 64, 0, 193, 129, 64, 1, 192, 128, 65, 1, 192, 128, 65,
    0, 193, 129, 64, 0, 193, 129, 64, 1, 192, 128, 65, 0, 193, 129, 64, 1, 192, 128, 65, 1, 192,
    128, 65, 0, 193, 129, 64, 0, 193, 129, 64, 1, 192, 128, 65, 1, 192, 128, 65, 0, 193, 129, 64,
    1, 192, 128, 65, 0, 193, 129, 64, 0, 193, 129, 64, 1, 192, 128, 65, 0, 193, 129, 64, 1, 192,
    128, 65, 1, 192, 128, 65, 0, 193, 129, 64, 1, 192, 128, 65, 0, 193, 129, 64, 0, 193, 129, 64,
    1, 192, 128, 65, 1, 192, 128, 65, 0, 193, 129, 64, 0, 193, 129, 64, 1, 192, 128, 65, 0, 193,
    129, 64, 1, 192, 128, 65, 1, 192, 128, 65, 0, 193, 129, 64>>

chCRCLTalbe == <<
    0, 192, 193, 1, 195, 3, 2, 194, 198, 6, 7, 199, 5, 197, 196, 4, 204, 12, 13, 205, 15, 207, 206,
    14, 10, 202, 203, 11, 201, 9, 8, 200, 216, 24, 25, 217, 27, 219, 218, 26, 30, 222, 223, 31,
    221, 29, 28, 220, 20, 212, 213, 21, 215, 23, 22, 214, 210, 18, 19, 211, 17, 209, 208, 16, 240,
    48, 49, 241, 51, 243, 242, 50, 54, 246, 247, 55, 245, 53, 52, 244, 60, 252, 253, 61, 255, 63,
    62, 254, 250, 58, 59, 251, 57, 249, 248, 56, 40, 232, 233, 41, 235, 43, 42, 234, 238, 46, 47,
    239, 45, 237, 236, 44, 228, 36, 37, 229, 39, 231, 230, 38, 34, 226, 227, 35, 225, 33, 32, 224,
    160, 96, 97, 161, 99, 163, 162, 98, 102, 166, 167, 103, 165, 101, 100, 164, 108, 172, 173, 109,
    175, 111, 110, 174, 170, 106, 107, 171, 105, 169, 168, 104, 120, 184, 185, 121, 187, 123, 122,
    186, 190, 126, 127, 191, 125, 189, 188, 124, 180, 116, 117, 181, 119, 183, 182, 118, 114, 178,
    179, 115, 177, 113, 112, 176, 80, 144, 145, 81, 147, 83, 82, 146, 150, 86, 87, 151, 85, 149,
    148, 84, 156, 92, 93, 157, 95, 159, 158, 94, 90, 154, 155, 91, 153, 89, 88, 152, 136, 72, 73,
    137, 75, 139, 138, 74, 78, 142, 143, 79, 141, 77, 76, 140, 68, 132, 133, 69, 135, 71, 70, 134,
    130, 66, 67, 131, 65, 129, 128, 64>>

\* The table named after the high byte gives the low one.  wIndex counts from 0.
CRC16(p_data) ==
    LET Step(crc, byte) ==
            LET wIndex == crc.lo ^^ byte
            IN  [lo |-> crc.hi ^^ chCRCHTalbe[wIndex + 1], hi |-> chCRCLTalbe[wIndex + 1]]
        crc == FoldLeft(Step, [lo |-> 255, hi |-> 255], p_data)
    IN  crc.hi * 256 + crc.lo

\* The definition: the register is shifted by one bit eight times for every byte.
CrcBitByBit(p_data) ==
    LET Shift(reg, i) == IF reg % 2 = 1 THEN (reg \div 2) ^^ 40961 ELSE reg \div 2
        Step(reg, byte) == FoldLeft(Shift, reg ^^ byte, <<1, 2, 3, 4, 5, 6, 7, 8>>)
    IN  FoldLeft(Step, 65535, p_data)
=============================================================================
