------------------------------- MODULE RdbLength -------------------------------
(***************************************************************************)
(* How RdbManager.cpp stores a length in a snapshot file: the two high     *)
(* bits of the first byte tell how many bytes follow.  A char is signed    *)
(* where the program is built, so the byte that read_length gets as a char *)
(* is negative from 128 on.                                                *)
(***************************************************************************)
EXTENDS Integers, Sequences

\* The third form: its mark, and a uint32_t as the machine stores it, low byte first.
InFourBytes(n) ==
    <<128, n % 256, (n \div 256) % 256, (n \div 65536) % 256, (n \div 16777216) % 256>>

\* The last case but one is length <= 0xFFFFFFFF.
WriteLength(length) ==
    IF length <= 63 THEN <<length>>
    ELSE IF length <= 16383 THEN <<64 + length \div 256, length % 256>>
    ELSE IF length \div 65536 <= 65535 THEN InFourBytes(length)
    ELSE <<>>

\* static_cast<std::uint16_t> of a char that holds byte b: the sign is extended.
AsUint16(b) == (IF b < 128 THEN b ELSE b - 256) % 65536

ReadLength(bytes) ==
    LET form == bytes[1] \div 64
    IN  IF form = 0 THEN bytes[1] % 64
        ELSE IF form = 1 THEN AsUint16(bytes[2]) + (bytes[1] % 64) * 256
        ELSE IF form = 2 THEN bytes[2] + 256 * bytes[3] + 65536 * bytes[4] + 16777216 * bytes[5]
        ELSE 0

\* A length is read back as it was written.
Survives(length) == ReadLength(WriteLength(length)) = length

================================================================================
