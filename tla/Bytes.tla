-------------------------------- MODULE Bytes --------------------------------
(***************************************************************************)
(* data_pack_utils.c and data_unpack_utils.c: numbers as big-endian bytes. *)
(***************************************************************************)
EXTENDS Integers, Sequences

Uint8 == 0..255
Uint16 == {v \in Nat : v \div 256 < 256}
Uint32 == {v \in Nat : v \div 16777216 < 256}

PackUint8(v) == <<v % 256>>
PackUint16(v) == <<(v \div 256) % 256, v % 256>>

\* slip: the low byte first
PackUint32Low(v) ==
  <<v % 256, (v \div 256) % 256, (v \div 65536) % 256, (v \div 16777216) % 256>>

PackUint32(v) ==
  <<(v \div 16777216) % 256, (v \div 65536) % 256, (v \div 256) % 256, v % 256>>

\* of the bytes behind the first n
UnpackUint8(buffer, n) == buffer[n + 1]
UnpackUint16(buffer, n) == 256 * buffer[n + 1] + buffer[n + 2]
UnpackUint32(buffer, n) ==
  16777216 * buffer[n + 1] + 65536 * buffer[n + 2] + 256 * buffer[n + 3] + buffer[n + 4]

\* n bytes from position first on, zero where the buffer has ended
Window(buffer, first, n) ==
  [i \in 1..n |-> IF first + i - 1 <= Len(buffer) THEN buffer[first + i - 1] ELSE 0]
=============================================================================
