---------------------------- MODULE PackedValue ----------------------------
(***************************************************************************)
(* The packed value codec of rag_analyzer.cpp (Encode, DecodeFreq,        *)
(* DecodePOSIndex): a 32-bit trie cell holding a log-frequency field and  *)
(* a POS index.                                                           *)
(*                                                                         *)
(* A uint32_t bit pattern is held as <<hi, lo>>: its top byte (bits       *)
(* 24..31) and its low 24 bits, so that every value fits the integers TLC *)
(* computes with.                                                          *)
(***************************************************************************)
EXTENDS Integers, Bitwise

Cells == (0..255) \X (0..(2^24 - 1))

IntMin == -2147483647 - 1

\* static_cast<uint32_t>(x) of an int32_t x (\div and % round down).
Bits(x) == <<(x \div 2^24) % 256, x % 2^24>>

\* Bitwise OR of two bit patterns.
BitOr(a, b) == <<a[1] | b[1], a[2] | b[2]>>

\* static_cast<int32_t> of a pattern is negative iff bit 31 is set.
Negative(c) == c[1] >= 128

\* -freq of an int32_t: -INT_MIN overflows and wraps to INT_MIN.
Negate(x) == IF x = IntMin THEN IntMin ELSE -x

\* Encode(freq, idx): bits 0..22 magnitude, bit 23 sign, bits 24..31 idx.
Encode(freq, idx) ==
    LET mag == IF freq < 0 THEN BitOr(Bits(Negate(freq)), <<0, 2^23>>)
                           ELSE <<0, freq % 2^23>>          \* freq & 0x7FFFFF
    IN  BitOr(mag, <<idx % 256, 0>>)                        \* | uint32(idx) << 24

DecodeFreq(value) ==
    LET v1 == value[2]                                      \* & 0xFFFFFF
    IN  IF v1 >= 2^23 THEN -(v1 % 2^23) ELSE v1

DecodePOSIndex(value) == value[1]                           \* uint32 >> 24
====
