---------------------------- MODULE NormalizeOps ----------------------------
(***************************************************************************)
(* The conversions in front of segmentation, as operators over strings:   *)
(* sequences of bytes (0..255) indexed from 0 as in the code.  Module      *)
(* Pipeline applies them in the order TokenizeWithPosition does, to make  *)
(* the normalised line and its position map.                              *)
(*                                                                         *)
(* PCRE2 is a library outside the repository: its matching of \W+ is      *)
(* modelled by its contract (leftmost maximal run of non-word codepoints, *)
(* and a UTF-8 error, which ends the loop, when the subject is invalid    *)
(* from the start offset on).  The OpenCC converter is module Converter.  *)
(***************************************************************************)
EXTENDS Integers, Sequences, SequencesExt, Converter

CONSTANT NonWord  \* the codepoints PCRE2 (UCP) classes as \W

-----------------------------------------------------------------------------
(* Bytes. *)

At(s, i) == s[i + 1]

\* The bytes [from, to) of s.
Slice(s, from, to) == SubSeq(s, from + 1, to)

\* Mutant: each copied byte mapped one past its position.
IdentOffByOne(from, to) == [k \in 1..(to - from) |-> from + k]

\* The identity map of the bytes [from, to), as pcre2_pos_mapping entries.
Ident(from, to) == [k \in 1..(to - from) |-> from + k - 1]

\* UTF8_BYTE_LENGTH_TABLE (string_utils.h 147).
CharLen(b) == CASE b < 192 -> 1 [] b < 224 -> 2 [] b < 240 -> 3 [] b < 248 -> 4 [] OTHER -> 1

Cont(b) == b >= 128 /\ b < 192

MaxOf(a, b) == IF a >= b THEN a ELSE b

-----------------------------------------------------------------------------
(* PCRE2 with PCRE2_UTF | PCRE2_UCP: the contract of pcre2_match.         *)

\* Length of a well-formed UTF-8 sequence starting at i, or 0.
WellFormedLen(s, i) ==
    LET b == At(s, i)
        n == CASE b < 128 -> 1 [] b >= 194 /\ b < 224 -> 2
               [] b >= 224 /\ b < 240 -> 3 [] b >= 240 /\ b < 245 -> 4 [] OTHER -> 0
    IN  IF n > 0 /\ i + n <= Len(s) /\ \A k \in 1..(n - 1) : Cont(At(s, i + k))
        THEN n ELSE 0

RECURSIVE ValidFrom(_, _)
ValidFrom(s, i) == i >= Len(s) \/ (WellFormedLen(s, i) > 0 /\ ValidFrom(s, i + WellFormedLen(s, i)))

Cp(s, i) ==
    LET b == At(s, i) IN
    CASE WellFormedLen(s, i) = 1 -> b
      [] WellFormedLen(s, i) = 2 -> (b % 32) * 64 + (At(s, i + 1) % 64)
      [] WellFormedLen(s, i) = 3 -> (b % 16) * 4096 + (At(s, i + 1) % 64) * 64 + (At(s, i + 2) % 64)
      [] OTHER -> (b % 8) * 262144 + (At(s, i + 1) % 64) * 4096 + (At(s, i + 2) % 64) * 64 + (At(s, i + 3) % 64)

NonWordAt(s, i) == Cp(s, i) \in NonWord

RECURSIVE FirstNonWord(_, _)
FirstNonWord(s, i) ==
    IF i >= Len(s) THEN -1
    ELSE IF NonWordAt(s, i) THEN i ELSE FirstNonWord(s, i + WellFormedLen(s, i))

RECURSIVE RunEnd(_, _)
RunEnd(s, i) == IF i < Len(s) /\ NonWordAt(s, i) THEN RunEnd(s, i + WellFormedLen(s, i)) ELSE i

\* pcre2_match(re, s, len, cur): <<start, end>> of the match, or <<>> for
\* no match and for a UTF-8 error.
Match(s, cur) ==
    IF ~ValidFrom(s, cur) \/ FirstNonWord(s, cur) = -1 THEN <<>>
    ELSE <<FirstNonWord(s, cur), RunEnd(s, FirstNonWord(s, cur))>>

\* Mutant: the replacement mapped to last_match_end instead of match_start.
RECURSIVE ReplaceLoopMapToLast(_, _, _, _, _)
ReplaceLoopMapToLast(s, cur, last, res, map) ==
    IF cur >= Len(s) THEN <<res, map>>
    ELSE IF Match(s, cur) = <<>>
    THEN IF last < Len(s)
         THEN <<res \o Slice(s, last, Len(s)), map \o Ident(last, Len(s))>>
         ELSE <<res, map>>
    ELSE LET ms == Match(s, cur)[1]
             me == Match(s, cur)[2]
             res2 == res \o Slice(s, last, ms) \o <<32>>
             map2 == map \o Ident(last, ms) \o <<last>>
         IN  IF ms # me THEN ReplaceLoopMapToLast(s, me, me, res2, map2)
             ELSE IF me < Len(s) THEN ReplaceLoopMapToLast(s, me + 1, me, res2, map2)
             ELSE <<res2, map2>>

\* PCRE2GlobalReplaceWithPosition, lines 1610-1696: <<result, mapping>>.
RECURSIVE ReplaceLoop(_, _, _, _, _)
ReplaceLoop(s, cur, last, res, map) ==
    IF cur >= Len(s) THEN <<res, map>>
    ELSE IF Match(s, cur) = <<>>
    THEN IF last < Len(s)
         THEN <<res \o Slice(s, last, Len(s)), map \o Ident(last, Len(s))>>
         ELSE <<res, map>>
    ELSE LET ms == Match(s, cur)[1]
             me == Match(s, cur)[2]
             res2 == res \o Slice(s, last, ms) \o <<32>>
             map2 == map \o Ident(last, ms) \o <<ms>>
         IN  IF ms # me THEN ReplaceLoop(s, me, me, res2, map2)
             ELSE IF me < Len(s) THEN ReplaceLoop(s, me + 1, me, res2, map2)
             ELSE <<res2, map2>>

PCRE2GlobalReplaceWithPosition(s) == ReplaceLoop(s, 0, 0, <<>>, <<>>)

-----------------------------------------------------------------------------
(* StrQ2B, lines 796-841.  A lead byte of a 2- or 3-byte sequence reads   *)
(* the next one or two bytes without a bounds check: input[size()] is the *)
(* terminating 0, and a read beyond it returns whatever is there (g).     *)

ByteAt(s, k, g) == IF k < Len(s) THEN At(s, k) ELSE IF k = Len(s) THEN 0 ELSE g

\* The UTF-8 encoding StrQ2B writes for a codepoint below 0x10000.
Utf8Of(cp) ==
    CASE cp < 128   -> <<cp>>
      [] cp < 2048  -> <<192 + cp \div 64, 128 + (cp % 64)>>
      [] OTHER      -> <<224 + cp \div 4096, 128 + ((cp \div 64) % 64), 128 + (cp % 64)>>

\* Full-width forms U+FF01..U+FF5E to ASCII, U+3000 to a space.
Halfwidth(cp) ==
    IF cp >= 65281 /\ cp <= 65374 THEN <<cp - 65248>>
    ELSE IF cp = 12288 THEN <<32>> ELSE Utf8Of(cp)

\* <<output, largest index read>>.
RECURSIVE Q2BLoop(_, _, _, _, _)
Q2BLoop(s, i, g, out, rd) ==
    IF i >= Len(s) THEN <<out, rd>>
    ELSE LET c == At(s, i) IN
         CASE c < 128 ->
                Q2BLoop(s, i + 1, g, out \o Halfwidth(c), MaxOf(rd, i))
           [] c >= 192 /\ c < 224 ->
                Q2BLoop(s, i + 2, g, out \o Halfwidth((c % 32) * 64 + (ByteAt(s, i + 1, g) % 64)),
                    MaxOf(rd, i + 1))
           [] c >= 224 /\ c < 240 ->
                Q2BLoop(s, i + 3, g,
                    out \o Halfwidth((c % 16) * 4096 + (ByteAt(s, i + 1, g) % 64) * 64
                                     + (ByteAt(s, i + 2, g) % 64)),
                    MaxOf(rd, i + 2))
           [] OTHER ->
                Q2BLoop(s, i + 1, g, out \o <<c>>, MaxOf(rd, i))

StrQ2B(s, g) == Q2BLoop(s, 0, g, <<>>, -1)

-----------------------------------------------------------------------------
(* OpenCC::convert (openccxx.cpp 26-42) over opencc_convert_utf8          *)
(* (opencc.c 50-130): the input is cut at its first 0 byte (strlen),      *)
(* decoded by utf8_to_ucs4, converted, cut at its first 0 codepoint       *)
(* (ucs4len) and encoded by ucs4_to_utf8.  A decoding error makes convert *)
(* return -1 and leave its output untouched.                              *)

Bit(b, k) == (b \div 2^k) % 2

\* The bytes before the first 0.
CStr(s) == IF \E k \in DOMAIN s : s[k] = 0
           THEN SubSeq(s, 1, Min({k \in DOMAIN s : s[k] = 0}) - 1) ELSE s

Err == [ok |-> FALSE, cps |-> <<>>]

\* utf8_to_ucs4, encoding.c 26-120: [ok |-> TRUE, cps |-> codepoints], or Err.
RECURSIVE Ucs4(_, _, _)
Ucs4(s, i, acc) ==
    IF i >= Len(s) THEN [ok |-> TRUE, cps |-> acc]
    ELSE LET b == At(s, i)
             n == CASE Bit(b, 7) = 0 -> 1 [] Bit(b, 5) = 0 -> 2 [] Bit(b, 4) = 0 -> 3
                    [] Bit(b, 3) = 0 -> 4 [] Bit(b, 2) = 0 -> 5 [] OTHER -> 0
             c(k) == At(s, i + k)
         IN  IF n = 0 \/ i + n - 1 >= Len(s) THEN Err
             ELSE Ucs4(s, i + n, Append(acc,
                    CASE n = 1 -> b % 128
                      [] n = 2 -> ((c(1) % 64) + (b % 4) * 64) + ((b \div 4) % 8) * 256
                      [] n = 3 -> ((c(2) % 64) + (c(1) % 4) * 64)
                                  + (((c(1) \div 4) % 16) + (b % 16) * 16) * 256
                      [] n = 4 -> ((c(3) % 64) + (c(2) % 4) * 64)
                                  + (((c(2) \div 4) % 16) + (c(1) % 16) * 16) * 256
                                  + (((c(1) \div 16) % 4) + (b % 8) * 4) * 65536
                      [] OTHER -> ((c(4) % 64) + (c(3) % 4) * 64)
                                  + (((c(3) \div 4) % 16) + (c(2) % 16) * 16) * 256
                                  + (((c(2) \div 16) % 4) + (c(1) % 64) * 4) * 65536
                                  + (b % 4) * 16777216))

\* ucs4_to_utf8, encoding.c 122-205, for one codepoint.
Utf8Char(c) ==
    CASE c <= 127      -> <<c>>
      [] c <= 2047     -> <<192 + c \div 64, 128 + (c % 64)>>
      [] c <= 65535    -> <<224 + c \div 4096, 128 + ((c \div 64) % 64), 128 + (c % 64)>>
      [] c <= 2097151  -> <<240 + c \div 262144, 128 + ((c \div 4096) % 64),
                            128 + ((c \div 64) % 64), 128 + (c % 64)>>
      [] OTHER         -> <<248 + c \div 16777216, 128 + ((c \div 262144) % 64),
                            128 + ((c \div 4096) % 64), 128 + ((c \div 64) % 64), 128 + (c % 64)>>

\* The codepoints before the first 0 (ucs4len).
UntilZero(u) == IF \E k \in DOMAIN u : u[k] = 0
                THEN SubSeq(u, 1, Min({k \in DOMAIN u : u[k] = 0}) - 1) ELSE u

\* <<ok, output>>: ok is FALSE when convert returns -1.
OpenCCConvert(s) ==
    LET u == Ucs4(CStr(s), 0, <<>>)
        v == UntilZero(u.cps)
        w == ConverterConvert(v)
    IN  IF ~u.ok THEN <<FALSE, <<>>>>
        ELSE <<TRUE, FlattenSeq([k \in 1..Len(w) |-> Utf8Char(w[k])])>>

-----------------------------------------------------------------------------
(* BuildPositionMapping, lines 766-794: a map of |converted| + 1 entries  *)
(* (0-indexed through At), walking both strings one character at a time  *)
(* by UTF8_BYTE_LENGTH_TABLE, then filling the rest with |original|.      *)

RECURSIVE Walk(_, _, _, _, _)
Walk(orig, conv, o, c, m) ==
    IF o < Len(orig) /\ c < Len(conv)
    THEN LET cl == CharLen(At(conv, c))
         IN  Walk(orig, conv, o + CharLen(At(orig, o)), c + cl,
                  [k \in DOMAIN m |-> IF k - 1 >= c /\ k - 1 < c + cl THEN o ELSE m[k]])
    ELSE [k \in DOMAIN m |-> IF k - 1 >= c THEN Len(orig) ELSE m[k]]

BuildPositionMapping(orig, conv) ==
    Walk(orig, conv, 0, 0, [k \in 1..(Len(conv) + 1) |-> 0])

\* final_pos_mapping, lines 1779-1806: strline -> str1 -> processed_line -> line,
\* with |line| wherever an index falls outside the next map.
ComposeAt(i, occ, q2b, pcre, n) ==
    IF i < Len(occ) /\ At(occ, i) < Len(q2b) /\ At(q2b, At(occ, i)) < Len(pcre)
    THEN At(pcre, At(q2b, At(occ, i))) ELSE n

Compose(sl, occ, q2b, pcre, n) ==
    [k \in 1..(Len(sl) + 1) |-> IF k - 1 = Len(sl) THEN n ELSE ComposeAt(k - 1, occ, q2b, pcre, n)]
====
