----------------------------- MODULE Converter -----------------------------
(***************************************************************************)
(* The OpenCC converter as the analyzer builds it: opencc/converter.c with *)
(* SEGMENT_METHOD = SEGMENT_SHORTEST_PATH in OPENCC_CONVERSION_FAST mode,  *)
(* over one dictionary group (dictionary_group.c) of datrie dictionaries   *)
(* (dictionary/datrie.c).                                                  *)
(*                                                                         *)
(* Text is a sequence of codepoints without 0 (the caller cuts it at      *)
(* ucs4len).  A dictionary maps its keys, non-empty codepoint sequences,  *)
(* to their first candidate match_rs[0]; Group lists the dictionaries in  *)
(* load order.  Positions are 0-based as in the code.                     *)
(*                                                                         *)
(* opencc_convert_utf8 gives the converter an output buffer of length + 64 *)
(* codepoints, and no value of the dictionaries checked is longer than its *)
(* key, so the CONVERTER_ERROR_OUTBUF exits are never taken and are left  *)
(* out.                                                                    *)
(***************************************************************************)
EXTENDS Integers, Sequences, SequencesExt

CONSTANT Group   \* the dictionaries of the group, in load order

ASSUME Group # <<>>

\* INFINITY_INT (utils.h 35): (~0U) >> 1.
InfinityInt == 2147483647

\* The k codepoints of u from position i.
Piece(u, i, k) == SubSeq(u, i + 1, i + k)

\* dictionary_datrie_match_longest (datrie.c 196-230): datrie_match walks
\* the trie along u from i, at most maxlen codepoints (0: no limit), and
\* the walk is shortened until it ends on a word.  The length of the
\* longest key of d at i within the limit, or 0.
DictLongest(d, u, i, maxlen) ==
    LET ks == { k \in 1..(Len(u) - i) : (maxlen = 0 \/ k <= maxlen) /\ Piece(u, i, k) \in DOMAIN d }
    IN  IF ks = {} THEN 0 ELSE Max(ks)

\* dictionary_group_match_longest (dictionary_group.c 95-124): the longest
\* match over the group, the first dictionary winning among equally long
\* ones (t_match_length > max_length); len 0 when none matches.
MatchLongest(u, i, maxlen) ==
    LET lens == [n \in DOMAIN Group |-> DictLongest(Group[n], u, i, maxlen)]
        best == Max({ lens[n] : n \in DOMAIN Group })
    IN  IF best = 0 THEN [len |-> 0, val |-> <<>>]
        ELSE [len |-> best,
              val |-> Group[Min({ n \in DOMAIN Group : lens[n] = best })][Piece(u, i, best)]]

\* dictionary_datrie_get_all_match_lengths (datrie.c 232-251): the trie is
\* walked along u from i, and the length of every word passed on the way is
\* recorded: the lengths of the keys of d that start u at i.
DictAllLengths(d, u, i) ==
    { k \in 1..(Len(u) - i) : Piece(u, i, k) \in DOMAIN d }

\* dictionary_group_get_all_match_lengths (dictionary_group.c 126-152): the
\* lengths of every dictionary, duplicates removed.
AllMatchLengths(u, i) ==
    UNION { DictAllLengths(Group[n], u, i) : n \in DOMAIN Group }

-----------------------------------------------------------------------------
(* sp_seg (converter.c 75-303) on the `length` codepoints from p.          *)

\* Mutant: the single codepoint added only when nothing matches at i.
LengthsOnlyWhenNone(u, i) ==
    IF AllMatchLengths(u, i) = {} THEN {1} ELSE AllMatchLengths(u, i)

\* Lines 177-180: the match lengths at i, and 1 when the shortest is not 1.
Lengths(u, i) == AllMatchLengths(u, i) \cup {1}

\* The relaxation of lines 183-194: a match longer than one codepoint
\* replaces an equal count, a single codepoint only a larger one.  The sums
\* are size_t: INFINITY_INT + 1 exceeds every min_len, so an unreached i
\* relaxes nothing.
Relax(ml, i, k) ==
    /\ ml[i] < InfinityInt
    /\ \/ k > 1 /\ ml[i] + 1 <= ml[i + k]
       \/ k = 1 /\ ml[i] + 1 < ml[i + k]

\* Lines 170-195: min_len and parent over 0..length, position by position.
SpDp(u, p, length) ==
    LET init == [ml  |-> [x \in 0..length |-> IF x = 0 THEN 0 ELSE InfinityInt],
                 par |-> [x \in 0..length |-> 0]]
        AtPos(st, i) ==
            LET Upd(k, s) == IF i + k <= length /\ Relax(s.ml, i, k)
                             THEN [ml  |-> [s.ml EXCEPT ![i + k] = s.ml[i] + 1],
                                   par |-> [s.par EXCEPT ![i + k] = i]]
                             ELSE s
            IN  FoldSet(Upd, st, Lengths(u, p + i))
    IN  FoldLeft(AtPos, init, [x \in 1..length |-> x - 1])

\* Lines 197-199: the ends of the path, from parent, in increasing order.
RECURSIVE PathTo(_, _)
PathTo(par, i) == IF i = 0 THEN <<>> ELSE PathTo(par, par[i]) \o <<i>>

\* Lines 201-302 in FAST mode: each step of the path is converted by the
\* longest match from the input pointer within end - begin codepoints; with
\* no match one codepoint is copied.  n counts the codepoints consumed.
SpConvert(u, p, path) ==
    LET Step(acc, e) ==
          LET m == MatchLongest(u, p + acc.n, e - acc.b)
          IN  IF m.len = 0
              THEN [n |-> acc.n + 1, b |-> e, out |-> Append(acc.out, u[p + acc.n + 1])]
              ELSE [n |-> acc.n + m.len, b |-> e, out |-> acc.out \o m.val]
        r == FoldLeft(Step, [n |-> 0, b |-> 0, out |-> <<>>], path)
    IN  [n |-> r.n, out |-> r.out, pieces |-> Len(path)]

\* sp_seg: one codepoint is looked up directly (lines 79-107); a longer
\* region is cut along the shortest path and converted.
SpSeg(u, p, length) ==
    IF length = 1
    THEN LET m == MatchLongest(u, p, 1)
         IN  [n |-> 1, out |-> IF m.len = 0 THEN <<u[p + 1]>> ELSE m.val, pieces |-> 1]
    ELSE SpConvert(u, p, PathTo(SpDp(u, p, length).par, length))

-----------------------------------------------------------------------------
(* segment (converter.c 305-362): i walks the text and bound is the       *)
(* furthest end of a longest match seen; when i reaches bound no match    *)
(* crosses it, and the region [start, bound) goes to sp_seg from the      *)
(* input pointer.  left is inbuf_left; acc gathers the output and the     *)
(* number of pieces the regions were cut into.                            *)

Gathered(acc, r) == [out |-> acc.out \o r.out, pieces |-> acc.pieces + r.pieces]

RECURSIVE SegLoop(_, _, _, _, _, _)
SegLoop(u, i, start, bound, left, acc) ==
    IF i < Len(u) /\ left > 0
    THEN LET cut == i # 0 /\ i = bound
             r == IF cut THEN SpSeg(u, Len(u) - left, bound - start)
                  ELSE [n |-> 0, out |-> <<>>, pieces |-> 0]
             ml == MatchLongest(u, i, 0).len
             b2 == IF i + Max({ml, 1}) > bound THEN i + Max({ml, 1}) ELSE bound
         IN  SegLoop(u, i + 1, IF cut THEN i ELSE start, b2, left - r.n, Gathered(acc, r))
    ELSE IF left > 0
         THEN Gathered(acc, SpSeg(u, Len(u) - left, bound - start))
         ELSE acc

\* converter_convert (converter.c 465-477) with one group: segment.
Segment(u) == SegLoop(u, 0, 0, 0, Len(u), [out |-> <<>>, pieces |-> 0])

ConverterConvert(u) == Segment(u).out

-----------------------------------------------------------------------------
(* Reference: the fewest pieces of a cut of u into keys of the group and  *)
(* single codepoints.                                                      *)

MinPieces(u) ==
    LET IsKey(w) == \E n \in DOMAIN Group : w \in DOMAIN Group[n]
        f[x \in 0..Len(u)] ==
            IF x = 0 THEN 0
            ELSE Min({ f[x - k] + 1 : k \in { k \in 1..x : k = 1 \/ IsKey(SubSeq(u, x - k + 1, x)) } })
    IN  f[Len(u)]

=============================================================================
