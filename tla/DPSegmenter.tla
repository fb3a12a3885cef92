---------------------------- MODULE DPSegmenter ----------------------------
(***************************************************************************)
(* RAGAnalyzer::GetBestTokensTopN (rag_analyzer.cpp 1029-1201): the        *)
(* dynamic program spec.md 4.6 describes for segmenting a Chinese stretch, *)
(* which the code reaches from the INFINITY_DEBUG cross-checks against     *)
(* DFS.  It uses the trie, the codepoints and the exact rational Score of  *)
(* module Segmenter.                                                       *)
(*                                                                         *)
(* dp[x] lists the candidates for the first x codepoints.  A candidate is  *)
(* BestTokenCandidate: its token list, N (tokens), L (tokens of two or     *)
(* more codepoints) and F (sum of frequencies).  The list is kept ordered  *)
(* by the key <<N, L>>, and holds at most top_n candidates per key, those  *)
(* of the largest F: for a fixed key the score F + (B + L) / N grows with  *)
(* F, so no other candidate of that key can be among the best.            *)
(***************************************************************************)
EXTENDS Segmenter, FiniteSets

EmptyCandidate == [toks |-> <<>>, n |-> 0, l |-> 0, f |-> 0]

\* BestTokenCandidate::update (lines 1063-1065).
Update(c, t, keyF, addL) ==
    [toks |-> Append(c.toks, t), n |-> c.n + 1, l |-> c.l + addL, f |-> c.f + keyF]

\* k() < k(): the pair <<N, L>> in lexicographic order (lines 1045-1051).
KeyLess(a, b) == a.n < b.n \/ (a.n = b.n /\ a.l < b.l)

\* AddBestTokenCandidateTopN (lines 1075-1094): equal_range on the key;
\* when top_n candidates already share the key, the first of least F is
\* replaced if the new F is larger, and otherwise the new one is dropped;
\* else it is inserted before the candidates of its key.
AddTopN(cands, c, topN) ==
    LET same == { m \in DOMAIN cands : ~KeyLess(cands[m], c) /\ ~KeyLess(c, cands[m]) }
        low  == Cardinality({ m \in DOMAIN cands : KeyLess(cands[m], c) }) + 1
        it   == Min({ m \in same : \A m2 \in same : cands[m].f <= cands[m2].f })
    IN  IF Cardinality(same) >= topN
        THEN IF cands[it].f >= c.f THEN cands ELSE [cands EXCEPT ![it] = c]
        ELSE InsertAt(cands, low, c)

\* trie_->Traverse on the growing key (lines 1132-1146): a word gives its
\* frequency; an unknown single codepoint -12; else nothing is added.
Gains(ch, p, w) ==
    LET k == Key(Sub(ch, p, p + w))
    IN  IF InTrie(k) THEN {FreqOf(k)} ELSE IF w = 1 THEN {UnknownFreq} ELSE {}

\* Mutant: the loop breaks at the first key that is not a word
\* (traverse_result < 0 instead of == -2).
ReachedBreakOnMiss(ch, p, w) == \A w2 \in 1..(w - 1) : InTrie(Key(Sub(ch, p, p + w2)))

\* The inner loop reaches length w from p unless a shorter key was no
\* prefix of any key (traverse_result == -2, the break).
Reached(ch, p, w) == \A w2 \in 1..(w - 1) : HasKeysWithPrefix(Key(Sub(ch, p, p + w2)))

\* The loops of lines 1104-1154: dp[x] receives, for p = 0, 1, ... in turn,
\* every candidate of dp[p] extended by the token [p, x), in dp[p]'s order.
DpVec(ch, topN) ==
    LET dp[x \in 0..Len(ch)] ==
          IF x = 0 THEN <<EmptyCandidate>>
          ELSE LET From(acc, p) ==
                     IF Reached(ch, p, x - p) /\ Gains(ch, p, x - p) # {}
                     THEN LET g == CHOOSE v \in Gains(ch, p, x - p) : TRUE
                              Ext(a, c) == AddTopN(a, Update(c, Sub(ch, p, x), g,
                                                             IF x - p >= 2 THEN 1 ELSE 0), topN)
                          IN  FoldLeft(Ext, acc, dp[p])
                     ELSE acc
               IN  FoldLeft(From, <<>>, [m \in 1..x |-> m - 1])
    IN dp

CScore(c) == <<c.f * c.n + B + c.l, c.n>>

\* Lines 1155-1175: the first n candidates of dp.back() are taken as they
\* come; a later one replaces the last kept if its score is larger, and is
\* inserted before the first kept one whose score is not larger.
MidResult(cands, topN) ==
    LET Keep(mid, c) ==
          IF Len(mid) < topN THEN Append(mid, c)
          ELSE IF Better(CScore(c), CScore(mid[Len(mid)]))
               THEN LET rest == SubSeq(mid, 1, Len(mid) - 1)
                        pos  == Cardinality({ m \in DOMAIN rest : Better(CScore(rest[m]), CScore(c)) }) + 1
                    IN  InsertAt(rest, pos, c)
               ELSE mid
    IN FoldLeft(Keep, <<>>, cands)

\* GetBestTokensTopN (lines 1097-1201): the token lists and their scores.
GetBestTokensTopN(ch, topN) ==
    LET mid == MidResult(DpVec(ch, topN)[Len(ch)], topN)
    IN  [m \in DOMAIN mid |-> [toks |-> mid[m].toks, score |-> CScore(mid[m])]]

-----------------------------------------------------------------------------

\* The score of a cut when every token is valued as the DP values it: a
\* word by its frequency, any other single codepoint at -12.
CutScore(cut) == Score([k \in 1..Len(cut) |-> DpValued(cut[k])])

\* spec.md 4.6: the DP's top-1 is a cut of the run into words and single
\* codepoints, scored as such, and no such cut scores higher.  The per-key
\* pruning of AddBestTokenCandidateTopN and the break on a failed prefix
\* must lose no cut that could be best.
DpTop1Optimal ==
    pc = "start" =>
        LET r == GetBestTokensTopN(line, 1)
        IN  /\ Len(r) = 1
            /\ r[1].toks \in Abs!Cuts(line, dict)
            /\ r[1].score = CutScore(r[1].toks)
            /\ \A cut \in Abs!Cuts(line, dict) : ~Better(CutScore(cut), r[1].score)

=============================================================================
