----------------------------- MODULE Segmenter -----------------------------
(***************************************************************************)
(* The Chinese segmentation core of RAGAnalyzer (src/internal/cpp/         *)
(* rag_analyzer.cpp): the greedy forward and backward scanners MaxForward  *)
(* and MaxBackward, the pruned search DFS, and the reconciliation loop of  *)
(* TokenizeInnerWithPosition that emits the tokens both scans agree on and *)
(* re-segments every stretch where they disagree.                          *)
(*                                                                         *)
(* Data abstraction: a codepoint is an element of Chars (every codepoint   *)
(* of a Chinese run is three UTF-8 bytes, since IsChinese only accepts     *)
(* lead bytes 0xE4..0xE9); a dictionary maps words to the log-frequency    *)
(* field DecodeFreq returns for them (the packing itself is modelled in    *)
(* module Dictionary); Key (ASCII lower-casing) is the identity on CJK     *)
(* codepoints. Scores are kept as exact rationals.                         *)
(***************************************************************************)
EXTENDS Integers, Sequences, SequencesExt

CONSTANTS
    Chars,    \* the codepoints a run is made of
    Lines,    \* the runs handed to TokenizeInnerWithPosition (length >= 2)
    Dicts,    \* the dictionaries the trie may have been built from
    BasePos   \* byte offset of the run inside the normalised line

ASSUME BasePos \in Nat

VARIABLES
    line,       \* L, the run
    dict,       \* the words of the trie and their log-frequencies
    pc,         \* "start", "loop" or "done"
    tks,        \* the forward tokens
    tks1,       \* the backward tokens
    i, j,       \* cursors into tks1 and tks (0-based, as in the code)
    ii, jj,     \* _i and _j: where the current disagreement started
    tokens,     \* the tokens emitted
    positions,  \* their <<start, end>> byte offsets
    dfsLog,     \* history: every (region, DFS result) pair resolved
    fi,         \* the next token of the fine-grained pass (1-based)
    fine,       \* fine_tokens
    finePos     \* fine_positions

vars == <<line, dict, pc, tks, tks1, i, j, ii, jj, tokens, positions, dfsLog, fi, fine, finePos>>

fineVars == <<fi, fine, finePos>>

CharBytes == 3          \* UTF-8 width of a Chinese codepoint
B == 30                 \* the constant of Score
UnknownFreq == -12      \* Encode(-12, 0): DFS's value for an unknown codepoint
ShadowFreq == 1         \* Encode(1, 0): value of every reversed-key entry

Bytes(s) == CharBytes * Len(s)

\* Mutant: a substring one codepoint short.
SubShort(s, from, to) == SubSeq(s, from + 1, to - 1)

\* UTF8Substr(line, s, e - s), with 0-based codepoint bounds [s, e).
Sub(s, from, to) == SubSeq(s, from + 1, to)

-----------------------------------------------------------------------------
(* The trie: every word under its own key and, for the backward scanner,   *)
(* under "DD" followed by its reversed codepoints.                         *)

Key(t) == t
RKey(t) == <<"DD">> \o Reverse(t)

TrieKeys == DOMAIN dict \cup { RKey(w) : w \in DOMAIN dict }

HasKeysWithPrefix(k) == \E key \in TrieKeys : IsPrefix(k, key)

InTrie(k) == k \in TrieKeys

\* DecodeFreq(Get(k)) for a key in the trie.
FreqOf(k) == IF k \in DOMAIN dict THEN dict[k] ELSE ShadowFreq

-----------------------------------------------------------------------------
(* MaxForward: from s, extend while the candidate is a key prefix (the    *)
(* loop stops at the first end where it is not, or at the end of the run), *)
(* then shrink until it is a key or a single codepoint.                    *)

FwdExtend(ln, s) ==
    Min({ e \in (s + 1)..Len(ln) : e = Len(ln) \/ ~HasKeysWithPrefix(Key(Sub(ln, s, e))) })
FwdShrink(ln, s, x) ==
    Max({ e \in (s + 1)..x : e = s + 1 \/ InTrie(Key(Sub(ln, s, e))) })

MaxForward(ln) ==
    LET from[s \in 0..Len(ln)] ==
            IF s >= Len(ln) THEN <<>>
            ELSE LET e == FwdShrink(ln, s, FwdExtend(ln, s))
                 IN <<Sub(ln, s, e)>> \o from[e]
    IN from[0]

(* MaxBackward: from the right end, extend leftwards while some word ends  *)
(* with the candidate (a prefix probe on its reversed key), then shrink;   *)
(* the tokens are collected right to left and reversed at the end.         *)

BwdExtend(ln, e) ==
    Max({ s \in 0..(e - 1) : s = 0 \/ ~HasKeysWithPrefix(RKey(Sub(ln, s, e))) })
BwdShrink(ln, x, e) ==
    Min({ s \in x..(e - 1) : s = e - 1 \/ InTrie(Key(Sub(ln, s, e))) })

MaxBackward(ln) ==
    LET upTo[e \in 0..Len(ln)] ==
            IF e <= 0 THEN <<>>
            ELSE LET s == BwdShrink(ln, BwdExtend(ln, e), e)
                 IN upTo[s] \o <<Sub(ln, s, e)>>
    IN upTo[Len(ln)]

-----------------------------------------------------------------------------
(* Score of a token list [tok, f]: F + (B + L) / N, as the rational        *)
(* <<F * N + B + L, N>>; N > 0 for every list scored.                      *)

SumF(p) == LET f[k \in 0..Len(p)] == IF k = 0 THEN 0 ELSE f[k - 1] + p[k].f
           IN f[Len(p)]

Score(p) ==
    LET N == Len(p)
        L == Len(SelectSeq(p, LAMBDA x : Len(x.tok) >= 2))
    IN <<SumF(p) * N + B + L, N>>

Better(a, b) == a[1] * b[2] > b[1] * a[2]

Texts(p) == [k \in 1..Len(p) |-> p[k].tok]

(* DFS with memo_all = false. Since the tokens of pre_tokens tile ch up to *)
(* s, the only part of pre_tokens the pruning reads is whether its last    *)
(* three tokens are single codepoints (then the last one is ch[s-1]); k    *)
(* counts the trailing single-codepoint tokens, capped at 3. paths[s, k]   *)
(* lists, in the order the recursion reaches them, the token lists that    *)
(* complete ch from s. DFS keeps a list when its score is strictly        *)
(* greater than every earlier one (max_score starts at the lowest double). *)

\* The first end tried from s, after the two pruning rules.
DfsStart(ch, s, k) ==
    IF \/ /\ s + 2 <= Len(ch)
          /\ HasKeysWithPrefix(Key(Sub(ch, s, s + 1)))
          /\ ~HasKeysWithPrefix(Key(Sub(ch, s, s + 2)))
       \/ /\ k = 3
          /\ HasKeysWithPrefix(Key(Sub(ch, s - 1, s + 1)))
    THEN s + 2 ELSE s + 1

\* Mutant: the loop recursing on every key prefix, not only on keys.
DfsEndsAnyPrefix(ch, s, S) ==
    LET stops == { e \in S..Len(ch) : e > s + 1 /\ ~HasKeysWithPrefix(Key(Sub(ch, s, e))) }
        last == IF stops = {} THEN Len(ch) ELSE Min(stops) - 1
    IN [m \in 1..(last - S + 1) |-> S + m - 1]

\* The ends e >= S whose token is a key, up to the first e > s + 1 whose
\* token is not even a key prefix (the loop's break).
DfsEnds(ch, s, S) ==
    LET stops == { e \in S..Len(ch) : e > s + 1 /\ ~HasKeysWithPrefix(Key(Sub(ch, s, e))) }
        last == IF stops = {} THEN Len(ch) ELSE Min(stops) - 1
    IN SelectSeq([m \in 1..(last - S + 1) |-> S + m - 1],
                 LAMBDA e : InTrie(Key(Sub(ch, s, e))))

Prepend(t, ps) == [m \in DOMAIN ps |-> <<t>> \o ps[m]]

DfsPaths(ch) ==
    LET Trail(e, s, k) == IF e = s + 1 THEN Min({k + 1, 3}) ELSE 0
        paths[s \in 0..Len(ch), k \in 0..3] ==
          IF s >= Len(ch) THEN <<<<>>>>
          ELSE LET ends == DfsEnds(ch, s, DfsStart(ch, s, k))
                   t1 == Sub(ch, s, s + 1)
               IN IF ends # <<>>
                  THEN FlattenSeq([m \in 1..Len(ends) |->
                          Prepend([tok |-> Sub(ch, s, ends[m]),
                                   f |-> FreqOf(Key(Sub(ch, s, ends[m])))],
                                  paths[ends[m], Trail(ends[m], s, k)])])
                  ELSE Prepend([tok |-> t1,
                                f |-> IF InTrie(Key(t1)) THEN FreqOf(Key(t1)) ELSE UnknownFreq],
                               paths[s + 1, Min({k + 1, 3})])
    IN paths[0, 0]

DFS(ch) ==
    LET Keep(best, p) == IF best = <<>> \/ Better(Score(p), Score(best)) THEN p ELSE best
    IN Texts(FoldLeft(Keep, <<>>, DfsPaths(ch)))

-----------------------------------------------------------------------------
(* Emission, as TokenizeInnerWithPosition does it: a multi-token string is *)
(* split at its spaces and each piece gets consecutive byte offsets; a     *)
(* single token gets <<start, start + len>>. Offsets go through the        *)
(* position mapping, here the identity over the normalised line, with 0    *)
(* for an index past its end.                                              *)

MapSize == BasePos + Bytes(line) + 1
MapPos(x) == IF x < MapSize THEN x ELSE 0

Spans(toks, start) ==
    [k \in 1..Len(toks) |->
        <<MapPos(start + Bytes(FlattenSeq(SubSeq(toks, 1, k - 1)))),
          MapPos(start + Bytes(FlattenSeq(SubSeq(toks, 1, k))))>>]

\* Join(tks, j, j + same) and its offsets (the "same part" branches).
EmitSame(toks, start) ==
    /\ tokens' = tokens \o toks
    /\ positions' = positions \o Spans(toks, start)

\* DFS over a disagreeing region, then the run of equal tokens after it.
\* (Values are bound with \E x \in {..} so that each is computed once.)
EmitRegion(region, start, run, runStart) ==
    \E best \in {DFS(region)} :
       /\ tokens' = tokens \o best \o run
       /\ positions' = positions
            \o (IF Len(best) > 1 THEN Spans(best, start)
                ELSE <<<<MapPos(start), MapPos(start + Bytes(region))>>>>)
            \o Spans(run, runStart)
       /\ dfsLog' = Append(dfsLog, [region |-> region, best |-> best])

\* Mutant: the loop of CalculateTokensLength stopping one token early.
StartOfShort(n) == BasePos + Bytes(FlattenSeq(SubSeq(tks, 1, n - 1)))

\* CalculateTokensLength(tks, 0, n), from BasePos.
StartOf(n) == BasePos + Bytes(FlattenSeq(SubSeq(tks, 1, n)))

\* Length of the run of equal tokens tks1[i+1..], tks[j+1..], counted from n.
RECURSIVE SameRun(_, _, _, _, _)
SameRun(b, f, bi, fj, n) ==
    IF bi + n < Len(b) /\ fj + n < Len(f) /\ b[bi + n + 1] = f[fj + n + 1]
    THEN SameRun(b, f, bi, fj, n + 1) ELSE n

Tk1 == FlattenSeq(SubSeq(tks1, ii + 1, i))
Tk == FlattenSeq(SubSeq(tks, jj + 1, j))

-----------------------------------------------------------------------------

Init ==
    /\ line \in Lines
    /\ dict \in Dicts
    /\ pc = "start"
    /\ tks = <<>> /\ tks1 = <<>>
    /\ i = 0 /\ j = 0 /\ ii = 0 /\ jj = 0
    /\ tokens = <<>> /\ positions = <<>>
    /\ dfsLog = <<>>
    /\ fi = 1 /\ fine = <<>> /\ finePos = <<>>

\* Mutant: the common prefix emitted only when it holds two tokens or more.
StartSameGt1 ==
    /\ pc = "start"
    /\ \E F \in {MaxForward(line)}, Bk \in {MaxBackward(line)} :
       \E same \in {SameRun(Bk, F, 0, 0, 0)} :
          /\ tks' = F /\ tks1' = Bk
          /\ IF same > 1 THEN EmitSame(SubSeq(F, 1, same), BasePos)
                         ELSE UNCHANGED <<tokens, positions>>
          /\ ii' = same /\ jj' = same /\ i' = same + 1 /\ j' = same + 1
    /\ pc' = "loop"
    /\ UNCHANGED <<line, dict, dfsLog>> /\ UNCHANGED fineVars

\* Both scans, then the common prefix is emitted.
Start ==
    /\ pc = "start"
    /\ \E F \in {MaxForward(line)}, Bk \in {MaxBackward(line)} :
       \E same \in {SameRun(Bk, F, 0, 0, 0)} :
          /\ tks' = F /\ tks1' = Bk
          /\ IF same > 0 THEN EmitSame(SubSeq(F, 1, same), BasePos)
                         ELSE UNCHANGED <<tokens, positions>>
          /\ ii' = same /\ jj' = same /\ i' = same + 1 /\ j' = same + 1
    /\ pc' = "loop"
    /\ UNCHANGED <<line, dict, dfsLog>> /\ UNCHANGED fineVars

InLoop == pc = "loop" /\ i < Len(tks1) /\ j < Len(tks)

\* The backward side covers more bytes: take one more forward token.
GrowForward ==
    /\ InLoop
    /\ Tk1 # Tk
    /\ Bytes(Tk1) > Bytes(Tk)
    /\ j' = j + 1
    /\ UNCHANGED <<line, dict, pc, tks, tks1, i, ii, jj, tokens, positions, dfsLog>> /\ UNCHANGED fineVars

\* Otherwise take one more backward token.
GrowBackward ==
    /\ InLoop
    /\ Tk1 # Tk
    /\ ~(Bytes(Tk1) > Bytes(Tk))
    /\ i' = i + 1
    /\ UNCHANGED <<line, dict, pc, tks, tks1, j, ii, jj, tokens, positions, dfsLog>> /\ UNCHANGED fineVars

\* Same bytes covered, but the next tokens differ: the region goes on.
Skip ==
    /\ InLoop
    /\ Tk1 = Tk
    /\ tks1[i + 1] # tks[j + 1]
    /\ i' = i + 1 /\ j' = j + 1
    /\ UNCHANGED <<line, dict, pc, tks, tks1, ii, jj, tokens, positions, dfsLog>> /\ UNCHANGED fineVars

\* Resynchronised: DFS the region, then emit the run of equal tokens.
Resolve ==
    /\ InLoop
    /\ Tk1 = Tk
    /\ tks1[i + 1] = tks[j + 1]
    /\ \E same \in {SameRun(tks1, tks, i, j, 1)} :
          /\ EmitRegion(Tk, StartOf(jj), SubSeq(tks, j + 1, j + same), StartOf(j))
          /\ ii' = i + same /\ jj' = j + same
          /\ i' = i + same + 1 /\ j' = j + same + 1
    /\ UNCHANGED <<line, dict, pc, tks, tks1>> /\ UNCHANGED fineVars

\* After the loop: a disagreement still open is resolved by DFS.
ResolveTail ==
    /\ pc = "loop" /\ ~InLoop
    /\ ii < Len(tks1)
    /\ EmitRegion(FlattenSeq(SubSeq(tks, jj + 1, Len(tks))), StartOf(jj), <<>>, 0)
    /\ pc' = "fine"
    /\ UNCHANGED <<line, dict, tks, tks1, i, j, ii, jj>> /\ UNCHANGED fineVars

\* After the loop, nothing left open.
Return ==
    /\ pc = "loop" /\ ~InLoop
    /\ ~(ii < Len(tks1))
    /\ pc' = "fine"
    /\ UNCHANGED <<line, dict, tks, tks1, i, j, ii, jj, tokens, positions, dfsLog>> /\ UNCHANGED fineVars

-----------------------------------------------------------------------------
(* FineGrainedTokenizeWithPosition (lines 2184-2285), which AnalyzeImpl  *)
(* runs on the tokens and positions above when fine_grained and           *)
(* enable_position are set. Split(Join(tokens), blank_pattern_) gives the *)
(* tokens back, none being empty or holding a blank, so tks[i] is read    *)
(* with positions[i]. Every codepoint here is CJK: pattern4_ and pattern5_ *)
(* match no token, and the English branch is never taken.                 *)

\* Lines 2192-2204: zh_num < tks.size() * 0.2, zh_num counting codepoints.
EnglishBranch == 5 * Len(FlattenSeq(tokens)) < Len(tokens)

\* SortTokens (lines 895-901) scores every path and std::sort orders them
\* by descending score. std::sort is not stable: paths of equal score come
\* in any order, so sorted_tokens[1] is any path with at most one path
\* scoring strictly higher and some other path scoring at least as high.
SecondBest(ps) ==
    { Texts(ps[m]) :
        m \in { m \in DOMAIN ps :
                  LET above == { q \in DOMAIN ps : Better(Score(ps[q]), Score(ps[m])) }
                      level == { q \in DOMAIN ps \ {m} : ~Better(Score(ps[m]), Score(ps[q])) }
                  IN  Cardinality(above) <= 1 /\ level # {} } }

\* Lines 2233-2254: no candidate split for a token of fewer than three
\* codepoints, for one of more than ten (its token_list is the token
\* alone), or when DFS with memo_all finds fewer than two paths; otherwise
\* the path sorted second.
Candidates(t) ==
    IF Len(t) < 3 \/ Len(t) > 10 \/ Len(DfsPaths(t)) < 2 THEN {}
    ELSE SecondBest(DfsPaths(t))

\* Mutant: sub_end advanced by UTF8Length(t), as the pattern5_ branch does.
PieceSpansChars(stk, start) ==
    [m \in 1..Len(stk) |-> <<start + Len(FlattenSeq(SubSeq(stk, 1, m - 1))),
                             start + Len(FlattenSeq(SubSeq(stk, 1, m)))>>]

\* Lines 2283-2290: consecutive spans from start_pos, t.size() bytes each.
PieceSpans(stk, start) ==
    [m \in 1..Len(stk) |-> <<start + Bytes(FlattenSeq(SubSeq(stk, 1, m - 1))),
                             start + Bytes(FlattenSeq(SubSeq(stk, 1, m)))>>]

InFine == pc = "fine" /\ fi <= Len(tokens) /\ ~EnglishBranch

FineTok == tokens[fi]

\* The token is emitted with its own span: it has no candidate split, or
\* the split sorted second is into single codepoints (lines 2233-2237,
\* 2248-2251, 2256-2259).
FineWhole ==
    /\ InFine
    /\ \/ Candidates(FineTok) = {}
       \/ \E stk \in Candidates(FineTok) : Len(stk) = Len(FineTok)
    /\ fine' = Append(fine, FineTok)
    /\ finePos' = Append(finePos, positions[fi])
    /\ fi' = fi + 1
    /\ UNCHANGED <<line, dict, pc, tks, tks1, i, j, ii, jj, tokens, positions, dfsLog>>

\* Mutant: the check that the split is not into single codepoints dropped.
FineSplitNoWholeCheck ==
    /\ InFine
    /\ \E stk \in Candidates(FineTok) :
          /\ fine' = fine \o stk
          /\ finePos' = finePos \o PieceSpans(stk, positions[fi][1])
    /\ fi' = fi + 1
    /\ UNCHANGED <<line, dict, pc, tks, tks1, i, j, ii, jj, tokens, positions, dfsLog>>

\* The split sorted second is emitted piece by piece (lines 2253-2290:
\* not into single codepoints, and the token is not all letters and
\* digits, so the byte branch of 2283-2290).
FineSplit ==
    /\ InFine
    /\ \E stk \in Candidates(FineTok) :
          /\ Len(stk) # Len(FineTok)
          /\ fine' = fine \o stk
          /\ finePos' = finePos \o PieceSpans(stk, positions[fi][1])
    /\ fi' = fi + 1
    /\ UNCHANGED <<line, dict, pc, tks, tks1, i, j, ii, jj, tokens, positions, dfsLog>>

\* Every token is done: AnalyzeImpl goes on with fine_tokens.
FineReturn ==
    /\ pc = "fine" /\ fi > Len(tokens)
    /\ pc' = "done"
    /\ UNCHANGED <<line, dict, tks, tks1, i, j, ii, jj, tokens, positions, dfsLog>>
    /\ UNCHANGED fineVars

\* The function has returned; the state no longer changes.
Done ==
    /\ pc = "done"
    /\ UNCHANGED vars

Next == Start \/ GrowForward \/ GrowBackward \/ Skip \/ Resolve \/ ResolveTail \/ Return
        \/ FineWhole \/ FineSplit \/ FineReturn \/ Done

\* Some step that changes a variable is possible until the function
\* returns: the model has no deadlock (every state with pc # "done" has a
\* successor by an action other than Done, which is checked), and every
\* action of Next but Done changes a variable. So Running is
\* ENABLED <<Next>>_vars.
Running == pc # "done"

Spec == Init /\ [][Next]_vars /\ (<>[]Running => []<><<Next>>_vars)

-----------------------------------------------------------------------------
(* TokenizeInner (lines 1414-1557), the copy of the loop above that        *)
(* Tokenize uses: the same cursors over the same scans, emitting only      *)
(* text.  Runs of equal tokens go into res as one string joined by blanks  *)
(* and a DFS result as Join(best_tokens, 0); Merge splits both at the      *)
(* blanks again, so the token sequence is kept here.                       *)

RECURSIVE InnerLoop(_, _, _, _, _, _)
InnerLoop(b, f, bi, fj, bi0, fj0) ==
    IF bi < Len(b) /\ fj < Len(f)
    THEN LET tk1 == FlattenSeq(SubSeq(b, bi0 + 1, bi))
             tk  == FlattenSeq(SubSeq(f, fj0 + 1, fj))
         IN  IF tk1 # tk
             THEN IF Bytes(tk1) > Bytes(tk) THEN InnerLoop(b, f, bi, fj + 1, bi0, fj0)
                  ELSE InnerLoop(b, f, bi + 1, fj, bi0, fj0)
             ELSE IF b[bi + 1] # f[fj + 1] THEN InnerLoop(b, f, bi + 1, fj + 1, bi0, fj0)
             ELSE LET same == SameRun(b, f, bi, fj, 1)
                  IN  DFS(tk) \o SubSeq(f, fj + 1, fj + same)
                      \o InnerLoop(b, f, bi + same + 1, fj + same + 1, bi + same, fj + same)
    ELSE IF bi0 < Len(b) THEN DFS(FlattenSeq(SubSeq(f, fj0 + 1, Len(f)))) ELSE <<>>

TokenizeInner(ln) ==
    LET f == MaxForward(ln)
        b == MaxBackward(ln)
        same == SameRun(b, f, 0, 0, 0)
    IN  SubSeq(f, 1, same) \o InnerLoop(b, f, same + 1, same + 1, same, same)

-----------------------------------------------------------------------------

\* Types; in particular no emitted token is empty (spec.md 3: empty tokens
\* are never emitted).
TypeOK ==
    /\ pc \in {"start", "loop", "fine", "done"}
    /\ \A k \in 1..Len(tokens) : Len(tokens[k]) > 0 /\ \A c \in 1..Len(tokens[k]) : tokens[k][c] \in Chars
    /\ Len(positions) = Len(tokens)
    /\ \A k \in 1..Len(positions) : positions[k] \in Nat \X Nat
    /\ i \in Nat /\ j \in Nat /\ ii \in Nat /\ jj \in Nat
    /\ fi \in 1..(Len(tokens) + 1)
    /\ Len(finePos) = Len(fine) /\ \A k \in 1..Len(finePos) : finePos[k] \in Nat \X Nat

\* Every offset pair of the output is the byte span of its token inside the
\* run: the k-th token starts where the (k-1)-th ended, from BasePos on, and
\* spans exactly its own bytes. This is what TokenizeInnerWithPosition's
\* three emission paths, each with its own start_pos arithmetic over tks,
\* _j and j, must agree on.
PositionsTrackText ==
    \A k \in 1..Len(tokens) :
        positions[k] = <<BasePos + Bytes(FlattenSeq(SubSeq(tokens, 1, k - 1))),
                         BasePos + Bytes(FlattenSeq(SubSeq(tokens, 1, k)))>>

\* spec.md 6, fine-grained refinement, with offsets: the fine-grained
\* children of the tokens already passed spell exactly those tokens, and
\* every child's offsets are its byte span in the run, consecutive from
\* BasePos. It needs every DFS path of a token to tile the token, and the
\* start_pos / sub_end arithmetic of FineGrainedTokenizeWithPosition to
\* count bytes from the coarse token's own start.
FineRefinesTokens ==
    pc \in {"fine", "done"} =>
        /\ FlattenSeq(fine) = FlattenSeq(SubSeq(tokens, 1, fi - 1))
        /\ \A k \in 1..Len(fine) :
              finePos[k] = <<BasePos + Bytes(FlattenSeq(SubSeq(fine, 1, k - 1))),
                             BasePos + Bytes(FlattenSeq(SubSeq(fine, 1, k)))>>

\* The reconciliation loop implements the promise of module Segmentation:
\* tokens only ever grow at the end, each is a dictionary word or a single
\* codepoint, they always spell a prefix of the run, and eventually all of it.
Abs == INSTANCE Segmentation WITH out <- tokens
AbsSpec == Abs!Spec

\* spec.md 4.7: every stretch where the two scans disagree is segmented by
\* the best-scoring split, where a token is a dictionary word or any single
\* codepoint (unknown ones at -12), as the DP segmenter would find it. The
\* code resolves these stretches with the pruned DFS instead.
DpValued(t) == [tok |-> t, f |-> IF InTrie(Key(t)) THEN FreqOf(Key(t)) ELSE UnknownFreq]

RegionsScoredOptimally ==
    \A r \in 1..Len(dfsLog) :
        \A cut \in Abs!Cuts(dfsLog[r].region, dict) :
            ~Better(Score([k \in 1..Len(cut) |-> DpValued(cut[k])]),
                    Score([k \in 1..Len(dfsLog[r].best) |-> DpValued(dfsLog[r].best[k])]))

\* spec.md 8, consistency of tokenize and tokenize_with_position: when the
\* loop is over (the fine-grained pass leaves tokens alone), the tokens
\* TokenizeInnerWithPosition emitted with their offsets are exactly the
\* tokens the plain TokenizeInner gives the same run.  The two copies of
\* the loop keep their cursors and their three emission paths apart.
InnerCopiesAgree == (pc = "fine" /\ fi = 1) => tokens = TokenizeInner(line)

-----------------------------------------------------------------------------
(* FineGrainedTokenize (lines 2299-2391), the copy of the fine-grained    *)
(* pass that AnalyzeImpl runs without positions, on the blank-split       *)
(* result of Tokenize.  pattern4_, pattern5_ and EnglishNormalize's       *)
(* pattern1_ match no CJK token, so those branches keep the token.        *)

\* Lines 2320-2385 for one token: the texts pushed into res, one set
\* member per order std::sort may give tied paths.
FinePlainToken(t) ==
    IF Len(t) < 3 \/ Len(t) > 10 \/ Len(DfsPaths(t)) < 2 THEN {<<t>>}
    ELSE { IF Len(stk) = Len(t) THEN <<t>> ELSE stk : stk \in SecondBest(DfsPaths(t)) }

RECURSIVE FinePlainTokens(_)
FinePlainTokens(toks) ==
    IF toks = <<>> THEN {<<>>}
    ELSE { h \o r : h \in FinePlainToken(Head(toks)), r \in FinePlainTokens(Tail(toks)) }

\* Lines 2299-2319: the English branch splits at '/', which no CJK token
\* holds; otherwise token by token.
FineGrainedTokenize(toks) ==
    IF 5 * Len(FlattenSeq(toks)) < Len(toks) THEN {toks} ELSE FinePlainTokens(toks)

\* spec.md 8 with fine_grained set: the fine-grained tokens AnalyzeImpl
\* reports with positions are tokens the plain FineGrainedTokenize gives
\* for the same coarse tokens (for the same order of tied paths).
FineCopiesAgree == pc = "done" => fine \in FineGrainedTokenize(tokens)

=============================================================================
