----------------------------- MODULE Pipeline -----------------------------
(***************************************************************************)
(* RAGAnalyzer::TokenizeWithPosition (rag_analyzer.cpp 1763-1910) from    *)
(* the raw line to the merged tokens and their byte offsets in the line:   *)
(*   1. normalisation, one step per call: PCRE2GlobalReplaceWithPosition, *)
(*      StrQ2B, the OpenCC conversion, and the composition of their byte  *)
(*      maps into final_pos_mapping (the operators of NormalizeOps);      *)
(*   2. SplitByLang: Split by regex_split_pattern_ keeping delimiters,    *)
(*      then runs of Chinese and non-Chinese characters;                  *)
(*   3. one step per run: a non-Chinese run goes through SentenceSplitter, *)
(*      the NLTK word tokenizer, the lemmatizer and the stemmer; a short  *)
(*      Chinese run is one token; a longer one goes to                    *)
(*      TokenizeInnerWithPosition;                                        *)
(*   4. MergeWithPosition.                                                 *)
(*                                                                         *)
(* TokenizeInnerWithPosition is module Segmenter, which shows that it cuts *)
(* the run into consecutive tokens whose offsets track the text            *)
(* (PositionsTrackText); here it is any such cut.  The NLTK tokenizer and *)
(* the lemmatizer and stemmer are regular-expression and dictionary code: *)
(* they enter by what they do on the sentences SentenceSplitter can hand  *)
(* them (NLTKWords) and by a constant function on words (Stem).           *)
(***************************************************************************)
EXTENDS Integers, Sequences, SequencesExt, NormalizeOps

CONSTANTS
    Lines,       \* the raw lines
    Garbage,     \* bytes a read past the end of a std::string may return
    MergeWords,  \* the strings whose Freq is positive
    Stem(_)      \* Lemmatize, ToLower and Stem of a term

VARIABLES
    line,       \* the raw input
    stage,      \* the next step
    processed,  \* processed_line
    pcreMap,    \* pcre2_pos_mapping (its .first components)
    str1,       \* StrQ2B(processed_line)
    readMax,    \* the largest index StrQ2B read
    strline,    \* the normalised line
    final,    \* final_pos_mapping
    arr,      \* SplitByLang's <<segment, is-Chinese>> pairs
    k,        \* the next pair of arr
    cur,      \* current_pos
    out,      \* the tokens so far: [tok, term, pos |-> <<start, end>>]
    res,      \* Tokenize's res for the same line
    ret       \* Tokenize's result string

vars == <<line, stage, processed, pcreMap, str1, readMax, strline, final,
          arr, k, cur, out, res, ret>>

\* The variables normalisation writes, and those of the later steps.
normVars == <<processed, pcreMap, str1, readMax, strline, final>>

runVars == <<arr, k, cur, out, res, ret>>

-----------------------------------------------------------------------------
(* Characters as UTF8Substr and UTF8Length see them: CharLen bytes, the  *)
(* last one cut short at the end of the string.                          *)

RECURSIVE CharsFrom(_, _)
CharsFrom(s, i) ==
    IF i >= Len(s) THEN <<>>
    ELSE <<Slice(s, i, Min({i + CharLen(At(s, i)), Len(s)}))>>
         \o CharsFrom(s, i + CharLen(At(s, i)))

Chars(s) == CharsFrom(s, 0)

\* IsChinese, lines 159-173, on one character.
IsChinese(c) ==
    \E i \in 0..(Len(c) - 1) :
        /\ At(c, i) >= 228 /\ At(c, i) <= 233
        /\ i + 2 < Len(c)
        /\ Cont(At(c, i + 1)) /\ Cont(At(c, i + 2))

\* The codepoint of a well-formed character, or -1.
CpOf(c) == IF WellFormedLen(c, 0) = Len(c) THEN Cp(c, 0) ELSE -1

\* regex_split_pattern_ (rag_analyzer.h 170): the first alternative's class
\* of punctuation, and the second's [a-zA-Z0-9,.-].
PunctClass ==
    {32, 44, 46, 60, 62, 47, 63, 59, 58, 39, 91, 93, 92, 96, 33, 64, 35, 36, 37,
     94, 38, 42, 40, 41, 123, 125, 124, 95, 43, 61, 126, 45,
     12298, 12299, 65292, 12290, 65311, 12289, 65307, 8216, 8217, 65306, 8220,
     8221, 12304, 12305, 65281, 65509, 8230, 65288, 65289, 8212}
WordClass == (97..122) \cup (65..90) \cup (48..57) \cup {44, 46, 45}


InClass(c, cls) == CpOf(c) \in cls

\* The end of the run of characters of class cls from character q.
RECURSIVE RunOf(_, _, _)
RunOf(cs, q, cls) == IF q <= Len(cs) /\ InClass(cs[q], cls) THEN RunOf(cs, q + 1, cls) ELSE q

\* The leftmost character from i where the pattern matches, or 0.
FirstMatch(cs, i) ==
    LET ms == {q \in i..Len(cs) : InClass(cs[q], PunctClass \cup WordClass)}
    IN  IF ms = {} THEN 0 ELSE Min(ms)

\* Mutant: the leftover after the last match is not kept.
RECURSIVE SplitLoopNoLeftover(_, _)
SplitLoopNoLeftover(cs, i) ==
    IF FirstMatch(cs, i) = 0 THEN <<>>
    ELSE LET q == FirstMatch(cs, i)
             r == IF InClass(cs[q], PunctClass) THEN RunOf(cs, q, PunctClass)
                  ELSE RunOf(cs, q, WordClass)
         IN  (IF q > i THEN <<FlattenSeq(SubSeq(cs, i, q - 1))>> ELSE <<>>)
             \o <<FlattenSeq(SubSeq(cs, q, r - 1))>> \o SplitLoopNoLeftover(cs, r)

\* Split(line, regex_split_pattern_, arr, true), lines 107-126, over the
\* characters from i: the text before each match, the match (the first
\* alternative is tried first, both greedy), and the leftover.
RECURSIVE SplitLoop(_, _)
SplitLoop(cs, i) ==
    IF FirstMatch(cs, i) = 0
    THEN IF i <= Len(cs) THEN <<FlattenSeq(SubSeq(cs, i, Len(cs)))>> ELSE <<>>
    ELSE LET q == FirstMatch(cs, i)
             r == IF InClass(cs[q], PunctClass) THEN RunOf(cs, q, PunctClass)
                  ELSE RunOf(cs, q, WordClass)
         IN  (IF q > i THEN <<FlattenSeq(SubSeq(cs, i, q - 1))>> ELSE <<>>)
             \o <<FlattenSeq(SubSeq(cs, q, r - 1))>> \o SplitLoop(cs, r)

Split(s) == SplitLoop(Chars(s), 1)

\* The runs of one piece with the same IsChinese, lines 1385-1411.
RECURSIVE LangRuns(_, _, _)
LangRuns(cs, from, e) ==
    IF e > Len(cs) THEN <<<<FlattenSeq(SubSeq(cs, from, Len(cs))), IsChinese(cs[from])>>>>
    ELSE IF IsChinese(cs[e]) = IsChinese(cs[from]) THEN LangRuns(cs, from, e + 1)
    ELSE <<<<FlattenSeq(SubSeq(cs, from, e - 1)), IsChinese(cs[from])>>>> \o LangRuns(cs, e, e + 1)

\* SplitByLang, lines 1378-1413.
SplitByLang(s) ==
    LET pieces == SelectSeq(Split(s), LAMBDA a : a # <<>>)
    IN  FlattenSeq([n \in 1..Len(pieces) |-> LangRuns(Chars(pieces[n]), 1, 2)])

-----------------------------------------------------------------------------
(* SentenceSplitter, lines 621-660: pattern  *[\.\?!]['"\)\]]* *  under   *)
(* PCRE2_UTF.  A sentence is the text up to the end of a match; a match   *)
(* at the very start of the remaining text is dropped.                    *)

Terminal == {46, 63, 33}
Closer == {39, 34, 41, 93}

RECURSIVE SkipIn(_, _, _)
SkipIn(s, i, set) == IF i < Len(s) /\ At(s, i) \in set THEN SkipIn(s, i + 1, set) ELSE i

MatchesAt(s, p) == SkipIn(s, p, {32}) < Len(s) /\ At(s, SkipIn(s, p, {32})) \in Terminal

SentenceEnd(s, p) == SkipIn(s, SkipIn(s, SkipIn(s, p, {32}) + 1, Closer), {32})

RECURSIVE SentenceLoop(_, _)
SentenceLoop(s, start) ==
    IF start >= Len(s) THEN <<>>
    ELSE LET ps == {p \in start..(Len(s) - 1) : MatchesAt(s, p)}
         IN  IF ~ValidFrom(s, start) \/ ps = {} THEN <<Slice(s, start, Len(s))>>
             ELSE LET p == Min(ps)
                      e == SentenceEnd(s, p)
                  IN  (IF p > start THEN <<Slice(s, start, e)>> ELSE <<>>) \o SentenceLoop(s, e)

SentenceSplitter(s) == SentenceLoop(s, 0)

\* NLTKWordTokenizer::Tokenize on a sentence SentenceSplitter produces from
\* a normalised line: its words between spaces, with a last word ending in
\* a period after a non-period split into the word and ".".
RECURSIVE Words(_, _)
Words(s, i) ==
    IF i >= Len(s) THEN <<>>
    ELSE IF At(s, i) = 32 THEN Words(s, i + 1)
    ELSE LET e == SkipIn(s, i, (0..255) \ {32}) IN <<Slice(s, i, e)>> \o Words(s, e)

NLTKWords(s) ==
    LET w == Words(s, 0)
        l == w[Len(w)]
    IN  IF w # <<>> /\ Len(l) > 1 /\ l[Len(l)] = 46 /\ l[Len(l) - 1] # 46
        THEN Front(w) \o <<Front(l), <<46>>>>
        ELSE w

\* std::string::find(t, from): the first position from which t occurs, or -1.
Find(s, t, from) ==
    LET ps == {p \in from..(Len(s) - Len(t)) : SubSeq(s, p + 1, p + Len(t)) = t}
    IN  IF ps = {} THEN -1 ELSE Min(ps)

-----------------------------------------------------------------------------
(* The tokens of one run, lines 1828-1897, as [tok, term, pos] records.   *)
(* fm is final_pos_mapping and n the length of the line.                  *)

\* A term found at start..end of strline, lines 1842-1856.
Placed(t, start, end, fm, n) ==
    [tok |-> Stem(t), term |-> t,
     pos |-> IF start < Len(fm) THEN <<At(fm, start), At(fm, end)>> ELSE <<n, n>>]

\* The terms of one sentence starting at ss in strline.
RECURSIVE TermLoop(_, _, _, _, _, _)
TermLoop(sent, terms, search, ss, fm, n) ==
    IF terms = <<>> THEN <<>>
    ELSE LET t == Head(terms)
             p == Find(sent, t, search)
         IN  IF p = -1 THEN TermLoop(sent, Tail(terms), search, ss, fm, n)
             ELSE <<Placed(t, ss + p, ss + p + Len(t), fm, n)>>
                  \o TermLoop(sent, Tail(terms), p + Len(t), ss, fm, n)

\* Mutant: sentence_start_pos not advanced past a sentence.
RECURSIVE SentenceTermsNoAdvance(_, _, _, _)
SentenceTermsNoAdvance(sents, ss, fm, n) ==
    IF sents = <<>> THEN <<>>
    ELSE TermLoop(Head(sents), NLTKWords(Head(sents)), 0, ss, fm, n)
         \o SentenceTermsNoAdvance(Tail(sents), ss, fm, n)

\* The sentences of a non-Chinese run starting at base, lines 1831-1860.
RECURSIVE SentenceTerms(_, _, _, _)
SentenceTerms(sents, ss, fm, n) ==
    IF sents = <<>> THEN <<>>
    ELSE TermLoop(Head(sents), NLTKWords(Head(sents)), 0, ss, fm, n)
         \o SentenceTerms(Tail(sents), ss + Len(Head(sents)), fm, n)

\* A short run as one token, lines 1868-1879.
Whole(L, base, fm, n) ==
    [tok |-> L, term |-> L,
     pos |-> IF base < Len(fm) /\ base + Len(L) < Len(fm)
             THEN <<At(fm, base), At(fm, base + Len(L))>> ELSE <<n, n>>]

\* pattern2_ [a-zA-Z\.-]+$ and pattern3_ [0-9\.-]+$ (rag_analyzer.h 162-164),
\* matched anywhere: the run ends in a character of the class.
EndsIn(L, cls) == L # <<>> /\ L[Len(L)] \in cls

ShortRun(L) ==
    \/ Len(Chars(L)) < 2
    \/ EndsIn(L, (97..122) \cup (65..90) \cup {46, 45})
    \/ EndsIn(L, (48..57) \cup {46, 45})

\* Every way of cutting a sequence of characters into tokens.
RECURSIVE Cuts(_)
Cuts(cs) ==
    IF cs = <<>> THEN {<<>>}
    ELSE UNION { { <<FlattenSeq(SubSeq(cs, 1, m))>> \o rest : rest \in Cuts(SubSeq(cs, m + 1, Len(cs))) }
                 : m \in 1..Len(cs) }

\* The tokens of a cut from base with the mapping of lines 1966-1973:
\* an index past the map gives 0.
RECURSIVE Mapped(_, _, _)
Mapped(toks, start, fm) ==
    IF toks = <<>> THEN <<>>
    ELSE LET t == Head(toks)
             e == start + Len(t)
         IN  <<[tok |-> t, term |-> t,
                pos |-> <<IF start < Len(fm) THEN At(fm, start) ELSE 0,
                          IF e < Len(fm) THEN At(fm, e) ELSE 0>>]>>
             \o Mapped(Tail(toks), e, fm)

-----------------------------------------------------------------------------
(* MergeWithPosition, lines 1315-1360.                                     *)

\* re2::RE2::PartialMatch(tk, regex_split_pattern_) && Freq(tk) > 0
Mergeable(tk) ==
    /\ \E c \in ToSet(Chars(tk)) : InClass(c, PunctClass \cup WordClass)
    /\ tk \in MergeWords

Joined(ts, s, e) == FlattenSeq([m \in 1..(e - s) |-> ts[s + m].tok])

\* Mutant: the merge window starting one token later.
MergeEndFrom3(ts, s) ==
    LET es == {e \in (s + 3)..(Min({Len(ts) + 1, s + 6}) - 1) : Mergeable(Joined(ts, s, e))}
    IN  IF es = {} THEN s + 1 ELSE Max(es)

\* The largest e in s+2 .. min(n+1, s+6)-1 whose join is mergeable, or s+1.
MergeEnd(ts, s) ==
    LET es == {e \in (s + 2)..(Min({Len(ts) + 1, s + 6}) - 1) : Mergeable(Joined(ts, s, e))}
    IN  IF es = {} THEN s + 1 ELSE Max(es)

RECURSIVE MergeLoop(_, _)
MergeLoop(ts, s) ==
    IF s >= Len(ts) THEN <<>>
    ELSE LET e == MergeEnd(ts, s)
         IN  <<[tok |-> Joined(ts, s, e), term |-> Joined(ts, s, e),
                pos |-> <<ts[s + 1].pos[1], ts[e].pos[2]>>]>>
             \o MergeLoop(ts, e)

MergeWithPosition(ts) ==
    MergeLoop(SelectSeq(ts, LAMBDA r : r.tok # <<>> /\ r.tok # <<32>>), 0)

-----------------------------------------------------------------------------
(* Tokenize (lines 1703-1761), the plain path, on the same normalised    *)
(* line: every NLTK term is pushed (no find), a short Chinese run whole,  *)
(* a longer one through TokenizeInner (the same cut as the position path, *)
(* see Segmenter!InnerCopiesAgree); then Join(res, 0) and Merge.          *)

\* Lines 1716-1732: the stemmed NLTK terms of every sentence of L.
PlainTerms(L) ==
    LET sents == SentenceSplitter(L)
        Stemmed(w) == [m \in DOMAIN w |-> Stem(w[m])]
    IN  FlattenSeq([n \in DOMAIN sents |-> Stemmed(NLTKWords(sents[n]))])

\* Join (lines 134-142): the strings with d between them.
JoinWith(ts, d) ==
    IF ts = <<>> THEN <<>> ELSE FoldLeft(LAMBDA acc, t : acc \o d \o t, ts[1], Tail(ts))

\* Replace(replace_space_pattern_, " ", tks) then Split(tks, blank_pattern_)
\* (lines 107-131): the maximal runs of non-blank bytes.
BlankTokens(s) == Words(s, 0)

\* The merge loop of Merge (lines 1294-1310) over strings.
RECURSIVE MergeStringLoop(_, _)
MergeStringLoop(ts, s) ==
    IF s >= Len(ts) THEN <<>>
    ELSE LET es == {e \in (s + 2)..(Min({Len(ts) + 1, s + 6}) - 1) : Mergeable(FlattenSeq(SubSeq(ts, s + 1, e)))}
             e == IF es = {} THEN s + 1 ELSE Max(es)
         IN  <<FlattenSeq(SubSeq(ts, s + 1, e))>> \o MergeStringLoop(ts, e)

\* RAGAnalyzer::Merge, lines 1286-1313.
MergeString(tks) == JoinWith(MergeStringLoop(BlankTokens(tks), 0), <<32>>)

-----------------------------------------------------------------------------
(* TokenizeWithPosition, one step per run of SplitByLang.                  *)

Init ==
    /\ line \in Lines
    /\ stage = "replace"
    /\ processed = <<>> /\ pcreMap = <<>> /\ str1 = <<>> /\ readMax = -1
    /\ strline = <<>> /\ final = <<>> /\ arr = <<>> /\ k = 1 /\ cur = 0 /\ out = <<>>
    /\ res = <<>> /\ ret = <<>>

\* Line 1766: auto [processed_line, pcre2_pos_mapping] =
\* PCRE2GlobalReplaceWithPosition(line, "\\W+", " ").
Replace ==
    /\ stage = "replace"
    /\ processed' = PCRE2GlobalReplaceWithPosition(line)[1]
    /\ pcreMap' = PCRE2GlobalReplaceWithPosition(line)[2]
    /\ stage' = "q2b"
    /\ UNCHANGED <<line, str1, readMax, strline, final>> /\ UNCHANGED runVars

\* Line 1768: std::string str1 = StrQ2B(processed_line), whatever the
\* bytes past the end of the string hold.
ToHalfwidth ==
    /\ stage = "q2b"
    /\ \E g \in Garbage :
         /\ str1' = StrQ2B(processed, g)[1]
         /\ readMax' = StrQ2B(processed, g)[2]
    /\ stage' = "convert"
    /\ UNCHANGED <<line, processed, pcreMap, strline, final>> /\ UNCHANGED runVars

\* Line 1770: opencc_->convert(str1, strline); the result is not
\* checked, and strline stays empty when convert fails.
OpenCC ==
    /\ stage = "convert"
    /\ strline' = OpenCCConvert(str1)[2]
    /\ stage' = "map"
    /\ UNCHANGED <<line, processed, pcreMap, str1, readMax, final>> /\ UNCHANGED runVars

\* Lines 1774-1806: the two BuildPositionMapping calls and their
\* composition with pcre2_pos_mapping into final_pos_mapping.
Map ==
    /\ stage = "map"
    /\ final' = Compose(strline, BuildPositionMapping(str1, strline),
                         BuildPositionMapping(processed, str1), pcreMap, Len(line))
    /\ stage' = "split"
    /\ UNCHANGED <<line, processed, pcreMap, str1, readMax, strline>> /\ UNCHANGED runVars

\* Lines 1809-1812.
SplitStep ==
    /\ stage = "split"
    /\ arr' = SplitByLang(strline)
    /\ k' = 1 /\ cur' = 0
    /\ stage' = "runs"
    /\ UNCHANGED <<line, out, res, ret>> /\ UNCHANGED normVars

Run == arr[k][1]
Zh == arr[k][2]

InRuns == stage = "runs" /\ k <= Len(arr)

\* Lines 1814-1822: an empty run, or one strline.find cannot find from
\* current_pos, is skipped.  The runs tile strline (RunsTileLine),
\* so the skip is never taken and is left to the guard of the steps below.
Found == Run # <<>> /\ Find(strline, Run, cur) # -1

\* Mutant: current_pos advanced one byte too far.
EnglishRunOffByOne ==
    /\ InRuns /\ Found /\ ~Zh
    /\ out' = out \o SentenceTerms(SentenceSplitter(Run), cur, final, Len(line))
    /\ res' = res \o PlainTerms(Run)
    /\ cur' = cur + Len(Run) + 1
    /\ k' = k + 1
    /\ UNCHANGED <<line, stage, arr, ret>> /\ UNCHANGED normVars

\* Lines 1824-1865: a non-Chinese run.
EnglishRun ==
    /\ InRuns /\ Found /\ ~Zh
    /\ out' = out \o SentenceTerms(SentenceSplitter(Run), cur, final, Len(line))
    /\ res' = res \o PlainTerms(Run)
    /\ cur' = cur + Len(Run)
    /\ k' = k + 1
    /\ UNCHANGED <<line, stage, arr, ret>> /\ UNCHANGED normVars

\* Lines 1867-1879: a Chinese run of one character, or one pattern2_ or
\* pattern3_ matches.
ShortChineseRun ==
    /\ InRuns /\ Found /\ Zh /\ ShortRun(Run)
    /\ out' = Append(out, Whole(Run, cur, final, Len(line)))
    /\ res' = Append(res, Run)
    /\ cur' = cur + Len(Run)
    /\ k' = k + 1
    /\ UNCHANGED <<line, stage, arr, ret>> /\ UNCHANGED normVars

\* Line 1893: TokenizeInnerWithPosition(L, tokens, positions, original_start,
\* &final_pos_mapping).
ChineseRun ==
    /\ InRuns /\ Found /\ Zh /\ ~ShortRun(Run)
    /\ \E toks \in Cuts(Chars(Run)) : out' = out \o Mapped(toks, cur, final) /\ res' = res \o toks
    /\ cur' = cur + Len(Run)
    /\ k' = k + 1
    /\ UNCHANGED <<line, stage, arr, ret>> /\ UNCHANGED normVars

\* Lines 1901-1909.
Merge ==
    /\ stage = "runs" /\ k > Len(arr)
    /\ out' = MergeWithPosition(out)
    /\ ret' = MergeString(JoinWith(res, <<32>>))
    /\ stage' = "done"
    /\ UNCHANGED <<line, arr, k, cur, res>> /\ UNCHANGED normVars

\* The result is returned.
Done == stage = "done" /\ UNCHANGED vars

Next == Replace \/ ToHalfwidth \/ OpenCC \/ Map \/ SplitStep \/ EnglishRun \/ ShortChineseRun
        \/ ChineseRun \/ Merge \/ Done

Spec == Init /\ [][Next]_vars

-----------------------------------------------------------------------------
(* Properties. *)

NormStages == {"replace", "q2b", "convert", "map"}

\* Normalisation has produced strline and final_pos_mapping.
Normalised == stage \notin NormStages

ByteSeq(s) == s \in Seq(0..255)

NatSeq(s) == \A i \in DOMAIN s : s[i] \in Nat

TypeOK ==
    /\ ByteSeq(line)
    /\ stage \in NormStages \cup {"split", "runs", "done"}
    /\ ByteSeq(processed) /\ ByteSeq(str1) /\ ByteSeq(strline)
    /\ readMax \in -1..(Len(processed) + 2)
    /\ NatSeq(pcreMap) /\ NatSeq(final)
    /\ cur \in 0..(Len(strline))
    /\ k \in 1..(Len(arr) + 1)
    /\ \A m \in DOMAIN out : out[m].pos \in Nat \X Nat

\* spec.md 7, offset coverage and monotonicity: every returned token has
\* 0 <= start <= end <= |line|, and the starts never decrease.
OffsetsOrdered ==
    stage = "done" =>
        /\ \A m \in DOMAIN out : out[m].pos[1] <= out[m].pos[2] /\ out[m].pos[2] <= Len(line)
        /\ \A m \in 1..(Len(out) - 1) : out[m].pos[1] <= out[m + 1].pos[1]

\* The runs of SplitByLang tile strline, and the run TokenizeWithPosition
\* handles starts at current_pos: the offset the code computes by adding
\* up run lengths (it ignores the position strline.find returns) is where
\* the run is.
RunsTileLine ==
    stage = "runs" =>
        /\ FlattenSeq([m \in DOMAIN arr |-> arr[m][1]]) = strline
        /\ (k <= Len(arr) => Find(strline, Run, cur) = cur)

AsciiText(t) == t # <<>> /\ \A m \in DOMAIN t : t[m] < 128

\* Before merging, a term made of ASCII bytes lies in the line where its
\* offsets say: the position SentenceSplitter and the NLTK loop give a term
\* is where its text is.
TermSpansSource ==
    stage = "runs" /\ k > Len(arr) =>
        \A m \in DOMAIN out :
            AsciiText(out[m].term) =>
                /\ out[m].pos[1] + Len(out[m].term) <= Len(line)
                /\ SubSeq(line, out[m].pos[1] + 1, out[m].pos[1] + Len(out[m].term)) = out[m].term

\* The final_pos_mapping TokenizeWithPosition places tokens by is
\* non-decreasing, stays within the line, and ends at |line|: a token's
\* start never lies after the start of a later token nor past the line.
FinalMappingOrdered ==
    Normalised =>
        /\ Len(final) = Len(strline) + 1
        /\ final[Len(final)] = Len(line)
        /\ \A i \in 1..(Len(final) - 1) : final[i] <= final[i + 1]

AsciiWord(b) == (b >= 48 /\ b <= 57) \/ (b >= 65 /\ b <= 90) \/ (b >= 97 /\ b <= 122)

\* For a well-formed line, every ASCII letter or digit of the normalised
\* line is mapped back through the three conversions to the character it
\* came from: the same letter, or its full-width form.
SourceCharMaps ==
    (Normalised /\ ValidFrom(line, 0)) =>
        \A i \in 0..(Len(strline) - 1) :
            AsciiWord(At(strline, i)) =>
                /\ At(final, i) < Len(line)
                /\ Cp(line, At(final, i)) \in {At(strline, i), At(strline, i) + 65248}

\* spec.md 7: StrQ2B reads no byte past the terminator of processed_line.
NoReadPastEnd == readMax <= Len(processed)

\* spec.md 7: invalid bytes do not abort tokenisation.  The converted line
\* is empty only when StrQ2B's output was empty.
ConversionKeepsText == (stage \notin {"replace", "q2b", "convert"} /\ str1 # <<>>) => strline # <<>>

\* The codepoints opencc_convert_utf8 hands to converter_convert.
CcInput == UntilZero(Ucs4(CStr(str1), 0, <<>>).cps)

\* converter.c's shortest-path segmentation: the pieces segment and sp_seg
\* convert str1 in are a cut into dictionary keys and single codepoints
\* with the fewest pieces, even where the longest match first would take
\* more.
ConversionShortestPath ==
    (Normalised /\ Ucs4(CStr(str1), 0, <<>>).ok) =>
        Segment(CcInput).pieces = MinPieces(CcInput)

\* AnalyzeImpl without positions and fine_grained unset (lines 2406-2423):
\* the string Tokenize returns is split at blanks, and the non-empty pieces
\* are reported in order (offset counts them).
AnalyzePlain(r) == SelectSeq(BlankTokens(r), LAMBDA t : t # <<>>)

\* spec.md 8, consistency of tokenize and tokenize_with_position: the
\* tokens AnalyzeImpl reports from Tokenize's string are the token texts
\* TokenizeWithPosition returns for the same line.  The two paths push
\* different things (every NLTK term against only the found ones, runs of
\* tokens joined by blanks against single tokens) and merge with two
\* copies of the merge loop.
TokenizeConsistent == stage = "done" => AnalyzePlain(ret) = [m \in DOMAIN out |-> out[m].tok]
====
