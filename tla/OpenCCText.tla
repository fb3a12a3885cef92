----------------------------- MODULE OpenCCText -----------------------------
(***************************************************************************)
(* OpenCC's text dictionaries (opencc/dictionary/text.c): a TEXT line of   *)
(* the configuration names a file of lines "key<TAB>value value ...",      *)
(* which dictionary_text_open reads with fgets into a buffer of            *)
(* ENTRY_BUFF_SIZE bytes, parses with parse_entry and sorts for bsearch.   *)
(* Module OpenCCConfig calls TextOpen from dictionary_group_load.          *)
(*                                                                         *)
(* A file is a sequence of bytes (0..255) without 0; a key and a value are *)
(* sequences of codepoints, decoded by utf8_to_ucs4 as module NormalizeOps *)
(* models it.  The lexicon is kept in file order: qsort only serves        *)
(* bsearch, which is modelled by what it finds, any entry of equal key.    *)
(***************************************************************************)
EXTENDS Integers, Sequences, SequencesExt, FiniteSets

LOCAL Enc == INSTANCE NormalizeOps WITH NonWord <- {}, Group <- << <<>> >>

TAB == 9
SP  == 32
CR  == 13
NL  == 10

\* text.c 23: the fgets buffer, so a line holds at most 127 bytes.
ENTRY_BUFF_SIZE == 128

\* utf8_to_ucs4(p, length) on the bytes of b from position i (1-based);
\* length 0 means "up to the terminating 0", the rest of the buffer.
Decode(b, i, length) ==
    Enc!Ucs4(SubSeq(b, i, IF length = 0 THEN Len(b) ELSE i + length - 1), 0, <<>>)

\* A field decoded to d: parse_entry gives it malloc((length + 1) *
\* sizeof(ucs4_t)) and ucs4cpy's the decoding into it, writing past the
\* block when the decoding is longer.
FieldOf(d, length) == [ok |-> d.ok, cps |-> d.cps, overflow |-> d.ok /\ Len(d.cps) > length]

Field(b, i, length) == FieldOf(Decode(b, i, length), length)

\* The first position from i whose byte is in stops, or Len(b) + 1 (the 0).
ScanTo(b, i, stops) == Min({k \in i..Len(b) : b[k] \in stops} \cup {Len(b) + 1})

\* A finite set of integers in ascending order: its m-th element has m - 1
\* smaller ones.
Ascending(S) == [m \in 1..Cardinality(S) |-> CHOOSE k \in S : Cardinality({j \in S : j < k}) = m - 1]

\* The fields of parse_entry's value loop, each starting after a separator
\* of seps and ending at the next one or at e.
Fields(b, seps, e) ==
    [n \in DOMAIN seps |->
        Field(b, seps[n] + 1, (IF n < Len(seps) THEN seps[n + 1] ELSE e) - seps[n] - 1)]

ValuesOf(vs) ==
    [ok       |-> \A n \in DOMAIN vs : vs[n].ok,
     values   |-> [n \in DOMAIN vs |-> vs[n].cps],
     overflow |-> \E n \in DOMAIN vs : vs[n].overflow]

\* parse_entry's value loop (lines 55-87): pbuff starts at the tab t; while
\* it is not at the end or a newline, the next field runs from pbuff + 1 to
\* a space, newline or the end.  So the fields start after the tab and
\* after each space before the first newline e.  A field that fails to
\* decode fails the entry.
ValueLoopTo(b, t, e) ==
    ValuesOf(Fields(b, <<t>> \o Ascending({k \in (t + 1)..(e - 1) : b[k] = SP}), e))

ValueLoop(b, t) == ValueLoopTo(b, t, ScanTo(b, t + 1, {NL}))

EntryOf(k, r) ==
    IF ~k.ok \/ ~r.ok THEN [ok |-> FALSE]
    ELSE [ok |-> TRUE, key |-> k.cps, values |-> r.values, overflow |-> k.overflow \/ r.overflow]

EntryAt(b, t) ==
    IF t > Len(b) THEN [ok |-> FALSE] ELSE EntryOf(Field(b, 1, t - 1), ValueLoop(b, t))

\* parse_entry (lines 36-88): the key runs to the first tab; a buffer with
\* no tab, or a key that fails to decode, fails the entry.
ParseEntry(b) == EntryAt(b, ScanTo(b, 1, {TAB}))

\* fgets(buff, ENTRY_BUFF_SIZE, fp): the next piece of the file ends after
\* a newline or after ENTRY_BUFF_SIZE - 1 bytes, whichever comes first.
RECURSIVE Cut(_, _), CutAt(_, _, _)
Cut(rest, acc) ==
    IF rest = <<>> THEN acc
    ELSE CutAt(rest, acc, Min({ENTRY_BUFF_SIZE - 1, Len(rest), ScanTo(rest, 1, {NL})}))

\* The piece ends at position n (a newline, or the last byte fgets takes).
CutAt(rest, acc, n) ==
    Cut(SubSeq(rest, n + 1, Len(rest)), Append(acc, SubSeq(rest, 1, n)))

Chunks(f) == Cut(f, <<>>)

\* dictionary_text_open (lines 90-135): every piece is an entry; one that
\* fails to parse fails the whole dictionary (-1), whatever comes after.
\* max_length is the longest key.
OpenOf(es) ==
    IF \E n \in DOMAIN es : ~es[n].ok
    THEN [ok |-> FALSE, lexicon |-> <<>>, maxLength |-> 0, overflow |-> FALSE]
    ELSE [ok        |-> TRUE,
          lexicon   |-> [n \in DOMAIN es |-> [key |-> es[n].key, values |-> es[n].values]],
          maxLength |-> Max({0} \cup {Len(es[n].key) : n \in DOMAIN es}),
          overflow  |-> \E n \in DOMAIN es : es[n].overflow]

ParseAll(C) == [n \in DOMAIN C |-> ParseEntry(C[n])]

TextOpen(f) == OpenOf(ParseAll(Chunks(f)))

\* word_buff after ucs4ncpy(word_buff, word, L) (encoding.c 227-230, text.c
\* 168): the word's codepoints up to L; ucs4ncpy stops at the word's end
\* without a terminator, so positions past it keep stale, what an earlier
\* query (or malloc) left there.  word_buff[L] = 0 ends the buffer at L.
WordBuff(word, L, stale) == [k \in 1..L |-> IF k <= Len(word) THEN word[k] ELSE stale[k]]

\* The key bsearch compares for length len: word_buff after
\* word_buff[len] = 0, a C string ending at its first 0.
CKey(buf, len) == SubSeq(buf, 1, ScanTo(SubSeq(buf, 1, len), 1, {0}) - 1)

\* The lengths at which some key equals the buffer's C string.
KeyLengths(d, buf) ==
    { len \in 1..Len(buf) : \E e \in ToSet(d.lexicon) : e.key = CKey(buf, len) }

\* The loop of lines 174-184 stops at the greatest such length and returns
\* it as match_length with the values of the entry bsearch finds, any of
\* an equal key.  An empty dictionary, or no hit: NULL, match_length 0.
LongestOf(d, buf, lens) ==
    IF d.lexicon = <<>> \/ lens = {} THEN {[len |-> 0, values |-> <<>>]}
    ELSE { [len |-> Max(lens), values |-> e.values] :
           e \in { e \in ToSet(d.lexicon) : e.key = CKey(buf, Max(lens)) } }

MatchIn(d, buf) == LongestOf(d, buf, KeyLengths(d, buf))

\* Mutant: the word is cut at max_length only, maxlen ignored.
TextMatchNoClamp(d, word, maxlen, stale) == MatchIn(d, WordBuff(word, d.maxLength, stale))

\* dictionary_text_match_longest (lines 156-189): maxlen 0 means the word's
\* length; len = min(max_length, maxlen) codepoints are copied into
\* word_buff (whose earlier contents are stale) and shortened until bsearch
\* finds a key.  The set of possible <<match_length, value list>>.
TextMatchLongest(d, word, maxlen, stale) ==
    MatchIn(d, WordBuff(word, Min({d.maxLength, IF maxlen = 0 THEN Len(word) ELSE maxlen}), stale))

\* dictionary_text_get_all_match_lengths (lines 191-220): the copy is
\* clamped to ucs4len(word), so no stale codepoint is read.
TextAllMatchLengths(d, word) == KeyLengths(d, WordBuff(word, Min({d.maxLength, Len(word)}), <<>>))

-----------------------------------------------------------------------------
(* Reference: what a text dictionary file says, read line by line.        *)

\* s cut at the positions cuts (0 and Len(s) + 1 at the ends).
SplitAt(s, cuts) == [m \in 1..(Len(cuts) - 1) |-> SubSeq(s, cuts[m] + 1, cuts[m + 1] - 1)]

\* s cut at every byte c.
SplitOn(s, c) == SplitAt(s, <<0>> \o Ascending({k \in DOMAIN s : s[k] = c}) \o <<Len(s) + 1>>)

FileLines(f) == Front(SplitOn(f, NL))

RefKey(l)    == Decode(SubSeq(l, 1, ScanTo(l, 1, {TAB}) - 1), 1, 0)
RefFields(l) == SplitOn(SubSeq(l, ScanTo(l, 1, {TAB}) + 1, Len(l)), SP)

\* A line "key<TAB>value value ..." with its tab at t: it fits the fgets
\* buffer with its newline, has no carriage return, and its key and every
\* value are non-empty and valid UTF-8.
LineOK(l, t, fs) ==
    /\ Len(l) + 1 <= ENTRY_BUFF_SIZE - 1
    /\ CR \notin ToSet(l)
    /\ t \in 2..Len(l)
    /\ Decode(SubSeq(l, 1, t - 1), 1, 0).ok
    /\ \A n \in DOMAIN fs : fs[n] # <<>> /\ Decode(fs[n], 1, 0).ok

\* Well-formed lines, no key repeated.
LinesOK(ls) ==
    /\ \A m \in DOMAIN ls : LineOK(ls[m], ScanTo(ls[m], 1, {TAB}), RefFields(ls[m]))
    /\ \A m, n \in DOMAIN ls : m # n => RefKey(ls[m]).cps # RefKey(ls[n]).cps

\* A file as its format intends it: lines ending in a newline, each
\* well-formed, no key repeated.
WellFormed(f) == f # <<>> /\ Last(f) = NL /\ LinesOK(FileLines(f))

EntryFrom(key, fs) == [key |-> key, values |-> [n \in DOMAIN fs |-> Decode(fs[n], 1, 0).cps]]

\* The entries of a well-formed file.
RefEntries(f) == { EntryFrom(RefKey(l).cps, RefFields(l)) : l \in ToSet(FileLines(f)) }

\* The longest of hits, and its values.
RefBest(hits) ==
    IF hits = {} THEN [len |-> 0, values |-> <<>>]
    ELSE [len |-> Max({Len(e.key) : e \in hits}),
          values |-> (CHOOSE e \in hits : \A o \in hits : Len(o.key) <= Len(e.key)).values]

\* The longest key of the file that begins word within maxlen (0: no
\* limit) codepoints, and its values.
RefMatch(f, word, maxlen) ==
    RefBest({ e \in RefEntries(f) :
                Len(e.key) \in 1..(IF maxlen = 0 THEN Len(word) ELSE Min({maxlen, Len(word)}))
                /\ IsPrefix(e.key, word) })

\* The lengths of all keys of the file that begin word.
RefMatchLengths(f, word) ==
    { Len(e.key) : e \in { e \in RefEntries(f) : e.key # <<>> /\ IsPrefix(e.key, word) } }

====
