----------------------------- MODULE Dictionary -----------------------------
(***************************************************************************)
(* The dictionary bundle of the analyzer: the POS table (darts_trie.cpp    *)
(* POSTable), the trie wrapper (DartsTrie) and RAGAnalyzer::Load, which    *)
(* either loads the double-array trie from the cache file rag/huqie.trie   *)
(* or builds it from rag/huqie.txt and saves it there.  Cells are packed   *)
(* by the codec of module PackedValue.                                     *)
(*                                                                         *)
(* The files of the bundle are durable; everything Load builds in memory   *)
(* is volatile and is lost when the process crashes.  A process may crash  *)
(* at any step of Load, including in the middle of writing the cache, and  *)
(* is then launched again; between launches the dictionary file may be     *)
(* edited and the cache file removed.  Each launch calls Load once.        *)
(*                                                                         *)
(* A word is a model value or string; a trie key is a record naming the    *)
(* forward word or its reversed "DD" shadow (RKey), which keeps the two    *)
(* namespaces apart as the "DD" prefix does.  A POS tag is a positive      *)
(* integer, the integers' order standing for the tags' string order; 0 is  *)
(* a blank line of pos-id.def.  The frequency conversion log(raw/1e6) is   *)
(* given by the table LnMilli (1000 * ln(raw / 1e6), rounded), and the     *)
(* code's "+ 0.5 then int32_t" step is modelled exactly on top of it.      *)
(***************************************************************************)
EXTENDS Integers, Sequences, SequencesExt, FiniteSets, PackedValue, Lemmatizer, OpenCCConfig

CONSTANTS
    Words,        \* the words dictionary lines may hold
    LowerOf,      \* Words -> Words: ToLowerString of a word
    DictVersions, \* the contents rag/huqie.txt may have (sequences of Entry)
    PosLines,     \* the lines of rag/pos-id.def (tags; 0 = blank line)
    Bundles,      \* which of the other resource files exist
    LnMilli,      \* raw frequency -> 1000 * ln(raw / 1e6), rounded
    MaxStarts,    \* how many times the process is launched
    WnIndex,      \* part of speech -> the lemmas of wordnet/index.<pos>
    WnExc,        \* part of speech -> the map of wordnet/<pos>.exc
    LemmaWords,   \* English terms the analyzer hands to Lemmatize
    TextWords     \* codepoint sequences OpenCC looks up in a text dictionary

\* A line of huqie.txt: its word, raw frequency, tag and how many fields
\* Split found (0 for a blank line).
Entry == [word : Words, raw : DOMAIN LnMilli \cup {0}, tag : Nat, fields : {0, 2, 3}]

ASSUME /\ \A v \in DictVersions : v \in Seq(Entry)
       /\ LowerOf \in [Words -> Words]
       /\ \A b \in Bundles :
            /\ {b.dict, b.pos, b.wordnet, b.opencc} \subseteq BOOLEAN
            /\ b.wnIndex \subseteq FilePOS /\ b.wnExc \subseteq FilePOS
            /\ \A f \in DOMAIN b.ocd : b.ocd[f] \in {"ok", "corrupt", "absent"}
            /\ \A f \in DOMAIN b.text : b.text[f] \in Seq(1..255)
       /\ MaxStarts \in Nat \ {0}

VARIABLES
    files,      \* which resource files exist (durable)
    dictFile,   \* the lines of rag/huqie.txt (durable)
    trieFile,   \* rag/huqie.trie: [state : {"absent","complete","partial"}, map]
    pc,         \* the step of Load the process is at
    posMap,     \* POSTable::pos_map_ (tag -> index)
    posVec,     \* POSTable::pos_vec_
    buffer,     \* DartsTrie::buffer_ (sequence of <<key, value>>)
    trie,       \* the darts array: [ok : BOOLEAN, map : key -> value]
    trieFrom,   \* where trie came from in this launch: "none", "build", "cache"
    lineNo,     \* the next line of huqie.txt to read
    result,     \* <<r>> once Load returned r in this launch, <<>> before
    starts,     \* launches so far
    lemmatizer, \* <<wordnet_lemma_'s tables>>, <<>> before it is constructed
    od          \* <<opencc_'s od: its groups, or not ok>>, <<>> before

vars == <<files, dictFile, trieFile, pc, posMap, posVec, buffer, trie,
          trieFrom, lineNo, result, starts, lemmatizer, od>>

\* int32_t(x) truncates toward zero.
TruncDiv(a, b) == IF a >= 0 THEN a \div b ELSE -((-a) \div b)

\* freq = int32_t(std::log(float(freq) / DENOMINATOR) + 0.5); log(0) is
\* -inf and its conversion to int32_t yields INT_MIN on the targets built.
FreqField(raw) == IF raw = 0 THEN IntMin ELSE TruncDiv(LnMilli[raw] + 500, 1000)

-----------------------------------------------------------------------------
(* Trie keys and the POS table.                                            *)

Fwd(w) == [ns |-> "fwd", w |-> w]

RKey(w) == [ns |-> "rev", w |-> LowerOf[w]]

Key(w) == Fwd(LowerOf[w])

TrieKeys == {Fwd(w) : w \in Words} \cup {RKey(w) : w \in Words}

\* POSTable::Load: every non-blank line is a key of pos_map_, and the
\* indices are then assigned in the map's sorted order.
PosTags == {PosLines[n] : n \in DOMAIN PosLines} \ {0}

PosIndex(t) == Cardinality({u \in PosTags : u < t})

GetPOSIndex(pm, tag) == IF tag \in DOMAIN pm THEN pm[tag] ELSE -1

\* table_size_ is initialised to 0 and never assigned.
TableSize == 0

\* The empty string "" is written 0, the tag no line can hold.
GetPOS(pv, index) == IF index < 0 \/ index >= TableSize THEN 0 ELSE pv[index + 1]

\* darts build: the sorted keys, each holding the value of one of its equal
\* entries (std::sort is not stable and the dawg keeps the first of equal
\* keys); a negative value makes the build throw.
Values(buf) == {buf[n][2] : n \in DOMAIN buf}

BuildsOf(buf) ==
    LET K == {buf[n][1] : n \in DOMAIN buf}
    IN  {m \in [K -> Values(buf)] :
            \A k \in K : \E n \in DOMAIN buf : buf[n] = <<k, m[k]>>}

Corrupt == [ok |-> FALSE, map |-> <<>>]

-----------------------------------------------------------------------------
Init ==
    /\ files \in Bundles
    /\ dictFile \in DictVersions
    /\ trieFile = [state |-> "absent", map |-> <<>>]
    /\ pc = "begin"
    /\ posMap = <<>>
    /\ posVec = <<>>
    /\ buffer = <<>>
    /\ trie = [ok |-> TRUE, map |-> <<>>]
    /\ trieFrom = "none"
    /\ lineNo = 1
    /\ result = <<>>
    /\ starts = 1
    /\ lemmatizer = <<>>
    /\ od = <<>>

Return(r) == pc' = "returned" /\ result' = <<r>>

\* Load, lines 682-699: a missing dictionary or POS file fails before
\* anything is allocated; otherwise own_dict_ is set and the trie and the
\* POS table are created.
Begin ==
    /\ pc = "begin"
    /\ IF files.dict /\ files.pos THEN pc' = "pos" /\ UNCHANGED result
                                  ELSE Return(-1)
    /\ UNCHANGED <<files, dictFile, trieFile, posMap, posVec, buffer, trie,
                   trieFrom, lineNo, starts, lemmatizer, od>>

\* Mutant: the second loop of POSTable::Load, which numbers the tags in
\* sorted order, is missing; every tag keeps index 0.
LoadPOSNoRenumber ==
    /\ pc = "pos"
    /\ posMap' = [t \in PosTags |-> 0]
    /\ posVec' = [n \in 1..Cardinality(PosTags) |-> CHOOSE t \in PosTags : PosIndex(t) = n - 1]
    /\ pc' = IF trieFile.state = "absent" THEN "parse" ELSE "cache"
    /\ UNCHANGED <<files, dictFile, trieFile, buffer, trie, trieFrom, lineNo,
                   result, starts, lemmatizer, od>>

\* Lines 700-710 with POSTable::Load: load the tag table, then take the
\* cache if the file exists and read the dictionary otherwise.
LoadPOS ==
    /\ pc = "pos"
    /\ posMap' = [t \in PosTags |-> PosIndex(t)]
    /\ posVec' = [n \in 1..Cardinality(PosTags) |-> CHOOSE t \in PosTags : PosIndex(t) = n - 1]
    /\ pc' = IF trieFile.state = "absent" THEN "parse" ELSE "cache"
    /\ UNCHANGED <<files, dictFile, trieFile, buffer, trie, trieFrom, lineNo,
                   result, starts, lemmatizer, od>>

\* Line 708 with DartsTrie::Load: darts open of the cache.  Its result is
\* ignored.  A file cut short by a crash either fails to open, leaving an
\* empty array whose lookups read through a null pointer, or maps a
\* truncated array; either way the trie is unusable.
LoadCache ==
    /\ pc = "cache"
    /\ trie' = IF trieFile.state = "complete"
                 THEN [ok |-> TRUE, map |-> trieFile.map] ELSE Corrupt
    /\ trieFrom' = "cache"
    /\ pc' = "wordnet"
    /\ UNCHANGED <<files, dictFile, trieFile, posMap, posVec, buffer, lineNo,
                   result, starts, lemmatizer, od>>

\* Mutant: blank lines are not skipped and fail the field count.
ParseLineNoSkip ==
    /\ pc = "parse"
    /\ lineNo <= Len(dictFile)
    /\ LET e == dictFile[lineNo] IN
       IF e.fields # 3
         THEN Return(-1) /\ UNCHANGED <<buffer, lineNo>>
         ELSE /\ buffer' = buffer \o
                    << <<Fwd(e.word), Encode(FreqField(e.raw), GetPOSIndex(posMap, e.tag))>>,
                       <<RKey(e.word), Encode(1, 0)>> >>
              /\ lineNo' = lineNo + 1
              /\ UNCHANGED <<pc, result>>
    /\ UNCHANGED <<files, dictFile, trieFile, posMap, posVec, trie, trieFrom, starts, lemmatizer, od>>

\* One iteration of the loop at lines 716-733: skip a blank line, throw on
\* a line without three fields (caught at 736: Load returns -1), otherwise
\* add the word with its packed value and its reversed shadow key.
ParseLine ==
    /\ pc = "parse"
    /\ lineNo <= Len(dictFile)
    /\ LET e == dictFile[lineNo] IN
       CASE e.fields = 0 ->
              lineNo' = lineNo + 1 /\ UNCHANGED <<buffer, pc, result>>
         [] e.fields # 3 ->
              Return(-1) /\ UNCHANGED <<buffer, lineNo>>
         [] OTHER ->
              /\ buffer' = buffer \o
                    << <<Fwd(e.word), Encode(FreqField(e.raw), GetPOSIndex(posMap, e.tag))>>,
                       <<RKey(e.word), Encode(1, 0)>> >>
              /\ lineNo' = lineNo + 1
              /\ UNCHANGED <<pc, result>>
    /\ UNCHANGED <<files, dictFile, trieFile, posMap, posVec, trie, trieFrom, starts, lemmatizer, od>>

\* Line 734 with DartsTrie::Build: sort, build the array, clear the buffer.
\* darts rejects a negative value by throwing, which 736 turns into -1.
Build ==
    /\ pc = "parse"
    /\ lineNo > Len(dictFile)
    /\ IF \E v \in Values(buffer) : Negative(v)
          THEN Return(-1) /\ UNCHANGED <<trie, trieFrom>>
          ELSE /\ \E m \in BuildsOf(buffer) : trie' = [ok |-> TRUE, map |-> m]
               /\ trieFrom' = "build"
               /\ pc' = "save"
               /\ UNCHANGED result
    /\ buffer' = <<>>
    /\ UNCHANGED <<files, dictFile, trieFile, posMap, posVec, lineNo, starts, lemmatizer, od>>

\* Line 739 with DartsTrie::Save: write the array to the cache path.
Save ==
    /\ pc = "save"
    /\ trieFile' = [state |-> "complete", map |-> trie.map]
    /\ pc' = "wordnet"
    /\ UNCHANGED <<files, dictFile, posMap, posVec, buffer, trie, trieFrom,
                   lineNo, result, starts, lemmatizer, od>>

\* Lines 742-748: a missing WordNet directory fails the load; otherwise
\* the lemmatizer is constructed, reading the index files in any order,
\* and Load goes on whatever the construction found.
LoadWordnet ==
    /\ pc = "wordnet"
    /\ IF files.wordnet
         THEN /\ pc' = "opencc"
              /\ \E order \in SetToSeqs(FilePOS) :
                   lemmatizer' = <<LoadLemmatizer(order, files.wnIndex, files.wnExc, WnIndex, WnExc)>>
              /\ UNCHANGED result
         ELSE Return(-1) /\ UNCHANGED lemmatizer
    /\ UNCHANGED <<files, dictFile, trieFile, posMap, posVec, buffer, trie,
                   trieFrom, lineNo, starts, od>>

\* Lines 750-763: a missing OpenCC directory fails the load; otherwise
\* OpenCC is constructed, which never throws whatever its configuration
\* and dictionaries hold, and Load returns 0.
LoadOpenCC ==
    /\ pc = "opencc"
    /\ IF files.opencc THEN Return(0) /\ od' = <<OpenCCOpen(files.config, files.ocd, files.text)>>
                      ELSE Return(-1) /\ UNCHANGED od
    /\ UNCHANGED <<files, dictFile, trieFile, posMap, posVec, buffer, trie,
                   trieFrom, lineNo, starts, lemmatizer>>

\* Mutant: a new launch keeps the line cursor of the previous one.
RelaunchNoLineReset ==
    /\ starts < MaxStarts
    /\ starts' = starts + 1
    /\ dictFile' \in DictVersions
    /\ pc' = "begin"
    /\ posMap' = <<>>
    /\ posVec' = <<>>
    /\ buffer' = <<>>
    /\ trie' = [ok |-> TRUE, map |-> <<>>]
    /\ trieFrom' = "none"
    /\ result' = <<>>
    /\ lemmatizer' = <<>>
    /\ od' = <<>>
    /\ UNCHANGED <<files, lineNo>>

\* A new launch: volatile state starts afresh; meanwhile the dictionary
\* may have been edited and the cache removed.
Relaunch ==
    /\ starts < MaxStarts
    /\ starts' = starts + 1
    /\ dictFile' \in DictVersions
    /\ pc' = "begin"
    /\ posMap' = <<>>
    /\ posVec' = <<>>
    /\ buffer' = <<>>
    /\ trie' = [ok |-> TRUE, map |-> <<>>]
    /\ trieFrom' = "none"
    /\ lineNo' = 1
    /\ result' = <<>>
    /\ lemmatizer' = <<>>
    /\ od' = <<>>
    /\ UNCHANGED files

\* The process exits after Load returned and is launched again.
Restart ==
    /\ pc = "returned"
    /\ Relaunch
    /\ trieFile' \in {trieFile, [state |-> "absent", map |-> <<>>]}

\* The process dies in the middle of Load, before it returned.
Crash ==
    /\ pc # "returned"
    /\ Relaunch
    /\ trieFile' \in {trieFile, [state |-> "absent", map |-> <<>>]}

\* The process dies while DartsTrie::Save writes the cache: the file is
\* left cut short.
CrashInSave ==
    /\ pc = "save"
    /\ Relaunch
    /\ trieFile' = [state |-> "partial", map |-> trie.map]

\* The last launch has returned; nothing more happens.
Done ==
    /\ pc = "returned"
    /\ starts = MaxStarts
    /\ UNCHANGED vars

Next ==
    \/ Begin \/ LoadPOS \/ LoadCache \/ ParseLine \/ Build \/ Save
    \/ LoadWordnet \/ LoadOpenCC
    \/ Restart \/ Crash \/ CrashInSave \/ Done

Spec == Init /\ [][Next]_vars

-----------------------------------------------------------------------------
(* Lookups on the loaded trie: DartsTrie::Get (-1 when absent) and         *)
(* RAGAnalyzer::Tag, lines 849-861.                                        *)

Get(k) == IF k \in DOMAIN trie.map THEN trie.map[k] ELSE Bits(-1)

Tag(w) ==
    LET v == Get(Key(w))
    IN  IF v = Bits(-1) THEN 0 ELSE GetPOS(posVec, DecodePOSIndex(v))

-----------------------------------------------------------------------------
(* Properties.                                                             *)

Lines == {n \in DOMAIN dictFile : dictFile[n].fields = 3}

\* What spec.md 4.4 asks of a bundle: every file present, every non-blank
\* line with three fields, a positive frequency and a tag of pos-id.def,
\* whose index (its rank in sorted order) fits the 8 POS bits.
BundleValid ==
    /\ files.dict /\ files.pos /\ files.wordnet /\ files.opencc
    /\ files.wnIndex = FilePOS /\ files.wnExc = FilePOS
    /\ files.config.present /\ ~Parse(files.config.lines).err
    /\ \A f \in DOMAIN files.ocd : files.ocd[f] = "ok"
    /\ \A n \in DOMAIN dictFile : dictFile[n].fields \in {0, 3}
    /\ \A n \in Lines : /\ dictFile[n].raw > 0
                        /\ dictFile[n].tag \in PosTags
                        /\ PosIndex(dictFile[n].tag) <= 255

TypeOK ==
    /\ files \in Bundles
    /\ dictFile \in DictVersions
    /\ trieFile.state \in {"absent", "complete", "partial"}
    /\ pc \in {"begin", "pos", "cache", "parse", "save", "wordnet", "opencc", "returned"}
    /\ posMap \in [PosTags -> Nat] \/ posMap = <<>>
    /\ buffer \in Seq(TrieKeys \X Cells)
    /\ trie.ok \in BOOLEAN
    /\ DOMAIN trie.map \subseteq TrieKeys
    /\ trieFrom \in {"none", "build", "cache"}
    /\ lineNo \in 1..(Len(dictFile) + 1)
    /\ result \in {<<>>, <<0>>, <<-1>>}
    /\ starts \in 1..MaxStarts
    /\ lemmatizer = <<>> \/ DOMAIN lemmatizer[1].exceptions \subseteq FilePOS \cup {ADJ_SAT}
    /\ od = <<>> \/ od[1].ok \in BOOLEAN

\* A trie that Load built in this launch holds exactly the words of the
\* dictionary file and their shadow keys; each word's cell decodes to the
\* frequency field and the sorted-order POS index of one of its lines,
\* and each shadow key holds Encode(1, 0).  This ties the POS table, the
\* codec, the parsing loop and the darts build together.
BuiltTrieMatchesSource ==
    trieFrom = "build" =>
        /\ DOMAIN trie.map = {Fwd(dictFile[n].word) : n \in Lines}
                              \cup {RKey(dictFile[n].word) : n \in Lines}
        /\ \A n \in Lines :
             LET w == dictFile[n].word IN
             /\ trie.map[RKey(w)] = Encode(1, 0)
             /\ \E m \in Lines :
                  /\ dictFile[m].word = w
                  /\ DecodeFreq(trie.map[Fwd(w)]) = FreqField(dictFile[m].raw)
                  /\ posVec[DecodePOSIndex(trie.map[Fwd(w)]) + 1] = dictFile[m].tag

\* Load returns -1 only for a bundle spec.md 4.4 and 7 call missing or
\* malformed: a file absent, or (when the trie is built rather than taken
\* from the cache) a line of the dictionary that is not valid.
LoadFailsOnlyOnInvalidBundle ==
    result = <<-1>> => ~BundleValid

\* spec.md 7: missing or malformed resource files and DAT cache corruption
\* surface as a single non-zero return from load, and no exception escapes
\* the engine.  So when Load returns 0 the trie is usable, Lemmatize
\* (called by Tokenize on every English term) throws on no term, and the
\* OpenCC converter (called on every line) converts.
LoadReportsBrokenBundle ==
    result = <<0>> =>
        /\ trie.ok
        /\ \A w \in LemmaWords : ~Lemmatize(w, lemmatizer[1]).thrown
        /\ ConverterWorks(od[1])

(* The reference for Lemmatize: NLTK's morphy stated over sets.  A form    *)
(* reached by k rule applications is at depth k; the form itself counts    *)
(* as depth 1.  The analyses of a part of speech are the listed base forms *)
(* of an exception entry, or else the lemmas at the least depth holding    *)
(* any.  Every rule but men -> man shortens the form, and nothing follows  *)
(* man, so no chain is longer than the word plus one.                      *)
RECURSIVE RuleLevel(_, _, _)
RuleLevel(w, p, k) ==
    IF k = 0 THEN {w}
    ELSE UNION {{SubSeq(f, 1, Len(f) - Len(r[1])) \o r[2] :
                   r \in {rr \in ToSet(MORPHOLOGICAL_SUBSTITUTIONS[p]) : EndsWith(f, rr[1])}} :
                 f \in RuleLevel(w, p, k - 1)}

RefAnalyses(w, p) ==
    IF w \in DOMAIN WnExc[p]
    THEN (ToSet(WnExc[p][w]) \cup {w}) \cap WnIndex[p]
    ELSE LET Near(k) == IF k = 1 THEN RuleLevel(w, p, 0) \cup RuleLevel(w, p, 1)
                                 ELSE RuleLevel(w, p, k)
             hits    == {k \in 1..(Len(w) + 1) : Near(k) \cap WnIndex[p] # {}}
         IN  IF hits = {} THEN {} ELSE Near(Min(hits)) \cap WnIndex[p]

\* spec.md 6.3 and 4.4: with a complete WordNet bundle, Lemmatize of a term
\* is a nearest lemma of the first part of speech, in the order n, v, a,
\* r, that has one, and the term itself when none has.  This ties the
\* construction of lemmas_ and exceptions_ (files read in any order, the
\* ADJ_SAT alias) to Morphy's rule levels, its exception short-cut and its
\* loop, and to Lemmatize's walk over the parts of speech.
LemmatizeFindsNearestLemma ==
    (lemmatizer # <<>> /\ files.wnIndex = FilePOS /\ files.wnExc = FilePOS) =>
        \A w \in LemmaWords :
            LET r    == Lemmatize(w, lemmatizer[1])
                with == {k \in 1..Len(POS_LIST) : RefAnalyses(w, POS_LIST[k]) # {}}
            IN  /\ ~r.thrown
                /\ IF with = {} THEN r.lemma = w
                   ELSE r.lemma \in RefAnalyses(w, POS_LIST[Min(with)])

\* What word_buff may hold from earlier queries: 0 or a codepoint of the
\* words looked up.
StaleCps == {0} \cup UNION {ToSet(w) : w \in TextWords}

\* OpenCC's text dictionaries: once OpenCC is constructed, every text
\* dictionary of its groups read from a well-formed file answers each
\* longest-match query of dictionary_text_match_longest as the file's lines
\* say, whatever earlier queries left in word_buff: the longest key
\* beginning the word within maxlen (0: no limit), with that line's values;
\* and dictionary_text_get_all_match_lengths gives the lengths of all keys
\* beginning the word.  maxlen ranges over what the converter passes (0,
\* 1 on a one-codepoint input, or at most the codepoints left: converter.c
\* 80, 209, 331, 370); a larger maxlen would make ucs4ncpy leave stale
\* codepoints in the key.  This ties the fgets pieces, parse_entry's key
\* and value scans, the UTF-8 decoding of each field, max_length, the cut
\* of the word and the C string bsearch compares.
TextDictionaryMatchesFile ==
    od # <<>> =>
        \A g \in DOMAIN od[1].groups : \A k \in DOMAIN od[1].groups[g] :
            (od[1].groups[g][k].type = "text" /\ WellFormed(files.text[od[1].groups[g][k].file])) =>
                \A w \in TextWords, stale \in [1..od[1].groups[g][k].dict.maxLength -> StaleCps] :
                    /\ \A m \in {0} \cup 1..Len(w) :
                         TextMatchLongest(od[1].groups[g][k].dict, w, m, stale)
                             = {RefMatch(files.text[od[1].groups[g][k].file], w, m)}
                    /\ TextAllMatchLengths(od[1].groups[g][k].dict, w)
                         = RefMatchLengths(files.text[od[1].groups[g][k].file], w)
====
