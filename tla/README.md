# TLA+ models of the RAG analyzer (src/internal/cpp)

This directory holds TLA+ models of the C++ analyzer that ragflow uses to
tokenize mixed Chinese and Latin text for retrieval indexing. It contains:

- the modules;
- the TLC configurations that check them;
- `PROJECT.json`, which lists every component, every run and its mutants,
  the source lines each definition translates (`map`), the findings and the
  hazards.

Every definition is translated from the code. Its comment names the lines it
stands for, and `map` names them again.

## 1. The system

The analyzer is a library. A `RAGAnalyzer` loads a dictionary bundle once with
`Load()` and then answers `Tokenize` and `TokenizeWithPosition` calls. A call
runs to its end on the caller's thread. The analyzer starts no threads and
takes no locks. spec.md 253-257 says callers may come from any thread.

State that outlives a call:

- the loaded resources: trie, POS table, lemmatizer, and the OpenCC
  converter with its scratch buffer;
- the per-instance lower-case buffer and Snowball stemmer environment;
- the trie cache file `huqie.trie` on disk.

| Part | Source | Module |
|---|---|---|
| Packed value codec | `rag_analyzer.cpp` 57-84 | `PackedValue` |
| POS table, trie wrapper, `Load` | `darts_trie.cpp`, `rag_analyzer.cpp` 681-765 | `Dictionary` |
| WordNet lemmatizer | `wordnet_lemmatizer.cpp` | `Lemmatizer`, used by `Dictionary` |
| Scanners, DFS, reconciler, fine-grained pass | `rag_analyzer.cpp` 881-1028, 1414-1557, 1929-2391 | `Segmenter` (refines `Segmentation`) |
| DP segmenter (`GetBestTokensTopN`) | `rag_analyzer.cpp` 1029-1201 | `DPSegmenter` |
| `\W+` replacement, `StrQ2B`, UTF-8 to UCS-4, position maps | `rag_analyzer.cpp` 767-841, 1610-1696; `opencc/encoding.c`, `opencc/opencc.c` | `NormalizeOps` |
| OpenCC converter | `opencc/converter.c`, `dictionary_group.c`, `dictionary/datrie.c` | `Converter` |
| OpenCC construction: configuration and dictionary loading | `opencc/openccxx.cpp`, `opencc.c`, `config_reader.c`, `dictionary_group.c`, `dictionary/abstract.c` | `OpenCCConfig`, used by `Dictionary` |
| OpenCC text dictionaries | `opencc/dictionary/text.c` | `OpenCCText`, used by `OpenCCConfig` |
| `SplitByLang`, sentence splitter, NLTK words, `Merge*`, `Tokenize*` | `rag_analyzer.cpp` 107-173, 428-660, 1286-1413, 1704-1910 | `Pipeline` |
| Construction, copy, destruction, C API | `rag_analyzer.cpp` 660-679, `rag_analyzer_c_api.cpp` | `Lifecycle` |
| Threads sharing per-call buffers | `converter.c` 162-210, `string_utils.h` 53-78, `stemmer/stemmer.cpp` 128-149 | `ConcurrentCalls` |

Here is how the parts interact. `TokenizeWithPosition`:

1. normalises the line: `\W+` becomes a space, then `StrQ2B`, then OpenCC,
   with one byte map per step;
2. composes the three maps into `final_pos_mapping`;
3. splits the line into runs of Chinese and non-Chinese characters;
4. sends non-Chinese runs through the sentence splitter, the NLTK rules and
   the stemmer, and Chinese runs to `TokenizeInnerWithPosition` (the
   reconciler of the two greedy scans, with DFS for the regions where they
   disagree);
5. merges short neighbours.

`Tokenize` is a second hand-kept copy of the same pipeline, without
positions. The fine-grained pass and `Merge` are also kept in two copies.
Three runs check that the copies agree.

## 2. Modules

### `Segmentation` (abstract)

This module states what spec.md 3 and 4.7 promise about a Chinese run:

- tokens are appended and never revised;
- every token is a dictionary word or a single codepoint;
- the tokens spell a prefix of the run, and eventually all of it.

`EmitRun` appends any admissible cut (`Cuts`) of the next stretch.

### `Segmenter`

It holds `TokenizeInnerWithPosition` action by action:

| Action | Lines | What it does |
|---|---|---|
| `Start` | 1934-1983 | both scans, the common prefix and cursor setup |
| `GrowForward`, `GrowBackward` | 1986-1994 | extend the shorter side |
| `Skip` | 1996-2000 | equal bytes, different next tokens |
| `Resolve` | 2001-2101 | DFS over a region, then the run of equal tokens |
| `ResolveTail` | 2103-2156 | DFS over the rest |

After the function returns, the fine-grained pass runs on the tokens one at
a time: `FineWhole` keeps a token whole, `FineSplit` splits it, and
`FineReturn` ends the pass.

The supporting operators are translated loop for loop:

- `MaxForward` and `MaxBackward`, each `while` loop as "the first index where
  the condition fails";
- DFS, as its two pruning rules, the `for e` loop with its `break`, the
  single-codepoint fallback, and the keep-first strictly-better choice;
- `Score`, as an exact rational.

A codepoint is a model value, 3 bytes wide. A dictionary maps words to the
log-frequency `DecodeFreq` returns. Every order that `std::sort` may give to
tied paths is a separate successor.

The module also defines two plain copies as recursive operators:
`TokenizeInner` (lines 1414-1557) and `FineGrainedTokenize` (2299-2391).

### `DPSegmenter`

It extends `Segmenter` with `GetBestTokensTopN` (lines 1029-1201), the
dynamic program spec.md 4.6 describes. The code calls it from the
`INFINITY_DEBUG` cross-checks against DFS. Its operators:

- `DpVec` is the `dp` vector as a recursive function: `dp[x]` folds, for
  p = 0, 1, ... in turn, every candidate of `dp[p]` extended by the token
  [p, x).
- `Reached` and `Gains` model the inner trie walk. The walk breaks when a key
  is no prefix of any word. A word adds its frequency, and an unknown single
  codepoint adds -12.
- `AddTopN` is `AddBestTokenCandidateTopN`. It keeps the list ordered by
  `<<N, L>>`, with at most `top_n` candidates of the largest F per key.
- `MidResult` is the final top-N selection of lines 1155-1175.

### `PackedValue` and `Dictionary`

**PackedValue.** The codec holds a `uint32_t` as `<<top byte, low 24
bits>>`, so that TLC's 32-bit integers never overflow. `|` is taken from
`Bitwise`.

**Dictionary.** The module models `Load` top to bottom:

- `Begin`, `LoadPOS`, `LoadCache`;
- `ParseLine`, one line of 716-733;
- `Build`, `Save`, `LoadWordnet`, `LoadOpenCC`.

Three environment actions surround it:

- `Crash`, at any step;
- `CrashInSave`, which leaves the cache cut short;
- `Relaunch`, which may also find an edited `huqie.txt` or a removed cache.

Files are durable and memory is lost in a crash.

The darts library is outside `src/`. It is modelled by its contract: it
throws on a negative value, and it keeps one of several equal keys.

`LoadWordnet` constructs the lemmatizer with `LoadLemmatizer` from module
`Lemmatizer`. The variable `lemmatizer` holds its tables, and `Relaunch`
clears it. The bundle says which `index.<pos>` and `<pos>.exc` files exist.

`LoadOpenCC` checks only that the opencc directory exists. It then
constructs OpenCC with `OpenCCOpen` from module `OpenCCConfig`, whatever
that gives, and returns 0. The variable `od` holds the result. The bundle
gives the configuration's lines and the state of each `.ocd` file.

### `OpenCCConfig`

These are operators over the configuration `zht2zhs.ini` and the dictionary
files it names. A line enters as `parse_trim` and `parse_line` leave it:
- skipped;
- malformed;
- or a property, given by its key, its `dictN` index and the first three
  bytes of its type.

- `Parse` folds the lines. The first error ends it. `ParseProperty` and
  `ParseAddDict` reject an unknown key or type, and stamp each dictionary.
- `LoadDictionary` sorts by index, then by stamp (`DictBefore`), and
  starts a new group when the index grows. `last_index` starts at 0.
- `GroupLoad` skips a missing file. It adds a corrupt one, because
  `dictionary_open` wraps the datrie's -1 in a valid pointer.
- `OpenCCOpen` is `opencc_open`: od is -1 for a missing or unparsable
  configuration.
- `ConverterWorks` says whether `convert` can work with the result:
  - od is not -1;
  - there is at least one group;
  - no group is empty;
  - no dictionary is broken, and no text dictionary overflowed a field.
- A text dictionary is opened with `TextOpen` from module `OpenCCText`
  on the bytes of its file.

### `OpenCCText`

These are operators over the bytes of a `TEXT` dictionary file
(`dictionary/text.c`). A file is a sequence of bytes without 0. The
decoding of each field is `utf8_to_ucs4` as `NormalizeOps` models it.

- `Chunks` is the `fgets` loop. A piece ends after a newline or after
  `ENTRY_BUFF_SIZE - 1 = 127` bytes.
- `ParseEntry` is `parse_entry`. The key runs to the first tab (`ScanTo`),
  and a piece with no tab fails. `ValueLoop` takes the fields between
  spaces up to the newline or the end.
- `Field` decodes a field and records whether the decoding is longer than
  the `length + 1` slots it is given. `utf8_to_ucs4(p, 0)` decodes to the
  end of the buffer, so an empty field overflows.
- `TextOpen` is `dictionary_text_open`. The first piece that fails makes
  the dictionary fail. It also keeps the longest key's length.
- `TextMatchLongest` and `TextAllMatchLengths` are the two lookups.
  - `WordBuff` is `word_buff` after `ucs4ncpy` copies `min(max_length,
    maxlen)` codepoints. Past the word's end it keeps `stale`, whatever an
    earlier query left there.
  - `CKey` is the C string `bsearch` compares, which ends at the first 0.
  - `bsearch` may return any entry of an equal key, so the longest match
    is a set of possible answers.
  - When `maxlen` is larger than the word, a stale codepoint can become
    part of the key. A one-codepoint word can then come back with match
    length 2.
- The reference section states the file format as lines: `WellFormed`,
  `RefEntries`, `RefMatch` and `RefMatchLengths`.

### `Lemmatizer`

These are operators over the WordNet files' contents. Words are real English
strings, because the rules only cut and append suffixes.

- `LoadLemmas` reads the index files in any order, because `file_map_` is an
  `unordered_map`. It stops with -1 at the first missing file.
- `LoadExceptions` skips a missing exc file, then applies the `ADJ_SAT` alias.
  `LoadLemmatizer` is the constructor, which drops `Load`'s result.
- `Applied` and `CollectSubstitutions` apply the suffix rules in order, and
  `FilterForms` keeps lemmas once each, in the order of first occurrence.
- `Morphy` gives an exception's base forms, or the first level of rules plus
  the form itself, then the loop `MorphyLoop`.
- `TryFrom` and `Lemmatize` walk the parts of speech `n, v, a, r`. They
  record a throw when `exceptions_.at` has no entry for one.

### `NormalizeOps` and `Converter`

These are operators over byte and codepoint sequences:

- `ReplaceLoop` is the loop of `PCRE2GlobalReplaceWithPosition`. PCRE2
  itself enters by its contract for `\W+` under UTF and UCP.
- `Q2BLoop` is `StrQ2B`. It includes its reads past the end, which are a
  choice over `Garbage`.
- `Ucs4` is `utf8_to_ucs4` bit for bit.
- `Walk` is `BuildPositionMapping`.
- `Compose` is the map composition.

`Converter` is OpenCC's `segment` with `sp_seg`, the shortest-path cut:

- `SpDp` is the relaxation loop, with the code's `<` and `<=`.
- `PathTo` is the path read back.
- `SpConvert` is the fast-mode conversion by longest match.

The underlying lookups are `MatchLongest` and `AllMatchLengths`, which sit
over one dictionary group of datrie dictionaries (`DictLongest` and
`DictAllLengths`).

### `Pipeline`

One step per stage of `TokenizeWithPosition`:

| Stage | Actions |
|---|---|
| Normalisation | `Replace`, `ToHalfwidth`, `OpenCC`, `Map` |
| Splitting | `SplitStep` |
| Runs | `EnglishRun`, `ShortChineseRun`, `ChineseRun` |
| Merging | `Merge` |

The plain `Tokenize` is carried in the same steps, in `res` and `ret`:
`PlainTerms`, then `JoinWith`, then `MergeString`. `AnalyzePlain` is how
`AnalyzeImpl` reports that string.

A Chinese run is cut by any admissible cut (`Cuts`). `Segmenter` shows that
the reconciler produces such a cut.

The NLTK rules enter by what they do on the sentences this alphabet yields:
a split at blanks, and a final period split off. The lemmatizer and stemmer
enter as a constant function `Stem`, which is the identity on the words of
`MCPipeline`. Module `Lemmatizer` models the lemmatizer itself.

### `Lifecycle`

Handles go through `Create`, `Load(h, stop)` and `Copy(h, o)`:

- `Load(h, stop)` ends at each of `Load`'s returns, assigning the pointers it
  has reached;
- `Copy(h, o)` is the copy constructor, which shares the pointers and clears
  `own_dict_`.

The other actions are the two setters, `Analyze` with the dispatch the
compiler really does, the three tokenizing calls and their frees, and
`Destroy`. Destroy deletes the four pointers when `own_dict_` is set.
`heap` records every resource object as unused, live or freed.

### `ConcurrentCalls`

Threads call `Tokenize`, each on an analyzer instance given by `Instance`.
The model keeps only the points where a call writes state it does not own
and where it reads that state back:

- `SpDp` and `SpPath` act on the converter's `spseg_buffer`. It is shared by
  all copies through `opencc_`.
- `ToLower` acts on the instance's lower-case buffer.
- `SetCurrent`, `StemEnv` and `ReadResult` act on the instance's stemmer
  environment.

An unsynchronised overlap of a write and a read is a data race. The model
lets the read see the last completed write.

## 3. Runs

| Run | Config | Expect | Properties |
|---|---|---|---|
| `segmenter` | `MCSegmenter.cfg` | pass | `TypeOK`, `PositionsTrackText`, `FineRefinesTokens`, `InnerCopiesAgree`, `FineCopiesAgree`, `DpTop1Optimal`, `AbsSpec` |
| `dfs_not_optimal` | `MCSegmenterDivergence.cfg` | violation | `RegionsScoredOptimally` |
| `dictionary` | `MCDictionary.cfg` | pass | `TypeOK`, `BuiltTrieMatchesSource`, `LoadFailsOnlyOnInvalidBundle`, `LemmatizeFindsNearestLemma`, `TextDictionaryMatchesFile` |
| `load_accepts_broken_bundle` | `MCDictionary_LoadReportsBrokenBundle.cfg` | violation | `LoadReportsBrokenBundle` |
| `pipeline` | `MCPipeline.cfg` | pass | `TypeOK`, `FinalMappingOrdered`, `SourceCharMaps`, `OffsetsOrdered`, `RunsTileLine`, `ConversionShortestPath`, `TokenizeConsistent` |
| `q2b_overread` | `MCPipeline_NoReadPastEnd.cfg` | violation | `NoReadPastEnd` |
| `invalid_byte_drops_line` | `MCPipeline_ConversionKeepsText.cfg` | violation | `ConversionKeepsText` |
| `sentence_offset` | `MCPipeline_TermSpansSource.cfg` | violation | `TermSpansSource` |
| `lifecycle` | `MCLifecycle.cfg` | pass | `TypeOK`, `NoDoubleFree` |
| `copy_reload_double_free` | `MCLifecycle_CopyReload.cfg` | violation | `NoDoubleFree` |
| `api_analyze_fails` | `MCLifecycle_ApiAnalyzeDelivers.cfg` | violation | `ApiAnalyzeDelivers` |
| `copies_share_spseg` | `MCConcurrentCalls.cfg` | violation | `OwnResults` |

### What the passing runs show

**`segmenter`** (about 372,000 states, about 2 min 15 s)

- `AbsSpec` is `Segmentation!Spec` under `out <- tokens`. The reconciler
  emits admissible cuts left to right, never twice and never skipping, and
  under fairness it emits the whole run.
- `PositionsTrackText` says each offset pair is the exact byte span of its
  token, on all three emission paths.
- `FineRefinesTokens` says the fine-grained pieces spell each token and tile
  its span, whatever order `std::sort` gives tied paths.
- `InnerCopiesAgree` and `FineCopiesAgree` say the plain copies give the same
  tokens as the position copies.
- `DpTop1Optimal` says the DP's top-1 result in every initial state is
  an admissible cut, scored as such, and that no cut of the run into words
  and single codepoints scores higher. The per-key pruning and the break
  on a failed prefix lose no cut that could be best. The DP's top-2 order
  is another matter. When a later candidate beats the last one kept, the
  code inserts it before the first kept candidate that does not score
  higher, so the list can end up out of order. On `cab` with
  `{c: -3, ca: -3, ab: -4}`, `[ca, b]` (0.5) comes before `[c, ab]` (8.5).
  This affects only the debug comparison `CheckDP2`, and no run checks it,
  as no production path calls the top-2 list.

**`dictionary`** (10,020 states, 11 s)

- `BuiltTrieMatchesSource`: a trie built in this launch holds exactly the
  file's words and their `DD` shadows. The cells decode to the frequency
  field and to the sorted POS index of one of the word's lines.
- `LoadFailsOnlyOnInvalidBundle`: `Load` returns -1 only for a missing file,
  a malformed line, a zero frequency, or an undefined tag or one whose index
  is over 255.
- `LemmatizeFindsNearestLemma`: with every WordNet file present, `Lemmatize`
  never throws. It returns a lemma at the least rule depth of the first
  part of speech that has one, or the word when none has. The reference
  states morphy over sets, and the check covers every order of index files.
  For example, `bed` is a noun lemma, so it stays `bed` rather than becoming
  the verb `be`.
- `TextDictionaryMatchesFile`: every OpenCC text dictionary read from a
  well-formed file answers each query as the file's lines say, whatever
  `word_buff` holds from earlier queries. `maxlen` takes the values the
  converter passes: 0, 1 on a one-codepoint input, or at most the
  codepoints left (converter.c 80, 209, 331, 370). A larger `maxlen`
  would read the stale tail. The longest
  match is the longest key that begins the word within the limit, with
  that line's values. The all-lengths query gives the lengths of every key
  that begins the word. This checks the `fgets` pieces, the key and value
  scans, the decoding, `max_length` and the cut of the word together.

All four hold across crashes at every step, edits and cache removals.

**`pipeline`** (41,483 states, 11 s)

- `FinalMappingOrdered`: the composed map is ordered and ends at the line's
  length.
- `SourceCharMaps`: on well-formed lines every ASCII letter maps back to its
  source character.
- `RunsTileLine`: the runs tile the normalised line.
- `OffsetsOrdered`: merged tokens have ordered offsets within the line.
- `ConversionShortestPath`: OpenCC cuts each line into the fewest
  dictionary keys and single codepoints (checked against the reference
  `MinPieces`). On the line `a中中a` the longest match first would take
  three pieces where the shortest path takes two.
- `TokenizeConsistent`: what `AnalyzeImpl` reports from `Tokenize`'s string
  equals the token texts of `TokenizeWithPosition`.

**`lifecycle`** (111,633 states)

`NoDoubleFree` holds: no resource is deleted twice over every interleaving of
two handles, provided copies are never loaded again.

### Findings (violation runs)

| Run | What TLC shows |
|---|---|
| `dfs_not_optimal` | spec.md 4.6 says disagreement regions are segmented by DP, where a single codepoint is always allowed. The code (line 2011) uses DFS. On run `abc` with `{ab: -4, bc: -2}`, DFS returns `[ab, c]` (score -0.5) where `[a, bc]` scores 1.5. |
| `load_accepts_broken_bundle` | spec.md 7 says that missing resources and cache corruption make `load` return -1, and that no exception escapes. `LoadReportsBrokenBundle` checks that, and that the converter works. TLC's trace has `index.verb` missing. `LoadLemmas` returns -1 before the exceptions are read. The lemmatizer's constructor drops that result, and `RAGAnalyzer::Load` returns 0. `Lemmatize` then throws `std::out_of_range` from `exceptions_.at` (wordnet_lemmatizer.cpp 176) on every term. A missing `adv.exc` has the same effect for terms with no other analysis. A missing `adj.exc` is harmless. With the WordNet files complete, TLC finds the cache case: a crash during `Save` leaves `huqie.trie` cut short, and `DartsTrie::Load` ignores `open`'s result, so the next `Load` returns 0. OpenCC fails the same way. `OpenCC::OpenCC` drops `open`'s result, and `Load` checks only the directory. A missing or unparsable `zht2zhs.ini` leaves od = -1, and every `convert` fails. A configuration whose group 0 has no readable dictionary, or a corrupt `.ocd`, leaves a converter that dereferences a -1 on its first match. A `TEXT` dictionary fails the same way. A blank line, a field that is not UTF-8, or a line longer than 127 bytes makes `dictionary_text_open` return -1, and `dictionary_open` wraps that. An empty field, from a trailing or doubled space or a line starting with a tab, is decoded to the end of the buffer and copied into a one-slot block (text.c 79-80). That is a heap overflow, and `Load` still returns 0. TLC reaches each of these when the other files are complete. |
| `q2b_overread` | `StrQ2B` reads `input[i + 2]` after a lone 3-byte lead byte at the end of the line, past the terminator (line 814). |
| `invalid_byte_drops_line` | A stray continuation byte makes `utf8_to_ucs4` fail. `convert` returns -1 unchecked (line 1770), and the whole line yields no tokens. spec.md 7 says invalid bytes become tokens of their own. |
| `sentence_offset` | `SentenceSplitter` drops a match that starts where the remaining text starts (line 650). Later terms are then placed too early: on `a..a` followed by a malformed tail, the last `a` gets the span of a period. |
| `copy_reload_double_free` | `Load` sets `own_dict_` (line 697) before replacing the pointers. If `Load` on a copy stops half-way, the copy owns the original's lemmatizer and OpenCC, and both destructors delete them. |
| `api_analyze_fails` | `RAGAnalyzer::AnalyzeImpl` is not `const`, so it hides the virtual `Analyzer::AnalyzeImpl` instead of overriding it. `RAGAnalyzer_Analyze` returns -1, and `RAGAnalyzer_TokenizeWithPosition` returns an empty list. |
| `copies_share_spseg` | Copies share `opencc_`, and its converter's `spseg_buffer` is filled and read back by every `sp_seg` without a lock. Two threads on two copies convert along each other's path. This contradicts spec.md 255, which says OpenCC state is read-only. |

### Mutants

Each property of a passing run is killed by a plausible bug in a mapped
definition. `PROJECT.json` lists each pair as `of`/`as`. Some examples:

- `Lengths` becomes `LengthsOnlyWhenNone`, adding the single codepoint only
  when nothing matches. This breaks `ConversionShortestPath`.
- `MergeEnd` becomes `MergeEndFrom3`, with one of the two merge copies'
  windows starting too late. This breaks `TokenizeConsistent`.
- `Start` becomes `StartSameGt1`, emitting the common prefix only when it is
  longer than one token. This breaks `InnerCopiesAgree`.
- `Reached` becomes `ReachedBreakOnMiss`, so the DP's trie walk stops at the
  first key that is not a word. This breaks `DpTop1Optimal`.
- `Morphy` becomes `MorphyNoSelf`, which leaves the form itself out of the
  first attempt. `bed` then becomes `be`, which breaks
  `LemmatizeFindsNearestLemma`.
- `TextMatchLongest` becomes `TextMatchNoClamp`, which cuts the word at
  `max_length` only and ignores `maxlen`. This breaks
  `TextDictionaryMatchesFile`.

## 4. Bounds and why they are enough

**`MCSegmenter`**

- Every run of 2 to 5 codepoints over `{a, b, c}`, plus `abcabc` and
  `cabcab`. These are the shortest runs on which the scans realign and then
  split differently, which is the `Skip` branch.
- Every sub-dictionary of a seven-word pool. The pool has disagreeing 2- and
  3-codepoint words and two single-codepoint words that make paths tie.
- `BasePos = 3`, so offsets do not start at 0.

Every action and both DFS pruning rules fire.

**`MCDictionary`**

- Three words, one of them upper-case.
- A POS file with a blank line and a repeated line.
- Five dictionary versions: valid, a repeated word, an undefined tag, a line
  with two fields, and a zero frequency.
- Every bundle with at most one file missing, and `MaxStarts = 3` launches,
  so a crash is followed by two more launches. The WordNet files that may
  be missing are the verb index, the adverb exceptions and the adjective
  exceptions. These are one missing index and the two kinds of missing
  exceptions file.
- A WordNet fragment of real entries, and nine terms. The terms reach every
  branch of Morphy: `better` is an exception, `glasses` and `men` need one
  rule, `hated` goes past the noun, and `bed` is a lemma itself. `xyz`
  reaches the adverbs, and `well` is an adverb.
- The OpenCC configuration as OpenCC 0.4 ships it. It has a title, a blank
  line, and `dict0` lines for `TSPhrases.ocd` and `TSCharacters.ocd`. The
  variants:
  - the configuration missing;
  - a line without `=`;
  - an unknown key;
  - a bad type;
  - one dictionary numbered `dict1`;
  - one or both `.ocd` files missing;
  - `TSPhrases.ocd` corrupt.

  Together these reach every branch of `Parse`, `LoadDictionary` and
  `GroupLoad`.
- A `TEXT` dictionary `t2s.txt` added to group 0. Its three lines map
  龍 and 龍頭, and give 著 two values. Four malformed variants:
  - a trailing space;
  - a blank line;
  - a value that is not UTF-8;
  - one line of 129 bytes.

  Together they reach every failure and the overflow of `OpenCCText`. The
  four query words include the two keys sharing the prefix 龍 and a word
  no key begins. Limits run from 0 to the word's length, so `maxlen` also cuts below
  `max_length`. `word_buff` takes every content of length `max_length`
  over 0 and the words' codepoints.

**`MCPipeline`**

- Every line of up to 4 characters from `a`, `.`, space, 中, é and the
  malformed pair `C3 61`.
- Every line of up to 3 characters from a set that includes full-width forms,
  U+3000, the traditional 龍, an emoji and malformed sequences.
- A few longer lines with two sentences.

The OpenCC group has a phrase dictionary and a character dictionary. With
them, the longest match and the shortest path differ.

**`MCLifecycle`**

- Two handles, with symmetry, because nothing in the model names one.
- `MaxAlloc = 8`, room for two full loads.
- `MaxHeld = 1` result held by the caller at a time.

**`MCConcurrentCalls`**

Three threads. `t1` and `t2` work on two copies, the arrangement the C API
header recommends. `t3` shares `t1`'s handle, as the C test's threads do.
Two threads are the fewest that can race. The third brings in the races on
the per-instance lowercase buffer and Snowball environment (`SN_env`). TLC
reports the shortest trace, which is the race between the copies, but the
other races are in the state space as well. A separate check of the stems
alone also fails.

## 5. Fairness

The calls run to completion on the caller's thread. Only `Segmenter` and
`Segmentation` state liveness.

`Segmenter` assumes weak fairness of `Next`. It is written with the state
predicate `Running == pc # "done"` in place of `ENABLED`. This is sound
because:

- deadlock checking is on;
- every action other than `Done` changes a variable.

The other modules state invariants only and assume no fairness. A crash or a
call is something the environment may do, never something it must do.
`MCLifecycle` and `MCConcurrentCalls` turn deadlock checking off, because a
client that has destroyed its handles, or threads whose calls have returned,
have nothing left to do.

## 6. Not modelled

- **`SplitLongText`**. It sits under `#if 0`.
- **OpenCC chain mode** (`converter.c` 478-528). The shipped configuration
  has one dictionary group, so the analyzer never uses chain mode.
  `OpenCCConfig` builds several groups, but `Converter` converts with one.
- **The bytes of the `.ocd` files.** A datrie file enters as present,
  corrupt or absent. On a header mismatch `dictionary_datrie_close` walks
  `lexicon_count` entries that were never set, and a truncated file is read
  past its mapping. Both are undefined behaviour, so the model only marks
  the dictionary broken.
- **Text dictionaries with repeated keys or a carriage return.** These are
  covered by `TextMatchLongest` (any entry of an equal key) and by the
  byte model, but the files checked contain neither. `WellFormed` excludes
  them, and no property states what such a file should mean.
- **Text dictionaries with more than 1024 values on a line.** The
  realloc at text.c 84 does not grow the array, so writing its terminator
  would overflow. A 127-byte line cannot hold that many values.
- **The darts library, PCRE2 and RE2.** They are outside `src/` and enter by
  their contracts.
- **The NLTK regular-expression rules beyond blanks and a final period.**
  These include the quote rewriting (lines 377-379), which is listed as a
  hazard.
- **Snowball algorithms.** They are pure string functions.
- **The WordNet files' line parsing.** The files enter as the sets of lemmas
  and the exception maps they hold.
- **Floating-point rounding of scores.** Scores are exact rationals.
- **Reads of freed memory after the original analyzer is destroyed.** They
  are listed as a hazard.
- **The leak of the first attempt's objects on a retried `Load`.** It does not
  change what the analyzer computes, and it is listed as a hazard.
- **The byte tokenizer, the CLI and the test harnesses.** RAGAnalyzer never
  uses the tokenizer, and the CLI and harnesses only drive and print.
