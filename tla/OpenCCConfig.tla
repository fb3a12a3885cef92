---------------------------- MODULE OpenCCConfig ----------------------------
(***************************************************************************)
(* How OpenCC::OpenCC builds its converter: opencc_open reads the          *)
(* configuration zht2zhs.ini (config_reader.c), loads the dictionaries it  *)
(* names into groups (load_dictionary, dictionary_group_load,              *)
(* dictionary_open) and assigns them to the converter.  Module Dictionary  *)
(* calls OpenCCOpen from the step of RAGAnalyzer::Load that creates it.    *)
(*                                                                         *)
(* A configuration line is taken as parse_trim and parse_line leave it:    *)
(*   [kind |-> "skip"]   a comment or blank line;                          *)
(*   [kind |-> "bad"]    no '=' or nothing after it (a parse error);       *)
(*   [kind |-> "prop", key |-> k, idx |-> n, type |-> t, file |-> f]       *)
(* where k is "dict" for any key that starts with dict (n is what sscanf   *)
(* %d reads after it, 0 when nothing), "title", "description" or "other",  *)
(* and t is the value's first three bytes as the two strncmp see them:     *)
(* "OCD", "TEX" or "bad".  The configuration is [present, lines].  A      *)
(* dictionary file is "ok", "corrupt" (its OPENCCDATRIE header is wrong)   *)
(* or "absent"; text holds the bytes of the text dictionary files.         *)
(***************************************************************************)
EXTENDS Integers, Sequences, SequencesExt, FiniteSets, OpenCCText

\* parse_add_dict (lines 77-105): the type is taken from the value's first
\* three bytes; the dictionary gets the next stamp.
ParseAddDict(acc, line) ==
    IF line.type \notin {"OCD", "TEX"}
    THEN [acc EXCEPT !.err = TRUE]
    ELSE [acc EXCEPT !.dicts = Append(@, [type  |-> IF line.type = "OCD" THEN "datrie" ELSE "text",
                                          file  |-> line.file,
                                          index |-> line.idx,
                                          stamp |-> Len(@)])]

\* parse_property (lines 107-124): title and description are kept (and do
\* not matter here); any other key is an error.
ParseProperty(acc, line) ==
    CASE line.key = "dict"                      -> ParseAddDict(acc, line)
      [] line.key \in {"title", "description"}  -> acc
      [] OTHER                                  -> [acc EXCEPT !.err = TRUE]

\* parse (lines 170-220): the first error ends the parse.
Parse(lines) ==
    LET Step(acc, line) ==
          CASE acc.err              -> acc
            [] line.kind = "skip"   -> acc
            [] line.kind = "bad"    -> [acc EXCEPT !.err = TRUE]
            [] OTHER                -> ParseProperty(acc, line)
    IN  FoldLeft(Step, [err |-> FALSE, dicts |-> <<>>], lines)

\* qsort_dictionary_buffer_cmp (lines 49-55): by index, then by stamp.
DictBefore(a, b) == a.index < b.index \/ (a.index = b.index /\ a.stamp < b.stamp)

\* dictionary_group_load (dictionary_group.c 49-77) with dictionary_open
\* (abstract.c 29-44): a missing file is not added; a file that fails
\* dictionary_datrie_open or dictionary_text_open is added anyway, because
\* dictionary_open wraps the -1 it gets in a valid-looking dictionary.  A
\* text dictionary keeps what TextOpen read.
GroupAdd(group, d, t) ==
    Append(group, [file |-> d.file, type |-> d.type, broken |-> ~t.ok, dict |-> t])

GroupLoad(group, d, ocd, text) ==
    IF ocd[d.file] = "absent" THEN group
    ELSE GroupAdd(group, d, IF d.type = "text" THEN TextOpen(text[d.file])
                            ELSE [ok |-> ocd[d.file] = "ok", lexicon |-> <<>>,
                                  maxLength |-> 0, overflow |-> FALSE])

\* load_dictionary (lines 57-75): the sorted dictionaries go into a first
\* group, and a new group starts whenever the index grows past the last
\* one, last_index starting at 0.
LoadDictionary(dicts, ocd, text) ==
    IF dicts = <<>> THEN <<>>
    ELSE LET sorted == SortSeq(dicts, DictBefore)
             Step(acc, d) ==
               LET gs == IF d.index > acc.last THEN Append(acc.groups, <<>>) ELSE acc.groups
               IN  [groups |-> [gs EXCEPT ![Len(gs)] = GroupLoad(@, d, ocd, text)],
                    last   |-> IF d.index > acc.last THEN d.index ELSE acc.last]
         IN  FoldLeft(Step, [groups |-> << <<>> >>, last |-> 0], sorted).groups

\* OpenCC::OpenCC and opencc_open (openccxx.cpp 8-24, opencc.c 132-162,
\* config_open 260-276, config_get_dictionary_set 222-233): a missing or
\* unparsable configuration leaves od = -1; otherwise the converter gets
\* the groups.  OpenCC::open's result is dropped.
OpenCCOpen(config, ocd, text) ==
    IF ~config.present THEN [ok |-> FALSE, groups |-> <<>>]
    ELSE LET p == Parse(config.lines)
         IN  IF p.err THEN [ok |-> FALSE, groups |-> <<>>]
             ELSE [ok |-> TRUE, groups |-> LoadDictionary(p.dicts, ocd, text)]

\* Whether conversion works: OpenCC::convert returns -1 when od = -1,
\* converter_convert returns -1 with no group (its chain loop never runs),
\* and an empty group or a broken dictionary makes sp_seg dereference the
\* -1 that dictionary_group_match_longest or dictionary_open gave.  A text
\* dictionary whose load wrote past a heap block is no working converter
\* either.
ConverterWorks(od) ==
    /\ od.ok
    /\ od.groups # <<>>
    /\ \A g \in DOMAIN od.groups :
         /\ od.groups[g] # <<>>
         /\ \A k \in DOMAIN od.groups[g] : ~od.groups[g][k].broken /\ ~od.groups[g][k].dict.overflow
====
