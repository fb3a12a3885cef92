----------------------------- MODULE Lemmatizer -----------------------------
(***************************************************************************)
(* WordNetLemmatizer (wordnet_lemmatizer.cpp): the tables its constructor  *)
(* loads from the WordNet directory, and Lemmatize with Morphy, the        *)
(* suffix-rule search NLTK's morphy performs.  Everything is an operator   *)
(* over the files' contents; module Dictionary calls LoadLemmatizer from   *)
(* the step of RAGAnalyzer::Load that constructs the lemmatizer.           *)
(*                                                                         *)
(* A word is a string; the rules only cut and append suffixes, so the      *)
(* words are real English words short enough for the search to stay        *)
(* small.  A part of speech is its one-letter abbreviation.  The files     *)
(* are given per part of speech: index (the set of lemmas the index file   *)
(* lists) and exc (a function from an inflected form to the sequence of    *)
(* its base forms).  lemmas_ is a function from a lemma to its parts of    *)
(* speech; exceptions_ a function from a part of speech to its exc map,    *)
(* whose domain holds only the parts of speech that were assigned.         *)
(***************************************************************************)
EXTENDS Integers, Sequences, SequencesExt, FiniteSets

ADJ == "a"
ADJ_SAT == "s"
ADV == "r"
NOUN == "n"
VERB == "v"

\* Lines 34-41: the rules, in the order they are tried, and POS_LIST.
MORPHOLOGICAL_SUBSTITUTIONS ==
    [p \in {NOUN, VERB, ADJ, ADV, ADJ_SAT} |->
        CASE p = NOUN -> << <<"s", "">>, <<"ses", "s">>, <<"ves", "f">>, <<"xes", "x">>,
                            <<"zes", "z">>, <<"ches", "ch">>, <<"shes", "sh">>,
                            <<"men", "man">>, <<"ies", "y">> >>
          [] p = VERB -> << <<"s", "">>, <<"ies", "y">>, <<"es", "e">>, <<"es", "">>,
                            <<"ed", "e">>, <<"ed", "">>, <<"ing", "e">>, <<"ing", "">> >>
          [] p = ADV  -> << >>
          [] OTHER    -> << <<"er", "">>, <<"est", "">>, <<"er", "e">>, <<"est", "e">> >>]

POS_LIST == <<NOUN, VERB, ADJ, ADV>>

\* The keys of file_map_, one index and one exc file each.
FilePOS == {ADJ, ADV, NOUN, VERB}

-----------------------------------------------------------------------------
(* Loading.                                                                *)

\* lemmas_[lemma].insert(pos) on a function whose domain grows.
AddPOS(lm, w, ps) ==
    IF w \in DOMAIN lm THEN [lm EXCEPT ![w] = @ \cup ps] ELSE lm @@ (w :> ps)

\* LoadLemmas (lines 53-98): the index files in file_map_'s iteration order
\* (an unordered_map: any order); the first missing file ends the load with
\* -1, keeping what was read so far.  An adjective lemma is also ADJ_SAT.
LoadLemmas(order, present, index) ==
    LET Step(acc, p) ==
          IF acc.ret # 0 THEN acc
          ELSE IF p \notin present THEN [acc EXCEPT !.ret = -1]
          ELSE [acc EXCEPT !.lemmas =
                  FoldSet(LAMBDA w, lm : AddPOS(lm, w, IF p = ADJ THEN {p, ADJ_SAT} ELSE {p}),
                          @, index[p])]
    IN  FoldLeft(Step, [ret |-> 0, lemmas |-> <<>>], order)

\* LoadExceptions (lines 100-130): a missing exc file is skipped, leaving
\* its part of speech out of exceptions_; then exceptions_[ADJ_SAT] =
\* exceptions_[ADJ], whose operator[] creates both entries if need be.
LoadExceptions(present, exc) ==
    LET loaded == [p \in present |-> exc[p]]
        adj    == IF ADJ \in present THEN exc[ADJ] ELSE <<>>
    IN  [p \in present \cup {ADJ, ADJ_SAT} |-> IF p \in {ADJ, ADJ_SAT} THEN adj ELSE loaded[p]]

\* The constructor and Load (lines 27-51): Load's result is dropped; the
\* exceptions are read only when every index file was.
LoadLemmatizer(order, indexPresent, excPresent, index, exc) ==
    LET l == LoadLemmas(order, indexPresent, index)
    IN  [lemmas |-> l.lemmas,
         exceptions |-> IF l.ret = 0 THEN LoadExceptions(excPresent, exc) ELSE <<>>]

-----------------------------------------------------------------------------
(* Lemmatize.                                                              *)

EndsWith(f, suf) == Len(f) >= Len(suf) /\ SubSeq(f, Len(f) - Len(suf) + 1, Len(f)) = suf

\* CollectSubstitutions of one form (lines 146-156): each matching rule in
\* order, its old suffix replaced by its new one.
Applied(form, pos) ==
    LET rs == SelectSeq(MORPHOLOGICAL_SUBSTITUTIONS[pos], LAMBDA r : EndsWith(form, r[1]))
    IN  [m \in DOMAIN rs |-> SubSeq(form, 1, Len(form) - Len(rs[m][1])) \o rs[m][2]]

\* CollectSubstitutions of a list (lines 132-144), duplicates kept.
CollectSubstitutions(forms, pos) == FlattenSeq([m \in DOMAIN forms |-> Applied(forms[m], pos)])

\* FilterForms (lines 158-173): the forms that are lemmas of pos, each
\* once, in the order of their first occurrence.
FilterForms(forms, pos, lm) ==
    LET Keep(acc, f) ==
          IF f \in DOMAIN lm /\ pos \in lm[f] /\ ~\E m \in DOMAIN acc : acc[m] = f
          THEN Append(acc, f) ELSE acc
    IN  FoldLeft(Keep, <<>>, forms)

\* The while loop of Morphy (lines 197-206): apply the rules to every form
\* of the last level until a level holds a lemma or no form is left.
RECURSIVE MorphyLoop(_, _, _)
MorphyLoop(forms, pos, lm) ==
    IF forms = <<>> THEN <<>>
    ELSE LET next == CollectSubstitutions(forms, pos)
             res  == FilterForms(next, pos, lm)
         IN  IF res # <<>> THEN res ELSE MorphyLoop(next, pos, lm)

\* Mutant: the first attempt leaves out the form itself
\* (combined_forms.push_back(form) missing).
MorphyNoSelf(form, pos, ex, lm) ==
    IF form \in DOMAIN ex[pos]
    THEN FilterForms(Append(ex[pos][form], form), pos, lm)
    ELSE LET forms   == Applied(form, pos)
             results == FilterForms(forms, pos, lm)
         IN  IF results # <<>> THEN results ELSE MorphyLoop(forms, pos, lm)

\* Morphy (lines 175-207) with check_exceptions = true: an exception form
\* gives its base forms and itself; otherwise the first level of rules
\* followed by the form itself, then the loop.
Morphy(form, pos, ex, lm) ==
    IF form \in DOMAIN ex[pos]
    THEN FilterForms(Append(ex[pos][form], form), pos, lm)
    ELSE LET forms   == Applied(form, pos)
             results == FilterForms(Append(forms, form), pos, lm)
         IN  IF results # <<>> THEN results ELSE MorphyLoop(forms, pos, lm)

\* Lemmatize with no part of speech (lines 209-225): the first analysis of
\* the first part of speech in POS_LIST that has one, else the form.
\* exceptions_.at(pos) throws std::out_of_range for a part of speech that
\* has no entry; nothing in the analyzer catches it.
RECURSIVE TryFrom(_, _, _, _)
TryFrom(form, k, ex, lm) ==
    IF k > Len(POS_LIST) THEN [thrown |-> FALSE, lemma |-> form]
    ELSE IF POS_LIST[k] \notin DOMAIN ex THEN [thrown |-> TRUE, lemma |-> form]
    ELSE LET a == Morphy(form, POS_LIST[k], ex, lm)
         IN  IF a # <<>> THEN [thrown |-> FALSE, lemma |-> a[1]]
                         ELSE TryFrom(form, k + 1, ex, lm)

Lemmatize(form, lz) == TryFrom(form, 1, lz.exceptions, lz.lemmas)
====
