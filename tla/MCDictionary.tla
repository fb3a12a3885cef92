---------------------------- MODULE MCDictionary ----------------------------
(* Dictionary bundles for model checking: three words, one of them with an *)
(* upper-case letter; a POS file with a blank and a repeated line; and     *)
(* dictionary versions that are valid, repeat a word, name an undefined    *)
(* tag, lack a field, or give a zero frequency; WordNet bundles missing    *)
(* an index or an exceptions file; OpenCC configurations and dictionaries *)
(* that are missing, unparsable or corrupt.                                *)
EXTENDS Dictionary, Functions

MCWords == {"w", "v", "W"}

MCLowerOf == [x \in MCWords |-> IF x = "W" THEN "w" ELSE x]

\* 1000 * ln(raw / 1e6), rounded: ln(1e-6) = -13.8155, ln(5e-5) = -9.9035,
\* ln(1) = 0, ln(5) = 1.6094.
MCLnMilli == (1 :> -13816) @@ (50 :> -9903) @@ (1000000 :> 0) @@ (5000000 :> 1609)

L(w, raw, tag) == [word |-> w, raw |-> raw, tag |-> tag, fields |-> 3]

Blank == [word |-> "w", raw |-> 1, tag |-> 0, fields |-> 0]

Short == [word |-> "w", raw |-> 1, tag |-> 0, fields |-> 2]

MCDictVersions ==
    { << L("w", 50, 1), Blank, L("v", 5000000, 2) >>,
      << L("W", 1, 2), L("v", 50, 1), L("v", 1000000, 2) >>,
      << L("w", 50, 3) >>,
      << L("w", 50, 1), Short >>,
      << L("v", 0, 1) >> }

MCPosLines == <<2, 0, 1, 2>>

\* zht2zhs.ini as OpenCC 0.4 ships it: a title, a description, a blank
\* line and the two dictionaries of group 0, phrases first.
Title == [kind |-> "prop", key |-> "title", idx |-> 0, type |-> "bad", file |-> "-"]

Dict(n, t, f) == [kind |-> "prop", key |-> "dict", idx |-> n, type |-> t, file |-> f]

MCConfig == << Title, [kind |-> "skip"], Dict(0, "OCD", "TSPhrases.ocd"),
               Dict(0, "OCD", "TSCharacters.ocd") >>

OcdOk == [f \in {"TSPhrases.ocd", "TSCharacters.ocd"} |-> "ok"]

\* A text dictionary in UTF-8: 龍 -> 龙, 龍頭 -> 龙头, and 著 with two values
\* (着 and 著).
Lung == <<233, 190, 141>>

Tou == <<233, 160, 173>>

Zhu == <<232, 145, 151>>

MCText == Lung \o <<9>> \o <<233, 190, 153>> \o <<10>>
          \o Lung \o Tou \o <<9>> \o <<233, 190, 153, 229, 164, 180>> \o <<10>>
          \o Zhu \o <<9>> \o <<231, 157, 128>> \o <<32>> \o Zhu \o <<10>>

\* The same with a space after a value, with a blank line, with a value
\* that is not UTF-8, and a line of 129 bytes.
TextVariants ==
    { Lung \o <<9, 233, 190, 153, 32, 10>>,
      MCText \o <<10>>,
      Lung \o <<9, 255, 10>>,
      <<97, 9>> \o FlattenSeq([i \in 1..63 |-> <<98, 32>>]) \o <<10>> }

AllPresent == [dict |-> TRUE, pos |-> TRUE, wordnet |-> TRUE, opencc |-> TRUE,
               wnIndex |-> FilePOS, wnExc |-> FilePOS,
               config |-> [present |-> TRUE, lines |-> MCConfig],
               ocd |-> OcdOk @@ ("t2s.txt" :> "ok"), text |-> ("t2s.txt" :> MCText)]

WithText == [AllPresent EXCEPT !.config.lines = Append(MCConfig, Dict(0, "TEX", "t2s.txt"))]

\* Every bundle with one file missing or damaged: one of the four
\* resources, the verb index, the adverb or the adjective exceptions, the
\* OpenCC configuration or one or both of its dictionaries; a
\* configuration with a line lacking '=', an unknown key, a type other
\* than OCD or TEXT, or its dictionaries numbered from 1; a text
\* dictionary added to group 0, intact or in one of its malformed variants.
MCBundles ==
    {AllPresent}
    \cup {[AllPresent EXCEPT ![f] = FALSE] : f \in {"dict", "pos", "wordnet", "opencc"}}
    \cup {[AllPresent EXCEPT !.wnIndex = FilePOS \ {VERB}],
         [AllPresent EXCEPT !.wnExc = FilePOS \ {ADV}],
         [AllPresent EXCEPT !.wnExc = FilePOS \ {ADJ}]}
    \cup {[AllPresent EXCEPT !.config.present = FALSE],
         [AllPresent EXCEPT !.config.lines = Append(MCConfig, [kind |-> "bad"])],
         [AllPresent EXCEPT !.config.lines = Append(MCConfig, [Title EXCEPT !.key = "other"])],
         [AllPresent EXCEPT !.config.lines = Append(MCConfig, Dict(1, "bad", "TSPhrases.ocd"))],
         [AllPresent EXCEPT !.config.lines = << Title, Dict(1, "OCD", "TSPhrases.ocd") >>],
         [AllPresent EXCEPT !.ocd["TSCharacters.ocd"] = "absent"],
         [AllPresent EXCEPT !.ocd = [f \in DOMAIN OcdOk |-> "absent"]],
         [AllPresent EXCEPT !.ocd["TSPhrases.ocd"] = "corrupt"]}
    \cup {WithText}
    \cup {[WithText EXCEPT !.text["t2s.txt"] = t] : t \in TextVariants}

\* A WordNet fragment with its real entries: "bed" is a noun and "be" a
\* verb, "hate" and "hat" are both verbs, "better" is an exception of the
\* adjectives and of the adverbs.
MCWnIndex ==
    [p \in FilePOS |-> CASE p = NOUN -> {"glass", "doe", "man", "bed", "fly"}
                        [] p = VERB -> {"be", "hate", "hat", "do", "fly"}
                        [] p = ADJ  -> {"good"}
                        [] OTHER    -> {"well"}]

MCWnExc ==
    [p \in FilePOS |-> CASE p = ADJ -> ("better" :> <<"good">>)
                        [] p = ADV -> ("better" :> <<"well">>)
                        [] OTHER   -> <<>>]

MCTextWords == { <<40845>>, <<40845, 38957>>, <<38957, 40845>>, <<33879, 40845>> }

MCLemmaWords == {"glasses", "does", "hated", "flies", "better", "men", "bed", "well", "xyz"}
====
