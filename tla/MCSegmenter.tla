---------------------------- MODULE MCSegmenter ----------------------------
(* Model-checking instance of Segmenter and DPSegmenter: runs of two to   *)
(* MaxLen codepoints over three characters, and every sub-dictionary of a *)
(* small word pool.                                                        *)
EXTENDS DPSegmenter

MaxLen == 5

MCChars == {"a", "b", "c"}

\* Every run of two to MaxLen codepoints, and two longer runs on which the
\* scans realign after two tokens and then split differently (the Skip
\* case of the loop needs six codepoints over three characters).
MCLines == { [k \in DOMAIN f |-> f[k]] : f \in UNION { [1..n -> MCChars] : n \in 2..MaxLen } }
           \cup { <<"a", "b", "c", "a", "b", "c">>, <<"c", "a", "b", "c", "a", "b">> }

\* Words of two and three codepoints whose forward and backward greedy
\* scans disagree on some runs, and two single-codepoint words chosen so
\* that <<a, bc>> and <<ab, c>> score alike: the fine-grained pass then
\* meets paths of equal score, which std::sort may order either way.
Pool == (<<"a", "b">> :> -4) @@ (<<"b", "c">> :> -2) @@ (<<"a", "b", "c">> :> -6)
        @@ (<<"c", "a">> :> -3) @@ (<<"c", "a", "b">> :> -5)
        @@ (<<"a">> :> -5) @@ (<<"c">> :> -3)

MCDicts == { [w \in S |-> Pool[w]] : S \in SUBSET DOMAIN Pool }

====
