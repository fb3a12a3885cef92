---------------------------- MODULE Segmentation ----------------------------
(***************************************************************************)
(* What the Chinese segmentation core promises (spec.md 3 and 4.7): the    *)
(* tokens produced for a Chinese run are emitted strictly left to right,   *)
(* never backtracking over an emitted token; every token is non-empty and  *)
(* is either a dictionary word or a single codepoint; and the emitted      *)
(* tokens eventually spell out the whole run.                              *)
(*                                                                         *)
(* A run is a sequence of codepoints; a dictionary is a function from      *)
(* words (non-empty codepoint sequences) to their log-frequency field.     *)
(***************************************************************************)
EXTENDS Integers, Sequences, SequencesExt

CONSTANTS
    Lines,  \* the Chinese runs the segmenter may be handed
    Dicts   \* the dictionaries it may have been built from

VARIABLES
    line,   \* the run being segmented
    dict,   \* the dictionary (word -> log-frequency)
    out     \* the tokens emitted so far

vars == <<line, dict, out>>

\* A token the segmenter may emit: a single codepoint or a dictionary word.
Admissible(t, d) == Len(t) = 1 \/ t \in DOMAIN d

\* Every way of cutting s into admissible tokens.
RECURSIVE Cuts(_, _)
Cuts(s, d) ==
    IF s = <<>> THEN {<<>>}
    ELSE UNION { { <<SubSeq(s, 1, k)>> \o rest : rest \in Cuts(SubSeq(s, k + 1, Len(s)), d) } :
                 k \in { k \in 1..Len(s) : Admissible(SubSeq(s, 1, k), d) } }

Emitted == FlattenSeq(out)

Complete == Emitted = line

Init ==
    /\ line \in Lines
    /\ dict \in Dicts
    /\ out = <<>>

\* Emit the admissible tokens of the next stretch of the run.
EmitRun ==
    /\ ~Complete
    /\ \E e \in (Len(Emitted) + 1)..Len(line) :
         \E run \in Cuts(SubSeq(line, Len(Emitted) + 1, e), dict) :
             out' = out \o run
    /\ UNCHANGED <<line, dict>>

Spec == Init /\ [][EmitRun]_vars /\ WF_vars(EmitRun)

=============================================================================
