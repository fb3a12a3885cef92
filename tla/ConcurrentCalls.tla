-------------------------- MODULE ConcurrentCalls --------------------------
(***************************************************************************)
(* Threads calling Tokenize at once, each on an analyzer instance: the     *)
(* state a call writes and reads back that is not its own.                 *)
(*                                                                         *)
(*  - lowercase_string_buffer_ and stemmer_ (its Snowball SN_env) belong   *)
(*    to the RAGAnalyzer instance; the copy constructor (rag_analyzer.cpp *)
(*    666-670) gives a copy its own of both;                               *)
(*  - opencc_ is shared by the original and all its copies, and its        *)
(*    converter keeps one spseg_buffer (min_len, parent, path) that every  *)
(*    sp_seg call fills and then reads (converter.c 162-205).              *)
(*                                                                         *)
(* Each thread converts its line (one sp_seg region), then lower-cases     *)
(* and stems one English term.  A thread's line and term are named after  *)
(* the thread: data is abstracted to whose it is.  Steps are the points    *)
(* where the code writes shared memory and where it reads it back; an     *)
(* unsynchronised overlap of the two is a data race, and the model lets   *)
(* the read see the last completed write.                                 *)
(***************************************************************************)
EXTENDS Naturals

CONSTANTS
    Threads,    \* the calling threads
    Instance,   \* Instance[t]: the analyzer instance thread t calls
    None        \* nothing written yet

Instances == { Instance[t] : t \in Threads }

VARIABLES
    pc,         \* pc[t]: the next step of thread t
    spseg,      \* whose region the shared spseg_buffer holds
    conv,       \* conv[t]: whose region thread t's conversion followed
    lower,      \* lower[a]: whose term lowercase_string_buffer_ of a holds
    env,        \* env[a]: the SN_env of a's stemmer: [word, stems]
    stemmed     \* stemmed[t]: the stem_term thread t pushed

vars == <<pc, spseg, conv, lower, env, stemmed>>

Steps == {"dp", "path", "lower", "set", "stem", "read", "done"}

Init ==
    /\ pc = [t \in Threads |-> "dp"]
    /\ spseg = None
    /\ conv = [t \in Threads |-> None]
    /\ lower = [a \in Instances |-> None]
    /\ env = [a \in Instances |-> [word |-> None, stems |-> 0]]
    /\ stemmed = [t \in Threads |-> [word |-> None, stems |-> 0]]

\* converter.c 162-195: min_len and parent of the shared buffer are filled
\* for the thread's region.
SpDp(t) ==
    /\ pc[t] = "dp"
    /\ spseg' = t
    /\ pc' = [pc EXCEPT ![t] = "path"]
    /\ UNCHANGED <<conv, lower, env, stemmed>>

\* converter.c 197-210: the path is read back from parent and min_len and
\* drives the conversion of the region.
SpPath(t) ==
    /\ pc[t] = "path"
    /\ conv' = [conv EXCEPT ![t] = spseg]
    /\ pc' = [pc EXCEPT ![t] = "lower"]
    /\ UNCHANGED <<spseg, lower, env, stemmed>>

\* rag_analyzer.cpp 1728-1729 with ToLower (string_utils.h 53-78): the
\* term is copied, lower-cased and terminated in the instance's buffer.
ToLower(t) ==
    /\ pc[t] = "lower"
    /\ lower' = [lower EXCEPT ![Instance[t]] = t]
    /\ pc' = [pc EXCEPT ![t] = "set"]
    /\ UNCHANGED <<spseg, conv, env, stemmed>>

\* Line 1731 and stemmer.cpp 133-137: stemmer_->Stem(lowercase_term, ...)
\* builds the term from the buffer and SN_set_current copies it into env.
SetCurrent(t) ==
    /\ pc[t] = "set"
    /\ env' = [env EXCEPT ![Instance[t]] = [word |-> lower[Instance[t]], stems |-> 0]]
    /\ pc' = [pc EXCEPT ![t] = "stem"]
    /\ UNCHANGED <<spseg, conv, lower, stemmed>>

\* stemmer.cpp 139-142: the stemmer rewrites env in place.
StemEnv(t) ==
    /\ pc[t] = "stem"
    /\ env' = [env EXCEPT ![Instance[t]].stems = @ + 1]
    /\ pc' = [pc EXCEPT ![t] = "read"]
    /\ UNCHANGED <<spseg, conv, lower, stemmed>>

\* stemmer.cpp 144-146: resultWord is read from env, and pushed to res.
ReadResult(t) ==
    /\ pc[t] = "read"
    /\ stemmed' = [stemmed EXCEPT ![t] = env[Instance[t]]]
    /\ pc' = [pc EXCEPT ![t] = "done"]
    /\ UNCHANGED <<spseg, conv, lower, env>>

Next ==
    \E t \in Threads :
        SpDp(t) \/ SpPath(t) \/ ToLower(t) \/ SetCurrent(t) \/ StemEnv(t) \/ ReadResult(t)

Spec == Init /\ [][Next]_vars

-----------------------------------------------------------------------------

TypeOK ==
    /\ pc \in [Threads -> Steps]
    /\ spseg \in Threads \cup {None}
    /\ conv \in [Threads -> Threads \cup {None}]
    /\ lower \in [Instances -> Threads \cup {None}]

\* spec.md 253-257: calls come from arbitrary threads, and what they share
\* is read-only, so a call's result depends on its own input only.  Every
\* finished call converted its line along its own shortest path and
\* pushed the stem of its own term, stemmed once.
OwnResults ==
    \A t \in Threads :
        pc[t] = "done" => conv[t] = t /\ stemmed[t] = [word |-> t, stems |-> 1]

=============================================================================
