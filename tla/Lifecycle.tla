----------------------------- MODULE Lifecycle -----------------------------
(***************************************************************************)
(* The life of RAGAnalyzer objects behind the C API (rag_analyzer_c_api.cpp)*)
(* and the C++ copy constructor: which heap objects an analyzer points to, *)
(* who owns them, and what each call allocates, frees and returns.         *)
(*                                                                         *)
(* An analyzer holds four pointers to the shared resources (trie_,         *)
(* pos_table_, wordnet_lemma_, opencc_) and own_dict_.  Load allocates     *)
(* them one by one and may stop after any of its checks; the destructor    *)
(* deletes them only when own_dict_ is set.  Results handed to the caller  *)
(* (char* strings and token lists) are counted: they are malloc'ed copies *)
(* that share nothing with the analyzer, and the caller frees them.       *)
(* Calls on a destroyed handle are undefined in C and are not taken.       *)
(***************************************************************************)
EXTENDS Integers, FiniteSets

CONSTANTS
    Handles,      \* analyzer objects a client may create
    MaxAlloc,     \* bound on allocations of resources in a behaviour
    MaxHeld,      \* bound on results the caller holds at once
    ReloadCopies  \* whether Load is ever called on a copy

Null == 0

Ptrs == {"trie", "pos", "lemma", "cc"}

\* Where RAGAnalyzer::Load (rag_analyzer.cpp 680-765) returns: one of the
\* early returns of -1, named after the check that fails, or the end.
LoadStops == {"dict_path", "pos_def_path", "pos_table", "dict_format",
              "lemma_path", "opencc_path", "ok"}

\* The pointers Load has assigned when it returns at a stop.
Assigned(stop) ==
    CASE stop \in {"dict_path", "pos_def_path"}          -> {}
      [] stop \in {"pos_table", "dict_format", "lemma_path"} -> {"trie", "pos"}
      [] stop = "opencc_path"                             -> {"trie", "pos", "lemma"}
      [] stop = "ok"                                      -> Ptrs

\* Mutant: each new object taken one id too far on.
OrderOffByOne == [trie |-> 1, pos |-> 2, lemma |-> 3, cc |-> 4]

\* The order Load assigns the pointers in; each stop assigns a prefix.
Order == [trie |-> 0, pos |-> 1, lemma |-> 2, cc |-> 3]

LoadResult(stop) == IF stop = "ok" THEN 0 ELSE -1

VARIABLES
    an,      \* an[h]: the analyzer object behind handle h
    heap,    \* heap[i]: "unused", "live" or "freed", for resource objects
    next,    \* the next allocation
    held,    \* the number of results the caller holds and must free
    ret,     \* ret[h]: what RAGAnalyzer_Analyze last returned on h, and
             \* whether h was loaded then
    dfree    \* a delete or free of an object already freed happened

vars == <<an, heap, next, held, ret, dfree>>

Ids == 1..MaxAlloc

\* loaded and copy are not fields of the object: loaded records that the
\* last Load of h, or of the analyzer h was copied from, returned 0, which
\* spec.md 308 makes the condition for using it; copy, that h was made by
\* the copy constructor.
NoAnalyzer == [st |-> "none", copy |-> FALSE, own |-> FALSE, ptr |-> [p \in Ptrs |-> Null],
               loaded |-> FALSE, fine |-> FALSE, position |-> FALSE]

Init ==
    /\ an = [h \in Handles |-> NoAnalyzer]
    /\ heap = [i \in Ids |-> "unused"]
    /\ next = 1
    /\ held = 0
    /\ ret = [h \in Handles |-> [called |-> FALSE, loaded |-> FALSE, r |-> 0]]
    /\ dfree = FALSE

Live(h) == an[h].st = "live"

\* The ids k objects allocated now get.
Fresh(k) == next..(next + k - 1)

CanAlloc(k) == next + k - 1 <= MaxAlloc

\* delete on every non-null pointer in S of an object: frees each, and
\* notes a delete of an object that is already freed.
FreeAll(S) ==
    /\ heap' = [i \in Ids |-> IF i \in S THEN "freed" ELSE heap[i]]
    /\ dfree' = (dfree \/ \E i \in S : heap[i] = "freed")

-----------------------------------------------------------------------------
(* The C API and the C++ copy constructor, one action per call.           *)

\* RAGAnalyzer_Create: new RAGAnalyzer(path); every pointer is null and
\* own_dict_ is false (rag_analyzer.h 142-152).
Create(h) ==
    /\ an[h].st = "none"
    /\ an' = [an EXCEPT ![h] = [NoAnalyzer EXCEPT !.st = "live"]]
    /\ UNCHANGED <<heap, next, held, ret, dfree>>

\* RAGAnalyzer(const RAGAnalyzer &other): shares other's four pointers,
\* with own_dict_ false, and copies fine_grained_.
CopyOwnDictFromOther(h, o) ==
    /\ an[h].st = "none" /\ Live(o)
    /\ an' = [an EXCEPT ![h] = [NoAnalyzer EXCEPT !.st = "live", !.copy = TRUE, !.own = an[o].own,
                                   !.ptr = an[o].ptr, !.loaded = an[o].loaded,
                                   !.fine = an[o].fine]]
    /\ UNCHANGED <<heap, next, held, ret, dfree>>

Copy(h, o) ==
    /\ an[h].st = "none" /\ Live(o)
    /\ an' = [an EXCEPT ![h] = [NoAnalyzer EXCEPT !.st = "live", !.copy = TRUE, !.own = FALSE,
                                   !.ptr = an[o].ptr, !.loaded = an[o].loaded,
                                   !.fine = an[o].fine]]
    /\ UNCHANGED <<heap, next, held, ret, dfree>>

\* RAGAnalyzer_Load -> RAGAnalyzer::Load, returning at stop.  From the
\* pos_table check on, own_dict_ is set and each assigned pointer gets a new
\* object; what the pointer held before is not deleted.
Load(h, stop) ==
    LET A == Assigned(stop)
        k == Cardinality(A)
    IN
    /\ Live(h)
    /\ ReloadCopies \/ ~an[h].copy
    /\ CanAlloc(k)
    /\ an' = [an EXCEPT ![h].own = (@ \/ A # {}),
                        ![h].ptr = [p \in Ptrs |-> IF p \in A THEN next + Order[p] ELSE @[p]],
                        ![h].loaded = (LoadResult(stop) = 0)]
    /\ heap' = [i \in Ids |-> IF i \in Fresh(k) THEN "live" ELSE heap[i]]
    /\ next' = next + k
    /\ UNCHANGED <<held, ret, dfree>>

\* RAGAnalyzer_SetFineGrained and RAGAnalyzer_SetEnablePosition.
SetFineGrained(h, b) ==
    /\ Live(h)
    /\ an' = [an EXCEPT ![h].fine = b]
    /\ UNCHANGED <<heap, next, held, ret, dfree>>

SetEnablePosition(h, b) ==
    /\ Live(h)
    /\ an' = [an EXCEPT ![h].position = b]
    /\ UNCHANGED <<heap, next, held, ret, dfree>>

\* Analyzer::Analyze (analyzer.h 40-43) calls the virtual
\* Analyzer::AnalyzeImpl(...) const (analyzer.h 54).  RAGAnalyzer declares
\* AnalyzeImpl without const (rag_analyzer.h 93), so it hides that function
\* instead of overriding it, and the call reaches the base, which returns -1
\* and emits nothing.
Overrides == FALSE

AnalyzeImpl(h) == IF Overrides THEN 0 ELSE -1

\* RAGAnalyzer_Analyze(handle, text, callback): analyzer->Analyze(input,
\* output) with fine_grained and enable_position left false; a non-zero
\* result is returned before any callback.
Analyze(h) ==
    /\ Live(h)
    /\ ret' = [ret EXCEPT ![h] = [called |-> TRUE, loaded |-> an[h].loaded,
                                    r |-> AnalyzeImpl(h)]]
    /\ UNCHANGED <<an, heap, next, held, dfree>>
\* A call whose result is a malloc'ed buffer the caller frees; malloc may
\* return NULL, and the call then returns NULL.
Result(ok) == held' = IF ok THEN held + 1 ELSE held

\* RAGAnalyzer_Tokenize and RAGAnalyzer_FineGrainedTokenize: the analyzer
\* reads opencc_, trie_ and wordnet_lemma_, then the joined result is
\* copied into malloc(size + 1).
Tokenize(h) ==
    /\ Live(h) /\ an[h].loaded /\ held < MaxHeld
    /\ \E ok \in BOOLEAN : Result(ok)
    /\ UNCHANGED <<an, heap, next, ret, dfree>>

FineGrainedTokenize(h) ==
    /\ Live(h) /\ an[h].loaded /\ held < MaxHeld
    /\ \E ok \in BOOLEAN : Result(ok)
    /\ UNCHANGED <<an, heap, next, ret, dfree>>

\* RAGAnalyzer_TokenizeWithPosition: Analyze (whose result is ignored) emits
\* nothing, so the list gets malloc(sizeof(RAGTokenWithPosition) * 0) for
\* its tokens; when that returns NULL the list is freed and NULL returned.
\* The bundle is not read, so any live handle may make the call.
TokenizeWithPosition(h) ==
    /\ Live(h) /\ held < MaxHeld
    /\ \E listOk, tokensOk \in BOOLEAN : Result(listOk /\ tokensOk)
    /\ UNCHANGED <<an, heap, next, ret, dfree>>

\* RAGAnalyzer_FreeTokenList, or free() of a returned string.
FreeResult ==
    /\ held > 0
    /\ held' = held - 1
    /\ UNCHANGED <<an, heap, next, ret, dfree>>

\* RAGAnalyzer_Destroy -> ~RAGAnalyzer (rag_analyzer.cpp 672-679): the four
\* resources are deleted only if own_dict_; delete of a null pointer is a
\* no-op.
Destroy(h) ==
    /\ Live(h)
    /\ an' = [an EXCEPT ![h].st = "deleted"]
    /\ IF an[h].own
       THEN FreeAll({an[h].ptr[p] : p \in Ptrs} \ {Null})
       ELSE UNCHANGED <<heap, dfree>>
    /\ UNCHANGED <<next, held, ret>>

Next ==
    \/ \E h \in Handles :
          \/ Create(h)
          \/ \E o \in Handles : Copy(h, o)
          \/ \E stop \in LoadStops : Load(h, stop)
          \/ \E b \in BOOLEAN : SetFineGrained(h, b) \/ SetEnablePosition(h, b)
          \/ Analyze(h)
          \/ Tokenize(h) \/ FineGrainedTokenize(h) \/ TokenizeWithPosition(h)
          \/ Destroy(h)
    \/ FreeResult

Spec == Init /\ [][Next]_vars

-----------------------------------------------------------------------------
(* Properties. *)

Stages == {"none", "live", "deleted"}

TypeOK ==
    /\ \A h \in Handles :
          /\ an[h].st \in Stages
          /\ an[h].own \in BOOLEAN /\ an[h].copy \in BOOLEAN /\ an[h].loaded \in BOOLEAN
          /\ an[h].ptr \in [Ptrs -> {Null} \cup Ids]
          /\ ret[h] \in [called : BOOLEAN, loaded : BOOLEAN, r : {-1, 0}]
    /\ heap \in [Ids -> {"unused", "live", "freed"}]
    /\ next \in 1..(MaxAlloc + 1)
    /\ held \in 0..MaxHeld
    /\ dfree \in BOOLEAN

\* Ownership of the shared resources: whatever the order of Create, Load
\* (including loads that stop half way and retries), copies and Destroy,
\* the destructors never delete a resource that is already deleted.  Copies
\* share the pointers of the analyzer they copy, so this rests on the copy
\* constructor clearing own_dict_.
NoDoubleFree == ~dfree

\* spec.md 294-295 and 302: tokenize never fails on a loaded analyzer.
\* RAGAnalyzer_Analyze on a handle whose Load returned 0 returns 0.
ApiAnalyzeDelivers ==
    \A h \in Handles : (ret[h].called /\ ret[h].loaded) => ret[h].r = 0

====
