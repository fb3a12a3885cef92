------------------------- MODULE MCConcurrentCalls -------------------------
EXTENDS ConcurrentCalls, TLC

CONSTANTS t1, t2, t3, a1, a2

\* Two threads, each on its own copy (the copy constructor) of one loaded
\* analyzer, the arrangement rag_analyzer_c_api.h 96-98 describes for
\* multi-threaded use; and a third on the same handle as the first, as the
\* C test (rag_analyzer_c_test.cpp 52-90) runs its threads.
MCThreads == {t1, t2, t3}
MCInstance == (t1 :> a1) @@ (t2 :> a2) @@ (t3 :> a1)
=============================================================================
