---------------------------- MODULE MCPipeline ----------------------------
EXTENDS Pipeline

\* 'a', '.', ' ', U+4E2D, U+00E9, and C3 61: a 2-byte lead before an ASCII
\* byte, which PCRE2 rejects and utf8_to_ucs4 and StrQ2B both decode.
MCChars == { <<97>>, <<46>>, <<32>>, <<228, 184, 173>>, <<195, 169>>, <<195, 97>> }

\* The lines whose terms reach the dropped-terminator case of SentenceSplitter.
MCDotLines == { <<97, 46, 46, 97, 195, 97>>, <<97, 46, 46, 97>>, <<97, 46, 97, 195, 97>> }

\* Characters for the conversions: ASCII, full-width forms, the ideographic
\* space, a traditional character, a 4-byte emoji, and sequences that are
\* not well formed: a stray continuation byte, truncated leads, an F8 lead.
MCNormChars ==
    { <<97>>, <<32>>, <<33>>,
      <<239, 188, 161>>,        \* U+FF21 FULLWIDTH A
      <<239, 188, 129>>,        \* U+FF01 FULLWIDTH !
      <<227, 128, 128>>,        \* U+3000 IDEOGRAPHIC SPACE
      <<233, 190, 141>>,        \* U+9F8D traditional dragon
      <<195, 169>>,             \* U+00E9
      <<240, 159, 152, 128>>,   \* U+1F600
      <<128>>, <<195>>, <<228>>, <<228, 184>>, <<248>> }

LinesOf(cs, n) == { FlattenSeq(w) : w \in UNION { [1..m -> cs] : m \in 0..n } }

MCNormLines == LinesOf(MCNormChars, 3)

\* Every line of up to four characters of MCChars and up to three of
\* MCNormChars, and two sentences in one run.
MCLines == LinesOf(MCChars, 4) \cup MCNormLines
           \cup MCDotLines \cup { <<97, 97, 46, 97, 195, 97>> }

\* The code points \W+ matches among these characters.
MCNonWord == {32, 33, 46, 12288, 65281, 128512}

\* The group: a phrase dictionary, then a character dictionary.  On
\* a U+4E2D U+4E2D a the longest match first would cut a.U+4E2D | U+4E2D | a,
\* the shortest path cuts a | U+4E2D U+4E2D a.  Every value is as long as its
\* key, as in OpenCC's t2s dictionaries.
MCPhrases == (<<97, 20013>> :> <<97, 20013>>) @@ (<<20013, 20013, 97>> :> <<20013, 20013, 97>>)
             @@ (<<40845, 40845>> :> <<40857, 40857>>)
MCGroup == << MCPhrases, <<40845>> :> <<40857>> >>

\* What a read past the end of processed_line may see: its terminator, or
\* the bytes of a continuation.
MCGarbage == {0, 128, 191}

MCMergeWords == { <<97, 46>> }

\* WordNet and the English stemmer leave the words of this alphabet as they are.
MCStem(t) == t
====
