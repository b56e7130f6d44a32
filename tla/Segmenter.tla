-------------------------------- MODULE Segmenter --------------------------------
(***************************************************************************)
(* min_sms_segments: in how many SMS segments the words of a message fit,  *)
(* no word split.  A message is the sequence of the lengths of its words,  *)
(* and a word longer than a segment gets one of its own.  Only the SMS     *)
(* channel cuts messages; the service as it is started sends email.        *)
(***************************************************************************)
EXTENDS Integers, Sequences, FiniteSetsExt

CONSTANTS
  SegmentChars,  \* characters of a segment (160 in the code)
  LongestWord,   \* the messages checked: word lengths up to LongestWord,
  MaxWords       \* at most MaxWords of them

\* The length of words i .. j with the spaces between them.
Joined(words, i, j) == MapThenSumSet(LAMBDA k : words[k], i .. j) + (j - i)

\* Mutant: the space before a word is not counted.
FitsTightly(words, i, j) == Joined(words, i, j) - (j - i) <= SegmentChars

\* Words i .. j fit into one segment.
Fits(words, i, j) == Joined(words, i, j) <= SegmentChars

\* dp[i] of the code, the fewest segments of words i and after.
Segments(words) ==
  LET n == Len(words)
      dp[i \in 1 .. n + 1] ==
        IF i = n + 1 THEN 0
        ELSE IF ~Fits(words, i, i) THEN 1 + dp[i + 1]
        ELSE Min({1 + dp[j + 1] : j \in {k \in i .. n : Fits(words, i, k)}})
  IN dp[1]

--------------------------------------------------------------------------------
\* The reference: a way to cut a message is the set of words after which a
\* segment ends, and it works if every segment of several words is short enough.

Suffices(words, cuts) ==
  \A i, j \in DOMAIN words :
    (/\ i < j
     /\ i = 1 \/ i - 1 \in cuts
     /\ \A k \in i .. j - 1 : k \notin cuts) => Joined(words, i, j) <= SegmentChars

Messages == UNION {[1 .. n -> 1 .. LongestWord] : n \in 0 .. MaxWords}

\* The count is the least any cut of the message at its spaces allows, for words
\* that fill a segment exactly, words that are longer, and none.
SegmentsAreMinimal ==
  \A words \in Messages :
    LET last == Len(words) IN
    Segments(words) = IF last = 0 THEN 0
                      ELSE Min({Cardinality(cuts) : cuts \in
                                 {c \in SUBSET (1 .. last) : last \in c /\ Suffices(words, c)}})
================================================================================
