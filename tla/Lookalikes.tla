------------------------------ MODULE Lookalikes ------------------------------
(***************************************************************************)
(* Names that look alike: folding to a skeleton, and edit distance.        *)
(*   packages/detectors/src/util.ts                                        *)
(* A name is a sequence of characters; the tables that lower a character   *)
(* and that fold a confusable one are parameters.                          *)
(***************************************************************************)
EXTENDS Naturals, SequencesExt, FiniteSetsExt

CONSTANTS
  Chars,
  LowerOf,      \* Chars -> Chars
  Confusables   \* the confusable characters, each with what it is folded to

ASSUME TablesAssumption ==
  /\ {"r", "n", "m"} \subseteq Chars
  /\ LowerOf \in [Chars -> Chars]
  /\ DOMAIN Confusables \subseteq Chars /\ \A ch \in DOMAIN Confusables : Confusables[ch] \in Chars

Lower(s) == [i \in DOMAIN s |-> LowerOf[s[i]]]

Folded(ch) == IF ch \in DOMAIN Confusables THEN Confusables[ch] ELSE ch

IsRn(s, i) == i \in 1..(Len(s) - 1) /\ s[i] = "r" /\ s[i + 1] = "n"

\* replace(/rn/g, 'm')
RnFolded(s) ==
  LET folded[i \in 0..Len(s)] ==
        IF i = 0 THEN <<>>
        ELSE IF IsRn(s, i - 1) THEN folded[i - 1]
        ELSE Append(folded[i - 1], IF IsRn(s, i) THEN "m" ELSE s[i])
  IN  folded[Len(s)]

Skeleton(s) == RnFolded([i \in DOMAIN s |-> Folded(LowerOf[s[i]])])

\* The row curr of the distances of a[1..i], which ends in ch, to the prefixes of b, from prev,
\* the row before it.
Row(prev, ch, b) ==
  LET curr[j \in 0..Len(b)] ==
        IF j = 0 THEN prev[0] + 1
        ELSE Min({prev[j] + 1, curr[j - 1] + 1, prev[j - 1] + (IF ch = b[j] THEN 0 ELSE 1)})
  IN  curr

EditDistance(a, b) ==
  LET rows[i \in 0..Len(a)] == IF i = 0 THEN [j \in 0..Len(b) |-> j] ELSE Row(rows[i - 1], a[i], b)
  IN  rows[Len(a)][Len(b)]

\* stringSimilarity, in thousandths.
StringSimilarity(a, b) ==
  LET longer == Max({Len(a), Len(b)})
  IN  IF longer = 0 THEN 1000 ELSE 1000 - (1000 * EditDistance(a, b)) \div longer

===============================================================================
