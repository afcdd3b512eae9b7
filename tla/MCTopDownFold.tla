---------------------------- MODULE MCTopDownFold ----------------------------
(* Instances of TopDownFold for TLC: three ranks. An area has 16 words and is *)
(* closed with 5 or fewer left, a packet has 6 words.                         *)
EXTENDS TopDownFold

\* a row with a, b, c targets on ranks 0, 1, 2
Row(s, a, b, c) == [src |-> s, tgts |-> [j \in 1 .. a + b + c |->
  IF j <= a THEN [dest |-> 0, local |-> j]
  ELSE IF j <= a + b THEN [dest |-> 1, local |-> j - a]
  ELSE [dest |-> 2, local |-> j - a - b]]]
Ranks(f0, f1, f2) == [r \in Rank |-> IF r = 0 THEN f0 ELSE IF r = 1 THEN f1 ELSE f2]

\* Many rows: packets that fill up in the middle of a row, long rows for one,
\* for several and for the first and last target only, lists that are cut
\* behind packets and other lists.
ManyRows == {
  Ranks(<<Row(1, 3, 1, 0), Row(2, 1, 0, 3), Row(3, 0, 0, 1)>>,
        <<Row(1, 0, 2, 2), Row(4, 0, 19, 0)>>, <<>>),
  Ranks(<<Row(5, 4, 3, 3), Row(6, 4, 0, 5), Row(7, 1, 1, 1)>>,
        <<Row(8, 1, 0, 0), Row(7, 0, 3, 9)>>,
        <<Row(9, 0, 1, 24), Row(5, 2, 0, 0)>>)}
\* Any split of a long row over the targets, behind one that takes 3 to 16
\* words of the area for rank 2; another rank sends the same source.
Splits == {Ranks(<<Row(1, 0, 0, n), Row(2, a, b, c)>>, <<Row(2, 1, 0, 1)>>, <<>>) :
          n \in {1, 3, 5, 9, 11}, a, b \in {0, 1, 2, 5}, c \in {1, 6, 13, 14}}
MCFrontiers == ManyRows \cup Splits
==============================================================================
