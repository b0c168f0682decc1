------------------------------- MODULE Lists -------------------------------
(***************************************************************************)
(* Filtering and adding up sequences.  SelectSeq and FoldLeft take         *)
(* operators, about which no fact can be stated that the provers could     *)
(* use; these take a set and a sequence.                                   *)
(***************************************************************************)
EXTENDS Integers, Sequences

\* The elements of a sequence that are in a set, in their order.
Kept(seq, S) ==
  LET kept[n \in 0 .. Len(seq)] ==
        IF n = 0 THEN <<>>
        ELSE IF seq[n] \in S THEN Append(kept[n - 1], seq[n]) ELSE kept[n - 1]
  IN kept[Len(seq)]

\* The sum of a sequence of numbers.
Total(numbers) ==
  LET total[n \in 0 .. Len(numbers)] ==
        IF n = 0 THEN 0 ELSE total[n - 1] + numbers[n]
  IN total[Len(numbers)]
=============================================================================
