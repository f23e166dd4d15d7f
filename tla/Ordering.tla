-------------------------------- MODULE Ordering --------------------------------
(***************************************************************************)
(* Sequences, as the code builds and reads them: a set put in order, the   *)
(* part of a sequence that is kept, a loop over a sequence.  They are      *)
(* choices and recursive functions, so that they can be reasoned about.    *)
(***************************************************************************)
EXTENDS Integers, Sequences, FiniteSets

\* The sequence of the members of S, each before those it comes Before.
InOrderOf(S, Before(_, _)) ==
  CHOOSE s \in [1..Cardinality(S) -> S] :
    \A i, j \in 1..Cardinality(S) : i < j => Before(s[i], s[j])

\* The members of seq that are in keep, in their order.
Keeping(seq, keep) ==
  LET kept[n \in 0..Len(seq)] ==
        IF n = 0 THEN <<>>
        ELSE IF seq[n] \in keep THEN Append(kept[n - 1], seq[n]) ELSE kept[n - 1]
  IN kept[Len(seq)]

\* What a loop over seq makes of start, Step being its body.
Looped(Step(_, _), start, seq) ==
  LET after[n \in 0..Len(seq)] == IF n = 0 THEN start ELSE Step(after[n - 1], seq[n])
  IN after[Len(seq)]
================================================================================
