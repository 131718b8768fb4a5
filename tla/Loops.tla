------------------------------- MODULE Loops -------------------------------
(***************************************************************************)
(* The loops that go over a list once, as operators on sequences: the      *)
(* comprehension with a condition, and the loop that leaves out an element *)
(* whose key it has seen.                                                  *)
(***************************************************************************)
EXTENDS Naturals, Sequences

\* The elements at some places, in order.
Pick(seq, places) ==
  LET picked[n \in 0 .. Len(seq)] ==
        IF n = 0 THEN <<>>
        ELSE IF n \in places THEN Append(picked[n - 1], seq[n]) ELSE picked[n - 1]
  IN  picked[Len(seq)]

\* F(x), with x a value: TLC may compute an argument again wherever F has it.
Once(x, F(_)) == [value \in {x} |-> F(value)][x]

\* [x for x in list if Test(x)]
Filtered(list, Test(_)) == Once(list, LAMBDA seq : Pick(seq, {i \in DOMAIN seq : Test(seq[i])}))

\* The first element with each key.
FirstOfEach(list, Key(_)) ==
  Once(list, LAMBDA seq : Pick(seq, {i \in DOMAIN seq : \A j \in 1 .. i - 1 : Key(seq[j]) # Key(seq[i])}))
=============================================================================
