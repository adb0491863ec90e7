------------------------- MODULE MCGenerationQueue -------------------------
(* Model values for GenerationQueue: two comparisons, A with two requests  *)
(* and B with one, and one starter generation.                             *)
EXTENDS GenerationQueue

CONSTANTS a1, a2, b1, s1, A, B, none

ThreeStudents == {a1, a2, b1}
OneStarter == {s1}
TwoComparisons == {A, B}
CompareIds == [r \in ThreeStudents |-> IF r = b1 THEN B ELSE A]
=============================================================================
