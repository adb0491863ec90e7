----------------------------- MODULE MCContent -----------------------------
(* CourseContent for model checking: uploads and reviewers are alike.       *)
EXTENDS CourseContent, TLC

\* An upload and a reviewer are only names: nothing compares or orders them.
InterchangeableStaff == Permutations(Uploads) \cup Permutations(Reviewers)

\* A bound: behaviours in which two excuses have been used are not followed further.
OneExcuse == Cardinality(excuse) <= 1

\* A bound: once an excuse that is not about the review has been used, only the
\* behaviours in which the example keeps its first text are followed.
OneTextOnceExcused == excuse \subseteq {"approved unseen"} \/ seed.text = 1

=============================================================================
