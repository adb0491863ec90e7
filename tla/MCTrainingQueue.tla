-------------------------- MODULE MCTrainingQueue --------------------------
(* Model values for TrainingQueue: two handlers at a time, two contents of *)
(* the prepared dataset.                                                   *)
EXTENDS TrainingQueue

CONSTANTS h1, h2, before, after

TwoHandlers == {h1, h2}
TwoDigests == {before, after}
\* No definition tells two handlers, or two contents of the dataset, apart.
Interchangeable == Permutations({h1, h2}) \cup Permutations({before, after})

\* A bound: a behaviour is followed up to the first overtaking commit.
NotYetOvertaken == ~overtaken
=============================================================================
