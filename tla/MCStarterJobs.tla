--------------------------- MODULE MCStarterJobs ---------------------------
(* Two courses, one of them with a replaced syllabus, two handlers that may *)
(* start a job, one browser that asks for facts, one example.               *)
EXTENDS StarterJobs

CONSTANTS a, b, h1, h2, admin, q1

MCCourses == {a, b}
MCOpen == {a}
MCJobs == {h1, h2}
MCClients == {h1, h2, admin}
MCExamples == {q1}
MCMaxVersion == [c \in MCCourses |-> IF c = a THEN 2 ELSE 1]

=============================================================================
