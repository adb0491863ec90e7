---------------------------- MODULE MCStarterRun ---------------------------
(***************************************************************************)
(* Starter runs for TLC: inventories made of six typical facts.           *)
(***************************************************************************)
EXTENDS StarterRun

CONSTANTS c1, c2, s1

LateWork == [usefulness |-> 90, importanceScore |-> 90, ask |-> 90, importance |-> "high",
             complexity |-> 3, kind |-> "late_work", scope |-> "course_wide",
             series |-> {}, chunk |-> {c1}]
Attendance == [LateWork EXCEPT !.usefulness = 70, !.complexity = 2, !.kind = "attendance"]
OfficeHours == [LateWork EXCEPT !.usefulness = 60, !.complexity = 1, !.kind = "office_hours",
                                !.scope = "other", !.chunk = {c2}]
Homework == [LateWork EXCEPT !.usefulness = 80, !.complexity = 4, !.kind = "submission",
                             !.scope = "assignment_specific", !.series = {s1}, !.chunk = {c2}]
Exam == [Homework EXCEPT !.kind = "exam", !.complexity = 2, !.chunk = {}]
FurtherReading == [LateWork EXCEPT !.usefulness = 30, !.kind = "resource", !.scope = "resource"]

TypicalFacts == {LateWork, Attendance, OfficeHours, Homework, Exam, FurtherReading}
TypicalInventories ==
    {inventory \in [FactIds -> TypicalFacts] : inventory[1] \in {LateWork, Homework}}

=============================================================================
