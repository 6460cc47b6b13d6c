----------------------------- MODULE MCFiling -----------------------------
(* A small instance of Filing: two projects, three tickets in a row. *)
EXTENDS Filing

CONSTANTS p1, p2, t1, t2, t3, s1

\* Two workflows that share a state besides the one they do not start in.
Plain == [states |-> {"todo", "doing"}, initial |-> "todo"]
Triage == [states |-> {"new", "doing"}, initial |-> "new"]
TwoFlows == {Plain, Triage}
InARow == {<<t2, t1>>, <<t3, t2>>}
OneSchedule == {<<"schedules", p1>>}
AnyRow == {"user_projects", "initiatives", "schedules"} \X {p1}
=============================================================================
