------------------------------ MODULE MCOffice ------------------------------
(***************************************************************************)
(* The records of the company (module Office) for TLC.                     *)
(***************************************************************************)
EXTENDS Office, TLC

\* "build the page", "check lane #1", "check the page": a build, a check that
\* names its objective and one that names none.
MCTasks == {<<"build", "page">>, <<"check", "obj1">>, <<"check", "page">>}
MCObjOf == [w \in {"build", "check", "obj1", "page"} |-> IF w = "obj1" THEN 1 ELSE 0]

Symmetry == Permutations(Agents)
=============================================================================
