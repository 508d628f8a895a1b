--------------------------- MODULE MCBuildClient ---------------------------
(* BuildClient with three jobs, in three set-ups.                          *)
EXTENDS BuildClient

CONSTANTS j1, j2, j3, e1, e2

\* A shared host with one client that omits the build id.
Shared == [old |-> {j1}, dry |-> {}, flaky |-> {j2}, exclusive |-> FALSE,
           requireBuildID |-> FALSE, moves |-> FALSE]

\* Every client names its build, and one is a dry run.
Named == [old |-> {}, dry |-> {j3}, flaky |-> {j2}, exclusive |-> FALSE,
          requireBuildID |-> TRUE, moves |-> FALSE]

\* One job at a time.
OneByOne == [old |-> {j1}, dry |-> {j3}, flaky |-> {j2}, exclusive |-> TRUE,
             requireBuildID |-> TRUE, moves |-> TRUE]

AllCasts == {Shared, Named, OneByOne}

\* The port of one address begins with the port of the other.
PortBegins == {<<e1, e2>>}
=============================================================================
