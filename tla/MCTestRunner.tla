------------------------------ MODULE MCTestRunner ------------------------------
EXTENDS TestScheduler, TLC

Program(ends, fails) ==
  [writes |-> 0, spawns |-> FALSE, closes |-> FALSE, ends |-> ends, fails |-> fails]

\* Launch 1 may do anything a program may do and any of its calls may fail; 2 and
\* 3 run side by side, and a fork may fail; 4 does not exist.
MCPrograms ==
  (1 :> [writes |-> 1, spawns |-> TRUE, closes |-> TRUE, fails |-> Steps,
         ends |-> {<<"exited", 0>>, <<"signaled", 6>>}])
  @@ (2 :> Program({<<"exited", 0>>, <<"exited", 1>>}, {"configured"}))
  @@ (3 :> Program({<<"exited", 0>>}, {}))
  @@ (4 :> Program({}, {}))

MCLaunches == 1..4
MCTestLists == {<<1, 4>>, <<2, 3>>}
MCMissing == {4}
MCOptionSets == {[mode |-> "Fixed", requestedJobCount |-> 2]}
MCWorkers == 1..2
=============================================================================
