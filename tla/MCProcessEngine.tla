-------------------------- MODULE MCProcessEngine --------------------------
(* Small instances of ProcessEngine for TLC.                               *)
EXTENDS ProcessEngine

CONSTANTS s1, s2

Enabled(steps) == [enable |-> TRUE, steps |-> steps]
Disabled(steps) == [enable |-> FALSE, steps |-> steps]

\* A script with a test that is skipped, a test of two steps and a last test
\* whose step loops; a script whose only test has no step.
Tests ==
  [s \in Scripts |->
     IF s = s1
     THEN <<Disabled(<<"once">>), Enabled(<<"once", "once">>), Enabled(<<"loop">>)>>
     ELSE <<Enabled(<<>>)>>]
=============================================================================
