------------------------------ MODULE MCRunTree ------------------------------
(***************************************************************************)
(* An instance of RunTree for TLC: a root with every kind of limit and one *)
(* with steps only; and two subagents, one that declares more steps than   *)
(* the roots have and nothing else, one that declares a little of          *)
(* everything.                                                             *)
(***************************************************************************)
EXTENDS RunTree

TestRoots == {[steps |-> 4, cost |-> 4, seconds |-> 2],
              [steps |-> 4, cost |-> NoCap, seconds |-> NoCap]}
TestDeclared == {[steps |-> 9, cost |-> NoCap, seconds |-> NoCap],
                 [steps |-> 1, cost |-> 1, seconds |-> 1]}

=============================================================================
