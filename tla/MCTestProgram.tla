----------------------------- MODULE MCTestProgram -----------------------------
(***************************************************************************)
(* The whole test program, with shorter benchmarks: two rows of two.       *)
(***************************************************************************)
EXTENDS TestProgram, Commands

CONSTANTS r1, r2

MCRegions == {r1, r2}
MCTests == HostTests(2, 2)
MCCalls == {MCTests[i].call : i \in DOMAIN MCTests}
MCArgs ==
  [c \in MCCalls |-> IF c.in = "none" THEN {Nothing}
                     ELSE {MCTests[i].arg : i \in {j \in DOMAIN MCTests : MCTests[j].call = c}}]
MCValues == UNION ({MCArgs[c] : c \in MCCalls} \cup
                   {TaCommands[n].replies : n \in DOMAIN TaCommands}) \ {Nothing}

(* The handlers of the test application meet what the wrappers need, and   *)
(* the two programs agree: the hypotheses of the theorems.                 *)
ASSUME TestHandlersFill == HandlersInOrder /\ HandlersFillAll
ASSUME TestProgramsAgree == TestsAgree
===============================================================================
