-------------------------------- MODULE MCFerry --------------------------------
(***************************************************************************)
(* A host that makes the calls of host/main.c in any order, and some its   *)
(* trusted application does not understand: a command that is not in the   *)
(* switch, a struct received from a command that is sent one, and the      *)
(* integers of a native call sent to a wrapper; and some that name another *)
(* struct than the wrapper, which does not notice.                         *)
(***************************************************************************)
EXTENDS Ferry, Commands

(* The benchmarks by size call like the tests of the same struct.           *)
TestCalls ==
  {c \in {HostTests(1, 1)[i].call : i \in DOMAIN HostTests(1, 1)} :
     c.cmd \notin {"SEND_PERF_VS_SIZE", "RECEIVE_PERF_VS_SIZE"}}

WrongCalls == {InvokeStructOutCommand("NO_SUCH_COMMAND", "basic_types"),
               InvokeStructOutCommand("SEND_POINTER_TYPES", "pointer_types"),
               InvokeValueIn("SDFERRY_SEND_TRANSFER")}

MistypedCalls ==
  {InvokeStructInCommand("SEND_POINTER_TYPES", "basic_types"),
   InvokeStructInCommand("SDFERRY_SEND_TRANSFER", "basic_types"),
   InvokeStructInAndOutCommand("SEND_AND_RECEIVE", "basic_types", "rollup_type")}

MCCalls == TestCalls \cup WrongCalls \cup MistypedCalls

Sent(type) ==
  IF type \in {"value", "teec_value_clone"} THEN {"33 66", "12 34"} ELSE {"a 33"}

MCArgs == [c \in MCCalls |-> IF c.in = "none" THEN {Nothing} ELSE Sent(c.in)]

MCValues == UNION ({MCArgs[c] : c \in MCCalls} \cup
                   {TaCommands[n].replies : n \in DOMAIN TaCommands}) \ {Nothing}
===============================================================================
