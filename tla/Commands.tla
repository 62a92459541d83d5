------------------------------- MODULE Commands -------------------------------
(***************************************************************************)
(* The commands of the test application: what the trusted application runs *)
(* for each (ta/sdferry_test_ta.c), what a handler does with the struct it *)
(* gets or has to fill, and the calls the host makes (host/main.c).        *)
(*                                                                         *)
(* A struct's contents are one value, named after what the source assigns. *)
(* A handler is the sequence of its statements that can fail or that fill  *)
(* a member; members are numbered as in Registry, in the order they are    *)
(* registered with nested structs inlined.                                 *)
(***************************************************************************)
EXTENDS Registry

Do(what, slot, value) == << [do |-> what, slot |-> slot, value |-> value] >>

Read              == Do("read", 0, "")      \* prints members, through their pointers
Expect(value)     == Do("expect", 0, value) \* any other is TEE_ERROR_NO_DATA
Assign(s)         == Do("assign", s, "")
Alloc(s)          == Do("alloc", s, "")     \* or TEE_ERROR_OUT_OF_MEMORY
AllocUnchecked(s) == Do("alloc_unchecked", s, "")

-----------------------------------------------------------------------------
(* The handlers: their statements and the values they can fill a struct    *)
(* with.  The size of a benchmark's reply grows with every hundred.        *)

Handler(body, replies) == [body |-> body, replies |-> replies]

test_receive_basic_types == Handler(Read, {})
test_send_basic_types    == Handler(Assign(2) \o Assign(1), {"c 604"})

test_receive_pointer_types == Handler(Read, {})
test_send_pointer_types    ==
  Handler(Assign(2) \o Alloc(3) \o AllocUnchecked(1), {"test hijk"})

test_receive_rollup_type == Handler(Read, {})
(* Slip: no memory for the nested struct. *)
test_send_rollup_unallocated ==
  Handler(Alloc(1) \o Assign(3) \o Assign(2) \o
          Assign(6) \o Alloc(7) \o AllocUnchecked(5), {"c 604 test hijk"})
test_send_rollup_type    ==
  Handler(Alloc(1) \o Assign(3) \o Assign(2) \o
          Alloc(4) \o Assign(6) \o Alloc(7) \o AllocUnchecked(5), {"c 604 test hijk"})

test_send_and_receive ==
  Handler(Read \o Assign(2) \o Alloc(3) \o AllocUnchecked(1), {"receive send"})

receive_performance_vs_size == Handler(<< >>, {})
send_performance_vs_size    ==
  Handler(Assign(2) \o Alloc(3) \o AllocUnchecked(1), {"test 1000", "test 2000"})

native_receive_performance  == Handler(Expect("33 66"), {})
sdferry_receive_performance == Handler(Expect("33 66"), {})
native_send_performance     == Handler(Assign(1) \o Assign(2), {"33 66"})
sdferry_send_performance    == Handler(Assign(1) \o Assign(2), {"33 66"})

-----------------------------------------------------------------------------
(* The command wrappers (ta/register.h): the parameter types they insist   *)
(* on, and the structs they receive and send.                              *)

Command(params, in, out, handler) ==
  [params |-> params, in |-> in, out |-> out,
   body |-> handler.body, replies |-> handler.replies]

RECEIVE_COMMAND(type, handler) == Command(<<"memref_input">>, type, "none", handler)
SEND_COMMAND(type, handler)    == Command(<<"memref_output">>, "none", type, handler)
SEND_AND_RECEIVE_COMMAND(in, out, handler) ==
  Command(<<"memref_input", "memref_output">>, in, out, handler)

(* Commands that move two integers in the parameters, without SDFerry.     *)
VALUE_INPUT(handler)  == Command(<<"value_input">>, "value", "none", handler)
VALUE_OUTPUT(handler) == Command(<<"value_output">>, "none", "value", handler)

(* TA_InvokeCommandEntryPoint *)
TaCommands ==
  [SEND_BASIC_TYPES      |-> RECEIVE_COMMAND("basic_types", test_receive_basic_types),
   RECEIVE_BASIC_TYPES   |-> SEND_COMMAND("basic_types", test_send_basic_types),
   SEND_POINTER_TYPES    |-> RECEIVE_COMMAND("pointer_types", test_receive_pointer_types),
   RECEIVE_POINTER_TYPES |-> SEND_COMMAND("pointer_types", test_send_pointer_types),
   SEND_ROLLUP_TYPE      |-> RECEIVE_COMMAND("rollup_type", test_receive_rollup_type),
   RECEIVE_ROLLUP_TYPE   |-> SEND_COMMAND("rollup_type", test_send_rollup_type),
   SEND_AND_RECEIVE      |->
     SEND_AND_RECEIVE_COMMAND("basic_types", "pointer_types", test_send_and_receive),
   SEND_PERF_VS_SIZE     |-> RECEIVE_COMMAND("pointer_types", receive_performance_vs_size),
   RECEIVE_PERF_VS_SIZE  |-> SEND_COMMAND("pointer_types", send_performance_vs_size),
   NATIVE_SEND_TRANSFER     |-> VALUE_INPUT(native_receive_performance),
   SDFERRY_SEND_TRANSFER    |->
     RECEIVE_COMMAND("teec_value_clone", sdferry_receive_performance),
   NATIVE_RECEIVE_TRANSFER  |-> VALUE_OUTPUT(native_send_performance),
   SDFERRY_RECEIVE_TRANSFER |->
     SEND_COMMAND("teec_value_clone", sdferry_send_performance)]

-----------------------------------------------------------------------------
(* The calls of the host: the command, the parameter types SDFerry (or, in *)
(* a native call, the host itself) fills in, and the structs' types.       *)

Call(cmd, params, in, out) == [cmd |-> cmd, params |-> params, in |-> in, out |-> out]

InvokeStructInCommand(cmd, type)  == Call(cmd, <<"memref_input">>, type, "none")
InvokeStructOutCommand(cmd, type) == Call(cmd, <<"memref_output">>, "none", type)
InvokeStructInAndOutCommand(cmd, in, out) ==
  Call(cmd, <<"memref_input", "memref_output">>, in, out)
InvokeValueIn(cmd)  == Call(cmd, <<"value_input">>, "value", "none")
InvokeValueOut(cmd) == Call(cmd, <<"value_output">>, "none", "value")

(* A test of host/main.c makes one call a number of times.  A result other *)
(* than the success, or a reply other than the wanted one ("" for any),    *)
(* ends the program.  The members it receives it frees once in so many     *)
(* calls.                                                                  *)
Test(c, arg, times, want, frees) ==
  [call |-> c, arg |-> arg, times |-> times, want |-> want, frees |-> frees]

Sends(c, arg, times)       == Test(c, arg, times, "", 0)
Receives(c, times, frees)  == Test(c, "", times, "", frees)
Wants(c, want, times)      == Test(c, "", times, want, 0)

host_test_send_basic_types ==
  Sends(InvokeStructInCommand("SEND_BASIC_TYPES", "basic_types"), "a 33", 1)
host_test_receive_basic_types ==
  Receives(InvokeStructOutCommand("RECEIVE_BASIC_TYPES", "basic_types"), 1, 1)
host_test_send_pointer_types ==
  Sends(InvokeStructInCommand("SEND_POINTER_TYPES", "pointer_types"), "abc xyz", 1)
host_test_receive_pointer_types ==
  Receives(InvokeStructOutCommand("RECEIVE_POINTER_TYPES", "pointer_types"), 1, 1)
host_test_send_rollup_type ==
  Sends(InvokeStructInCommand("SEND_ROLLUP_TYPE", "rollup_type"), "a 33 abc xyz", 1)
host_test_receive_rollup_type ==
  Receives(InvokeStructOutCommand("RECEIVE_ROLLUP_TYPE", "rollup_type"), 1, 1)
host_test_send_and_receive ==
  Test(InvokeStructInAndOutCommand("SEND_AND_RECEIVE", "basic_types", "pointer_types"),
       "f 12", 1, "", 1)

host_send_performance_vs_size(rows, repeats) ==
  Sends(InvokeStructInCommand("SEND_PERF_VS_SIZE", "pointer_types"), "a xxx", rows * repeats)
host_receive_performance_vs_size(rows, repeats) ==
  Receives(InvokeStructOutCommand("RECEIVE_PERF_VS_SIZE", "pointer_types"),
           rows * repeats, repeats)
host_native_send_performance(repeats) ==
  Sends(InvokeValueIn("NATIVE_SEND_TRANSFER"), "33 66", repeats)
host_sdferry_send_performance(repeats) ==
  Sends(InvokeStructInCommand("SDFERRY_SEND_TRANSFER", "teec_value_clone"), "33 66", repeats)
host_native_receive_performance(repeats) ==
  Wants(InvokeValueOut("NATIVE_RECEIVE_TRANSFER"), "33 66", repeats)
host_sdferry_receive_performance(repeats) ==
  Wants(InvokeStructOutCommand("SDFERRY_RECEIVE_TRANSFER", "teec_value_clone"),
        "33 66", repeats)

(* main, between the initialization and the finalization of SDFerry *)
HostTests(rows, repeats) ==
  << host_test_send_basic_types, host_test_receive_basic_types,
     host_test_send_pointer_types, host_test_receive_pointer_types,
     host_test_send_and_receive,
     host_test_send_rollup_type, host_test_receive_rollup_type,
     host_send_performance_vs_size(rows, repeats),
     host_receive_performance_vs_size(rows, repeats),
     host_native_send_performance(repeats), host_sdferry_send_performance(repeats),
     host_native_receive_performance(repeats), host_sdferry_receive_performance(repeats) >>
===============================================================================
