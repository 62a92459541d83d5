------------------------------- MODULE Registry -------------------------------
(***************************************************************************)
(* The structs the two worlds register with SDFerry.                       *)
(*                                                                         *)
(* A REGISTER macro of lib/sdferry/include/sdferry/register.h expands to a *)
(* send, a receive and a free function that call the functions of the      *)
(* member types in turn.  A layout is that expansion with the calls for    *)
(* nested structs inlined: one entry per call, in the order send and       *)
(* receive make them (free makes them backwards).  An entry has            *)
(*   type  the type of the member, "struct" for a pointer to a nested one; *)
(*   span  for a nested struct, how many of the next entries are inside it;*)
(*   size  where the entry of its size member is, relative to this one, or *)
(*         0 when the registration names none.  Only a buffer uses it.     *)
(* The two worlds register the structs in files of their own, and nothing  *)
(* compares the two copies.                                                *)
(***************************************************************************)
EXTENDS Integers, Sequences

Types == {"char", "uint32_t", "cstring", "buffer", "size_t", "struct"}

Entry == [type : Types, span : Nat, size : Int]

(* The arguments a macro takes for one member. *)
Plain(type)  == << [type |-> type, span |-> 0, size |-> 0] >>
Buffer(at)   == << [type |-> "buffer", span |-> 0, size |-> at] >>
Nested(inner) == << [type |-> "struct", span |-> Len(inner), size |-> 0] >> \o inner

-----------------------------------------------------------------------------
(* The macros.  The NOBUFFER ones pass 0 as the size of every member.      *)

NoSize(member) == [member EXCEPT ![1].size = 0]

REGISTER_STRUCT(m1)          == m1
REGISTER_NOBUFFER_STRUCT(m1) == NoSize(m1)
REGISTER_STRUCT2(m1, m2)     == m1 \o m2
REGISTER_NOBUFFER_STRUCT2(m1, m2) == NoSize(m1) \o NoSize(m2)
REGISTER_STRUCT3(m1, m2, m3) == m1 \o m2 \o m3
REGISTER_NOBUFFER_STRUCT3(m1, m2, m3) == NoSize(m1) \o NoSize(m2) \o NoSize(m3)

-----------------------------------------------------------------------------
(* host/main.c *)

host_basic_types   == REGISTER_STRUCT2(Plain("uint32_t"), Plain("char"))
host_pointer_types ==
  REGISTER_STRUCT3(Plain("cstring"), Plain("uint32_t"), Buffer(-1))
host_rollup_type   ==
  REGISTER_NOBUFFER_STRUCT2(Nested(host_basic_types), Nested(host_pointer_types))

host_teec_value_clone ==
  REGISTER_NOBUFFER_STRUCT2(Plain("uint32_t"), Plain("uint32_t"))

(* Slip: the second copy of a registration names the members in another    *)
(* order.                                                                  *)
swapped_basic_types == REGISTER_STRUCT2(Plain("char"), Plain("uint32_t"))
(* ta/sdferry_test_ta.c *)

ta_basic_types   == REGISTER_STRUCT2(Plain("uint32_t"), Plain("char"))
ta_pointer_types ==
  REGISTER_STRUCT3(Plain("cstring"), Plain("uint32_t"), Buffer(-1))
ta_rollup_type   ==
  REGISTER_NOBUFFER_STRUCT2(Nested(ta_basic_types), Nested(ta_pointer_types))

ta_teec_value_clone ==
  REGISTER_NOBUFFER_STRUCT2(Plain("uint32_t"), Plain("uint32_t"))

HostRegistry == [basic_types   |-> host_basic_types,
                 pointer_types |-> host_pointer_types,
                 rollup_type   |-> host_rollup_type,
                 teec_value_clone |-> host_teec_value_clone]

TaRegistry == [basic_types   |-> ta_basic_types,
               pointer_types |-> ta_pointer_types,
               rollup_type   |-> ta_rollup_type,
               teec_value_clone |-> ta_teec_value_clone]
===============================================================================
