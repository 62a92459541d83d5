----------------------------- MODULE MCStructCopy -----------------------------
(***************************************************************************)
(* The structs of the test application, a few values of each: empty and    *)
(* non-empty strings and buffers, NULL nested structs, and a struct one    *)
(* char too long for the shared buffer of the runs.                        *)
(***************************************************************************)
EXTENDS StructCopy

CONSTANTS a, b    \* two chars

MCChars == {a, b}
MCBlocks == 1 .. 4

Basic   == {<<1, a>>, <<2, b>>}
Pointer == {<< << >>, 0, << >> >>, <<<<a>>, 2, <<b, a>>>>, <<<<b, a>>, 1, <<a>>>>}
Rollup  == {<<Node, 1, a, Node, <<b, a>>, 1, <<a>>>>,
            <<Node, 2, b, Node, << >>, 2, <<a, b>>>>,
            <<Null, 0, a, Node, <<a>>, 1, <<b>>>>,
            <<Node, 1, b, Null, << >>, 0, << >>>>}
LongRollup == {<<Node, 1, a, Node, <<b, a>>, 2, <<a, b>>>>}

(* All of them fit the shared buffer of 5 words. *)
FitNames   == DOMAIN HostRegistry
FitSources == [basic_types |-> Basic, pointer_types |-> Pointer,
               rollup_type |-> Rollup, teec_value_clone |-> {<<1, 2>>}]

(* A registration that uses the size_t type of basic.h, as an application  *)
(* may; the test application registers none.                               *)
sized_string == REGISTER_STRUCT2(Plain("size_t"), Plain("cstring"))

TightNames   == {"rollup_type", "sized_string"}
TightHost    == [rollup_type |-> host_rollup_type, sized_string |-> sized_string]
TightTa      == [rollup_type |-> ta_rollup_type, sized_string |-> sized_string]
TightSources == [rollup_type |-> {<<Node, 1, a, Node, <<b>>, 2, <<a, b>>>>,
                                  <<Node, 1, b, Null, << >>, 0, << >>>>} \cup LongRollup,
                 sized_string |-> {<<1, <<a>>>>}]
===============================================================================
