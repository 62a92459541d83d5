---------------------------- MODULE MCSharedMemory ----------------------------
(***************************************************************************)
(* Two contexts and one region more than SDFerry holds, so that a leaked   *)
(* region shows before the regions run out.                                *)
(***************************************************************************)
EXTENDS SharedMemory

CONSTANTS c1, c2, r1, r2, r3

MCContexts == {c1, c2}
MCRegions == {r1, r2, r3}
===============================================================================
