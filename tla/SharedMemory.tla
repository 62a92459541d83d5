----------------------------- MODULE SharedMemory -----------------------------
(***************************************************************************)
(* The life of SDFerry on the host (lib/sdferry/src/host/call.c):          *)
(* TEEC_InitializeSDFerry allocates two shared memory regions in a context *)
(* of the TEE client library, one for what commands are sent and one for   *)
(* what they send back, and TEEC_FinalizeSDFerry releases both.            *)
(*                                                                         *)
(* Either allocation may fail, and a failed initialization may be called   *)
(* again (host/call.h, lines 17 and 18).  The regions and the flag are     *)
(* statics of the library, whatever the contexts of its user.              *)
(*                                                                         *)
(* The actions are what the functions do, which check nothing.  What they  *)
(* ask of their user stands in Next: SDFerry is initialized for an open    *)
(* context, and a context it was initialized for is closed only after it   *)
(* is finalized (lines 22 to 26); otherwise the calls come in any order.   *)
(***************************************************************************)
CONSTANTS
  Contexts,   \* the contexts the host program uses
  Regions,    \* the regions the client library can give it
  None        \* not a context, not a region

ASSUME MemoryAssumption == None \notin Contexts \cup Regions

VARIABLES
  initialized,     \* the flag
  shared_mem_in,   \* the region the statics describe, None before the first
  shared_mem_out,  \* allocation; they keep it when it is released
  context,         \* the argument of the current call
  open,            \* the open contexts
  owner,           \* the context a region is allocated in, None for none
  served,          \* where TEEC_SUCCESS was returned since the last finalize
  pc               \* the point the current call has reached

memory == <<shared_mem_in, shared_mem_out, owner>>
vars == <<memory, initialized, context, open, served, pc>>

Init ==
  /\ initialized = FALSE
  /\ shared_mem_in = None
  /\ shared_mem_out = None
  /\ context = None
  /\ open = {}
  /\ owner = [r \in Regions |-> None]
  /\ served = {}
  /\ pc = "idle"

Goto(from, to) == pc = from /\ pc' = to

-----------------------------------------------------------------------------
(* The user's own calls. *)

OpenContext(c) ==
  /\ pc = "idle"
  /\ open' = open \cup {c}
  /\ UNCHANGED <<memory, initialized, context, served, pc>>

CloseContext(c) ==
  /\ pc = "idle"
  /\ open' = open \ {c}
  /\ UNCHANGED <<memory, initialized, context, served, pc>>

-----------------------------------------------------------------------------
(* TEEC_InitializeSDFerry *)

AlreadyInitialized(c) ==
  /\ pc = "idle"
  /\ initialized
  /\ served' = served \cup {c}
  /\ UNCHANGED <<memory, initialized, context, open, pc>>

CallInitialize(c) ==
  /\ Goto("idle", "alloc_in")
  /\ ~ initialized
  /\ context' = c
  /\ UNCHANGED <<memory, initialized, open, served>>

(* TEEC_AllocateSharedMemory in the context of the call *)
Allocate(r) ==
  /\ owner[r] = None
  /\ owner' = [owner EXCEPT ![r] = context]

AllocIn ==
  /\ Goto("alloc_in", "alloc_out")
  /\ \E r \in Regions : Allocate(r) /\ shared_mem_in' = r
  /\ UNCHANGED <<shared_mem_out, initialized, context, open, served>>

AllocInFails ==
  /\ Goto("alloc_in", "idle")
  /\ UNCHANGED <<memory, initialized, context, open, served>>

AllocOut ==
  /\ Goto("alloc_out", "idle")
  /\ \E r \in Regions : Allocate(r) /\ shared_mem_out' = r
  /\ initialized' = TRUE
  /\ served' = served \cup {context}
  /\ UNCHANGED <<shared_mem_in, context, open>>

(* Slip: both failures return at once. *)
ReturnWhenAllocOutFails ==
  /\ Goto("alloc_out", "idle")
  /\ UNCHANGED <<memory, initialized, context, open, served>>

AllocOutFails ==
  /\ Goto("alloc_out", "cleanup_out")
  /\ UNCHANGED <<memory, initialized, context, open, served>>

(* TEEC_ReleaseSharedMemory *)
Release(r) ==
  /\ owner' = [owner EXCEPT ![r] = None]
  /\ UNCHANGED <<shared_mem_in, shared_mem_out>>

CleanupOut ==
  /\ Goto("cleanup_out", "idle")
  /\ Release(shared_mem_in)
  /\ UNCHANGED <<initialized, context, open, served>>

-----------------------------------------------------------------------------
(* TEEC_FinalizeSDFerry; without the flag it does nothing. *)

CallFinalize ==
  /\ Goto("idle", "release_in")
  /\ initialized
  /\ UNCHANGED <<memory, initialized, context, open, served>>

ReleaseIn ==
  /\ Goto("release_in", "release_out")
  /\ Release(shared_mem_in)
  /\ UNCHANGED <<initialized, context, open, served>>

(* Slips: the flag is not reset; the first region is released again. *)
ReleaseOutOnly ==
  /\ Goto("release_out", "idle")
  /\ Release(shared_mem_out)
  /\ served' = {}
  /\ UNCHANGED <<initialized, context, open>>

ReleaseInAgain ==
  /\ Goto("release_out", "idle")
  /\ Release(shared_mem_in)
  /\ initialized' = FALSE
  /\ served' = {}
  /\ UNCHANGED <<context, open>>

ReleaseOut ==
  /\ Goto("release_out", "idle")
  /\ Release(shared_mem_out)
  /\ initialized' = FALSE
  /\ served' = {}
  /\ UNCHANGED <<context, open>>

-----------------------------------------------------------------------------
(* What the user may call: the obligations of host/call.h. *)
User ==
  \/ \E c \in Contexts : OpenContext(c)
  \/ \E c \in Contexts \ served : CloseContext(c)
  \/ \E c \in open : AlreadyInitialized(c) \/ CallInitialize(c)

Initialize == AllocIn \/ AllocInFails \/ AllocOut \/ AllocOutFails \/ CleanupOut

Finalize == CallFinalize \/ ReleaseIn \/ ReleaseOut

Next ==
  \/ User
  \/ Initialize
  \/ Finalize

Spec == Init /\ [][Next]_vars

-----------------------------------------------------------------------------
(***************************************************************************)
(* Properties.                                                             *)
(***************************************************************************)

Points == {"idle", "alloc_in", "alloc_out", "cleanup_out", "release_in", "release_out"}

(* The type invariant.                                                     *)
TypeOK ==
  /\ initialized \in BOOLEAN
  /\ shared_mem_in \in Regions \cup {None}
  /\ shared_mem_out \in Regions \cup {None}
  /\ context \in Contexts \cup {None}
  /\ open \in SUBSET Contexts
  /\ owner \in [Regions -> Contexts \cup {None}]
  /\ served \in SUBSET Contexts
  /\ pc \in Points

Live == {r \in Regions : owner[r] # None}

(* Between two calls, whatever failed and was tried again before, SDFerry  *)
(* has both regions, in one context, or it has nothing: no failed attempt  *)
(* leaves a region behind, and no call allocates over a live one.          *)
AllOrNothing ==
  pc = "idle" =>
    IF initialized
    THEN /\ Live = {shared_mem_in, shared_mem_out}
         /\ shared_mem_in # shared_mem_out
         /\ owner[shared_mem_in] = owner[shared_mem_out]
    ELSE Live = {}

(* No live region outlives its context, although SDFerry, whose finalize   *)
(* function takes no argument, does not know which contexts are open.      *)
InOpenContext == \A r \in Live : owner[r] \in open

(* A region is released only while it is live: never twice, never before   *)
(* it was allocated.                                                       *)
ReleaseLive ==
  /\ pc \in {"release_in", "cleanup_out"} => shared_mem_in \in Live
  /\ pc = "release_out" => shared_mem_out \in Live

(* A context the function returned TEEC_SUCCESS for has the shared memory  *)
(* allocated in it (host/call.h, lines 13 to 15: the function allocates,   *)
(* and its return code is that of the allocation).                         *)
ServedHasMemory ==
  pc = "idle" => \A c \in served : \E r \in Live : owner[r] = c

(* The calls of SDFerry that use the regions see both or none: while one   *)
(* of the two is allocated without the other, they are inside of a call    *)
(* that is going to allocate it too or to release both.                    *)
InOne == pc \in {"alloc_out", "cleanup_out", "release_out"}

Pair == INSTANCE MemoryPair WITH
  held <- IF InOne THEN {} ELSE Live,
  home <- IF InOne \/ Live = {} THEN None ELSE owner[shared_mem_in]

(* To its user an initialization gets both regions at once or changes      *)
(* nothing, and a finalization gives both back at once (host/call.h, lines *)
(* 13 to 18 and 22 to 26), whatever failed before, in whatever contexts.   *)
ImplementsPair == Pair!Spec
===============================================================================
