--------------------------- MODULE SharedMemoryProofs ---------------------------
(***************************************************************************)
(* Proofs about SharedMemory: whatever allocations fail and however often  *)
(* SDFerry is initialized, finalized and initialized again, in whatever    *)
(* contexts, it holds both regions or none.                                *)
(***************************************************************************)
EXTENDS SharedMemory, TLAPS

(* What SDFerry holds at each point of a call; between two calls the       *)
(* context of its regions is one it has been initialized for, which its    *)
(* user does not close.                                                    *)
Both ==
  /\ Live = {shared_mem_in, shared_mem_out}
  /\ shared_mem_in # shared_mem_out
  /\ owner[shared_mem_in] = owner[shared_mem_out]

Holding ==
  /\ pc = "idle" => IF initialized THEN Both /\ owner[shared_mem_in] \in served
                                   ELSE Live = {}
  /\ pc = "alloc_in" => Live = {} /\ ~ initialized /\ context \in open
  /\ pc \in {"alloc_out", "cleanup_out"} =>
       /\ Live = {shared_mem_in} /\ ~ initialized
       /\ owner[shared_mem_in] = context /\ context \in open
  /\ pc = "release_in" => Both /\ initialized
  /\ pc = "release_out" => Live = {shared_mem_out} /\ initialized

MemoryInv == TypeOK /\ Holding /\ InOpenContext

(* Allocating and releasing a region change what is live by that region.   *)
LEMMA AllocateLive ==
  ASSUME TypeOK, context \in Contexts, NEW r \in Regions, Allocate(r)
  PROVE  /\ Live' = Live \cup {r} /\ r \notin Live
         /\ owner' \in [Regions -> Contexts \cup {None}]
         /\ owner'[r] = context
         /\ \A q \in Live : owner'[q] = owner[q]
BY MemoryAssumption DEF TypeOK, Allocate, Live

LEMMA ReleaseDead ==
  ASSUME TypeOK, NEW r \in Regions \cup {None}, Release(r)
  PROVE  /\ Live' = Live \ {r}
         /\ owner' \in [Regions -> Contexts \cup {None}]
         /\ \A q \in Live \ {r} : owner'[q] = owner[q]
BY MemoryAssumption DEF TypeOK, Release, Live

LEMMA InitHolding == Init => MemoryInv
BY MemoryAssumption DEF Init, MemoryInv, TypeOK, Holding, InOpenContext, Live, Points

LEMMA StepHolding == MemoryInv /\ [Next]_vars => MemoryInv'
<1> SUFFICES ASSUME MemoryInv, [Next]_vars PROVE MemoryInv'
  OBVIOUS
<1> USE MemoryAssumption DEF MemoryInv, Holding, Both, InOpenContext
<1>1. ASSUME NEW c \in Contexts, OpenContext(c) PROVE MemoryInv'
  BY <1>1 DEF OpenContext, TypeOK, Live, memory, Points
<1>2. ASSUME NEW c \in Contexts \ served, CloseContext(c) PROVE MemoryInv'
  BY <1>2 DEF CloseContext, TypeOK, Live, memory, Points
<1>3. ASSUME NEW c \in open, AlreadyInitialized(c) PROVE MemoryInv'
  BY <1>3 DEF AlreadyInitialized, TypeOK, Live, memory, Points
<1>4. ASSUME NEW c \in open, CallInitialize(c) PROVE MemoryInv'
  BY <1>4 DEF CallInitialize, TypeOK, Live, memory, Goto, Points
<1>5. CASE AllocIn
  <2>1. PICK r \in Regions : Allocate(r) /\ shared_mem_in' = r
    BY <1>5 DEF AllocIn
  <2>2. context \in Contexts
    BY <1>5 DEF AllocIn, Goto, TypeOK
  <2>3. /\ Live' = Live \cup {r} /\ r \notin Live
        /\ owner' \in [Regions -> Contexts \cup {None}]
        /\ owner'[r] = context
        /\ \A q \in Live : owner'[q] = owner[q]
    BY <2>1, <2>2, AllocateLive
  <2>4. TypeOK'
    BY <1>5, <2>1, <2>3 DEF AllocIn, Goto, TypeOK, Points
  <2> QED
    BY <1>5, <2>1, <2>3, <2>4 DEF AllocIn, Goto
<1>6. CASE AllocInFails
  BY <1>6 DEF AllocInFails, Goto, TypeOK, Live, memory, Points
<1>7. CASE AllocOut
  <2>1. PICK r \in Regions : Allocate(r) /\ shared_mem_out' = r
    BY <1>7 DEF AllocOut
  <2>2. context \in Contexts
    BY <1>7 DEF AllocOut, Goto, TypeOK
  <2>3. /\ Live' = Live \cup {r} /\ r \notin Live
        /\ owner' \in [Regions -> Contexts \cup {None}]
        /\ owner'[r] = context
        /\ \A q \in Live : owner'[q] = owner[q]
    BY <2>1, <2>2, AllocateLive
  <2>4. TypeOK'
    BY <1>7, <2>1, <2>2, <2>3 DEF AllocOut, Goto, TypeOK, Points
  <2> QED
    BY <1>7, <2>1, <2>3, <2>4 DEF AllocOut, Goto
<1>8. CASE AllocOutFails
  BY <1>8 DEF AllocOutFails, Goto, TypeOK, Live, memory, Points
<1>9. CASE CleanupOut
  <2>1. /\ Live' = Live \ {shared_mem_in}
        /\ owner' \in [Regions -> Contexts \cup {None}]
    BY <1>9, ReleaseDead DEF CleanupOut, TypeOK
  <2> QED
    BY <1>9, <2>1 DEF CleanupOut, Release, Goto, TypeOK, Points
<1>10. CASE CallFinalize
  BY <1>10 DEF CallFinalize, Goto, TypeOK, Live, memory, Points
<1>11. CASE ReleaseIn
  <2>1. /\ Live' = Live \ {shared_mem_in}
        /\ owner' \in [Regions -> Contexts \cup {None}]
        /\ \A q \in Live \ {shared_mem_in} : owner'[q] = owner[q]
    BY <1>11, ReleaseDead DEF ReleaseIn, TypeOK
  <2> QED
    BY <1>11, <2>1 DEF ReleaseIn, Release, Goto, TypeOK, Points
<1>12. CASE ReleaseOut
  <2>1. /\ Live' = Live \ {shared_mem_out}
        /\ owner' \in [Regions -> Contexts \cup {None}]
    BY <1>12, ReleaseDead DEF ReleaseOut, TypeOK
  <2> QED
    BY <1>12, <2>1 DEF ReleaseOut, Release, Goto, TypeOK, Points
<1>13. CASE UNCHANGED vars
  BY <1>13 DEF vars, memory, TypeOK, Live
<1> QED
  BY <1>1, <1>2, <1>3, <1>4, <1>5, <1>6, <1>7, <1>8, <1>9, <1>10, <1>11, <1>12, <1>13
     DEF Next, User, Initialize, Finalize

LEMMA Held == Spec => []MemoryInv
BY InitHolding, StepHolding, PTL DEF Spec

(* Every variable of the library stays in its type.                        *)
THEOREM MemoryTypeCorrect == Spec => []TypeOK
<1>1. MemoryInv => TypeOK
  BY DEF MemoryInv
<1> QED BY <1>1, Held, PTL

(* A failed initialization leaves nothing behind, a successful one both    *)
(* regions in one context, and a retry or a finalize starts from there     *)
(* (call.c, lines 15 to 49).                                               *)
THEOREM BothOrNone == Spec => []AllOrNothing
<1>1. MemoryInv => AllOrNothing
  BY DEF MemoryInv, Holding, Both, AllOrNothing
<1> QED BY <1>1, Held, PTL

(* No region outlives its context, for a user who finalizes SDFerry before *)
(* the contexts it was initialized for.                                    *)
THEOREM RegionsReleasedInTime == Spec => []InOpenContext
<1>1. MemoryInv => InOpenContext
  BY DEF MemoryInv, InOpenContext
<1> QED BY <1>1, Held, PTL

(* No region is released twice, nor before it is allocated.                *)
THEOREM RegionsReleasedOnce == Spec => []ReleaseLive
<1>1. MemoryInv => ReleaseLive
  BY DEF MemoryInv, Holding, Both, ReleaseLive
<1> QED BY <1>1, Held, PTL

-----------------------------------------------------------------------------
(* A step gets both regions, gives both back, or shows its user nothing.   *)
held == IF InOne THEN {} ELSE Live
home == IF InOne \/ Live = {} THEN None ELSE owner[shared_mem_in]
pairVars == <<held, home, open>>

LEMMA SameHeld ==
  ASSUME UNCHANGED <<shared_mem_in, owner, open>>, InOne' <=> InOne
  PROVE  UNCHANGED pairVars
BY DEF pairVars, held, home, Live

LEMMA PairSteps == MemoryInv /\ [Next]_vars => [Pair!Next]_pairVars
<1> SUFFICES ASSUME MemoryInv, [Next]_vars PROVE [Pair!Next]_pairVars
  OBVIOUS
<1> USE MemoryAssumption DEF MemoryInv, Holding
<1>1. ASSUME NEW c \in Contexts, OpenContext(c) PROVE [Pair!Next]_pairVars
  <2>1. UNCHANGED <<held, home>> /\ open' = open \cup {c}
    BY <1>1 DEF OpenContext, memory, held, home, Live, InOne
  <2>2. Pair!Open(c)
    BY <2>1 DEF Pair!Open, held, home
  <2> QED
    BY <2>2 DEF Pair!Next
<1>2. ASSUME NEW c \in Contexts \ served, CloseContext(c) PROVE [Pair!Next]_pairVars
  <2>1. UNCHANGED <<held, home>> /\ open' = open \ {c}
    BY <1>2 DEF CloseContext, memory, held, home, Live, InOne
  <2>2. c # home
    BY <1>2 DEF CloseContext, home, Both, InOne
  <2>3. Pair!Close(c)
    BY <2>1, <2>2 DEF Pair!Close, held, home
  <2> QED
    BY <2>3 DEF Pair!Next
<1>3. ASSUME NEW c \in open, AlreadyInitialized(c) PROVE [Pair!Next]_pairVars
  BY <1>3, SameHeld DEF AlreadyInitialized, memory, InOne
<1>4. ASSUME NEW c \in open, CallInitialize(c) PROVE [Pair!Next]_pairVars
  BY <1>4, SameHeld DEF CallInitialize, Goto, memory, InOne
<1>5. CASE AllocIn
  <2>1. Live = {} /\ ~ InOne /\ InOne' /\ open' = open
    BY <1>5 DEF AllocIn, Goto, InOne
  <2> QED
    BY <2>1 DEF pairVars, held, home
<1>6. CASE AllocInFails
  BY <1>6, SameHeld DEF AllocInFails, Goto, memory, InOne
<1>7. CASE AllocOut
  <2>1. PICK r \in Regions : Allocate(r) /\ shared_mem_out' = r
    BY <1>7 DEF AllocOut
  <2>2. /\ pc = "alloc_out" /\ pc' = "idle" /\ UNCHANGED <<shared_mem_in, open>>
        /\ context \in open /\ context \in Contexts
        /\ Live = {shared_mem_in} /\ owner[shared_mem_in] = context
    BY <1>7 DEF AllocOut, Goto, TypeOK
  <2>3. /\ Live' = {shared_mem_in, r} /\ r # shared_mem_in
        /\ owner'[shared_mem_in] = context
    BY <2>1, <2>2, AllocateLive
  <2>4. held = {} /\ held' = {shared_mem_in, r} /\ home' = context
    BY <2>2, <2>3 DEF held, home, InOne
  <2>5. shared_mem_in \in Regions
    BY <2>2 DEF Live
  <2>6. Pair!Acquire
    BY <2>2, <2>3, <2>4, <2>5 DEF Pair!Acquire, held, home
  <2> QED
    BY <2>6 DEF Pair!Next
<1>8. CASE AllocOutFails
  BY <1>8, SameHeld DEF AllocOutFails, Goto, memory, InOne
<1>9. CASE CleanupOut
  <2>1. pc = "cleanup_out" /\ pc' = "idle" /\ open' = open /\ Release(shared_mem_in)
    BY <1>9 DEF CleanupOut, Goto
  <2>2. Live' = {}
    BY <2>1, ReleaseDead DEF TypeOK
  <2> QED
    BY <2>1, <2>2 DEF pairVars, held, home, InOne
<1>10. CASE CallFinalize
  BY <1>10, SameHeld DEF CallFinalize, Goto, memory, InOne
<1>11. CASE ReleaseIn
  <2>1. pc = "release_in" /\ pc' = "release_out" /\ open' = open
    BY <1>11 DEF ReleaseIn, Goto
  <2>2. held # {} /\ held' = {} /\ home' = None
    BY <2>1 DEF held, home, InOne, Both
  <2>3. Pair!GiveBack
    BY <2>1, <2>2 DEF Pair!GiveBack, held, home
  <2> QED
    BY <2>3 DEF Pair!Next
<1>12. CASE ReleaseOut
  <2>1. pc = "release_out" /\ pc' = "idle" /\ open' = open /\ Release(shared_mem_out)
    BY <1>12 DEF ReleaseOut, Goto
  <2>2. Live' = {}
    BY <2>1, ReleaseDead DEF TypeOK
  <2> QED
    BY <2>1, <2>2 DEF pairVars, held, home, InOne
<1>13. CASE UNCHANGED vars
  BY <1>13, SameHeld DEF vars, memory, InOne
<1> QED
  BY <1>1, <1>2, <1>3, <1>4, <1>5, <1>6, <1>7, <1>8, <1>9, <1>10, <1>11, <1>12, <1>13
     DEF Next, User, Initialize, Finalize

(* For its user SDFerry takes two regions of an open context at once and   *)
(* gives both back at once, before the context is closed.                  *)
THEOREM MemoryIsPair == Spec => ImplementsPair
<1>1. Init => Pair!Init
  BY MemoryAssumption DEF Init, Pair!Init, Live, InOne
<1> QED
  BY <1>1, PairSteps, Held, PTL
  DEF Spec, ImplementsPair, Pair!Spec, pairVars, held, home
===============================================================================
