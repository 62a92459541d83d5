------------------------------- MODULE MemoryPair -------------------------------
(***************************************************************************)
(* What the host library promises about its shared memory: SDFerry holds   *)
(* two regions of one context, or nothing.  It gets the two in one step,   *)
(* only in a context that is open and only when it holds none; it gives    *)
(* them back in one step; and until then their context stays open.         *)
(***************************************************************************)
CONSTANTS
  Contexts, Regions,
  None           \* no context

VARIABLES
  held,          \* the regions SDFerry holds
  home,          \* the context they belong to
  open           \* the open contexts

Init == held = {} /\ home = None /\ open = {}

Open(c) ==
  /\ open' = open \cup {c}
  /\ UNCHANGED <<held, home>>

Close(c) ==
  /\ c # home
  /\ open' = open \ {c}
  /\ UNCHANGED <<held, home>>

Acquire ==
  /\ held = {}
  /\ \E r, s \in Regions : r # s /\ held' = {r, s}
  /\ home' \in open
  /\ UNCHANGED open

GiveBack ==
  /\ held # {}
  /\ held' = {}
  /\ home' = None
  /\ UNCHANGED open

Next == (\E c \in Contexts : Open(c) \/ Close(c)) \/ Acquire \/ GiveBack

Spec == Init /\ [][Next]_<<held, home, open>>
===============================================================================
