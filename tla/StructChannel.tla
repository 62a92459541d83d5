----------------------------- MODULE StructChannel -----------------------------
(***************************************************************************)
(* What SDFerry promises about one struct: the world that is sent a struct *)
(* gets the struct that was offered, owns a block of memory for each of    *)
(* its pointer members, and gives all of them back.  The promise does not  *)
(* cover every struct; one it does not cover may arrive broken or stop a   *)
(* world.  So may any struct when the receiver is short of memory: it is   *)
(* broken where it misses a block.                                         *)
(***************************************************************************)
CONSTANTS
  Offers,      \* the structs that can be offered
  Covered,     \* the ones the promise covers
  Owning,      \* the members that own a block, for each struct
  Loose,       \* those a struct can come without, when memory is short
  MayBeShort,  \* can it be?
  NoStruct,    \* nothing is offered, nothing has been delivered
  Broken       \* a struct that differs from the offered one

VARIABLES
  offered, delivered,
  blocks       \* the members of the delivered struct that have their block

Init == offered = NoStruct /\ delivered = NoStruct /\ blocks = {}

Offer(m) ==
  /\ offered = NoStruct
  /\ offered' = m
  /\ UNCHANGED <<delivered, blocks>>

Pending == offered # NoStruct /\ delivered = NoStruct

Deliver ==
  /\ Pending
  /\ delivered' = offered
  /\ blocks' = Owning[offered]
  /\ UNCHANGED offered

DeliverBroken ==
  /\ Pending
  /\ \E missing \in SUBSET Loose[offered] :
       /\ offered \notin Covered \/ (MayBeShort /\ missing # {})
       /\ blocks' = Owning[offered] \ missing
  /\ delivered' = Broken
  /\ UNCHANGED offered

(* The sender's world dies while it sends, or the receiver's before it has *)
(* the struct.                                                             *)
Abort ==
  /\ Pending
  /\ offered \notin Covered \/ (MayBeShort /\ Owning[offered] # {})
  /\ offered' = NoStruct
  /\ UNCHANGED <<delivered, blocks>>

Release ==
  /\ delivered # NoStruct
  /\ offered' = NoStruct
  /\ delivered' = NoStruct
  /\ blocks' = {}

Next == (\E m \in Offers : Offer(m)) \/ Deliver \/ DeliverBroken \/ Abort \/ Release

Spec == Init /\ [][Next]_<<offered, delivered, blocks>>
===============================================================================
