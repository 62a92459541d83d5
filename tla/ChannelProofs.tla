----------------------------- MODULE ChannelProofs -----------------------------
(***************************************************************************)
(* StructCopy implements StructChannel when both worlds register the same  *)
(* layouts, whatever allocations fail.                                     *)
(***************************************************************************)
EXTENDS StructCopyProofs

(* The variables of the channel. *)
offeredBar ==
  IF pc \in {"sending", "receiving", "held", "freeing"} THEN <<kind, val>> ELSE NoStruct

deliveredBar ==
  IF pc \notin {"held", "freeing"} THEN NoStruct
  ELSE IF val # Null /\ thing = val THEN <<kind, val>> ELSE Broken

blocksBar ==
  IF pc \in {"receiving", "crashed"} THEN {}
  ELSE IF pc \in {"held", "freeing"} THEN {s \in DOMAIN ptr : ptr[s] # Null}
  ELSE {s \in DOMAIN ptr : ptr[s] \in heap}

LooseTypes   == {"cstring", "buffer"}
PointerTypes == {"cstring", "buffer", "struct"}

(* The members that have been received.                                    *)
Rebuilt == IF pc = "receiving" THEN 1 .. slot - 1 ELSE 1 .. Len(In)

(* A member that was received has its block, or is a string or a buffer    *)
(* that is NULL; where one of these is, the receiver was short of memory.  *)
BlocksInv ==
  /\ pc = "sending" => "alloc" \notin lost
  /\ pc \in {"receiving", "held", "freeing"} =>
       /\ \A s \in 1 .. Len(In) : In[s].type \notin PointerTypes => ptr[s] = Null
       /\ \A s \in Rebuilt :
            /\ In[s].type = "struct" => ptr[s] # Null
            /\ In[s].type \in LooseTypes /\ ptr[s] = Null => thing[s] = Null
       /\ "alloc" \in lost =>
            AllocMayFail /\ \E s \in Rebuilt : In[s].type \in LooseTypes /\ ptr[s] = Null

(* No pointer of a struct the promise covers is NULL when it is sent, and  *)
(* it fits the buffer.                                                     *)
PromisedInv ==
  pc \in {"sending", "receiving", "held"} /\ <<kind, val>> \in Promised =>
    "null" \notin lost /\ "overrun" \notin lost

ChannelInv == CopyInv /\ LongInv /\ BlocksInv /\ PromisedInv

LEMMA PromisedMeans ==
  ASSUME TypeOK, <<kind, val>> \in Promised
  PROVE  /\ val # Null /\ ~ TooLong(Out, val)
         /\ \A s \in 1 .. Len(Out) : /\ Out[s].type # "size_t"
                                     /\ Out[s].type = "struct" => val[s] = Node
<1>1. /\ val # Null /\ ~ TooLong(SendLayout[kind], val)
      /\ \A s \in DOMAIN val : /\ SendLayout[kind][s].type # "size_t"
                               /\ SendLayout[kind][s].type = "struct" => val[s] = Node
  BY DEF Promised
<1>2. kind \in Structs /\ val \in Sources[kind]
  BY <1>1 DEF TypeOK
<1>3. DOMAIN val = 1 .. Len(Out)
  BY <1>2, CopyAssumption DEF Out
<1> QED
  BY <1>1, <1>3 DEF Out

LEMMA OfferedMeans ==
  ASSUME TypeOK
  PROVE  /\ <<kind, val>> \in Offered
         /\ NoStruct \notin {<<kind, val>>, Broken} /\ <<kind, val>> # Broken
<1>1. <<kind, val>> \in Offered
  BY DEF TypeOK, Offered
<1> QED
  BY <1>1, OfferAssumption

(* What the channel says of the blocks of a struct, in terms of its layout.*)
LEMMA OwningMeans ==
  ASSUME TypeOK
  PROVE  /\ Pointers(kind) = {s \in 1 .. Len(In) : In[s].type \in PointerTypes}
         /\ OfKind({"cstring", "buffer"}, kind) =
              {s \in 1 .. Len(In) : In[s].type \in LooseTypes}
         /\ DOMAIN ptr = 1 .. Len(In)
<1>1. DOMAIN In = 1 .. Len(In)
  BY Layouts
<1> QED
  BY <1>1 DEF TypeOK, Pointers, OfKind, In, PointerTypes, LooseTypes

(* A receive call crashes, or receives one member.                         *)
LEMMA ReceiveMemberCases ==
  ASSUME ReceiveMember
  PROVE  /\ pc = "receiving" /\ slot <= Len(In) /\ UNCHANGED <<kind, val>>
         /\ \/ pc' = "crashed" /\ lost' = lost \cup {"overread"}
            \/ pc' = "crashed" /\ AllocMayFail /\ In[slot].type = "struct"
            \/ /\ pc' = "receiving"
               /\ \E x, n :
                    /\ Receive(x, n)
                    /\ \/ In[slot].type \notin PointerTypes /\ UNCHANGED <<ptr, lost>>
                       \/ In[slot].type \in PointerTypes /\ Alloc
                       \/ /\ In[slot].type \in LooseTypes /\ x = Null /\ AllocMayFail
                          /\ UNCHANGED ptr /\ lost' = lost \cup {"alloc"}
<1> USE DEF PointerTypes, LooseTypes
<1>1. CASE ReceiveChar
  BY <1>1 DEF ReceiveChar, Receiving, OverRead, Crash, Receive
<1>2. CASE ReceiveUint
  BY <1>2 DEF ReceiveUint, Receiving, OverRead, Crash, Receive
<1>3. CASE ReceiveSize
  BY <1>3 DEF ReceiveSize, Receiving, Receive
<1>4. ASSUME NEW type \in LooseTypes, ReceiveBlock(type)
      PROVE  /\ pc = "receiving" /\ slot <= Len(In) /\ UNCHANGED <<kind, val>>
             /\ \/ pc' = "crashed" /\ lost' = lost \cup {"overread"}
                \/ /\ pc' = "receiving" /\ In[slot].type \in PointerTypes
                   /\ \E x, n : Receive(x, n) /\ Alloc
  BY <1>4 DEF ReceiveBlock, ReceiveBlockAfter, Receiving, OverRead, Crash, Receive
<1>5. ASSUME NEW type \in LooseTypes, ReceiveNoBlock(type)
      PROVE  /\ pc = "receiving" /\ slot <= Len(In) /\ UNCHANGED <<kind, val>>
             /\ pc' = "receiving" /\ In[slot].type \in LooseTypes /\ AllocMayFail
             /\ \E x, n : Receive(x, n) /\ x = Null
             /\ UNCHANGED ptr /\ lost' = lost \cup {"alloc"}
  BY <1>5 DEF ReceiveNoBlock, Receiving, Receive
<1>6. CASE ReceiveStruct
  BY <1>6 DEF ReceiveStruct, Receiving, Receive, Crash
<1> QED
  BY <1>1, <1>2, <1>3, <1>4, <1>5, <1>6 DEF ReceiveMember, ReceiveCstring, ReceiveBuffer

-----------------------------------------------------------------------------
LEMMA BlocksReceive ==
  ASSUME HeapInv, BlocksInv, ReceiveMember
  PROVE  BlocksInv'
<1>0. /\ slot \in 1 .. Len(In) /\ Len(In) \in Nat /\ pc = "receiving"
      /\ \A s \in slot .. Len(In) : ptr[s] = Null
      /\ UNCHANGED <<kind, val>>
  BY ReceiveMemberCases, Layouts DEF HeapInv, Tidy
<1>1. CASE pc' = "crashed"
  BY <1>1 DEF BlocksInv
<1>2. ASSUME NEW x, NEW n, Receive(x, n), pc' = "receiving",
             \/ In[slot].type \notin PointerTypes /\ UNCHANGED <<ptr, lost>>
             \/ In[slot].type \in PointerTypes /\ Alloc
             \/ /\ In[slot].type \in LooseTypes /\ x = Null /\ AllocMayFail
                /\ UNCHANGED ptr /\ lost' = lost \cup {"alloc"}
      PROVE  BlocksInv'
  <2>1. /\ slot' = slot + 1 /\ In' = In /\ pc' = pc /\ thing' = [thing EXCEPT ![slot] = x]
        /\ thing = [s \in 1 .. Len(In) |-> thing[s]]
        /\ ptr \in [1 .. Len(In) -> Blocks \cup {Null}]
    BY <1>2 DEF Receive, In, HeapInv, TypeOK
  <2>2. Rebuilt = 1 .. slot - 1 /\ Rebuilt' = Rebuilt \cup {slot} /\ slot \notin Rebuilt
    BY <1>0, <1>2, <2>1 DEF Rebuilt
  <2>3. thing'[slot] = x /\ \A s \in Rebuilt : thing'[s] = thing[s]
    BY <1>0, <2>1, <2>2
  <2>4. LooseTypes \subseteq PointerTypes /\ "struct" \in PointerTypes
    BY DEF LooseTypes, PointerTypes
  <2>5. CASE In[slot].type \notin PointerTypes /\ UNCHANGED <<ptr, lost>>
    BY <1>0, <2>1, <2>2, <2>3, <2>4, <2>5 DEF BlocksInv
  <2>6. CASE In[slot].type \in PointerTypes /\ Alloc
    <3>1. PICK block \in Blocks : ptr' = [ptr EXCEPT ![slot] = block] /\ lost' = lost
      BY <2>6 DEF Alloc
    <3>2. block # Null
      BY CopyAssumption
    <3>3. ptr'[slot] # Null /\ \A s \in 1 .. Len(In) : s # slot => ptr'[s] = ptr[s]
      BY <1>0, <2>1, <3>1, <3>2
    <3>4. \A s \in Rebuilt : ptr'[s] = ptr[s]
      BY <1>0, <2>2, <3>3
    <3> QED
      BY <1>0, <2>1, <2>2, <2>3, <2>6, <3>1, <3>3, <3>4 DEF BlocksInv
  <2>7. CASE /\ In[slot].type \in LooseTypes /\ x = Null /\ AllocMayFail
             /\ UNCHANGED ptr /\ lost' = lost \cup {"alloc"}
    <3>1. ptr[slot] = Null
      BY <1>0
    <3>2. In[slot].type # "struct"
      BY <2>7 DEF LooseTypes
    <3> QED
      BY <1>0, <2>1, <2>2, <2>3, <2>7, <3>1, <3>2 DEF BlocksInv
  <2> QED
    BY <1>2, <2>5, <2>6, <2>7
<1> QED
  BY <1>1, <1>2, ReceiveMemberCases

LEMMA BlocksNext ==
  ASSUME HeapInv, BlocksInv, [Next]_vars
  PROVE  BlocksInv'
<1> USE DEF BlocksInv, Rebuilt, In
<1>1. ASSUME NEW k \in Structs, NEW v \in Sources[k], BeginSend(k, v) PROVE BlocksInv'
  BY <1>1 DEF BeginSend, Begin
<1>2. ASSUME NEW k \in Structs, SendNull(k) PROVE BlocksInv'
  BY <1>2 DEF SendNull, Begin
<1>3. CASE SkipNull
  BY <1>3 DEF SkipNull, Sending
<1>4. CASE SendMember
  BY <1>4 DEF SendMember, Sending
<1>5. CASE Overrun
  BY <1>5 DEF Overrun, Crash
<1>6. CASE Invoke
  <2>1. /\ pc = "sending" /\ pc' = "receiving" /\ slot' = 1
        /\ UNCHANGED <<kind, ptr, thing, lost>> /\ \A s \in 1 .. Len(In) : ptr[s] = Null
    BY <1>6 DEF Invoke, HeapInv, Tidy
  <2> QED
    BY <2>1
<1>7. CASE ReceiveMember
  BY <1>7, BlocksReceive
<1>8. CASE Return
  <2>1. slot = Len(In) + 1 /\ Len(In) \in Nat
    BY <1>8, Layouts DEF Return, HeapInv, Tidy
  <2> QED
    BY <1>8, <2>1 DEF Return
<1>9. CASE Free
  BY <1>9 DEF Free, BeginFree, FreeMember, FreeBlocks, EndFree
<1>10. CASE UNCHANGED vars
  BY <1>10 DEF vars
<1> QED
  BY <1>1, <1>2, <1>3, <1>4, <1>5, <1>6, <1>7, <1>8, <1>9, <1>10
     DEF Next, Send

LEMMA PromisedNext ==
  ASSUME SameRegistries
  PROVE  ChannelInv /\ [Next]_vars => ChannelInv'
<1> SUFFICES ASSUME ChannelInv, [Next]_vars PROVE ChannelInv'
  OBVIOUS
<1>0. CopyInv' /\ LongInv' /\ BlocksInv' /\ HeapInv /\ TypeOK
  BY CopyNext, LongNext, BlocksNext DEF ChannelInv, CopyInv, HeapInv
<1> SUFFICES PromisedInv'
  BY <1>0 DEF ChannelInv
<1> USE DEF ChannelInv, PromisedInv
<1>1. ASSUME NEW k \in Structs, NEW v \in Sources[k], BeginSend(k, v) PROVE PromisedInv'
  BY <1>1 DEF BeginSend
<1>2. ASSUME NEW k \in Structs, SendNull(k) PROVE PromisedInv'
  BY <1>2 DEF SendNull, Begin, Promised
<1>3. CASE SkipNull
  <2>1. /\ UNCHANGED <<kind, val>> /\ slot \in 1 .. Len(Out)
        /\ Out[slot].type = "struct" /\ val[slot] = Null
    BY <1>0, <1>3, Layouts DEF SkipNull, Sending, NullStruct, HeapInv, Tidy
  <2>2. <<kind, val>> \notin Promised
    BY <1>0, <2>1, PromisedMeans, CopyAssumption
  <2> QED
    BY <2>1, <2>2
<1>4. CASE SendMember
  <2>1. /\ UNCHANGED <<pc, kind, val>> /\ pc = "sending"
        /\ lost' = lost \/ lost' = lost \cup {"overrun"}
    BY <1>4 DEF SendMember, Sending
  <2>2. TypeOK' /\ OverrunHasCause'
    BY <1>0 DEF CopyInv, HeapInv, LongInv
  <2>3. "overrun" \in lost' => TooLong(Out, val)
    BY <2>1, <2>2, LongSame DEF OverrunHasCause
  <2>4. <<kind, val>> \in Promised => "overrun" \notin lost'
    BY <1>0, <2>3, PromisedMeans
  <2> QED
    BY <2>1, <2>4
<1>5. CASE Overrun
  BY <1>5 DEF Overrun, Crash
<1>6. CASE Invoke
  BY <1>6 DEF Invoke
<1>7. CASE ReceiveMember
  BY <1>7, ReceiveMemberCases DEF Alloc
<1>8. CASE Return
  BY <1>8 DEF Return
<1>9. CASE Free
  BY <1>9 DEF Free, BeginFree, FreeMember, FreeBlocks, EndFree
<1>10. CASE UNCHANGED vars
  BY <1>10 DEF vars
<1> QED
  BY <1>1, <1>2, <1>3, <1>4, <1>5, <1>6, <1>7, <1>8, <1>9, <1>10
     DEF Next, Send

-----------------------------------------------------------------------------
(* What a receiver has when it is done is what was sent, or it is short of *)
(* the block of a string or a buffer, if the promise covers the struct.    *)
LEMMA ReceivedMeans ==
  ASSUME SameRegistries, ChannelInv, pc = "receiving", slot > Len(In)
  PROVE  /\ \A s \in 1 .. Len(In) :
              /\ In[s].type \notin PointerTypes => ptr[s] = Null
              /\ In[s].type = "struct" => ptr[s] # Null
         /\ val # Null /\ thing = val =>
              \A s \in 1 .. Len(In) : In[s].type \in PointerTypes => ptr[s] # Null
         /\ <<kind, val>> \in Promised /\ thing # val =>
              /\ AllocMayFail
              /\ \E s \in 1 .. Len(In) : In[s].type \in LooseTypes /\ ptr[s] = Null
<1>1. TypeOK /\ Tidy /\ SentInv /\ ReadInv /\ LostInv /\ BlocksInv /\ PromisedInv
  BY DEF ChannelInv, CopyInv, HeapInv
<1>2. In = Out /\ kind \in Structs /\ Len(In) \in Nat
  BY <1>1, Layouts DEF TypeOK, SameRegistries, In, Out
<1>3. slot = Len(In) + 1 /\ Rebuilt = 1 .. Len(In)
  BY <1>1, <1>2 DEF Tidy, Rebuilt
<1>4. /\ \A s \in 1 .. Len(In) :
           /\ In[s].type \notin PointerTypes => ptr[s] = Null
           /\ In[s].type = "struct" => ptr[s] # Null
           /\ In[s].type \in LooseTypes /\ ptr[s] = Null => thing[s] = Null
      /\ "alloc" \in lost =>
           AllocMayFail /\ \E s \in 1 .. Len(In) : In[s].type \in LooseTypes /\ ptr[s] = Null
  BY <1>1, <1>3 DEF BlocksInv
<1>5. ASSUME val # Null, thing = val, NEW s \in 1 .. Len(In), In[s].type \in PointerTypes
      PROVE  ptr[s] # Null
  <2>1. CASE In[s].type = "struct"
    BY <1>4, <2>1
  <2>2. CASE In[s].type \in LooseTypes
    <3>1. val[s] \in Seq(Chars)
      BY <1>1, <1>2, <1>5, <2>2, CharsByType DEF LooseTypes
    <3>2. thing[s] # Null
      BY <1>5, <3>1, CopyAssumption
    <3> QED
      BY <1>4, <2>2, <3>2
  <2> QED
    BY <1>5, <2>1, <2>2 DEF PointerTypes, LooseTypes
<1>6. ASSUME <<kind, val>> \in Promised, thing # val PROVE "alloc" \in lost
  <2>1. /\ val # Null
        /\ \A s \in 1 .. Len(Out) : Out[s].type # "size_t"
    BY <1>1, <1>6, PromisedMeans
  <2>2. lost # {}
    <3> SUFFICES ASSUME lost = {} PROVE FALSE
      OBVIOUS
    <3>1. \A s \in 1 .. Len(In) : thing[s] = Expected(s)
      BY <1>1, <1>3 DEF ReadInv
    <3>2. \A s \in 1 .. Len(In) : thing[s] = val[s]
      BY <1>2, <2>1, <3>1 DEF Expected
    <3>3. thing = [s \in 1 .. Len(In) |-> thing[s]]
      BY <1>1 DEF TypeOK
    <3>4. val = [s \in 1 .. Len(In) |-> val[s]]
      BY <1>1, <1>2, <2>1, CopyAssumption DEF TypeOK, Out
    <3> QED
      BY <1>6, <3>2, <3>3, <3>4
  <2>3. /\ lost \subseteq {"null", "alloc", "overrun"}
        /\ "null" \notin lost /\ "overrun" \notin lost
    BY <1>1, <1>6 DEF LostInv, PromisedInv
  <2> QED
    BY <2>2, <2>3
<1> QED
  BY <1>4, <1>5, <1>6

(* Nothing is allocated between two transfers.                             *)
LEMMA NothingAllocated ==
  ASSUME HeapInv, pc \in {"idle", "sending"} \/ (pc = "freeing" /\ slot = 0)
  PROVE  heap = {}
<1>1. Owned = {}
  BY DEF Owned
<1> QED
  BY <1>1 DEF HeapInv, HeapExact

LEMMA ReturnDelivers ==
  ASSUME SameRegistries, ChannelInv, Return
  PROVE  Channel!Next
<1>0. /\ pc = "receiving" /\ pc' = "held" /\ slot > Len(In)
      /\ UNCHANGED <<kind, val, thing, ptr, lost>>
      /\ TypeOK
  BY DEF Return, ChannelInv, CopyInv, HeapInv
<1> DEFINE loose == {s \in 1 .. Len(In) : In[s].type \in LooseTypes}
           missing == {s \in loose : ptr[s] = Null}
<1>1. /\ <<kind, val>> \in Offered /\ <<kind, val>> # NoStruct
      /\ Pointers(kind) = {s \in 1 .. Len(In) : In[s].type \in PointerTypes}
      /\ OfKind({"cstring", "buffer"}, kind) = loose
      /\ DOMAIN ptr = 1 .. Len(In)
  BY <1>0, OfferedMeans, OwningMeans
<1>2. /\ offeredBar = <<kind, val>> /\ offeredBar' = <<kind, val>>
      /\ deliveredBar = NoStruct
      /\ deliveredBar' = IF val # Null /\ thing = val THEN <<kind, val>> ELSE Broken
      /\ blocksBar' = {s \in 1 .. Len(In) : ptr[s] # Null}
  BY <1>0, <1>1 DEF offeredBar, deliveredBar, blocksBar
<1>3. CASE val # Null /\ thing = val
  <2>1. blocksBar' = Pointers(kind)
    BY <1>0, <1>1, <1>2, <1>3, ReceivedMeans
  <2>2. Channel!Deliver
    BY <1>1, <1>2, <1>3, <2>1
       DEF Channel!Deliver, Channel!Pending, offeredBar, deliveredBar, blocksBar
  <2> QED
    BY <2>2 DEF Channel!Next
<1>4. CASE ~ (val # Null /\ thing = val)
  <2>1. blocksBar' = Pointers(kind) \ missing
    <3>1. \A s \in 1 .. Len(In) : ptr[s] # Null <=> In[s].type \in PointerTypes /\ s \notin missing
      BY <1>0, ReceivedMeans DEF LooseTypes, PointerTypes
    <3> QED
      BY <1>1, <1>2, <3>1
  <2>2. <<kind, val>> \notin Promised \/ (AllocMayFail /\ missing # {})
    BY <1>0, <1>4, ReceivedMeans, PromisedMeans
  <2>3. missing \in SUBSET OfKind({"cstring", "buffer"}, kind)
    BY <1>1
  <2> HIDE DEF missing, loose
  <2>4. Channel!DeliverBroken
    BY <1>1, <1>2, <1>4, <2>1, <2>2, <2>3
       DEF Channel!DeliverBroken, Channel!Pending, offeredBar, deliveredBar, blocksBar
  <2> QED
    BY <2>4 DEF Channel!Next
<1> QED
  BY <1>3, <1>4

(* A receiver that is stopped was not sent what the promise covers, or is  *)
(* short of memory.                                                        *)
LEMMA CrashAborts ==
  ASSUME SameRegistries, ChannelInv, ChannelInv', ReceiveMember, pc' = "crashed"
  PROVE  Channel!Next
<1>0. /\ pc = "receiving" /\ slot \in 1 .. Len(In) /\ UNCHANGED <<kind, val>>
      /\ TypeOK /\ BlocksInv /\ PromisedInv /\ OverreadHasCause'
  BY ReceiveMemberCases, Layouts DEF ChannelInv, CopyInv, HeapInv, Tidy, LostInv
<1>1. /\ <<kind, val>> \in Offered /\ <<kind, val>> # NoStruct
      /\ Pointers(kind) = {s \in 1 .. Len(In) : In[s].type \in PointerTypes}
  BY <1>0, OfferedMeans, OwningMeans
<1>2. ASSUME <<kind, val>> \in Promised
      PROVE  AllocMayFail /\ Pointers(kind) # {}
  <2>1. CASE lost' = lost \cup {"overread"}
    <3>1. "alloc" \in lost
      <4>1. OverreadHasCause' /\ "overread" \in lost'
        BY <1>0, <2>1
      <4>2. "null" \notin lost /\ "overrun" \notin lost
        BY <1>0, <1>2 DEF PromisedInv
      <4> QED
        BY <2>1, <4>1, <4>2 DEF OverreadHasCause
    <3>2. AllocMayFail /\ \E s \in 1 .. Len(In) : In[s].type \in LooseTypes
      BY <1>0, <3>1 DEF BlocksInv, Rebuilt
    <3> QED
      BY <1>1, <3>2 DEF LooseTypes, PointerTypes
  <2>2. CASE AllocMayFail /\ In[slot].type = "struct"
    BY <1>0, <1>1, <2>2 DEF PointerTypes
  <2> QED
    BY <2>1, <2>2, ReceiveMemberCases
<1>3. /\ offeredBar = <<kind, val>> /\ offeredBar' = NoStruct
      /\ UNCHANGED <<deliveredBar, blocksBar>> /\ deliveredBar = NoStruct
  BY <1>0 DEF offeredBar, deliveredBar, blocksBar
<1>4. Channel!Abort
  BY <1>1, <1>2, <1>3
     DEF Channel!Abort, Channel!Pending, offeredBar, deliveredBar, blocksBar
<1> QED
  BY <1>4 DEF Channel!Next

(* Every step of a transfer is a step of the channel or changes nothing    *)
(* the channel has.                                                        *)
LEMMA StepsMap ==
  ASSUME SameRegistries, ChannelInv, ChannelInv', [Next]_vars
  PROVE  [Channel!Next]_<<offeredBar, deliveredBar, blocksBar>>
<1>0. TypeOK /\ HeapInv /\ HeapInv'
  BY DEF ChannelInv, CopyInv, HeapInv
<1>1. ASSUME pc \in {"idle", "sending"} PROVE blocksBar = {}
  BY <1>0, <1>1, NothingAllocated DEF blocksBar
<1>2. ASSUME pc' = "sending" \/ pc' = "idle" PROVE heap' = {} => blocksBar' = {}
  BY <1>2 DEF blocksBar
<1>3. ASSUME NEW k \in Structs, NEW v \in Sources[k] \cup {Null}, Begin(k, v)
      PROVE  Channel!Next
  <2>1. /\ pc = "idle" /\ pc' = "sending" /\ heap' = heap /\ heap = {}
        /\ kind' = k /\ val' = v
    BY <1>0, <1>3, NothingAllocated DEF Begin
  <2>2. /\ offeredBar = NoStruct /\ offeredBar' = <<k, v>>
        /\ UNCHANGED <<deliveredBar, blocksBar>>
    BY <1>1, <1>2, <2>1 DEF offeredBar, deliveredBar
  <2>3. Channel!Offer(<<k, v>>)
    BY <2>2 DEF Channel!Offer, offeredBar, deliveredBar, blocksBar
  <2>4. <<k, v>> \in Offered
    BY DEF Offered
  <2> QED
    BY <2>3, <2>4 DEF Channel!Next
<1>4. CASE SkipNull \/ SendMember
  <2>1. pc = "sending" /\ pc' = "sending" /\ UNCHANGED <<kind, val, ptr, heap>>
    BY <1>4 DEF SkipNull, SendMember, Sending
  <2> QED
    BY <2>1 DEF offeredBar, deliveredBar, blocksBar
<1>5. CASE Overrun
  <2>1. pc = "sending" /\ pc' = "crashed" /\ "overrun" \in lost' /\ UNCHANGED <<kind, val>>
    BY <1>5 DEF Overrun, Sending, Crash
  <2>2. OverrunHasCause'
    BY DEF ChannelInv, LongInv
  <2>3. <<kind, val>> \notin Promised
    BY <1>0, <2>1, <2>2, LongSame, PromisedMeans DEF OverrunHasCause
  <2>4. /\ offeredBar = <<kind, val>> /\ offeredBar' = NoStruct /\ <<kind, val>> # NoStruct
        /\ deliveredBar = NoStruct /\ UNCHANGED <<deliveredBar, blocksBar>>
    BY <1>0, <1>1, <2>1, OfferedMeans DEF offeredBar, deliveredBar, blocksBar
  <2>5. Channel!Abort
    BY <2>3, <2>4
       DEF Channel!Abort, Channel!Pending, offeredBar, deliveredBar, blocksBar
  <2> QED
    BY <2>5 DEF Channel!Next
<1>6. CASE Invoke
  <2>1. pc = "sending" /\ pc' = "receiving" /\ UNCHANGED <<kind, val>>
    BY <1>6 DEF Invoke
  <2> QED
    BY <1>1, <2>1 DEF offeredBar, deliveredBar, blocksBar
<1>7. CASE ReceiveMember
  <2>1. CASE pc' = "crashed"
    BY <1>7, <2>1, CrashAborts
  <2>2. CASE pc' # "crashed"
    BY <1>7, <2>2, ReceiveMemberCases DEF offeredBar, deliveredBar, blocksBar
  <2> QED
    BY <2>1, <2>2
<1>8. CASE Return
  BY <1>8, ReturnDelivers
<1>9. CASE BeginFree \/ FreeMember
  BY <1>9 DEF BeginFree, FreeMember, FreeBlocks, offeredBar, deliveredBar, blocksBar
<1>10. CASE EndFree
  <2>1. pc = "freeing" /\ pc' = "idle" /\ heap' = {}
    BY <1>0, <1>10, NothingAllocated DEF EndFree
  <2>2. deliveredBar # NoStruct
    BY <1>0, <2>1, OfferedMeans DEF deliveredBar
  <2>3. offeredBar' = NoStruct /\ deliveredBar' = NoStruct /\ blocksBar' = {}
    BY <1>2, <2>1 DEF offeredBar, deliveredBar
  <2>4. Channel!Release
    BY <2>2, <2>3 DEF Channel!Release, offeredBar, deliveredBar, blocksBar
  <2> QED
    BY <2>4 DEF Channel!Next
<1>11. CASE UNCHANGED vars
  BY <1>11 DEF vars, offeredBar, deliveredBar, blocksBar
<1> QED
  BY <1>3, <1>4, <1>5, <1>6, <1>7, <1>8, <1>9, <1>10, <1>11
     DEF Next, Send, Free, BeginSend, SendNull

(* A struct the promise covers is delivered as it was offered and never    *)
(* kills a receiver that has memory, whatever was in the shared buffer     *)
(* before; and all that was allocated for any struct is given back.        *)
THEOREM TransfersImplementChannel ==
  ASSUME SameRegistries
  PROVE  Spec => ImplementsChannel
<1>1. Init => ChannelInv
  <2>1. Init => PromisedInv /\ BlocksInv
    BY DEF Init, PromisedInv, BlocksInv
  <2> QED
    BY <2>1, CopyInit, LongInit DEF ChannelInv
<1>2. ChannelInv /\ [Next]_vars => ChannelInv'
  BY PromisedNext
<1>3. Init => Channel!Init
  BY DEF Init, Channel!Init
<1>4. ChannelInv /\ ChannelInv' /\ [Next]_vars
        => [Channel!Next]_<<offeredBar, deliveredBar, blocksBar>>
  BY StepsMap
<1> QED
  BY <1>1, <1>2, <1>3, <1>4, PTL
     DEF Spec, ImplementsChannel, Channel!Spec, offeredBar, deliveredBar, blocksBar
===============================================================================
