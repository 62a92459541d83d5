------------------------------ MODULE StructCopy ------------------------------
(***************************************************************************)
(* One struct at a time crosses from one world to the other through the    *)
(* shared buffer.                                                          *)
(*                                                                         *)
(* The sender's world runs the send function the REGISTER macro generated  *)
(* for the struct, one call per member, each call storing its chars behind *)
(* those of the members before it.  A command then enters the other world, *)
(* whose receive function rebuilds the struct member by member from the    *)
(* same buffer, allocating strings, raw buffers and nested structs.  Its   *)
(* user finally has SDFerry free the members, in the reverse order.  The   *)
(* next struct goes through the same buffer, which nobody ever clears, and *)
(* no receive function looks at how many chars were sent.                  *)
(*                                                                         *)
(* The module is about either direction: the host sends a command's input  *)
(* struct, the trusted application its output struct, with the same code.  *)
(***************************************************************************)
EXTENDS Wire, Registry, FiniteSets

CONSTANTS
  ShmSize,      \* SDFERRY_SHARED_MEMORY_SIZE
  Structs,      \* the names of the registered structs
  SendLayout,   \* their layouts as the sender's world registered them
  RecvLayout,   \* and as the receiver's world did
  Sources,      \* the structs a sender may send, by name
  Blocks,       \* the addresses its allocator can give the receiver
  AllocMayFail, \* may an allocation in the receiver's world fail?
  Null, Uninit, Node   \* NULL; a member not assigned; an allocated struct

(* The size a registration passes to the send function of a member.        *)
SizeOf(layout, val, s) ==
  IF layout[s].size = 0 THEN 0 ELSE val[s + layout[s].size]

(* Member s of val is something its send function can be given: a string   *)
(* or a buffer is allocated and as long as its size member says, a nested  *)
(* struct may be NULL.                                                     *)
Sendable(layout, val, s) ==
  CASE layout[s].type = "char"     -> val[s] \in Chars
    [] layout[s].type = "uint32_t" -> val[s] \in Uint
    [] layout[s].type = "size_t"   -> val[s] \in Uint
    [] layout[s].type = "cstring"  -> val[s] \in Seq(Chars) /\ Len(val[s]) \in Uint
    [] layout[s].type = "buffer"   ->
         val[s] \in Seq(Chars) /\ Len(val[s]) \in Uint /\ SizeOf(layout, val, s) = Len(val[s])
    [] layout[s].type = "struct"   -> val[s] \in {Node, Null}

(* A layout is an expansion of REGISTER macros: a struct nested in another *)
(* one ends inside it.                                                     *)
WellNested(layout) ==
  \A s \in 1 .. Len(layout) :
    /\ s + layout[s].span <= Len(layout)
    /\ \A t \in s + 1 .. s + layout[s].span : t + layout[t].span <= s + layout[s].span

ASSUME CopyAssumption ==
  /\ ShmSize \in Nat
  /\ AllocMayFail \in BOOLEAN
  /\ Null \notin Blocks \cup Chars \cup Seq(Chars) \cup {Uninit, Node, Junk}
  /\ \A k \in Structs : /\ Null \notin Sources[k]
                         /\ SendLayout[k] \in Seq(Entry) /\ RecvLayout[k] \in Seq(Entry)
                         /\ WellNested(SendLayout[k])
  /\ \A k \in Structs : \A v \in Sources[k] :
       /\ v = [s \in 1 .. Len(SendLayout[k]) |-> v[s]]
       /\ \A s \in 1 .. Len(SendLayout[k]) : Sendable(SendLayout[k], v, s)

VARIABLES
  pc,     \* where the transfer is
  kind,   \* the name of the struct
  val,    \* the struct that is sent, Null for a NULL pointer
  slot,   \* the entry of the layout whose call is next
  data,   \* the cells of the shared buffer
  sent,   \* result_size of the send function
  at,     \* where the sender put each entry (history)
  thing,  \* the struct that is received
  ptr,    \* the block each pointer member of thing points to, or Null
  heap,   \* the live allocations of the receiver's world
  read,   \* result_size of the receive function
  lost    \* what has gone wrong in this transfer (history)

vars == <<pc, kind, val, slot, data, sent, at, thing, ptr, heap, read, lost>>

Out == SendLayout[kind]
In  == RecvLayout[kind]

Init ==
  /\ pc = "idle"
  /\ kind \in Structs
  /\ val = Null
  /\ slot = 0
  /\ data = [o \in 0 .. ShmSize - 1 |-> Junk]
  /\ sent = 0
  /\ at = [s \in 1 .. Len(Out) + 1 |-> 0]
  /\ thing = [s \in 1 .. Len(In) |-> Uninit]
  /\ ptr = [s \in 1 .. Len(In) |-> Null]
  /\ heap = {}
  /\ read = 0
  /\ lost = {}

(* Undefined behaviour the program does not survive, and why.              *)
Crash(why) ==
  /\ pc' = "crashed"
  /\ lost' = lost \cup {why}
  /\ UNCHANGED <<kind, val, slot, data, sent, at, thing, ptr, heap, read>>

-----------------------------------------------------------------------------
(* Sending.                                                                *)

(* Nothing is sent yet, and nobody has assigned the receiver's struct.     *)
Begin(k, v) ==
  /\ pc = "idle"
  /\ pc' = "sending"
  /\ kind' = k
  /\ val' = v
  /\ sent' = 0
  /\ at' = [s \in 1 .. Len(SendLayout[k]) + 1 |-> 0]
  /\ thing' = [s \in 1 .. Len(RecvLayout[k]) |-> Uninit]
  /\ ptr' = [s \in 1 .. Len(RecvLayout[k]) |-> Null]
  /\ read' = 0
  /\ UNCHANGED <<data, heap>>

(* The send function is called for a struct, its guards pass. *)
BeginSend(k, v) ==
  Begin(k, v) /\ slot' = 1 /\ lost' = {}

(* It is called with a NULL struct and returns 0 before the first member. *)
SendNull(k) ==
  Begin(k, Null) /\ slot' = Len(SendLayout[k]) + 1 /\ lost' = {"null"}

Sending == pc = "sending" /\ slot <= Len(Out)

(* A nested struct pointer is NULL: the nested send function returns 0 and *)
(* nothing tells the receiver, which always expects the nested members.    *)
NullStruct == Out[slot].type = "struct" /\ val[slot] = Null

SkipNull ==
  /\ Sending
  /\ NullStruct
  /\ slot' = slot + Out[slot].span + 1
  /\ lost' = lost \cup {"null"}
  /\ UNCHANGED <<pc, kind, val, data, sent, at, thing, ptr, heap, read>>

(* The chars the send function of member s stores. *)
MemberChars(s) == Chars_of(Out[s].type, val[s], SizeOf(Out, val, s))

(* What the cells are once chars have been stored at an offset. *)
Stored(cells, offset, chars) ==
  [o \in DOMAIN cells |-> IF o \in offset .. offset + Len(chars) - 1
                          THEN chars[o - offset + 1] ELSE cells[o]]

(* No send function knows the size of the shared buffer: it stores what it *)
(* has, the chars beyond the buffer in foreign cells, and returns.         *)
SendMember ==
  /\ Sending
  /\ ~ NullStruct
  /\ data' = Stored(data, sent, MemberChars(slot))
  /\ sent' = sent + Len(MemberChars(slot))
  /\ at' = [at EXCEPT ![slot + 1] = sent']
  /\ slot' = slot + 1
  /\ lost' = IF sent' > ShmSize THEN lost \cup {"overrun"} ELSE lost
  /\ UNCHANGED <<pc, kind, val, thing, ptr, heap, read>>

(* Or the sender does not survive that. *)
Overrun ==
  /\ Sending
  /\ ~ NullStruct
  /\ sent + Len(MemberChars(slot)) > ShmSize
  /\ Crash("overrun")

-----------------------------------------------------------------------------
(* Receiving.                                                              *)

(* The send function returns and the command enters the other world.       *)
Invoke ==
  /\ pc = "sending"
  /\ slot > Len(Out)
  /\ pc' = "receiving"
  /\ slot' = 1
  /\ UNCHANGED <<kind, val, data, sent, at, thing, ptr, heap, read, lost>>

Receiving(type) ==
  pc = "receiving" /\ slot <= Len(In) /\ In[slot].type = type

(* A receive call of n chars that stays inside the shared buffer returns;  *)
(* one that does not reads foreign cells, if it survives.                  *)
OverRead(n) == read + n > ShmSize /\ Crash("overread")

(* The member becomes x and its receive call returns n. *)
Receive(x, n) ==
  /\ thing' = [thing EXCEPT ![slot] = x]
  /\ read' = read + n
  /\ slot' = slot + 1
  /\ UNCHANGED <<pc, kind, val, data, sent, at>>

(* malloc, TEE_Malloc: a block that is not live. *)
Alloc ==
  /\ Blocks \ heap # {}
  /\ LET block == CHOOSE free \in Blocks \ heap : TRUE
     IN  heap' = heap \cup {block} /\ ptr' = [ptr EXCEPT ![slot] = block]
  /\ UNCHANGED lost

ReceiveChar ==
  /\ Receiving("char")
  /\ \/ OverRead(1)
     \/ Receive(CellAt(data, read), 1) /\ UNCHANGED <<ptr, heap, lost>>

ReceiveUint ==
  /\ Receiving("uint32_t")
  /\ \/ OverRead(Word)
     \/ \E n \in receive_uint32_t(data, read) :
          Receive(n, Word) /\ UNCHANGED <<ptr, heap, lost>>

(* Not implemented: the member keeps the 0 of its alloc function. *)
ReceiveSize ==
  Receiving("size_t") /\ Receive(0, 0) /\ UNCHANGED <<ptr, heap, lost>>

(* A string or a raw buffer: its length, a block for it, and its chars,    *)
(* which start skip chars further on.                                      *)
ReceiveBlockAfter(type, skip) ==
  /\ Receiving(type)
  /\ \E n \in receive_uint32_t(data, read) :
       \/ OverRead(Consumed(type, n))
       \/ Alloc /\ Receive(CellsAt(data, read + skip, n), Consumed(type, n))

(* Slip: the length is taken for the first chars. *)
ReceiveBlockAndLength(type) == ReceiveBlockAfter(type, 0)

ReceiveBlock(type) == ReceiveBlockAfter(type, Word)

(* When there is no block the member is NULL and the call returns 0.       *)
ReceiveNoBlock(type) ==
  /\ AllocMayFail
  /\ Receiving(type)
  /\ Receive(Null, 0)
  /\ lost' = lost \cup {"alloc"}
  /\ UNCHANGED <<ptr, heap>>

ReceiveCstring == ReceiveBlock("cstring") \/ ReceiveNoBlock("cstring")
ReceiveBuffer  == ReceiveBlock("buffer") \/ ReceiveNoBlock("buffer")

(* The nested struct is allocated and its receive function entered; with   *)
(* no memory for it that function assigns through a NULL pointer.          *)
ReceiveStruct ==
  /\ Receiving("struct")
  /\ \/ Alloc /\ Receive(Node, 0)
     \/ AllocMayFail /\ Crash("nested")

(* The receive function returns and its caller has the struct. *)
Return ==
  /\ pc = "receiving"
  /\ slot > Len(In)
  /\ pc' = "held"
  /\ UNCHANGED <<kind, val, slot, data, sent, at, thing, ptr, heap, read, lost>>

-----------------------------------------------------------------------------
(* Freeing.                                                                *)

(* Slip: a failed receive is not followed by a free. *)
FreeUnlessAllocFailed ==
  /\ pc = "held"
  /\ pc' = IF "alloc" \in lost THEN "idle" ELSE "freeing"
  /\ slot' = Len(In)
  /\ UNCHANGED <<kind, val, data, sent, at, thing, ptr, heap, read, lost>>

(* SDFERRY_FREE_STRUCT_MEMBERS: every member, the last one first. *)
BeginFree ==
  /\ pc = "held"
  /\ pc' = "freeing"
  /\ slot' = Len(In)
  /\ UNCHANGED <<kind, val, data, sent, at, thing, ptr, heap, read, lost>>

FreeBlocks(blocks) ==
  /\ pc = "freeing"
  /\ slot > 0
  /\ heap' = heap \ blocks
  /\ slot' = slot - 1
  /\ UNCHANGED <<pc, kind, val, data, sent, at, thing, ptr, read, lost>>

(* Slips: the first member is freed first; a type has an empty free        *)
(* function.                                                               *)
FreeFirstMember == FreeBlocks({ptr[Len(In) + 1 - slot]})
FreeUnlessBuffer == FreeBlocks({ptr[slot]} \ {ptr[s] : s \in {t \in 1 .. Len(In) : In[t].type = "buffer"}})

(* Only a pointer member has a block; a NULL one is free's no-op. *)
FreeMember == FreeBlocks({ptr[slot]})

EndFree ==
  /\ pc = "freeing"
  /\ slot = 0
  /\ pc' = "idle"
  /\ UNCHANGED <<kind, val, slot, data, sent, at, thing, ptr, heap, read, lost>>

-----------------------------------------------------------------------------
Send == SkipNull \/ SendMember \/ Overrun \/ Invoke
ReceiveMember ==
  ReceiveChar \/ ReceiveUint \/ ReceiveSize \/ ReceiveCstring \/ ReceiveBuffer \/ ReceiveStruct
Free == BeginFree \/ FreeMember \/ EndFree

Next ==
  \/ \E k \in Structs : \E v \in Sources[k] : BeginSend(k, v)
  \/ \E k \in Structs : SendNull(k)
  \/ Send \/ ReceiveMember \/ Return \/ Free

Spec == Init /\ [][Next]_vars

-----------------------------------------------------------------------------
(***************************************************************************)
(* Properties.                                                             *)
(***************************************************************************)

(* What a member of the received struct can be: as the sender's types say, *)
(* except that a char or the chars of a block may be any cell.             *)
Received(type) ==
  CASE type = "char"                  -> Byte
    [] type = "uint32_t"              -> Uint
    [] type = "size_t"                -> {0}
    [] type \in {"cstring", "buffer"} -> Seq(Byte)
    [] type = "struct"                -> {Node}

Statuses == {"idle", "sending", "receiving", "held", "freeing", "crashed"}
Failures == {"null", "alloc", "nested", "overrun", "overread"}

(* The type invariant.                                                     *)
TypeOK ==
  /\ pc \in Statuses
  /\ kind \in Structs
  /\ val \in Sources[kind] \cup {Null}
  /\ slot \in Nat
  /\ data \in [0 .. ShmSize - 1 -> Byte]
  /\ sent \in Nat
  /\ at \in [1 .. Len(Out) + 1 -> Nat]
  /\ thing = [s \in 1 .. Len(In) |-> thing[s]]
  /\ ptr \in [1 .. Len(In) -> Blocks \cup {Null}]
  /\ heap \in SUBSET Blocks
  /\ read \in Nat
  /\ lost \in SUBSET Failures
  /\ pc = "receiving" =>
       \A s \in 1 .. Len(In) :
         s < slot => \/ thing[s] \in Received(In[s].type)
                     \/ thing[s] = Null /\ In[s].type \in {"cstring", "buffer"}

(* A struct whose transfer met no failure arrives as it was sent: every    *)
(* member, nested ones included, although the buffer still holds the chars *)
(* of earlier structs and the receiver does not know how many were sent.   *)
RoundTrip ==
  pc = "held" /\ lost = {} => \A s \in 1 .. Len(In) : thing[s] = val[s]

(* The two worlds agree on offsets: each receive call looks where the      *)
(* matching send call wrote, and in the end every char sent has been read  *)
(* and no other.                                                           *)
InStep ==
  lost = {} => /\ pc = "receiving" => read = at[slot]
               /\ pc = "held" => read = sent

(* The same when a string or a buffer could not be allocated: the value a  *)
(* receive function returns still leads to the next member                 *)
(* (lib/sdferry/include/sdferry/basic.h, lines 24 to 26).                  *)
InStepWithoutMemory ==
  pc = "receiving" /\ slot <= Len(In) /\ lost \subseteq {"alloc"} => read = at[slot]

(* The members of thing that own what they point to. *)
Owned ==
  CASE pc = "receiving" -> 1 .. slot - 1
    [] pc = "held"      -> 1 .. Len(In)
    [] pc = "freeing"   -> 1 .. slot
    [] OTHER            -> {}

(* The live allocations are exactly the blocks thing's members point to,   *)
(* one member each, whatever failed on the way: nothing leaks, nothing is  *)
(* freed twice, and freeing the members gives everything back.             *)
HeapExact ==
  pc # "crashed" =>
    /\ heap = {ptr[s] : s \in Owned} \ {Null}
    /\ \A s, t \in Owned : ptr[s] = ptr[t] /\ ptr[s] # Null => s = t

(* The struct a member belongs to is allocated when the member is assigned *)
(* and when it is read to be freed: nested structs are allocated before    *)
(* their members are received and freed after them.                        *)
ParentsLive ==
  pc \in {"receiving", "freeing"} =>
    \A s \in 1 .. Len(In) :
      In[s].type = "struct" /\ slot \in s + 1 .. s + In[s].span => ptr[s] \in heap

(* The cells the receive functions would consume for the members of v, but *)
(* for those inside a NULL nested struct, which a sender never visits.     *)
Skipped(layout, v) ==
  UNION {s + 1 .. s + layout[s].span :
           s \in {t \in 1 .. Len(layout) : layout[t].type = "struct" /\ v[t] = Null}}

MemberCells(layout, v, s) ==
  {s} \X (1 .. Consumed(layout[s].type,
                       IF layout[s].type \in {"cstring", "buffer"} THEN Len(v[s]) ELSE 0))

SerialForm(layout, v) ==
  UNION {MemberCells(layout, v, s) : s \in (1 .. Len(layout)) \ Skipped(layout, v)}

TooLong(layout, v) == Cardinality(SerialForm(layout, v)) > ShmSize

(* The sender leaves the shared buffer only for a struct whose serial form *)
(* does not fit it: no send function stores a char its receive function    *)
(* does not consume.                                                       *)
OverrunHasCause == "overrun" \in lost => val # Null /\ TooLong(Out, val)

(* The receiver leaves the shared buffer only after something else went    *)
(* wrong: it was sent a NULL struct or one that does not fit, or it ran    *)
(* out of memory.                                                          *)
OverreadHasCause == "overread" \in lost => lost \cap {"null", "alloc", "overrun"} # {}

CONSTANTS NoStruct, Broken

Offered == UNION {{<<k, v>> : v \in Sources[k] \cup {Null}} : k \in Structs}

(* There is no promise about a NULL struct, alone or nested, about one the *)
(* shared buffer is too small for, nor about a size_t member.              *)
Promised ==
  {m \in Offered : /\ m[2] # Null
                   /\ ~ TooLong(SendLayout[m[1]], m[2])
                   /\ \A s \in DOMAIN m[2] :
                        /\ SendLayout[m[1]][s].type # "size_t"
                        /\ SendLayout[m[1]][s].type = "struct" => m[2][s] = Node}

ASSUME OfferAssumption == NoStruct # Broken /\ {NoStruct, Broken} \cap Offered = {}

(* The members of a received struct that are allocated.                    *)
OfKind(kinds, k) == {s \in DOMAIN RecvLayout[k] : RecvLayout[k][s].type \in kinds}
Pointers(k) == OfKind({"cstring", "buffer", "struct"}, k)

Channel == INSTANCE StructChannel WITH
  Offers     <- Offered,
  Covered    <- Promised,
  Owning     <- [m \in Offered |-> Pointers(m[1])],
  Loose      <- [m \in Offered |-> OfKind({"cstring", "buffer"}, m[1])],
  MayBeShort <- AllocMayFail,
  offered   <- IF pc \in {"sending", "receiving", "held", "freeing"} THEN <<kind, val>> ELSE NoStruct,
  delivered <- IF pc \notin {"held", "freeing"} THEN NoStruct
               ELSE IF val # Null /\ thing = val THEN <<kind, val>> ELSE Broken,
  blocks    <- IF pc \in {"receiving", "crashed"} THEN {}
               ELSE IF pc \in {"held", "freeing"} THEN {s \in DOMAIN ptr : ptr[s] # Null}
               ELSE {s \in DOMAIN ptr : ptr[s] \in heap}

(* A transfer, with its steps, its buffer and its allocations, is a        *)
(* channel that delivers what it is offered: a struct without NULL         *)
(* pointers that fits the buffer never arrives changed and kills neither   *)
(* its sender nor its receiver, unless this has no memory; and all the     *)
(* receiver has allocated for it, be it whole or broken, is given back     *)
(* before the next.                                                        *)
ImplementsChannel == Channel!Spec
===============================================================================
