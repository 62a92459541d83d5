--------------------------- MODULE StructCopyProofs ---------------------------
(***************************************************************************)
(* Theorems about StructCopy: for every pair of registries, every set of   *)
(* structs sent, every size of the shared buffer and every allocator.      *)
(***************************************************************************)
EXTENDS StructCopy, WireTheorems, FiniteSetTheorems

-----------------------------------------------------------------------------
(* Lemmas about the layouts and the members of a struct.                   *)

LEMMA Layouts ==
  ASSUME TypeOK
  PROVE  /\ Out \in Seq(Entry) /\ In \in Seq(Entry)
         /\ Len(Out) \in Nat /\ Len(In) \in Nat
         /\ \A s \in 1 .. Len(Out) : Out[s].type \in Types /\ Out[s].span \in Nat
         /\ \A s \in 1 .. Len(In) : In[s].type \in Types /\ In[s].span \in Nat
<1>1. kind \in Structs
  BY DEF TypeOK
<1>2. Out \in Seq(Entry) /\ In \in Seq(Entry)
  BY <1>1, CopyAssumption DEF Out, In
<1>3. \A s \in 1 .. Len(Out) : Out[s] \in Entry
  BY <1>2
<1>4. \A s \in 1 .. Len(In) : In[s] \in Entry
  BY <1>2
<1> QED
  BY <1>2, <1>3, <1>4 DEF Entry

LEMMA MembersSendable ==
  ASSUME TypeOK, val # Null
  PROVE  \A s \in 1 .. Len(Out) : Sendable(Out, val, s)
<1>1. kind \in Structs /\ val \in Sources[kind]
  BY DEF TypeOK
<1> QED
  BY <1>1, CopyAssumption DEF Out

(* The chars of a member, type by type.                                    *)
LEMMA CharsByType ==
  ASSUME TypeOK, val # Null, NEW s \in 1 .. Len(Out)
  PROVE  /\ Out[s].type = "char" =>
              val[s] \in Chars /\ MemberChars(s) = << val[s] >>
         /\ Out[s].type = "uint32_t" =>
              val[s] \in Uint /\ MemberChars(s) = send_uint32_t(val[s])
         /\ Out[s].type \in {"cstring", "buffer"} =>
              /\ val[s] \in Seq(Chars) /\ Len(val[s]) \in Uint
              /\ MemberChars(s) = send_uint32_t(Len(val[s])) \o val[s]
         /\ Out[s].type \in {"size_t", "struct"} => MemberChars(s) = << >>
<1>0. Sendable(Out, val, s)
  BY MembersSendable
<1>1. CASE Out[s].type = "char"
  BY <1>0, <1>1 DEF Sendable, MemberChars, Chars_of, send_char
<1>2. CASE Out[s].type = "uint32_t"
  BY <1>0, <1>2 DEF Sendable, MemberChars, Chars_of
<1>3. CASE Out[s].type = "cstring"
  BY <1>0, <1>3 DEF Sendable, MemberChars, Chars_of, send_cstring
<1>4. CASE Out[s].type = "buffer"
  <2>1. /\ val[s] \in Seq(Chars) /\ Len(val[s]) \in Uint
        /\ SizeOf(Out, val, s) = Len(val[s])
    BY <1>0, <1>4 DEF Sendable
  <2>2. SubSeq(val[s], 1, Len(val[s])) = val[s]
    BY <2>1
  <2>3. MemberChars(s) = send_buffer(val[s], Len(val[s]))
    BY <1>4, <2>1 DEF MemberChars, Chars_of
  <2> QED
    BY <1>4, <2>1, <2>2, <2>3 DEF send_buffer
<1>5. CASE Out[s].type = "size_t"
  BY <1>5 DEF MemberChars, Chars_of, send_size_t
<1>6. CASE Out[s].type = "struct"
  BY <1>6 DEF MemberChars, Chars_of
<1> QED
  BY <1>1, <1>2, <1>3, <1>4, <1>5, <1>6

LEMMA CharsTyped ==
  ASSUME TypeOK, val # Null, NEW s \in 1 .. Len(Out)
  PROVE  MemberChars(s) \in Seq(Byte) /\ Len(MemberChars(s)) \in Nat
<1>0. Out[s].type \in Types
  BY Layouts
<1>1. CASE Out[s].type = "char"
  <2>1. val[s] \in Chars /\ MemberChars(s) = << val[s] >>
    BY <1>1, CharsByType
  <2> QED
    BY <2>1 DEF Byte
<1>2. CASE Out[s].type = "uint32_t"
  <2>1. val[s] \in Uint /\ MemberChars(s) = send_uint32_t(val[s])
    BY <1>2, CharsByType
  <2> QED
    BY <2>1, NumberBytes, WireAssumption
<1>3. CASE Out[s].type \in {"cstring", "buffer"}
  <2>1. /\ val[s] \in Seq(Chars) /\ Len(val[s]) \in Uint
        /\ MemberChars(s) = send_uint32_t(Len(val[s])) \o val[s]
    BY <1>3, CharsByType
  <2>2. /\ MemberChars(s) \in Seq(Byte)
        /\ Len(MemberChars(s)) = Word + Len(val[s])
    BY <2>1, BlockBytes
  <2> QED
    BY <2>1, <2>2, WireAssumption
<1>4. CASE Out[s].type \in {"size_t", "struct"}
  <2>1. MemberChars(s) = << >>
    BY <1>4, CharsByType
  <2> QED
    BY <2>1
<1> QED
  BY <1>0, <1>1, <1>2, <1>3, <1>4 DEF Types

(* Storing chars changes the cells they are stored in and no other.        *)
LEMMA StoredCells ==
  ASSUME NEW cells \in [0 .. ShmSize - 1 -> Byte], NEW offset \in Nat, NEW chars \in Seq(Byte)
  PROVE  /\ Stored(cells, offset, chars) \in [0 .. ShmSize - 1 -> Byte]
         /\ \A o \in 0 .. ShmSize - 1 :
              Stored(cells, offset, chars)[o] =
                IF o \in offset .. offset + Len(chars) - 1 THEN chars[o - offset + 1]
                ELSE cells[o]
<1>0. ShmSize \in Nat /\ Len(chars) \in Nat
  BY CopyAssumption
<1>1. ASSUME NEW o \in 0 .. ShmSize - 1, o \in offset .. offset + Len(chars) - 1
      PROVE  chars[o - offset + 1] \in Byte
  <2>1. o - offset + 1 \in 1 .. Len(chars)
    BY <1>0, <1>1
  <2> QED
    BY <2>1
<1> QED
  BY <1>0, <1>1 DEF Stored

(* A cell holds a char of some sort, and so do several.                    *)
LEMMA CellsTyped ==
  ASSUME TypeOK, NEW offset, NEW n \in Nat
  PROVE  /\ CellAt(data, offset) \in Byte
         /\ CellsAt(data, offset, n) \in Seq(Byte)
<1>1. \A o : CellAt(data, o) \in Byte
  BY DEF TypeOK, CellAt, Byte
<1> QED
  BY <1>1 DEF CellsAt

(* The number a receive function yields is a uint32_t.                     *)
LEMMA NumberTyped ==
  ASSUME NEW offset
  PROVE  receive_uint32_t(data, offset) \subseteq Uint
BY DEF receive_uint32_t

-----------------------------------------------------------------------------
(* The heap.  HeapExact is not inductive: a receive call owns a block in   *)
(* the member it assigns, so what is behind that member must be NULL       *)
(* before, and that is so since the struct was set up.                     *)
Tidy ==
  /\ pc = "sending" => /\ slot \in Nat \ {0}
                       /\ val = Null => slot > Len(Out)
                       /\ \A s \in 1 .. Len(In) : ptr[s] = Null
  /\ pc = "receiving" => /\ slot \in 1 .. Len(In) + 1
                         /\ \A s \in slot .. Len(In) : ptr[s] = Null
  /\ pc = "freeing" => slot \in 0 .. Len(In)

HeapInv == TypeOK /\ Tidy /\ HeapExact

LEMMA HeapInit == Init => HeapInv
<1> SUFFICES ASSUME Init PROVE HeapInv
  OBVIOUS
<1>1. TypeOK
  BY CopyAssumption DEF Init, TypeOK, Statuses, Out, In, Byte
<1>2. Tidy
  BY DEF Init, Tidy
<1>3. HeapExact
  BY DEF Init, HeapExact, Owned
<1> QED
  BY <1>1, <1>2, <1>3 DEF HeapInv

(* A crash leaves everything as it is.                                     *)
LEMMA HeapCrash ==
  ASSUME HeapInv, NEW why \in Failures, Crash(why)
  PROVE  HeapInv'
<1>1. TypeOK'
  BY DEF HeapInv, TypeOK, Crash, Statuses, Out, In
<1> QED
  BY <1>1 DEF HeapInv, Tidy, HeapExact, Crash

LEMMA HeapBegin ==
  ASSUME HeapInv, NEW k \in Structs, NEW v \in Sources[k] \cup {Null}, Begin(k, v),
         slot' \in Nat \ {0}, v = Null => slot' = Len(SendLayout[k]) + 1,
         lost' \in SUBSET Failures
  PROVE  HeapInv'
<1>0. SendLayout[k] \in Seq(Entry) /\ RecvLayout[k] \in Seq(Entry)
  BY CopyAssumption
<1>1. TypeOK'
  BY <1>0, CopyAssumption DEF HeapInv, TypeOK, Begin, Statuses, Out, In
<1>2. Tidy'
  BY <1>0 DEF Tidy, Begin, Out, In
<1>3. HeapExact'
  BY DEF HeapInv, HeapExact, Owned, Begin
<1> QED
  BY <1>1, <1>2, <1>3 DEF HeapInv

(* A receive call that allocates nothing.                                  *)
LEMMA HeapReceive ==
  ASSUME HeapInv, pc = "receiving", slot <= Len(In), NEW x, NEW n \in Nat, Receive(x, n),
         \/ x \in Received(In[slot].type)
         \/ x = Null /\ In[slot].type \in {"cstring", "buffer"},
         UNCHANGED <<ptr, heap>>, lost' \in SUBSET Failures
  PROVE  HeapInv'
<1>0. Len(In) \in Nat /\ slot \in 1 .. Len(In)
  BY Layouts DEF HeapInv, Tidy
<1>1. In' = In /\ Out' = Out /\ pc' = pc /\ slot' = slot + 1
  BY DEF Receive, In, Out
<1>2. TypeOK'
  <2>1. \A s \in 1 .. Len(In) : s < slot' =>
          \/ thing'[s] \in Received(In[s].type)
          \/ thing'[s] = Null /\ In[s].type \in {"cstring", "buffer"}
    BY <1>0, <1>1 DEF HeapInv, TypeOK, Receive
  <2>2. thing' = [s \in 1 .. Len(In) |-> thing'[s]]
    BY DEF HeapInv, TypeOK, Receive
  <2> QED
    BY <1>0, <1>1, <2>1, <2>2 DEF HeapInv, TypeOK, Receive
<1>3. Tidy'
  BY <1>0, <1>1 DEF HeapInv, Tidy
<1>4. HeapExact'
  <2>1. Owned = 1 .. slot - 1 /\ Owned' = 1 .. slot
    BY <1>0, <1>1 DEF Owned
  <2>2. ptr[slot] = Null
    BY <1>0, <1>1 DEF HeapInv, Tidy
  <2> QED
    BY <1>0, <1>1, <2>1, <2>2 DEF HeapInv, HeapExact
<1> QED
  BY <1>2, <1>3, <1>4 DEF HeapInv

(* One that allocates the block of its member.                             *)
LEMMA HeapAlloc ==
  ASSUME HeapInv, pc = "receiving", slot <= Len(In), NEW x, NEW n \in Nat, Receive(x, n),
         x \in Received(In[slot].type), Alloc
  PROVE  HeapInv'
<1>0. Len(In) \in Nat /\ slot \in 1 .. Len(In)
  BY Layouts DEF HeapInv, Tidy
<1>1. In' = In /\ Out' = Out /\ pc' = pc /\ slot' = slot + 1
  BY DEF Receive, In, Out
<1> PICK block \in Blocks \ heap :
      heap' = heap \cup {block} /\ ptr' = [ptr EXCEPT ![slot] = block]
  BY DEF Alloc
<1>2. TypeOK'
  <2>1. \A s \in 1 .. Len(In) : s < slot' =>
          \/ thing'[s] \in Received(In[s].type)
          \/ thing'[s] = Null /\ In[s].type \in {"cstring", "buffer"}
    BY <1>0, <1>1 DEF HeapInv, TypeOK, Receive
  <2>2. thing' = [s \in 1 .. Len(In) |-> thing'[s]]
    BY DEF HeapInv, TypeOK, Receive
  <2>3. ptr' \in [1 .. Len(In) -> Blocks \cup {Null}]
    <3>1. ptr \in [1 .. Len(In) -> Blocks \cup {Null}]
      BY DEF HeapInv, TypeOK
    <3> QED
      BY <3>1
  <2>4. lost' = lost
    BY DEF Alloc
  <2> QED
    BY <1>0, <1>1, <2>1, <2>2, <2>3, <2>4 DEF HeapInv, TypeOK, Receive
<1>3. Tidy'
  BY <1>0, <1>1 DEF HeapInv, Tidy, TypeOK
<1>4. HeapExact'
  <2>1. Owned = 1 .. slot - 1 /\ Owned' = Owned \cup {slot} /\ slot \notin Owned
    BY <1>0, <1>1 DEF Owned
  <2>2. ptr'[slot] = block /\ \A s \in Owned : ptr'[s] = ptr[s]
    BY <1>0, <2>1 DEF HeapInv, TypeOK
  <2>3. block # Null
    BY CopyAssumption
  <2>4. heap = {ptr[s] : s \in Owned} \ {Null}
    BY <1>1 DEF HeapInv, HeapExact
  <2>5. heap' = {ptr'[s] : s \in Owned'} \ {Null}
    BY <2>1, <2>2, <2>3, <2>4
  <2>6. \A s, t \in Owned : ptr[s] = ptr[t] /\ ptr[s] # Null => s = t
    BY <1>1 DEF HeapInv, HeapExact
  <2>7. \A s \in Owned : ptr'[s] # block
    BY <2>2, <2>3, <2>4
  <2>8. \A s, t \in Owned' : ptr'[s] = ptr'[t] /\ ptr'[s] # Null => s = t
    BY <2>1, <2>2, <2>6, <2>7
  <2> QED
    BY <2>5, <2>8 DEF HeapExact
<1> QED
  BY <1>2, <1>3, <1>4 DEF HeapInv

(* Storing a member touches the shared buffer and nothing of the receiver. *)
LEMMA HeapSendMember ==
  ASSUME HeapInv, SendMember
  PROVE  HeapInv'
<1>0. /\ slot \in 1 .. Len(Out) /\ val # Null /\ pc = "sending"
      /\ In' = In /\ Out' = Out /\ pc' = pc /\ slot' = slot + 1
  BY Layouts DEF HeapInv, Tidy, SendMember, Sending, In, Out
<1>1. MemberChars(slot) \in Seq(Byte) /\ Len(MemberChars(slot)) \in Nat
  BY <1>0, CharsTyped DEF HeapInv
<1>2. TypeOK'
  <2>1. data' \in [0 .. ShmSize - 1 -> Byte]
    <3>1. sent \in Nat /\ data \in [0 .. ShmSize - 1 -> Byte]
      BY CopyAssumption DEF HeapInv, TypeOK
    <3>2. data' = Stored(data, sent, MemberChars(slot))
      BY DEF SendMember
    <3> QED
      BY <1>1, <3>1, <3>2, StoredCells
  <2>2. sent' \in Nat /\ lost' \in SUBSET Failures
    BY <1>1 DEF HeapInv, TypeOK, SendMember, Failures
  <2>3. at' \in [1 .. Len(Out) + 1 -> Nat]
    <3>1. at \in [1 .. Len(Out) + 1 -> Nat] /\ slot + 1 \in 1 .. Len(Out) + 1
      BY <1>0, Layouts DEF HeapInv, TypeOK
    <3>2. at' = [at EXCEPT ![slot + 1] = sent']
      BY DEF SendMember
    <3> QED
      BY <2>2, <3>1, <3>2
  <2> QED
    BY <1>0, <2>1, <2>2, <2>3 DEF HeapInv, TypeOK, SendMember
<1>3. Tidy'
  BY <1>0 DEF HeapInv, Tidy, SendMember
<1>4. HeapExact'
  BY <1>0 DEF HeapInv, HeapExact, Owned, SendMember
<1> QED
  BY <1>2, <1>3, <1>4 DEF HeapInv

(* The members that are freed no longer own their blocks.                  *)
LEMMA HeapFreeMember ==
  ASSUME HeapInv, FreeMember
  PROVE  HeapInv'
<1>0. /\ pc = "freeing" /\ pc' = pc /\ slot \in 1 .. Len(In) /\ slot' = slot - 1
      /\ In' = In /\ Out' = Out /\ ptr' = ptr /\ heap' = heap \ {ptr[slot]}
  BY Layouts DEF HeapInv, Tidy, FreeMember, FreeBlocks, In, Out
<1>1. TypeOK'
  BY <1>0, Layouts DEF HeapInv, TypeOK, FreeMember, FreeBlocks
<1>2. Tidy'
  BY <1>0, Layouts DEF HeapInv, Tidy
<1>3. HeapExact'
  <2>1. Owned = Owned' \cup {slot} /\ slot \notin Owned'
    BY <1>0, Layouts DEF Owned, HeapInv
  <2>2. /\ heap = {ptr[s] : s \in Owned} \ {Null}
        /\ \A s, t \in Owned : ptr[s] = ptr[t] /\ ptr[s] # Null => s = t
    BY <1>0 DEF HeapInv, HeapExact
  <2>3. \A s \in Owned' : ptr[s] = ptr[slot] => ptr[s] = Null
    BY <2>1, <2>2
  <2>4. heap' = {ptr[s] : s \in Owned'} \ {Null}
    BY <1>0, <2>1, <2>2, <2>3
  <2> QED
    BY <1>0, <2>1, <2>2, <2>4 DEF HeapExact
<1> QED
  BY <1>1, <1>2, <1>3 DEF HeapInv

LEMMA HeapReceiveMember ==
  ASSUME HeapInv, ReceiveMember
  PROVE  HeapInv'
<1>0. /\ Word \in Nat /\ {"overread", "nested"} \subseteq Failures
      /\ lost \in SUBSET Failures /\ lost \cup {"alloc"} \in SUBSET Failures
  BY WireAssumption DEF HeapInv, TypeOK, Failures
<1>1. ASSUME NEW n, OverRead(n) PROVE HeapInv'
  BY <1>0, <1>1, HeapCrash DEF OverRead
<1>2. CASE ReceiveChar
  <2>1. pc = "receiving" /\ slot <= Len(In) /\ Received(In[slot].type) = Byte
    BY <1>2 DEF ReceiveChar, Receiving, Received
  <2>2. CASE Receive(CellAt(data, read), 1) /\ UNCHANGED <<ptr, heap, lost>>
    BY <1>0, <2>1, <2>2, CellsTyped, HeapReceive DEF HeapInv
  <2> QED
    BY <1>1, <1>2, <2>2 DEF ReceiveChar
<1>3. CASE ReceiveUint
  <2>1. pc = "receiving" /\ slot <= Len(In) /\ Received(In[slot].type) = Uint
    BY <1>3 DEF ReceiveUint, Receiving, Received
  <2>2. ASSUME NEW n \in receive_uint32_t(data, read),
               Receive(n, Word), UNCHANGED <<ptr, heap, lost>>
        PROVE  HeapInv'
    BY <1>0, <2>1, <2>2, NumberTyped, HeapReceive
  <2> QED
    BY <1>1, <1>3, <2>2 DEF ReceiveUint
<1>4. CASE ReceiveSize
  <2>1. pc = "receiving" /\ slot <= Len(In) /\ Received(In[slot].type) = {0}
    BY <1>4 DEF ReceiveSize, Receiving, Received
  <2>2. Receive(0, 0) /\ UNCHANGED <<ptr, heap, lost>>
    BY <1>4 DEF ReceiveSize
  <2> QED
    BY <1>0, <2>1, <2>2, HeapReceive
<1>5. ASSUME NEW type \in {"cstring", "buffer"}, ReceiveBlock(type) PROVE HeapInv'
  <2>1. pc = "receiving" /\ slot <= Len(In) /\ Received(In[slot].type) = Seq(Byte)
    BY <1>5 DEF ReceiveBlock, ReceiveBlockAfter, Receiving, Received
  <2> PICK n \in receive_uint32_t(data, read) :
        \/ OverRead(Consumed(type, n))
        \/ Alloc /\ Receive(CellsAt(data, read + Word, n), Consumed(type, n))
    BY <1>5 DEF ReceiveBlock, ReceiveBlockAfter
  <2>2. n \in Nat /\ Consumed(type, n) = Word + n
    BY NumberTyped DEF Uint, Consumed
  <2>3. Consumed(type, n) \in Nat /\ CellsAt(data, read + Word, n) \in Seq(Byte)
    BY <1>0, <2>2, CellsTyped DEF HeapInv
  <2> QED
    BY <1>1, <2>1, <2>3, HeapAlloc
<1>6. ASSUME NEW type \in {"cstring", "buffer"}, ReceiveNoBlock(type) PROVE HeapInv'
  <2>1. /\ pc = "receiving" /\ slot <= Len(In) /\ In[slot].type \in {"cstring", "buffer"}
        /\ Receive(Null, 0) /\ UNCHANGED <<ptr, heap>> /\ lost' = lost \cup {"alloc"}
    BY <1>6 DEF ReceiveNoBlock, Receiving
  <2> QED
    BY <1>0, <2>1, HeapReceive
<1>7. CASE ReceiveStruct
  <2>1. pc = "receiving" /\ slot <= Len(In) /\ Received(In[slot].type) = {Node}
    BY <1>7 DEF ReceiveStruct, Receiving, Received
  <2>2. CASE Alloc /\ Receive(Node, 0)
    BY <2>1, <2>2, HeapAlloc
  <2> QED
    BY <1>0, <1>7, <2>2, HeapCrash DEF ReceiveStruct
<1> QED
  BY <1>2, <1>3, <1>4, <1>5, <1>6, <1>7 DEF ReceiveMember, ReceiveCstring, ReceiveBuffer

LEMMA HeapNext == HeapInv /\ [Next]_vars => HeapInv'
<1> SUFFICES ASSUME HeapInv, [Next]_vars PROVE HeapInv'
  OBVIOUS
<1>0. lost \in SUBSET Failures /\ {"null", "overrun"} \subseteq Failures
  BY DEF HeapInv, TypeOK, Failures
<1>1. ASSUME NEW k \in Structs, NEW v \in Sources[k], BeginSend(k, v) PROVE HeapInv'
  <2>1. v # Null
    BY CopyAssumption
  <2> QED
    BY <1>1, <2>1, HeapBegin DEF BeginSend
<1>2. ASSUME NEW k \in Structs, SendNull(k) PROVE HeapInv'
  <2>1. Len(SendLayout[k]) \in Nat
    BY CopyAssumption
  <2> QED
    BY <1>0, <1>2, <2>1, HeapBegin DEF SendNull
<1>3. CASE SkipNull
  <2>1. slot' \in Nat \ {0} /\ slot \in 1 .. Len(Out) /\ pc = "sending" /\ val # Null
    BY <1>3, Layouts DEF HeapInv, Tidy, SkipNull, Sending
  <2> QED
    BY <1>0, <1>3, <2>1 DEF HeapInv, TypeOK, Tidy, HeapExact, Owned, SkipNull, In, Out
<1>4. CASE SendMember
  BY <1>4, HeapSendMember
<1>5. CASE Overrun
  BY <1>0, <1>5, HeapCrash DEF Overrun
<1>6. CASE Invoke
  <2>1. Len(In) \in Nat /\ In' = In /\ Out' = Out
    BY <1>6, Layouts DEF HeapInv, Invoke, In, Out
  <2>2. TypeOK'
    BY <1>6, <2>1 DEF HeapInv, TypeOK, Invoke, Statuses
  <2>3. Tidy'
    BY <1>6, <2>1 DEF HeapInv, Tidy, Invoke
  <2>4. HeapExact'
    BY <1>6, <2>1 DEF HeapInv, HeapExact, Owned, Invoke
  <2> QED
    BY <2>2, <2>3, <2>4 DEF HeapInv
<1>7. CASE ReceiveMember
  BY <1>7, HeapReceiveMember
<1>8. CASE Return
  <2>1. Len(In) \in Nat /\ In' = In /\ Out' = Out /\ slot = Len(In) + 1
    BY <1>8, Layouts DEF HeapInv, Tidy, Return, In, Out
  <2> QED
    BY <1>8, <2>1 DEF HeapInv, TypeOK, Tidy, HeapExact, Owned, Return, Statuses
<1>9. CASE BeginFree
  <2>1. Len(In) \in Nat /\ In' = In /\ Out' = Out
    BY <1>9, Layouts DEF HeapInv, BeginFree, In, Out
  <2> QED
    BY <1>9, <2>1 DEF HeapInv, TypeOK, Tidy, HeapExact, Owned, BeginFree, Statuses
<1>10. CASE FreeMember
  BY <1>10, HeapFreeMember
<1>11. CASE EndFree
  BY <1>11 DEF HeapInv, TypeOK, Tidy, HeapExact, Owned, EndFree, Statuses, In, Out
<1>12. CASE UNCHANGED vars
  <2>1. /\ UNCHANGED <<pc, kind, val, slot, data, sent, at, thing, ptr, heap, read, lost>>
        /\ In' = In /\ Out' = Out
    BY <1>12 DEF vars, In, Out
  <2>2. TypeOK'
    BY <2>1 DEF HeapInv, TypeOK
  <2> QED
    BY <2>1, <2>2 DEF HeapInv, Tidy, HeapExact, Owned
<1> QED
  BY <1>1, <1>2, <1>3, <1>4, <1>5, <1>6, <1>7, <1>8, <1>9, <1>10, <1>11, <1>12
     DEF Next, Send, Free

(* Whatever is sent and whichever allocations fail, the receiver's heap    *)
(* holds exactly the blocks of the struct it is receiving or freeing.      *)
THEOREM HeapIsExact == Spec => []HeapExact
<1>1. HeapInv => HeapExact
  BY DEF HeapInv
<1> QED
  BY <1>1, HeapInit, HeapNext, PTL DEF Spec

(* A nested struct has its block from when its member is received until it *)
(* is freed: with no memory for it nothing more is received.               *)
NodesLive == \A s \in Owned : In[s].type = "struct" => ptr[s] # Null

LEMMA NodesReceive ==
  ASSUME HeapInv, NodesLive, ReceiveMember, pc' = "receiving"
  PROVE  NodesLive'
<1>1. /\ pc = "receiving" /\ slot' = slot + 1 /\ In' = In
      /\ slot \in 1 .. Len(In) /\ Len(In) \in Nat
  BY Layouts
  DEF HeapInv, Tidy, ReceiveMember, ReceiveChar, ReceiveUint, ReceiveSize, ReceiveCstring,
    ReceiveBuffer, ReceiveBlock, ReceiveBlockAfter, ReceiveNoBlock, ReceiveStruct, Receiving,
    OverRead, Crash, Receive, In
<1>2. \A s \in 1 .. slot - 1 : ptr'[s] = ptr[s]
  BY <1>1
  DEF HeapInv, TypeOK, ReceiveMember, ReceiveChar, ReceiveUint, ReceiveSize, ReceiveCstring,
    ReceiveBuffer, ReceiveBlock, ReceiveBlockAfter, ReceiveNoBlock, ReceiveStruct, Receiving,
    OverRead, Crash, Alloc
<1>3. In[slot].type = "struct" => ptr'[slot] # Null
  <2> SUFFICES ASSUME In[slot].type = "struct" PROVE ptr'[slot] # Null
    OBVIOUS
  <2>1. Alloc
    BY <1>1
    DEF ReceiveMember, ReceiveChar, ReceiveUint, ReceiveSize, ReceiveCstring, ReceiveBuffer,
      ReceiveBlock, ReceiveBlockAfter, ReceiveNoBlock, ReceiveStruct, Receiving, Crash
  <2>2. PICK block \in Blocks : ptr' = [ptr EXCEPT ![slot] = block]
    BY <2>1 DEF Alloc
  <2> QED
    BY <1>1, <2>2, CopyAssumption DEF HeapInv, TypeOK
<1>4. Owned = 1 .. slot - 1 /\ Owned' = 1 .. slot
  BY <1>1 DEF Owned
<1> QED
  BY <1>1, <1>2, <1>3, <1>4 DEF NodesLive

LEMMA NodesNext == HeapInv /\ NodesLive /\ [Next]_vars => NodesLive'
<1> SUFFICES ASSUME HeapInv, NodesLive, [Next]_vars PROVE NodesLive'
  OBVIOUS
<1>1. CASE pc' \notin {"receiving", "held", "freeing"}
  BY <1>1 DEF NodesLive, Owned
<1>2. CASE Invoke
  BY <1>2 DEF Invoke, NodesLive, Owned
<1>3. CASE ReceiveMember /\ pc' = "receiving"
  BY <1>3, NodesReceive
<1>4. CASE Return
  BY <1>4, Layouts DEF HeapInv, Tidy, Return, NodesLive, Owned, In
<1>5. CASE BeginFree
  BY <1>5 DEF BeginFree, NodesLive, Owned, In
<1>6. CASE FreeMember
  BY <1>6, Layouts DEF HeapInv, Tidy, FreeMember, FreeBlocks, NodesLive, Owned, In
<1>7. CASE UNCHANGED vars
  BY <1>7 DEF vars, NodesLive, Owned, In
<1>8. Next => \/ pc' \notin {"receiving", "held", "freeing"}
              \/ Invoke \/ (ReceiveMember /\ pc' = "receiving")
              \/ Return \/ BeginFree \/ FreeMember
  BY DEF Next, Send, Free, BeginSend, SendNull, Begin, SkipNull, SendMember,
    Sending, Overrun, Crash, EndFree, ReceiveMember, ReceiveChar, ReceiveUint,
    ReceiveSize, ReceiveCstring, ReceiveBuffer, ReceiveBlock, ReceiveBlockAfter,
    ReceiveNoBlock, ReceiveStruct, Receiving, OverRead, Receive
<1> QED
  BY <1>1, <1>2, <1>3, <1>4, <1>5, <1>6, <1>7, <1>8

(* A member of a nested struct is assigned, and read to be freed, only     *)
(* while that struct is allocated.                                         *)
THEOREM StructsOutliveMembers == Spec => []ParentsLive
<1>1. Init => NodesLive
  BY DEF Init, NodesLive, Owned
<1>2. HeapInv /\ NodesLive => ParentsLive
  <2> SUFFICES ASSUME HeapInv, NodesLive, pc \in {"receiving", "freeing"},
                      NEW s \in 1 .. Len(In), In[s].type = "struct",
                      slot \in s + 1 .. s + In[s].span
               PROVE  ptr[s] \in heap
    BY DEF ParentsLive
  <2>1. s \in Owned
    BY Layouts DEF HeapInv, Tidy, Owned
  <2>2. ptr[s] # Null /\ heap = {ptr[t] : t \in Owned} \ {Null}
    BY <2>1 DEF HeapInv, HeapExact, NodesLive
  <2> QED
    BY <2>1, <2>2
<1> QED
  BY <1>1, <1>2, HeapInit, HeapNext, NodesNext, PTL DEF Spec

-----------------------------------------------------------------------------
(* Overruns.  While a struct is sent, the sender is as far as the cells of *)
(* the serial form of the members before it.                               *)

Cells(s) == MemberCells(Out, val, s)

Before(n) == UNION {Cells(s) : s \in (1 .. n) \ Skipped(Out, val)}

LongInv ==
  /\ pc = "sending" /\ val # Null =>
       /\ slot \notin Skipped(Out, val)
       /\ slot - 1 <= Len(Out)
       /\ sent <= Cardinality(Before(slot - 1))
  /\ OverrunHasCause

(* A send function stores as many chars as its member has cells.           *)
LEMMA CellsCount ==
  ASSUME TypeOK, val # Null, NEW s \in 1 .. Len(Out)
  PROVE  /\ Cells(s) = {s} \X (1 .. Len(MemberChars(s)))
         /\ IsFiniteSet(Cells(s)) /\ Cardinality(Cells(s)) = Len(MemberChars(s))
         /\ Len(MemberChars(s)) \in 0 .. 1 + Word + MaxUint
<1> DEFINE n == Len(MemberChars(s))
           long == Out[s].type \in {"cstring", "buffer"}
<1>0. Out[s].type \in Types /\ n \in Nat /\ Word \in Nat /\ MaxUint \in Nat
  BY Layouts, CharsTyped, WireAssumption
<1>1. n = Consumed(Out[s].type, IF long THEN Len(val[s]) ELSE 0) /\ n <= 1 + Word + MaxUint
  <2>1. CASE Out[s].type = "char"
    <3>1. MemberChars(s) = << val[s] >>
      BY <2>1, CharsByType
    <3> QED
      BY <1>0, <2>1, <3>1 DEF Consumed
  <2>2. CASE Out[s].type = "uint32_t"
    <3>1. val[s] \in Uint /\ MemberChars(s) = send_uint32_t(val[s])
      BY <2>2, CharsByType
    <3>2. n = Word
      BY <3>1, NumberBytes
    <3> QED
      BY <1>0, <2>2, <3>2 DEF Consumed
  <2>3. CASE long
    <3>1. /\ val[s] \in Seq(Chars) /\ Len(val[s]) \in Uint
          /\ MemberChars(s) = send_uint32_t(Len(val[s])) \o val[s]
      BY <2>3, CharsByType
    <3>2. n = Word + Len(val[s]) /\ Len(val[s]) \in 0 .. MaxUint
      BY <3>1, BlockBytes DEF Uint
    <3>3. Consumed(Out[s].type, Len(val[s])) = Word + Len(val[s])
      BY <2>3 DEF Consumed
    <3> QED
      BY <1>0, <2>3, <3>2, <3>3
  <2>4. CASE Out[s].type \in {"size_t", "struct"}
    <3>1. MemberChars(s) = << >>
      BY <2>4, CharsByType
    <3> QED
      BY <1>0, <2>4, <3>1 DEF Consumed
  <2> QED
    BY <1>0, <2>1, <2>2, <2>3, <2>4 DEF Types
<1>2. Cells(s) = {s} \X (1 .. n)
  BY <1>1 DEF Cells, MemberCells
<1>3. IsFiniteSet(1 .. n) /\ Cardinality(1 .. n) = n
  <2> HIDE DEF n
  <2>1. 1 \in Int /\ n \in Int
    BY <1>0
  <2>2. IsFiniteSet(1 .. n) /\ Cardinality(1 .. n) = IF 1 > n THEN 0 ELSE n - 1 + 1
    BY <2>1, FS_Interval
  <2> QED
    BY <1>0, <2>2
<1>4. IsFiniteSet({s}) /\ Cardinality({s}) = 1
  BY FS_Singleton
<1>5. /\ IsFiniteSet({s} \X (1 .. n))
      /\ Cardinality({s} \X (1 .. n)) = 1 * n
  BY <1>3, <1>4, FS_Product
<1> QED
  BY <1>0, <1>1, <1>2, <1>5

(* The cells of the first members are finitely many, and part of the       *)
(* serial form.                                                            *)
LEMMA BeforeFinite ==
  ASSUME TypeOK, val # Null, NEW n \in Nat, n <= Len(Out)
  PROVE  /\ IsFiniteSet(Before(n)) /\ Cardinality(Before(n)) \in Nat
         /\ Cardinality(Before(n)) <= Cardinality(SerialForm(Out, val))
         /\ Cardinality(SerialForm(Out, val)) \in Nat
<1> DEFINE grid == (1 .. Len(Out)) \X (1 .. 1 + Word + MaxUint)
           all  == SerialForm(Out, val)
<1>0. Len(Out) \in Nat /\ Word \in Nat /\ MaxUint \in Nat
  BY Layouts, WireAssumption
<1>1. IsFiniteSet(1 .. Len(Out)) /\ IsFiniteSet(1 .. 1 + Word + MaxUint)
  <2>1. 1 \in Int /\ Len(Out) \in Int /\ 1 + Word + MaxUint \in Int
    BY <1>0
  <2> QED
    BY <2>1, FS_Interval
<1>2. IsFiniteSet(grid)
  BY <1>1, FS_Product
<1>3. ASSUME NEW s \in 1 .. Len(Out) PROVE Cells(s) \subseteq grid
  <2>1. /\ Cells(s) = {s} \X (1 .. Len(MemberChars(s)))
        /\ Len(MemberChars(s)) \in 0 .. 1 + Word + MaxUint
    BY CellsCount
  <2> QED
    BY <1>0, <2>1
<1>4. all = UNION {Cells(s) : s \in (1 .. Len(Out)) \ Skipped(Out, val)}
  BY DEF SerialForm, Cells
<1>5. all \subseteq grid
  BY <1>3, <1>4
<1>6. Before(n) \subseteq all
  <2>1. 1 .. n \subseteq 1 .. Len(Out)
    BY <1>0
  <2> QED
    BY <1>4, <2>1 DEF Before
<1> HIDE DEF all, grid
<1>7. IsFiniteSet(all) /\ Cardinality(all) \in Nat
  BY <1>2, <1>5, FS_Subset, FS_CardinalityType
<1>8. IsFiniteSet(Before(n)) /\ Cardinality(Before(n)) <= Cardinality(all)
  BY <1>6, <1>7, FS_Subset
<1>9. Cardinality(Before(n)) \in Nat
  BY <1>8, FS_CardinalityType
<1> QED
  BY <1>7, <1>8, <1>9 DEF all

(* The next member has cells of its own.                                   *)
LEMMA BeforeNext ==
  ASSUME TypeOK, val # Null, slot \in 1 .. Len(Out), slot \notin Skipped(Out, val)
  PROVE  Cardinality(Before(slot)) = Cardinality(Before(slot - 1)) + Len(MemberChars(slot))
<1>0. Len(Out) \in Nat /\ slot - 1 \in Nat /\ slot - 1 <= Len(Out)
  BY Layouts
<1>1. /\ IsFiniteSet(Before(slot - 1)) /\ Cardinality(Before(slot - 1)) \in Nat
  BY <1>0, BeforeFinite
<1>2. /\ IsFiniteSet(Cells(slot)) /\ Cardinality(Cells(slot)) = Len(MemberChars(slot))
      /\ Len(MemberChars(slot)) \in 0 .. 1 + Word + MaxUint
      /\ \A s \in 1 .. Len(Out) : Cells(s) = {s} \X (1 .. Len(MemberChars(s)))
  BY CellsCount
<1>3. Before(slot) = Before(slot - 1) \cup Cells(slot)
  <2>1. (1 .. slot) \ Skipped(Out, val) =
          ((1 .. slot - 1) \ Skipped(Out, val)) \cup {slot}
    BY <1>0
  <2> QED
    BY <2>1 DEF Before
<1>4. Before(slot - 1) \cap Cells(slot) = {}
  <2> SUFFICES ASSUME NEW s \in 1 .. slot - 1 PROVE Cells(s) \cap Cells(slot) = {}
    BY DEF Before
  <2>1. s \in 1 .. Len(Out) /\ s # slot
    BY <1>0
  <2>2. /\ Cells(s) = {s} \X (1 .. Len(MemberChars(s)))
        /\ Cells(slot) = {slot} \X (1 .. Len(MemberChars(slot)))
    BY <1>2, <2>1
  <2>3. \A c : ~ (c \in Cells(s) /\ c \in Cells(slot))
    BY <2>1, <2>2
  <2> QED
    BY <2>3
<1>5. Cardinality(Before(slot - 1) \cap Cells(slot)) = 0
  BY <1>4, FS_EmptySet
<1>6. Cardinality(Before(slot - 1) \cup Cells(slot)) =
        Cardinality(Before(slot - 1)) + Cardinality(Cells(slot))
          - Cardinality(Before(slot - 1) \cap Cells(slot))
  BY <1>1, <1>2, FS_Union
<1> QED
  BY <1>1, <1>2, <1>3, <1>5, <1>6, WireAssumption

(* A sender that is not inside a NULL nested struct does not enter one.    *)
LEMMA NeverInside ==
  ASSUME TypeOK, val # Null, slot \in 1 .. Len(Out), slot \notin Skipped(Out, val)
  PROVE  /\ ~ NullStruct => slot + 1 \notin Skipped(Out, val)
         /\ NullStruct => /\ slot + Out[slot].span + 1 \notin Skipped(Out, val)
                          /\ slot + Out[slot].span <= Len(Out)
<1> DEFINE nulls == {t \in 1 .. Len(Out) : Out[t].type = "struct" /\ val[t] = Null}
<1>0. /\ Len(Out) \in Nat /\ \A t \in 1 .. Len(Out) : Out[t].span \in Nat
      /\ Skipped(Out, val) = UNION {s + 1 .. s + Out[s].span : s \in nulls}
  BY Layouts DEF Skipped
<1>1. WellNested(Out)
  BY CopyAssumption DEF TypeOK, Out
<1>2. \A t \in nulls : slot \notin t + 1 .. t + Out[t].span
  BY <1>0
<1>3. ASSUME ~ NullStruct, NEW t \in nulls
      PROVE  slot + 1 \notin t + 1 .. t + Out[t].span
  <2>1. t # slot /\ t \in Nat /\ Out[t].span \in Nat
    BY <1>0, <1>3 DEF NullStruct
  <2>2. slot \notin t + 1 .. t + Out[t].span
    BY <1>2
  <2> QED
    BY <2>1, <2>2
<1>4. ASSUME NullStruct, NEW t \in nulls
      PROVE  slot + Out[slot].span + 1 \notin t + 1 .. t + Out[t].span
  <2>1. CASE t < slot
    <3>1. slot \notin t + 1 .. t + Out[t].span
      BY <1>2
    <3>2. t \in Nat /\ Out[t].span \in Nat /\ slot \in Nat /\ Out[slot].span \in Nat
      BY <1>0
    <3>3. t + Out[t].span < slot
      BY <2>1, <3>1, <3>2
    <3> QED
      BY <3>2, <3>3
  <2>2. CASE t = slot
    BY <1>0, <2>2
  <2>3. CASE t \in slot + 1 .. slot + Out[slot].span
    <3>1. t + Out[t].span <= slot + Out[slot].span
      BY <1>1, <2>3 DEF WellNested
    <3> QED
      BY <1>0, <3>1
  <2>4. CASE t > slot + Out[slot].span
    BY <1>0, <2>4
  <2> QED
    BY <1>0, <2>1, <2>2, <2>3, <2>4
<1>5. slot + Out[slot].span <= Len(Out)
  BY <1>1 DEF WellNested
<1> QED
  BY <1>0, <1>3, <1>4, <1>5

LEMMA LongSame ==
  ASSUME UNCHANGED <<kind, val>>
  PROVE  /\ Out' = Out /\ Skipped(Out, val)' = Skipped(Out, val)
         /\ \A n : Before(n)' = Before(n)
         /\ TooLong(Out, val)' <=> TooLong(Out, val)
<1>1. Out' = Out
  BY DEF Out
<1>2. Skipped(Out, val)' = Skipped(Out, val)
  BY <1>1 DEF Skipped
<1> QED
  BY <1>1, <1>2 DEF Before, Cells, MemberCells, TooLong, SerialForm

LEMMA LongSend ==
  ASSUME HeapInv, LongInv, SkipNull \/ SendMember
  PROVE  LongInv'
<1>0. /\ pc = "sending" /\ UNCHANGED <<pc, kind, val>> /\ TypeOK /\ val # Null
      /\ slot \in 1 .. Len(Out) /\ Len(Out) \in Nat /\ slot \notin Skipped(Out, val)
      /\ sent \in Nat /\ sent <= Cardinality(Before(slot - 1)) /\ Out[slot].span \in Nat
  BY Layouts DEF HeapInv, TypeOK, Tidy, LongInv, SkipNull, SendMember, Sending
<1>1. /\ Out' = Out /\ Skipped(Out, val)' = Skipped(Out, val)
      /\ \A n : Before(n)' = Before(n)
      /\ TooLong(Out, val)' <=> TooLong(Out, val)
  BY <1>0, LongSame
<1>2. /\ slot - 1 \in Nat /\ slot - 1 <= Len(Out)
      /\ Cardinality(Before(slot - 1)) \in Nat
  BY <1>0, BeforeFinite
<1>3. CASE SkipNull
  <2>1. NullStruct /\ slot' = slot + Out[slot].span + 1 /\ sent' = sent
        /\ lost' = lost \cup {"null"}
    BY <1>3 DEF SkipNull
  <2>2. /\ slot' \notin Skipped(Out, val) /\ slot' - 1 <= Len(Out)
        /\ slot' - 1 \in Nat /\ slot - 1 <= slot' - 1
    BY <1>0, <2>1, NeverInside
  <2>3. PICK m \in Nat : m = slot' - 1
    BY <2>2
  <2>4. Before(slot - 1) \subseteq Before(m)
    <3>1. (1 .. slot - 1) \subseteq 1 .. m
      BY <1>0, <2>2, <2>3
    <3> QED
      BY <3>1 DEF Before
  <2>5. IsFiniteSet(Before(m)) /\ Cardinality(Before(m)) \in Nat
    BY <1>0, <2>2, <2>3, BeforeFinite
  <2>6. Cardinality(Before(slot - 1)) <= Cardinality(Before(m))
    BY <2>4, <2>5, FS_Subset
  <2>7. sent <= Cardinality(Before(m))
    BY <1>0, <1>2, <2>5, <2>6
  <2>8. OverrunHasCause'
    BY <1>0, <1>1, <2>1 DEF LongInv, OverrunHasCause
  <2>9. sent' <= Cardinality(Before(slot' - 1))
    BY <2>1, <2>3, <2>7
  <2>10. Before(slot - 1)' = Before(slot' - 1)
    BY <1>1, <1>0, <2>3 DEF Before, Cells
  <2> QED
    BY <1>1, <2>2, <2>8, <2>9, <2>10 DEF LongInv
<1>4. CASE SendMember
  <2>1. /\ ~ NullStruct /\ slot' = slot + 1 /\ sent' = sent + Len(MemberChars(slot))
        /\ lost' = IF sent' > ShmSize THEN lost \cup {"overrun"} ELSE lost
    BY <1>4 DEF SendMember
  <2>2. Cardinality(Before(slot)) = Cardinality(Before(slot - 1)) + Len(MemberChars(slot))
    BY <1>0, BeforeNext
  <2>3. Len(MemberChars(slot)) \in Nat
    BY <1>0, CharsTyped
  <2>4. sent' <= Cardinality(Before(slot)) /\ sent' \in Nat
    BY <1>0, <1>2, <2>1, <2>2, <2>3
  <2>5. slot' \notin Skipped(Out, val) /\ slot' - 1 = slot
    BY <1>0, <2>1, NeverInside
  <2>6. /\ Cardinality(Before(slot)) <= Cardinality(SerialForm(Out, val))
        /\ Cardinality(Before(slot)) \in Nat
        /\ Cardinality(SerialForm(Out, val)) \in Nat
    BY <1>0, BeforeFinite
  <2>7. sent' > ShmSize => TooLong(Out, val)
    BY <2>4, <2>6, CopyAssumption DEF TooLong
  <2>8. OverrunHasCause'
    BY <1>0, <1>1, <2>1, <2>7 DEF LongInv, OverrunHasCause
  <2>9. Before(slot - 1)' = Before(slot)
    BY <1>1, <2>5 DEF Before, Cells
  <2> QED
    BY <1>0, <1>1, <2>4, <2>5, <2>8, <2>9 DEF LongInv
<1> QED
  BY <1>3, <1>4

(* An overrun the sender does not survive.                                 *)
LEMMA LongOverrun ==
  ASSUME HeapInv, LongInv, Overrun
  PROVE  LongInv'
<1>0. /\ pc = "sending" /\ pc' = "crashed" /\ UNCHANGED <<kind, val>> /\ TypeOK
      /\ val # Null /\ slot \in 1 .. Len(Out) /\ slot \notin Skipped(Out, val)
      /\ sent \in Nat /\ sent <= Cardinality(Before(slot - 1))
      /\ sent + Len(MemberChars(slot)) > ShmSize
  BY Layouts DEF HeapInv, TypeOK, Tidy, LongInv, Overrun, Sending, Crash
<1>1. Len(MemberChars(slot)) \in Nat
  BY <1>0, CharsTyped
<1>2. slot \in Nat /\ slot <= Len(Out) /\ slot - 1 \in Nat /\ slot - 1 <= Len(Out)
  BY <1>0, Layouts
<1>3. /\ Cardinality(Before(slot)) = Cardinality(Before(slot - 1)) + Len(MemberChars(slot))
      /\ Cardinality(Before(slot - 1)) \in Nat
      /\ Cardinality(Before(slot)) <= Cardinality(SerialForm(Out, val))
      /\ Cardinality(SerialForm(Out, val)) \in Nat
  BY <1>0, <1>2, BeforeNext, BeforeFinite
<1>4. TooLong(Out, val)
  BY <1>0, <1>1, <1>3, CopyAssumption DEF TooLong
<1> QED
  BY <1>0, <1>4, LongSame DEF LongInv, OverrunHasCause

LEMMA LongNext == HeapInv /\ LongInv /\ [Next]_vars => LongInv'
<1> SUFFICES ASSUME HeapInv, LongInv, [Next]_vars PROVE LongInv'
  OBVIOUS
<1>1. ASSUME NEW k \in Structs, NEW v \in Sources[k], BeginSend(k, v) PROVE LongInv'
  <2>1. pc' = "sending" /\ slot' = 1 /\ sent' = 0 /\ lost' = {} /\ kind' = k /\ val' = v
        /\ SendLayout[k] \in Seq(Entry) /\ Len(SendLayout[k]) \in Nat /\ Out' = SendLayout[k]
    BY <1>1, CopyAssumption DEF BeginSend, Begin, Out
  <2>2. 1 \notin Skipped(Out, val)'
    <3>1. \A s \in 1 .. Len(SendLayout[k]) : 1 \notin s + 1 .. s + SendLayout[k][s].span
      BY <2>1
    <3> QED
      BY <2>1, <3>1 DEF Skipped
  <2>3. Before(slot - 1)' = {}
    BY <2>1 DEF Before
  <2>4. Cardinality(Before(slot - 1)') = 0
    BY <2>3, FS_EmptySet
  <2>5. slot' - 1 = 0 /\ slot' - 1 <= Len(Out')
    BY <2>1
  <2>6. OverrunHasCause'
    BY <2>1 DEF OverrunHasCause
  <2>7. sent' <= Cardinality(Before(slot - 1))'
    BY <2>1, <2>4
  <2> QED
    BY <2>1, <2>2, <2>5, <2>6, <2>7 DEF LongInv
<1>2. ASSUME NEW k \in Structs, SendNull(k) PROVE LongInv'
  BY <1>2 DEF SendNull, Begin, LongInv, OverrunHasCause
<1>3. CASE SkipNull \/ SendMember
  BY <1>3, LongSend
<1>4. CASE Overrun
  BY <1>4, LongOverrun
<1>5. CASE Invoke \/ ReceiveMember \/ Return \/ Free
  <2>1. /\ UNCHANGED <<kind, val>> /\ pc' # "sending"
        /\ "overrun" \in lost' => "overrun" \in lost
    BY <1>5
    DEF Invoke, ReceiveMember, ReceiveChar, ReceiveUint, ReceiveSize, ReceiveCstring,
      ReceiveBuffer, ReceiveBlock, ReceiveBlockAfter, ReceiveNoBlock, ReceiveStruct, Receiving,
      OverRead, Crash, Receive, Alloc, Return, Free, BeginFree, FreeMember, FreeBlocks, EndFree
  <2> QED
    BY <2>1, LongSame DEF LongInv, OverrunHasCause
<1>6. CASE UNCHANGED vars
  <2>1. UNCHANGED <<pc, kind, val, slot, sent, lost>>
    BY <1>6 DEF vars
  <2>2. Before(slot - 1)' = Before(slot - 1)
    BY <2>1, LongSame DEF Before, Cells
  <2> QED
    BY <2>1, <2>2, LongSame DEF LongInv, OverrunHasCause
<1> QED
  BY <1>1, <1>2, <1>3, <1>4, <1>5, <1>6 DEF Next, Send

LEMMA LongInit == Init => LongInv
BY DEF Init, LongInv, OverrunHasCause

(* No send function stores more than the receive functions consume: only a *)
(* struct whose serial form is longer than the shared buffer overruns it,  *)
(* whatever is in it and however the two worlds registered it.             *)
THEOREM OverrunCaused == Spec => []OverrunHasCause
<1>1. LongInv => OverrunHasCause
  BY DEF LongInv
<1> QED
  BY <1>1, HeapInit, HeapNext, LongInit, LongNext, PTL DEF Spec

-----------------------------------------------------------------------------
(* The chars.  What the receiver reads is what was sent because the chars  *)
(* of the members lie in the buffer one behind the other, untouched since, *)
(* and the receiver has followed them.                                     *)

(* The two worlds register the structs alike; no member is a size_t.       *)
SameRegistries == \A k \in Structs : RecvLayout[k] = SendLayout[k]

NoSizeMember ==
  \A k \in Structs : \A s \in 1 .. Len(SendLayout[k]) : SendLayout[k][s].type # "size_t"

(* The chars of member s are in the buffer, between at[s] and at[s + 1].   *)
Laid(s) ==
  /\ at[s] \in Nat
  /\ at[s + 1] = at[s] + Len(MemberChars(s))
  /\ at[s + 1] <= sent
  /\ \A i \in 1 .. Len(MemberChars(s)) : CellAt(data, at[s] + i - 1) = MemberChars(s)[i]
  /\ Out[s].type = "struct" => val[s] = Node

(* How many entries have been sent. *)
Done == IF pc = "sending" THEN slot - 1 ELSE Len(Out)

SentInv ==
  lost = {} /\ pc \in {"sending", "receiving", "held"} =>
    /\ val # Null
    /\ Done \in 0 .. Len(Out)
    /\ at[1] = 0 /\ at[Done + 1] = sent /\ sent <= ShmSize
    /\ \A s \in 1 .. Done : Laid(s)

(* What a received member should be. *)
Expected(s) == IF Out[s].type = "size_t" THEN 0 ELSE val[s]

ReadInv ==
  lost = {} =>
    /\ pc = "sending" => read = 0
    /\ pc = "receiving" => /\ read = at[slot]
                           /\ \A s \in 1 .. slot - 1 : thing[s] = Expected(s)
    /\ pc = "held" => /\ read = sent
                      /\ \A s \in 1 .. Len(In) : thing[s] = Expected(s)

LostInv == /\ pc # "crashed" => lost \subseteq {"null", "alloc", "overrun"}
           /\ OverreadHasCause

CopyInv == HeapInv /\ SentInv /\ ReadInv /\ LostInv

LEMMA CopyInit == Init => CopyInv
<1> SUFFICES ASSUME Init PROVE CopyInv
  OBVIOUS
<1>1. SentInv /\ ReadInv /\ LostInv
  BY DEF Init, SentInv, ReadInv, LostInv, OverreadHasCause
<1> QED
  BY <1>1, HeapInit DEF CopyInv

(* A member stays where it is as long as nothing is sent.                  *)
LEMMA LaidStays ==
  ASSUME UNCHANGED <<kind, val, data, sent, at>>
  PROVE  /\ Out' = Out /\ In' = In
         /\ \A s : Laid(s)' <=> Laid(s)
         /\ \A s : Expected(s)' = Expected(s)
<1>1. Out' = Out /\ In' = In
  BY DEF Out, In
<1>2. \A s : MemberChars(s)' = MemberChars(s)
  BY <1>1 DEF MemberChars
<1> QED
  BY <1>1, <1>2 DEF Laid, Expected

(* Sending a member puts its chars behind those already sent.              *)
LEMMA SentMember ==
  ASSUME CopyInv, SendMember
  PROVE  SentInv'
<1> SUFFICES ASSUME lost' = {} PROVE SentInv'
  BY DEF SentInv
<1>a. lost = {} /\ ~ (sent' > ShmSize)
  BY DEF SendMember
<1>0. /\ pc = "sending" /\ pc' = pc /\ slot' = slot + 1 /\ Out' = Out /\ val' = val
      /\ slot \in 1 .. Len(Out) /\ Len(Out) \in Nat /\ val # Null /\ sent \in Nat
      /\ ~ NullStruct
  BY Layouts
     DEF CopyInv, HeapInv, TypeOK, Tidy, SendMember, Sending, Out
<1>1. /\ Done = slot - 1 /\ Done' = slot
      /\ at[1] = 0 /\ at[slot] = sent /\ \A s \in 1 .. slot - 1 : Laid(s)
  BY <1>a, <1>0 DEF CopyInv, SentInv, Done
<1>2. \A s : MemberChars(s)' = MemberChars(s)
  BY <1>0 DEF MemberChars
<1>3. MemberChars(slot) \in Seq(Byte) /\ Len(MemberChars(slot)) \in Nat
  BY <1>0, CharsTyped DEF CopyInv, HeapInv
<1>4. /\ sent' = sent + Len(MemberChars(slot))
      /\ at'[slot + 1] = sent' /\ \A s \in 1 .. slot : at'[s] = at[s]
      /\ sent' \in Nat /\ sent' <= ShmSize
  BY <1>a, <1>0, <1>3, CopyAssumption DEF CopyInv, HeapInv, TypeOK, SendMember
<1>5. \A o \in 0 .. ShmSize - 1 :
        data'[o] = IF o \in sent .. sent + Len(MemberChars(slot)) - 1
                   THEN MemberChars(slot)[o - sent + 1] ELSE data[o]
  <2>1. data' = Stored(data, sent, MemberChars(slot)) /\ data \in [0 .. ShmSize - 1 -> Byte]
    BY DEF CopyInv, HeapInv, TypeOK, SendMember
  <2>2. \A o \in 0 .. ShmSize - 1 :
          Stored(data, sent, MemberChars(slot))[o] =
            IF o \in sent .. sent + Len(MemberChars(slot)) - 1
            THEN MemberChars(slot)[o - sent + 1] ELSE data[o]
    <3>1. sent \in Nat
      BY <1>0
    <3> QED
      BY <1>3, <2>1, <3>1, StoredCells
  <2> QED
    BY <2>1, <2>2
<1>6. DOMAIN data = 0 .. ShmSize - 1 /\ DOMAIN data' = 0 .. ShmSize - 1
  BY DEF CopyInv, HeapInv, TypeOK, SendMember, Stored
<1>7. ASSUME NEW s \in 1 .. slot - 1 PROVE Laid(s)'
  <2>1. /\ Laid(s) /\ s \in 1 .. slot /\ s + 1 \in 1 .. slot
        /\ Len(MemberChars(s)) \in Nat
    BY <1>0, <1>1, <1>7, CharsTyped DEF CopyInv, HeapInv
  <2>2. at'[s] = at[s] /\ at'[s + 1] = at[s + 1]
    BY <1>4, <2>1
  <2>3. ASSUME NEW i \in 1 .. Len(MemberChars(s))
        PROVE  CellAt(data', at[s] + i - 1) = CellAt(data, at[s] + i - 1)
    <3>0. /\ at[s] \in Nat
          /\ at[s] + Len(MemberChars(s)) <= sent
      BY <2>1 DEF Laid
    <3>1. at[s] + i - 1 \in Nat /\ at[s] + i - 1 < sent
      BY <1>0, <2>1, <3>0
    <3> QED
      BY <1>0, <1>3, <1>4, <1>5, <1>6, <3>1, CopyAssumption DEF CellAt
  <2>4. MemberChars(s)' = MemberChars(s) /\ at[s + 1] <= sent'
    BY <1>0, <1>2, <1>3, <1>4, <2>1 DEF Laid
  <2>5. Laid(s)' <=> /\ at[s] \in Nat
                     /\ at[s + 1] = at[s] + Len(MemberChars(s))
                     /\ at[s + 1] <= sent'
                     /\ \A i \in 1 .. Len(MemberChars(s)) :
                          CellAt(data', at[s] + i - 1) = MemberChars(s)[i]
                     /\ Out[s].type = "struct" => val[s] = Node
    BY <1>0, <2>2, <2>4 DEF Laid
  <2> QED
    BY <2>1, <2>3, <2>4, <2>5 DEF Laid
<1>8. ASSUME NEW s, s = slot PROVE Laid(s)'
  <2>1. ASSUME NEW i \in 1 .. Len(MemberChars(slot))
        PROVE  CellAt(data', sent + i - 1) = MemberChars(slot)[i]
    <3>1. /\ sent + i - 1 \in sent .. sent + Len(MemberChars(slot)) - 1
          /\ sent + i - 1 \in 0 .. ShmSize - 1
          /\ (sent + i - 1) - sent + 1 = i
      BY <1>0, <1>3, <1>4, CopyAssumption
    <3> QED
      BY <1>5, <1>6, <3>1 DEF CellAt
  <2>2. at'[slot] = sent
    BY <1>0, <1>1, <1>4
  <2>3. Out[slot].type = "struct" => val[slot] = Node
    <3>1. Sendable(Out, val, slot)
      BY <1>0, MembersSendable DEF CopyInv, HeapInv
    <3>2. Out[slot].type = "struct" => val[slot] \in {Node, Null}
      BY <3>1 DEF Sendable
    <3> QED
      BY <1>0, <3>2 DEF NullStruct
  <2>4. /\ at'[s] = sent /\ at'[s + 1] = sent' /\ MemberChars(s)' = MemberChars(s)
        /\ sent' = sent + Len(MemberChars(s)) /\ sent' \in Nat
    BY <1>0, <1>2, <1>3, <1>4, <1>8, <2>2
  <2>5. Laid(s)' <=> /\ sent \in Nat
                     /\ sent' = sent + Len(MemberChars(s))
                     /\ sent' <= sent'
                     /\ \A i \in 1 .. Len(MemberChars(s)) :
                          CellAt(data', sent + i - 1) = MemberChars(s)[i]
                     /\ Out[s].type = "struct" => val[s] = Node
    BY <1>0, <2>4 DEF Laid
  <2> QED
    BY <1>0, <1>8, <2>1, <2>3, <2>4, <2>5
<1>9. \A s \in 1 .. slot : Laid(s)'
  BY <1>0, <1>7, <1>8
<1> QED
  BY <1>0, <1>1, <1>4, <1>9 DEF SentInv

(* What is at the receiver's offset, type by type.                         *)
LEMMA Decoded ==
  ASSUME CopyInv, SameRegistries, lost = {}, pc = "receiving", slot <= Len(In)
  PROVE  /\ slot \in 1 .. Len(Out) /\ In = Out /\ val # Null
         /\ read \in Nat /\ at[slot + 1] <= sent /\ sent <= ShmSize
         /\ In[slot].type = "char" =>
              at[slot + 1] = read + 1 /\ CellAt(data, read) = val[slot]
         /\ In[slot].type = "uint32_t" =>
              at[slot + 1] = read + Word /\ receive_uint32_t(data, read) = {val[slot]}
         /\ In[slot].type \in {"cstring", "buffer"} =>
              /\ at[slot + 1] = read + Word + Len(val[slot])
              /\ receive_uint32_t(data, read) = {Len(val[slot])}
              /\ CellsAt(data, read + Word, Len(val[slot])) = val[slot]
         /\ In[slot].type \in {"size_t", "struct"} => at[slot + 1] = read
         /\ In[slot].type = "struct" => val[slot] = Node
<1>0. /\ TypeOK /\ In = Out /\ val # Null /\ slot \in 1 .. Len(Out) /\ Len(Out) \in Nat
      /\ sent \in Nat /\ sent <= ShmSize /\ Word \in Nat
  <2>1. TypeOK /\ Tidy /\ SentInv
    BY DEF CopyInv, HeapInv
  <2>2. In = Out
    BY <2>1 DEF TypeOK, SameRegistries, In, Out
  <2>3. sent \in Nat /\ sent <= ShmSize /\ Word \in Nat
    BY <2>1, CopyAssumption, WireAssumption DEF TypeOK, SentInv
  <2> QED
    BY <2>1, <2>2, <2>3, Layouts DEF Tidy, SentInv
<1>1. Laid(slot) /\ read = at[slot]
  BY <1>0 DEF CopyInv, SentInv, ReadInv, Done
<1>2. /\ read \in Nat
      /\ at[slot + 1] = read + Len(MemberChars(slot))
      /\ at[slot + 1] <= sent
      /\ \A i \in 1 .. Len(MemberChars(slot)) : CellAt(data, read + i - 1) = MemberChars(slot)[i]
      /\ Out[slot].type = "struct" => val[slot] = Node
  BY <1>1 DEF Laid
<1>3. ASSUME In[slot].type = "char"
      PROVE  at[slot + 1] = read + 1 /\ CellAt(data, read) = val[slot]
  <2>1. MemberChars(slot) = << val[slot] >>
    BY <1>0, <1>3, CharsByType
  <2>2. Len(MemberChars(slot)) = 1 /\ MemberChars(slot)[1] = val[slot]
    BY <2>1
  <2>3. CellAt(data, read + 1 - 1) = val[slot] /\ read + 1 - 1 = read
    BY <1>2, <2>2
  <2> QED
    BY <1>2, <2>2, <2>3
<1>4. ASSUME In[slot].type = "uint32_t"
      PROVE  at[slot + 1] = read + Word /\ receive_uint32_t(data, read) = {val[slot]}
  <2>1. val[slot] \in Uint /\ MemberChars(slot) = send_uint32_t(val[slot])
    BY <1>0, <1>4, CharsByType
  <2>2. Len(MemberChars(slot)) = Word
    BY <2>1, NumberBytes
  <2>3. CellsAt(data, read, Word) = send_uint32_t(val[slot])
    BY <1>2, <2>1, <2>2 DEF CellsAt, send_uint32_t
  <2> QED
    BY <1>2, <2>1, <2>2, <2>3, UintDecoded
<1>5. ASSUME In[slot].type \in {"cstring", "buffer"}
      PROVE  /\ at[slot + 1] = read + Word + Len(val[slot])
             /\ receive_uint32_t(data, read) = {Len(val[slot])}
             /\ CellsAt(data, read + Word, Len(val[slot])) = val[slot]
  <2>1. /\ val[slot] \in Seq(Chars) /\ Len(val[slot]) \in Uint
        /\ MemberChars(slot) = send_uint32_t(Len(val[slot])) \o val[slot]
    BY <1>0, <1>5, CharsByType
  <2>2. Len(MemberChars(slot)) = Word + Len(val[slot]) /\ Len(val[slot]) \in Nat
    <3>1. Len(send_uint32_t(Len(val[slot])) \o val[slot]) = Word + Len(val[slot])
      BY <2>1, BlockBytes
    <3> QED
      BY <2>1, <3>1
  <2>3. \A i \in 1 .. Word + Len(val[slot]) :
          CellAt(data, read + i - 1) = (send_uint32_t(Len(val[slot])) \o val[slot])[i]
    BY <1>2, <2>1, <2>2
  <2>4. /\ receive_uint32_t(data, read) = {Len(val[slot])}
        /\ CellsAt(data, read + Word, Len(val[slot])) = val[slot]
    BY <1>2, <2>1, <2>3, BlockDecoded
  <2> QED
    BY <1>0, <1>2, <2>2, <2>4
<1>6. ASSUME In[slot].type \in {"size_t", "struct"} PROVE at[slot + 1] = read
  <2>1. MemberChars(slot) = << >>
    BY <1>0, <1>6, CharsByType
  <2> QED
    BY <1>2, <2>1
<1> QED
  BY <1>0, <1>2, <1>3, <1>4, <1>5, <1>6

(* A receive call that finds the member it expects leaves its caller at    *)
(* the next one.                                                           *)
LEMMA CopyReceive ==
  ASSUME CopyInv, HeapInv', SameRegistries, pc = "receiving", slot <= Len(In),
         NEW x, NEW n, Receive(x, n), lost' = lost \/ lost' = lost \cup {"alloc"},
         lost' = {} => x = Expected(slot) /\ at[slot + 1] = read + n
  PROVE  CopyInv'
<1>0. /\ pc' = "receiving" /\ slot' = slot + 1 /\ read' = read + n
      /\ UNCHANGED <<kind, val, data, sent, at>>
      /\ Len(In) \in Nat /\ slot \in 1 .. Len(In)
  BY Layouts DEF CopyInv, HeapInv, Tidy, Receive
<1>1. /\ Out' = Out /\ In' = In /\ Done' = Done
      /\ \A s : Laid(s)' <=> Laid(s)
      /\ \A s : Expected(s)' = Expected(s)
  BY <1>0, LaidStays DEF Done
<1>2. lost' = {} => lost = {}
  OBVIOUS
<1>3. SentInv'
  BY <1>0, <1>1, <1>2 DEF CopyInv, SentInv
<1>4. ReadInv'
  <2> SUFFICES ASSUME lost' = {} PROVE ReadInv'
    BY DEF ReadInv
  <2>1. \A s \in 1 .. slot - 1 : thing[s] = Expected(s)
    BY <1>0, <1>2 DEF CopyInv, ReadInv
  <2>2. thing'[slot] = Expected(slot) /\ \A s \in 1 .. slot - 1 : thing'[s] = thing[s]
    BY <1>0 DEF CopyInv, HeapInv, TypeOK, Receive
  <2>3. \A s \in 1 .. slot' - 1 : thing'[s] = Expected(s)
    BY <1>0, <2>1, <2>2
  <2> QED
    BY <1>0, <1>1, <2>3 DEF ReadInv
<1>5. LostInv'
  <2>1. lost \subseteq {"null", "alloc", "overrun"}
    BY DEF CopyInv, LostInv
  <2> QED
    BY <2>1 DEF LostInv, OverreadHasCause
<1> QED
  BY <1>3, <1>4, <1>5 DEF CopyInv

(* A crash: nothing is promised any more.                                  *)
LEMMA CopyCrash ==
  ASSUME CopyInv, HeapInv', pc # "crashed", NEW why, Crash(why),
         why = "overread" => lost # {}
  PROVE  CopyInv'
<1>1. pc' = "crashed" /\ lost' = lost \cup {why} /\ lost' # {}
  BY DEF Crash
<1>2. SentInv' /\ ReadInv'
  BY <1>1 DEF SentInv, ReadInv
<1>3. LostInv'
  <2>1. CASE why = "overread"
    <3>1. lost \subseteq {"null", "alloc", "overrun"} /\ lost # {}
      BY <2>1 DEF CopyInv, LostInv
    <3> QED
      BY <1>1, <2>1, <3>1 DEF CopyInv, LostInv, OverreadHasCause
  <2>2. CASE why # "overread"
    BY <1>1, <2>2 DEF CopyInv, LostInv, OverreadHasCause
  <2> QED
    BY <2>1, <2>2
<1> QED
  BY <1>2, <1>3 DEF CopyInv

LEMMA CopyReceiveMember ==
  ASSUME CopyInv, HeapInv', SameRegistries, ReceiveMember
  PROVE  CopyInv'
<1>0. pc = "receiving" /\ slot <= Len(In) /\ Word \in Nat
  BY WireAssumption
     DEF ReceiveMember, ReceiveChar, ReceiveUint, ReceiveSize, ReceiveCstring, ReceiveBuffer,
         ReceiveStruct, ReceiveBlock, ReceiveBlockAfter, ReceiveNoBlock, Receiving
<1>1. lost = {} => Out[slot].type = In[slot].type
  BY <1>0, Decoded
<1>2. ASSUME NEW n, OverRead(n), lost = {} => at[slot + 1] = read + n
      PROVE  CopyInv'
  <2>1. lost # {}
    <3> SUFFICES ASSUME lost = {} PROVE FALSE
      OBVIOUS
    <3>1. /\ at[slot + 1] <= sent /\ sent <= ShmSize /\ at[slot + 1] = read + n
          /\ sent \in Nat /\ ShmSize \in Nat
      BY <1>0, <1>2, Decoded, CopyAssumption DEF CopyInv, HeapInv, TypeOK
    <3>2. read + n > ShmSize
      BY <1>2 DEF OverRead
    <3>3. at[slot + 1] \in Int
      <4>1. Laid(slot) /\ Len(MemberChars(slot)) \in Nat
        BY <1>0, Decoded, CharsTyped DEF CopyInv, HeapInv, SentInv, Done
      <4> QED
        BY <4>1 DEF Laid
    <3> QED
      BY <3>1, <3>2, <3>3
  <2> QED
    BY <1>0, <1>2, <2>1, CopyCrash DEF OverRead
<1>3. CASE ReceiveChar
  <2>1. In[slot].type = "char"
    BY <1>3 DEF ReceiveChar, Receiving
  <2>2. lost = {} => at[slot + 1] = read + 1 /\ CellAt(data, read) = Expected(slot)
    BY <1>0, <1>1, <2>1, Decoded DEF Expected
  <2>3. CASE Receive(CellAt(data, read), 1) /\ UNCHANGED <<ptr, heap, lost>>
    BY <1>0, <2>2, <2>3, CopyReceive
  <2> QED
    BY <1>2, <1>3, <2>2, <2>3 DEF ReceiveChar
<1>4. CASE ReceiveUint
  <2>1. In[slot].type = "uint32_t"
    BY <1>4 DEF ReceiveUint, Receiving
  <2>2. lost = {} => /\ at[slot + 1] = read + Word
                     /\ receive_uint32_t(data, read) = {Expected(slot)}
    BY <1>0, <1>1, <2>1, Decoded DEF Expected
  <2>3. ASSUME NEW n \in receive_uint32_t(data, read),
               Receive(n, Word), UNCHANGED <<ptr, heap, lost>>
        PROVE  CopyInv'
    BY <1>0, <2>2, <2>3, CopyReceive
  <2> QED
    BY <1>2, <1>4, <2>2, <2>3 DEF ReceiveUint
<1>5. CASE ReceiveSize
  <2>1. In[slot].type = "size_t"
    BY <1>5 DEF ReceiveSize, Receiving
  <2>2. lost = {} => at[slot + 1] = read + 0 /\ Expected(slot) = 0
    BY <1>0, <1>1, <2>1, Decoded DEF Expected
  <2>3. Receive(0, 0) /\ lost' = lost
    BY <1>5 DEF ReceiveSize
  <2> QED
    BY <1>0, <2>2, <2>3, CopyReceive
<1>6. ASSUME NEW type \in {"cstring", "buffer"}, ReceiveBlock(type) PROVE CopyInv'
  <2>1. In[slot].type = type
    BY <1>6 DEF ReceiveBlock, ReceiveBlockAfter, Receiving
  <2> PICK n \in receive_uint32_t(data, read) :
        \/ OverRead(Consumed(type, n))
        \/ Alloc /\ Receive(CellsAt(data, read + Word, n), Consumed(type, n))
    BY <1>6 DEF ReceiveBlock, ReceiveBlockAfter
  <2>2. Consumed(type, n) = Word + n
    BY DEF Consumed
  <2>3. lost = {} => /\ at[slot + 1] = read + (Word + n)
                     /\ CellsAt(data, read + Word, n) = Expected(slot)
    <3> SUFFICES ASSUME lost = {}
                 PROVE  /\ at[slot + 1] = read + (Word + n)
                        /\ CellsAt(data, read + Word, n) = Expected(slot)
      OBVIOUS
    <3>1. /\ at[slot + 1] = read + Word + Len(val[slot]) /\ n = Len(val[slot])
          /\ CellsAt(data, read + Word, Len(val[slot])) = val[slot]
          /\ read \in Nat /\ Out[slot].type # "size_t"
      BY <1>0, <1>1, <2>1, Decoded
    <3>2. n \in Nat
      BY NumberTyped DEF Uint
    <3> QED
      <4>1. Expected(slot) = val[slot]
        BY <3>1 DEF Expected
      <4>2. at[slot + 1] = read + (Word + n)
        <5>1. at[slot + 1] = read + Word + n /\ read \in Nat
          BY <3>1
        <5> QED
          BY <3>2, <5>1, WireAssumption
      <4> QED
        BY <3>1, <4>1, <4>2
  <2>4. CASE Alloc /\ Receive(CellsAt(data, read + Word, n), Consumed(type, n))
    <3>1. lost' = lost
      BY <2>4 DEF Alloc
    <3> QED
      BY <1>0, <2>2, <2>3, <2>4, <3>1, CopyReceive
  <2> QED
    BY <1>2, <2>2, <2>3, <2>4
<1>7. ASSUME NEW type \in {"cstring", "buffer"}, ReceiveNoBlock(type) PROVE CopyInv'
  <2>1. Receive(Null, 0) /\ lost' = lost \cup {"alloc"} /\ lost' # {}
    BY <1>7 DEF ReceiveNoBlock
  <2> QED
    BY <1>0, <2>1, CopyReceive
<1>8. CASE ReceiveStruct
  <2>1. In[slot].type = "struct"
    BY <1>8 DEF ReceiveStruct, Receiving
  <2>2. lost = {} => at[slot + 1] = read + 0 /\ Expected(slot) = Node
    BY <1>0, <1>1, <2>1, Decoded DEF Expected
  <2>3. CASE Alloc /\ Receive(Node, 0)
    <3>1. lost' = lost
      BY <2>3 DEF Alloc
    <3> QED
      BY <1>0, <2>2, <2>3, <3>1, CopyReceive
  <2>4. CASE Crash("nested")
    BY <1>0, <2>4, CopyCrash
  <2> QED
    BY <1>8, <2>3, <2>4 DEF ReceiveStruct
<1> QED
  BY <1>3, <1>4, <1>5, <1>6, <1>7, <1>8 DEF ReceiveMember, ReceiveCstring, ReceiveBuffer

LEMMA CopyNext ==
  ASSUME SameRegistries
  PROVE  CopyInv /\ [Next]_vars => CopyInv'
<1> SUFFICES ASSUME CopyInv, [Next]_vars PROVE CopyInv'
  OBVIOUS
<1>0. HeapInv'
  BY HeapNext DEF CopyInv
<1> USE <1>0
<1>1. ASSUME NEW k \in Structs, NEW v \in Sources[k], BeginSend(k, v) PROVE CopyInv'
  <2>1. /\ v # Null /\ Len(SendLayout[k]) \in Nat
    BY CopyAssumption
  <2>2. /\ pc' = "sending" /\ val' = v /\ slot' = 1 /\ sent' = 0 /\ read' = 0 /\ lost' = {}
        /\ Out' = SendLayout[k] /\ at' = [s \in 1 .. Len(SendLayout[k]) + 1 |-> 0]
    BY <1>1 DEF BeginSend, Begin, Out
  <2>3. SentInv'
    BY <2>1, <2>2, CopyAssumption DEF SentInv, Done
  <2> QED
    BY <2>2, <2>3 DEF CopyInv, ReadInv, LostInv, OverreadHasCause
<1>2. ASSUME NEW k \in Structs, SendNull(k) PROVE CopyInv'
  BY <1>2 DEF CopyInv, SendNull, SentInv, ReadInv, LostInv, OverreadHasCause
<1>3. CASE SkipNull
  <2>1. lost \subseteq {"null", "alloc", "overrun"} /\ lost' = lost \cup {"null"}
    BY <1>3 DEF CopyInv, LostInv, SkipNull, Sending
  <2> QED
    BY <2>1 DEF CopyInv, SentInv, ReadInv, LostInv, OverreadHasCause
<1>4. CASE SendMember
  <2>1. SentInv'
    BY <1>4, SentMember
  <2>2. /\ pc = "sending" /\ pc' = pc /\ UNCHANGED read
        /\ lost' = lost \/ lost' = lost \cup {"overrun"}
    BY <1>4 DEF SendMember, Sending
  <2> QED
    BY <2>1, <2>2 DEF CopyInv, ReadInv, LostInv, OverreadHasCause
<1>5. CASE Overrun
  BY <1>5, CopyCrash DEF Overrun, Sending
<1>6. CASE Invoke
  <2>1. /\ pc = "sending" /\ pc' = "receiving" /\ slot > Len(Out) /\ slot' = 1
        /\ UNCHANGED <<kind, val, data, sent, at, read, lost>> /\ Len(Out) \in Nat
        /\ slot \in Nat
    BY <1>6, Layouts DEF Invoke, CopyInv, HeapInv, Tidy
  <2>2. Out' = Out /\ \A s : Laid(s)' <=> Laid(s)
    BY <2>1, LaidStays
  <2>3. lost = {} => Done = Len(Out) /\ Done' = Len(Out)
    BY <2>1, <2>2 DEF CopyInv, SentInv, Done
  <2>4. SentInv'
    BY <2>1, <2>2, <2>3 DEF CopyInv, SentInv
  <2>5. ReadInv'
    BY <2>1 DEF CopyInv, ReadInv, SentInv
  <2> QED
    BY <2>1, <2>4, <2>5 DEF CopyInv, LostInv, OverreadHasCause
<1>7. CASE ReceiveMember
  BY <1>7, CopyReceiveMember
<1>8. CASE Return
  <2>1. /\ pc = "receiving" /\ pc' = "held" /\ slot = Len(In) + 1 /\ Len(In) \in Nat
        /\ UNCHANGED <<kind, val, data, sent, at, thing, read, lost>>
    BY <1>8, Layouts DEF Return, CopyInv, HeapInv, Tidy
  <2>2. /\ Out' = Out /\ In' = In /\ Done' = Done
        /\ \A s : Laid(s)' <=> Laid(s)
        /\ \A s : Expected(s)' = Expected(s)
    BY <2>1, LaidStays DEF Done
  <2>3. SentInv'
    BY <2>1, <2>2 DEF CopyInv, SentInv
  <2>4. ReadInv'
    <3>1. In = Out /\ Done = Len(Out)
      BY <2>1 DEF CopyInv, HeapInv, TypeOK, SameRegistries, In, Out, Done
    <3> QED
      BY <2>1, <2>2, <3>1 DEF CopyInv, SentInv, ReadInv
  <2> QED
    BY <2>1, <2>3, <2>4 DEF CopyInv, LostInv, OverreadHasCause
<1>9. CASE BeginFree
  BY <1>9 DEF BeginFree, CopyInv, SentInv, ReadInv, LostInv, OverreadHasCause
<1>10. CASE FreeMember
  BY <1>10 DEF FreeMember, FreeBlocks, CopyInv, SentInv, ReadInv, LostInv, OverreadHasCause
<1>11. CASE EndFree
  BY <1>11 DEF EndFree, CopyInv, SentInv, ReadInv, LostInv, OverreadHasCause
<1>12. CASE UNCHANGED vars
  <2>1. UNCHANGED <<pc, kind, val, slot, data, sent, at, thing, read, lost>>
    BY <1>12 DEF vars
  <2>2. /\ Out' = Out /\ In' = In /\ Done' = Done
        /\ \A s : Laid(s)' <=> Laid(s)
        /\ \A s : Expected(s)' = Expected(s)
    BY <2>1, LaidStays DEF Done
  <2> QED
    BY <2>1, <2>2 DEF CopyInv, SentInv, ReadInv, LostInv, OverreadHasCause
<1> QED
  BY <1>1, <1>2, <1>3, <1>4, <1>5, <1>6, <1>7, <1>8, <1>9, <1>10, <1>11, <1>12
     DEF Next, Send, Free

(* When both worlds register the structs alike, sender and receiver agree  *)
(* on where every member is, whatever the structs, their values, the       *)
(* stale content of the buffer and the size of the buffer.                 *)
THEOREM WorldsInStep ==
  ASSUME SameRegistries
  PROVE  Spec => []InStep
<1>1. CopyInv => InStep
  BY DEF CopyInv, ReadInv, InStep
<1> QED
  BY <1>1, CopyInit, CopyNext, PTL DEF Spec

LEMMA CopyRoundTrip ==
  ASSUME SameRegistries, NoSizeMember, CopyInv
  PROVE  RoundTrip
<1> SUFFICES ASSUME pc = "held", lost = {}, NEW s \in 1 .. Len(In)
             PROVE  thing[s] = val[s]
  BY DEF RoundTrip
<1>1. Out[s].type # "size_t"
  BY DEF CopyInv, HeapInv, TypeOK, SameRegistries, NoSizeMember, In, Out
<1> QED
  BY <1>1 DEF CopyInv, ReadInv, Expected

(* When moreover no member is a size_t, a struct that met no failure       *)
(* arrives as it was sent.                                                 *)
THEOREM StructsRoundTrip ==
  ASSUME SameRegistries, NoSizeMember
  PROVE  Spec => []RoundTrip
<1>1. CopyInv => RoundTrip
  BY CopyRoundTrip
<1> QED
  BY <1>1, CopyInit, CopyNext, PTL DEF Spec

(* The two copies of the test application's registrations satisfy that.    *)
LEMMA TestRegistriesAgree == HostRegistry = TaRegistry
BY DEF HostRegistry, TaRegistry, host_basic_types, host_pointer_types, host_rollup_type,
  host_teec_value_clone, ta_basic_types, ta_pointer_types, ta_rollup_type,
  ta_teec_value_clone

(* The receiver is led out of the shared buffer only by a NULL struct, by  *)
(* one that does not fit it, or by an allocation that failed before.       *)
THEOREM OverreadCaused ==
  ASSUME SameRegistries
  PROVE  Spec => []OverreadHasCause
<1>1. CopyInv => OverreadHasCause
  BY DEF CopyInv, LostInv
<1> QED
  BY <1>1, CopyInit, CopyNext, PTL DEF Spec
===============================================================================
