----------------------------- MODULE WireTheorems -----------------------------
(***************************************************************************)
(* What the receive functions find where the send functions have been.     *)
(***************************************************************************)
EXTENDS Wire, TLAPS

(* The chars of a number are the chars of no other number: the number a    *)
(* receive function reads off them is the one that was sent.               *)
LEMMA UintDecoded ==
  ASSUME NEW data, NEW offset, NEW n \in Uint,
         CellsAt(data, offset, Word) = send_uint32_t(n)
  PROVE  receive_uint32_t(data, offset) = {n}
<1> DEFINE stored == {m \in Uint : CellsAt(data, offset, Word) = send_uint32_t(m)}
<1>1. n \in stored
  OBVIOUS
<1>2. ASSUME NEW m \in stored PROVE m = n
  <2>1. send_uint32_t(m) = send_uint32_t(n)
    OBVIOUS
  <2>2. 1 \in 1 .. Word
    BY WireAssumption
  <2>3. send_uint32_t(m)[1].word = m /\ send_uint32_t(n)[1].word = n
    BY <2>2 DEF send_uint32_t
  <2> QED
    BY <2>1, <2>3
<1>3. stored = {n}
  BY <1>1, <1>2
<1> QED
  BY <1>3 DEF receive_uint32_t

(* The chars of a string or a buffer are found behind those of its length. *)
LEMMA BlockDecoded ==
  ASSUME NEW data, NEW offset \in Nat, NEW str \in Seq(Chars), Len(str) \in Uint,
         \A i \in 1 .. Word + Len(str) :
            CellAt(data, offset + i - 1) = (send_uint32_t(Len(str)) \o str)[i]
  PROVE  /\ receive_uint32_t(data, offset) = {Len(str)}
         /\ CellsAt(data, offset + Word, Len(str)) = str
<1> DEFINE head == send_uint32_t(Len(str))
<1>0. Word \in Nat /\ Len(str) \in Nat
  BY WireAssumption
<1>1. head \in Seq(WordByte) /\ Len(head) = Word
  BY <1>0 DEF send_uint32_t, WordByte
<1>2. \A i \in 1 .. Word : CellAt(data, offset + i - 1) = head[i]
  <2> TAKE i \in 1 .. Word
  <2>1. i \in 1 .. Word + Len(str)
    BY <1>0
  <2>2. (head \o str)[i] = head[i]
    BY <1>0, <1>1, <2>1
  <2> QED
    BY <2>1, <2>2
<1>3. CellsAt(data, offset, Word) = head
  BY <1>2 DEF CellsAt, send_uint32_t
<1>4. \A i \in 1 .. Len(str) : CellAt(data, offset + Word + i - 1) = str[i]
  <2> TAKE i \in 1 .. Len(str)
  <2>1. Word + i \in 1 .. Word + Len(str)
    BY <1>0
  <2>2. (head \o str)[Word + i] = str[i]
    BY <1>0, <1>1, <2>1
  <2>3. offset + (Word + i) - 1 = offset + Word + i - 1
    BY <1>0
  <2> QED
    BY <2>1, <2>2, <2>3
<1>5. CellsAt(data, offset + Word, Len(str)) = str
  <2>1. CellsAt(data, offset + Word, Len(str)) = [i \in 1 .. Len(str) |-> str[i]]
    BY <1>4 DEF CellsAt
  <2> QED
    BY <2>1
<1> QED
  BY <1>3, <1>5, UintDecoded

(* What a send function stores are chars or the chars of a number.         *)
LEMMA NumberBytes ==
  ASSUME NEW n \in Uint
  PROVE  send_uint32_t(n) \in Seq(Byte) /\ Len(send_uint32_t(n)) = Word
BY WireAssumption DEF send_uint32_t, Byte, WordByte

LEMMA BlockBytes ==
  ASSUME NEW str \in Seq(Chars), Len(str) \in Uint
  PROVE  /\ send_uint32_t(Len(str)) \o str \in Seq(Byte)
         /\ Len(send_uint32_t(Len(str)) \o str) = Word + Len(str)
<1>1. str \in Seq(Byte)
  BY DEF Byte
<1> QED
  BY <1>1, NumberBytes
===============================================================================
