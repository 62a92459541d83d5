--------------------------------- MODULE Wire ---------------------------------
(***************************************************************************)
(* The serial form of the basic types (lib/sdferry/src/basic.c): what each *)
(* send function stores in the shared buffer and what a receive function   *)
(* finds there.                                                            *)
(*                                                                         *)
(* A buffer cell holds one char.  The chars of a string or a raw buffer    *)
(* are opaque values; a uint32_t is copied by sdferry_memcpy as the Word   *)
(* chars of its object representation, so char k of the number n is the    *)
(* record [word |-> n, byte |-> k] whatever the byte order is.             *)
(***************************************************************************)
EXTENDS Integers, Sequences

CONSTANTS
  Word,      \* sizeof(uint32_t), in chars
  MaxUint,   \* the largest uint32_t of the model, far below 2^32
  Chars,     \* the values of a char
  Junk       \* a cell nobody has written, or one beyond the shared buffer

ASSUME WireAssumption ==
  /\ Word \in Nat \ {0}
  /\ MaxUint \in Nat
  /\ Junk \notin Chars

Uint == 0 .. MaxUint

(* One char of the object representation of a uint32_t, and what a cell    *)
(* can hold.                                                               *)
WordByte == [word : Uint, byte : 1 .. Word]
Byte == Chars \cup WordByte \cup {Junk}

-----------------------------------------------------------------------------
(* The send functions.  Each is the sequence of chars the call stores at   *)
(* its data argument; the value it returns is the length of the sequence.  *)

send_char(c) == <<c>>

send_uint32_t(i) == [k \in 1 .. Word |-> [word |-> i, byte |-> k]]

(* Slip: the terminator of a string, which is none of Chars, is sent too. *)
send_cstring_terminated(str) == send_uint32_t(Len(str)) \o str \o <<Junk>>

send_cstring(str) == send_uint32_t(Len(str)) \o str

send_buffer(buffer, buffer_size) ==
  send_uint32_t(buffer_size) \o SubSeq(buffer, 1, buffer_size)

send_size_t(i) == << >>

(* The call a registered struct makes for a member of this type.  A nested *)
(* struct pointer has no chars of its own, only its members have.          *)
Chars_of(type, member, size) ==
  CASE type = "char"     -> send_char(member)
    [] type = "uint32_t" -> send_uint32_t(member)
    [] type = "cstring"  -> send_cstring(member)
    [] type = "buffer"   -> send_buffer(member, size)
    [] type = "size_t"   -> send_size_t(member)
    [] type = "struct"   -> << >>

-----------------------------------------------------------------------------
(* The cells a receive function reads.  data is the content of the shared  *)
(* buffer, a function from offsets.                                        *)

CellAt(data, offset) == IF offset \in DOMAIN data THEN data[offset] ELSE Junk

CellsAt(data, offset, n) == [i \in 1 .. n |-> CellAt(data, offset + i - 1)]

(* The numbers receive_uint32_t can yield at an offset: the number whose   *)
(* chars are there, in order, or any number when the cells are not the     *)
(* chars of one number.                                                    *)
receive_uint32_t(data, offset) ==
  LET stored == {n \in Uint : CellsAt(data, offset, Word) = send_uint32_t(n)}
  IN  IF stored = {} THEN Uint ELSE stored

(* Slip: the terminator of a string counts as sent. *)
ConsumedWithTerminator(type, n) ==
  CASE type = "char"     -> 1
    [] type = "uint32_t" -> Word
    [] type = "cstring"  -> Word + n + 1
    [] type = "buffer"   -> Word + n
    [] type \in {"size_t", "struct"} -> 0

(* The chars a receive function consumes for a member of this type when it *)
(* succeeds, n being the length it found in front of a string or a buffer. *)
Consumed(type, n) ==
  CASE type = "char"                  -> 1
    [] type = "uint32_t"              -> Word
    [] type \in {"cstring", "buffer"} -> Word + n
    [] type \in {"size_t", "struct"}  -> 0
===============================================================================
