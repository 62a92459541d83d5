------------------------------- MODULE Benchmark -------------------------------
(***************************************************************************)
(* The two benchmarks of the test application that transfer a struct of    *)
(* growing size (host/main.c, send_performance_vs_size and then            *)
(* receive_performance_vs_size; ta/sdferry_test_ta.c, the commands they    *)
(* invoke).                                                                *)
(*                                                                         *)
(* A row of the results is Repeats transfers of a pointer_types whose      *)
(* buffer has Unit chars more than in the row before.  In the second       *)
(* benchmark the host cannot say which size it wants: the trusted          *)
(* application keeps a row and a repeat of its own, in two statics, and    *)
(* steps them with every call.  Both benchmarks share the buffer of        *)
(* ShmSize chars and the trusted application's heap of DataSize chars,     *)
(* neither of which the code that stores into it measures.                 *)
(*                                                                         *)
(* The heap of the trusted application has no overhead here: it is its     *)
(* live chars.  The host does not run out of memory.                       *)
(***************************************************************************)
EXTENDS Integers

CONSTANTS
  Rows, Repeats, Unit,   \* 20, 100 and 1000 in the code
  ShmSize,               \* SDFERRY_SHARED_MEMORY_SIZE
  DataSize,              \* TA_DATA_SIZE
  Word                   \* sizeof(uint32_t)

ASSUME BenchmarkAssumption ==
  /\ Rows \in Nat /\ Repeats \in Nat \ {0} /\ Unit \in Nat
  /\ ShmSize \in Nat /\ DataSize \in Nat /\ Word \in Nat

VARIABLES
  pc,      \* where the application is
  i, j,    \* the host's loops
  send_buffer_size_i, send_buffer_size_j,   \* the statics
  stored,  \* the length of the buffer in the struct last sent, either way
  thing,   \* the chars allocated for the string and the buffer of the
           \* struct the trusted application works on
  heap,    \* the live chars of the trusted application's heap
  held     \* how many structs the host has received and not freed

host    == <<i, j>>
statics == <<send_buffer_size_i, send_buffer_size_j>>
vars    == <<pc, host, statics, stored, thing, heap, held>>

NoChars == [str |-> 0, buff |-> 0]

Init ==
  /\ pc = "send_row"
  /\ i = 1
  /\ j = 0
  /\ send_buffer_size_i = 1
  /\ send_buffer_size_j = 0
  /\ stored = 0
  /\ thing = NoChars
  /\ heap = 0
  /\ held = 0

Goto(from, to) == pc = from /\ pc' = to

(* The chars of a pointer_types in the shared buffer: a string of n chars, *)
(* the length, a buffer of m chars.                                        *)
Serial(n, m) == (Word + n) + Word + (Word + m)

-----------------------------------------------------------------------------
(* The host's loops. *)

BeginRow(from, to) ==
  /\ Goto(from, to)
  /\ i <= Rows
  /\ j' = 0
  /\ UNCHANGED <<i, statics, stored, thing, heap, held>>

SendRow    == BeginRow("send_row", "send")
ReceiveRow == BeginRow("receive_row", "receive")

(* The buffer of the row is the host's own and freed with it. *)
EndSendRow ==
  /\ Goto("send", "send_row")
  /\ j >= Repeats
  /\ i' = i + 1
  /\ UNCHANGED <<j, statics, stored, thing, heap, held>>

(* Slip: the row is not counted. *)
EndReceiveRowOnly ==
  /\ Goto("receive", "receive_row")
  /\ j >= Repeats
  /\ held' = held - 1
  /\ UNCHANGED <<host, statics, stored, thing, heap>>

(* SDFERRY_FREE_STRUCT_MEMBERS, for the last struct of the row. *)
EndReceiveRow ==
  /\ Goto("receive", "receive_row")
  /\ j >= Repeats
  /\ held' = held - 1
  /\ i' = i + 1
  /\ UNCHANGED <<j, statics, stored, thing, heap>>

EndSend ==
  /\ Goto("send_row", "receive_row")
  /\ i > Rows
  /\ i' = 1
  /\ UNCHANGED <<j, statics, stored, thing, heap, held>>

EndReceive ==
  /\ Goto("receive_row", "done")
  /\ i > Rows
  /\ UNCHANGED <<host, statics, stored, thing, heap, held>>

(* Undefined behaviour, or errx. *)
Fail ==
  /\ pc' = "failed"
  /\ UNCHANGED <<host, statics, stored, thing, heap, held>>

-----------------------------------------------------------------------------
(* Sending a struct with a string of one char. *)

Send ==
  /\ pc = "send"
  /\ j < Repeats
  /\ IF Serial(1, i * Unit) <= ShmSize
     THEN /\ pc' = "ta_receive"
          /\ stored' = i * Unit
          /\ UNCHANGED <<host, statics, thing, heap, held>>
     ELSE Fail

(* The wrapper allocates the string with its terminator and the buffer.    *)
(* Without a block it goes on, and the handler, which ignores its struct,  *)
(* returns TEE_SUCCESS for a transfer that did not happen: counted a       *)
(* failure here.                                                           *)
TaReceive ==
  /\ pc = "ta_receive"
  /\ IF heap + 2 + stored <= DataSize
     THEN /\ pc' = "ta_received"
          /\ thing' = [str |-> 2, buff |-> stored]
          /\ heap' = heap + 2 + stored
          /\ UNCHANGED <<host, statics, stored, held>>
     ELSE Fail

(* The wrapper frees the members and returns. *)
TaFree(from, to) ==
  /\ Goto(from, to)
  /\ heap' = heap - thing.str - thing.buff
  /\ thing' = NoChars
  /\ UNCHANGED <<host, statics, stored, held>>

(* Slip: the string is forgotten. *)
TaFreeBufferOnly ==
  /\ Goto("ta_received", "sent")
  /\ heap' = heap - thing.buff
  /\ thing' = NoChars
  /\ UNCHANGED <<host, statics, stored, held>>

TaFreeReceived == TaFree("ta_received", "sent")

Sent ==
  /\ Goto("sent", "send")
  /\ j' = j + 1
  /\ UNCHANGED <<i, statics, stored, thing, heap, held>>

-----------------------------------------------------------------------------
(* Receiving a struct with a string of four chars. *)

Receive ==
  /\ Goto("receive", "ta_handle")
  /\ j < Repeats
  /\ UNCHANGED <<host, statics, stored, thing, heap, held>>

(* Slips: a row has one repeat too many; the row is counted before it ends.*)
CountPast ==
  IF send_buffer_size_j + 1 > Repeats
  THEN send_buffer_size_j' = 0 /\ send_buffer_size_i' = send_buffer_size_i + 1
  ELSE send_buffer_size_j' = send_buffer_size_j + 1 /\ UNCHANGED send_buffer_size_i

CountEarly ==
  IF send_buffer_size_j + 1 >= Repeats - 1
  THEN send_buffer_size_j' = 0 /\ send_buffer_size_i' = send_buffer_size_i + 1
  ELSE send_buffer_size_j' = send_buffer_size_j + 1 /\ UNCHANGED send_buffer_size_i

Count ==
  IF send_buffer_size_j + 1 >= Repeats
  THEN send_buffer_size_j' = 0 /\ send_buffer_size_i' = send_buffer_size_i + 1
  ELSE send_buffer_size_j' = send_buffer_size_j + 1 /\ UNCHANGED send_buffer_size_i

(* The handler allocates the buffer its statics ask for, then the string   *)
(* with its terminator; without memory it returns before it counts, or     *)
(* writes through the NULL string.                                         *)
TaHandle ==
  /\ pc = "ta_handle"
  /\ IF heap + send_buffer_size_i * Unit + 5 <= DataSize
     THEN /\ pc' = "ta_send"
          /\ thing' = [str |-> 5, buff |-> send_buffer_size_i * Unit]
          /\ heap' = heap + send_buffer_size_i * Unit + 5
          /\ Count
          /\ UNCHANGED <<host, stored, held>>
     ELSE Fail

(* The wrapper sends the struct back. *)
TaSend ==
  /\ pc = "ta_send"
  /\ IF Serial(4, thing.buff) <= ShmSize
     THEN /\ pc' = "ta_sent"
          /\ stored' = thing.buff
          /\ UNCHANGED <<host, statics, thing, heap, held>>
     ELSE Fail

TaFreeSent == TaFree("ta_sent", "received")

(* The host allocates the members of the struct it is given again. *)
Received ==
  /\ Goto("received", "receive")
  /\ held' = held + 1
  /\ j' = j + 1
  /\ UNCHANGED <<i, statics, stored, thing, heap>>

-----------------------------------------------------------------------------
Next ==
  \/ SendRow \/ EndSendRow \/ EndSend \/ Send \/ TaReceive \/ TaFreeReceived \/ Sent
  \/ ReceiveRow \/ EndReceiveRow \/ EndReceive \/ Receive \/ TaHandle \/ TaSend
  \/ TaFreeSent \/ Received

(* The program and the command it waits for run until they are done. *)
Spec == Init /\ [][Next]_vars /\ WF_vars(Next)

-----------------------------------------------------------------------------
(***************************************************************************)
(* Properties.                                                             *)
(***************************************************************************)

Points == {"send_row", "send", "ta_receive", "ta_received", "sent", "receive_row",
           "receive", "ta_handle", "ta_send", "ta_sent", "received", "done", "failed"}

(* The type invariant.                                                     *)
TypeOK ==
  /\ pc \in Points
  /\ i \in 1 .. Rows + 1
  /\ j \in 0 .. Repeats
  /\ send_buffer_size_i \in 1 .. Rows + 1
  /\ send_buffer_size_j \in 0 .. Repeats - 1
  /\ stored \in Nat
  /\ thing \in [str : Nat, buff : Nat]
  /\ heap \in Nat
  /\ held \in Nat

(* n repeats further than the host's loops, with the carry to the row.     *)
Ahead(n) ==
  IF j + n = Repeats
  THEN send_buffer_size_i = i + 1 /\ send_buffer_size_j = 0
  ELSE send_buffer_size_i = i /\ send_buffer_size_j = j + n

(* Host and trusted application, which never tell each other, count the    *)
(* same row and repeat: from the handler's step to the end of the host's   *)
(* the trusted application is one ahead.                                   *)
InLockstep ==
  /\ pc = "receive_row" => send_buffer_size_i = i /\ send_buffer_size_j = 0
  /\ pc \in {"receive", "ta_handle"} => Ahead(0)
  /\ pc \in {"ta_send", "ta_sent", "received"} => Ahead(1)

(* The struct the host receives has the size of the row it writes it in.   *)
RowSize == pc = "received" => stored = i * Unit

(* Nothing runs over, through 4000 transfers: neither the shared buffer    *)
(* nor the heap of the trusted application, which holds no more than the   *)
(* struct of the current call.                                             *)
NeverFails == pc # "failed" /\ heap = thing.str + thing.buff

(* The benchmarks come to an end. *)
Completes == <>(pc = "done")

(* The steps a transfer takes, and those of the current one that are made. *)
InSend    == {"send", "ta_receive", "ta_received", "sent"}
InReceive == {"receive", "ta_handle", "ta_send", "ta_sent", "received"}

Made ==
  CASE pc \in {"send", "receive"}         -> 0
    [] pc \in {"ta_receive", "ta_handle"} -> 1
    [] pc \in {"ta_received", "ta_send"}  -> 2
    [] pc \in {"sent", "ta_sent"}         -> 3
    [] OTHER                              -> 4

RowSteps(n) == n * Repeats + 2

RestOf(n) ==
  IF pc \in {"send_row", "receive_row"} THEN (Rows + 1 - i) * RowSteps(n)
  ELSE (Rows - i) * RowSteps(n) + (n * (Repeats - j) - Made) + 1

(* What is left of the loops of main, as its counters say.                 *)
StepsLeft ==
  IF pc = "done" THEN 0
  ELSE IF pc \in {"send_row"} \cup InSend THEN RestOf(4) + (Rows * RowSteps(5) + 2)
  ELSE RestOf(5) + 1

(* Every row of either benchmark has its Repeats transfers, no more and no *)
(* fewer, and the program never stops in between: each step that does not  *)
(* fail leaves one less to make, until there is none (host/main.c, lines   *)
(* 201 and 206, 239 and 244).                                              *)
CountsDown ==
  [][pc' = "failed" \/ (StepsLeft' = StepsLeft - 1 /\ StepsLeft' >= 0)]_vars

(* A struct received from a command has its members freed before the next  *)
(* is received into it (host/call.h, lines 57 to 59).                      *)
MembersFreed == pc = "receive" /\ j < Repeats => held = 0
===============================================================================
