---------------------------- MODULE BenchmarkProofs ----------------------------
(***************************************************************************)
(* Proofs about Benchmark: for any number of rows and repeats the host and *)
(* the trusted application keep in step, and the largest struct is all     *)
(* that has to fit.                                                        *)
(***************************************************************************)
EXTENDS Benchmark, TLAPS

(* Where the loops are at each point: in a row, and inside a transfer in   *)
(* one of its repeats.  The statics wait for the second benchmark, where   *)
(* every repeat so far has left its struct behind.                         *)
Looping ==
  /\ pc \in InSend \cup InReceive => i <= Rows
  /\ pc \in (InSend \cup InReceive) \ {"send", "receive"} => j < Repeats
  /\ pc \in InSend \cup {"send_row"} =>
       send_buffer_size_i = 1 /\ send_buffer_size_j = 0
  /\ pc \in InReceive => held >= j

(* What a struct in transfer is made of, and where it is allocated.        *)
Carrying ==
  /\ heap = thing.str + thing.buff
  /\ pc \notin {"ta_received", "ta_send", "ta_sent", "failed"} => thing = NoChars
  /\ pc = "ta_receive" => stored = i * Unit
  /\ pc \in {"ta_send", "ta_sent"} => thing.buff = i * Unit
  /\ pc \in {"ta_sent", "received"} => stored = i * Unit

BenchmarkInv == TypeOK /\ InLockstep /\ Looping /\ Carrying

LEMMA RowChars == ASSUME NEW r \in Nat PROVE r * Unit \in Nat
BY BenchmarkAssumption

LEMMA InitBenchmark == Init => BenchmarkInv
BY BenchmarkAssumption DEF Init, BenchmarkInv, TypeOK, InLockstep, Looping, Carrying,
  Points, InSend, InReceive, NoChars

(* The loops do not look at the structs, nor the structs at the loops.     *)
LEMMA StepBenchmark == BenchmarkInv /\ [Next]_vars => BenchmarkInv'
<1> SUFFICES ASSUME BenchmarkInv, [Next]_vars PROVE BenchmarkInv'
  OBVIOUS
<1> USE BenchmarkAssumption
    DEF BenchmarkInv, TypeOK, InLockstep, Ahead, Looping, Carrying, Points, InSend,
        InReceive, NoChars, host, statics
<1>1. CASE SendRow
  BY <1>1 DEF SendRow, BeginRow, Goto
<1>2. CASE EndSendRow
  BY <1>2 DEF EndSendRow, Goto
<1>3. CASE EndSend
  BY <1>3 DEF EndSend, Goto
<1>4. CASE Send
  BY <1>4, RowChars DEF Send, Fail
<1>5. CASE TaReceive
  BY <1>5 DEF TaReceive, Fail
<1>6. CASE TaFreeReceived
  BY <1>6 DEF TaFreeReceived, TaFree, Goto
<1>7. CASE Sent
  BY <1>7 DEF Sent, Goto
<1>8. CASE ReceiveRow
  BY <1>8 DEF ReceiveRow, BeginRow, Goto
<1>9. CASE EndReceiveRow
  BY <1>9 DEF EndReceiveRow, Goto
<1>10. CASE EndReceive
  BY <1>10 DEF EndReceive, Goto
<1>11. CASE Receive
  BY <1>11 DEF Receive, Goto
<1>12. CASE TaHandle
  <2>1. i <= Rows /\ j < Repeats /\ send_buffer_size_i = i /\ send_buffer_size_j = j
    BY <1>12 DEF TaHandle
  <2>2. CASE pc' = "failed"
    BY <1>12, <2>2 DEF TaHandle, Fail
  <2>3. CASE pc' # "failed"
    <3> DEFINE n == i * Unit
    <3>1. n \in Nat
      BY RowChars
    <3>2. /\ pc' = "ta_send"
          /\ thing' = [str |-> 5, buff |-> n]
          /\ heap' = heap + n + 5
          /\ Count
          /\ UNCHANGED <<host, stored, held>>
      BY <1>12, <2>1, <2>3 DEF TaHandle, Fail
    <3>3. heap = 0
      BY <1>12 DEF TaHandle
    <3> HIDE DEF n
    <3>4. /\ UNCHANGED <<i, j, stored, held>>
          /\ Ahead(1)'
          /\ send_buffer_size_i' \in 1 .. Rows + 1
          /\ send_buffer_size_j' \in 0 .. Repeats - 1
      BY <2>1, <3>2 DEF Count
    <3>5. TypeOK'
      BY <3>1, <3>2, <3>3, <3>4
    <3>6. InLockstep' /\ Looping'
      BY <1>12, <2>1, <3>2, <3>4 DEF TaHandle
    <3>7. Carrying'
      BY <3>1, <3>2, <3>3, <3>4 DEF n
    <3> QED
      BY <3>5, <3>6, <3>7
  <2> QED
    BY <2>2, <2>3
<1>13. CASE TaSend
  BY <1>13 DEF TaSend, Fail
<1>14. CASE TaFreeSent
  BY <1>14 DEF TaFreeSent, TaFree, Goto
<1>15. CASE Received
  BY <1>15 DEF Received, Goto
<1>16. CASE UNCHANGED vars
  BY <1>16 DEF vars
<1> QED
  BY <1>1, <1>2, <1>3, <1>4, <1>5, <1>6, <1>7, <1>8, <1>9, <1>10, <1>11, <1>12, <1>13,
     <1>14, <1>15, <1>16 DEF Next

LEMMA Stepping == Spec => []BenchmarkInv
BY InitBenchmark, StepBenchmark, PTL DEF Spec

(* Every variable of the benchmarks keeps its type: no loop passes its     *)
(* bound, on either side.                                                  *)
THEOREM BenchmarkTypeCorrect == Spec => []TypeOK
<1>1. BenchmarkInv => TypeOK
  BY DEF BenchmarkInv
<1> QED BY <1>1, Stepping, PTL

(* The statics of the trusted application follow the loops of the host     *)
(* (ta/sdferry_test_ta.c, lines 232 to 236, host/main.c, lines 240 to 245).*)
THEOREM CountersInLockstep == Spec => []InLockstep
<1>1. BenchmarkInv => InLockstep
  BY DEF BenchmarkInv
<1> QED BY <1>1, Stepping, PTL

(* A row holds the times of structs of its size.                           *)
THEOREM RowsHaveTheirSize == Spec => []RowSize
<1>1. BenchmarkInv => RowSize
  BY DEF BenchmarkInv, Carrying, RowSize
<1> QED BY <1>1, Stepping, PTL

-----------------------------------------------------------------------------
(* The struct of the last row fits the shared buffer on its way back and   *)
(* the heap of the trusted application on both ways.                       *)
LastRowFits ==
  /\ Serial(4, Rows * Unit) <= ShmSize
  /\ Rows * Unit + 5 <= DataSize

LEMMA SmallerRow ==
  ASSUME NEW r \in 1 .. Rows
  PROVE  r * Unit <= Rows * Unit /\ r * Unit \in Nat /\ Rows * Unit \in Nat
BY BenchmarkAssumption

LEMMA StepWithoutFailure ==
  ASSUME LastRowFits, BenchmarkInv, NeverFails, [Next]_vars
  PROVE  pc' # "failed"
<1> USE BenchmarkAssumption DEF NeverFails, LastRowFits
<1>1. CASE Send
  BY <1>1, SmallerRow DEF Send, Serial, BenchmarkInv, TypeOK, Looping, InSend
<1>2. CASE TaReceive
  BY <1>2, SmallerRow
     DEF TaReceive, BenchmarkInv, TypeOK, Looping, Carrying, InSend, NoChars
<1>3. CASE TaHandle
  <2>1. heap = 0 /\ send_buffer_size_i = i /\ i \in 1 .. Rows
    BY <1>3 DEF TaHandle, BenchmarkInv, TypeOK, Looping, Carrying, InLockstep, Ahead,
      InReceive, NoChars
  <2> QED
    BY <1>3, <2>1, SmallerRow DEF TaHandle
<1>4. CASE TaSend
  <2>1. thing.buff = i * Unit /\ i \in 1 .. Rows
    BY <1>4 DEF TaSend, BenchmarkInv, TypeOK, Looping, Carrying, InReceive
  <2> QED
    BY <1>4, <2>1, SmallerRow DEF TaSend, Serial
<1> QED
  BY <1>1, <1>2, <1>3, <1>4
     DEF Next, SendRow, EndSendRow, EndSend, TaFreeReceived, Sent, ReceiveRow,
         EndReceiveRow, EndReceive, Receive, TaFreeSent, Received, BeginRow, TaFree,
         Goto, vars

(* If the last row fits, no transfer of the benchmarks fails: the shared   *)
(* buffer and the heap need no room for more than one struct.              *)
THEOREM LastRowIsEnough == ASSUME LastRowFits PROVE Spec => []NeverFails
<1>1. Init => NeverFails
  BY DEF Init, NeverFails, NoChars
<1>2. BenchmarkInv /\ BenchmarkInv' /\ NeverFails /\ [Next]_vars => NeverFails'
  BY LastRowFits, StepWithoutFailure DEF BenchmarkInv, Carrying, NeverFails
<1> QED BY <1>1, <1>2, Stepping, PTL DEF Spec

-----------------------------------------------------------------------------
(* A row less to do is RowSteps less to do. *)
LEMMA RowLess ==
  ASSUME NEW n \in {4, 5}, NEW r \in 1 .. Rows
  PROVE  /\ RowSteps(n) = n * Repeats + 2
         /\ (Rows + 1 - r) * RowSteps(n) = (Rows - r) * RowSteps(n) + RowSteps(n)
         /\ (Rows - r) * RowSteps(n) \in Nat
<1> DEFINE k == RowSteps(n)
           a == Rows - r
<1>1. k \in Nat /\ a \in Nat /\ Rows + 1 - r = a + 1
  BY BenchmarkAssumption DEF RowSteps
<1>2. k = n * Repeats + 2
  BY DEF RowSteps
<1> HIDE DEF k, a
<1>3. (a + 1) * k = a * k + k /\ a * k \in Nat
  BY <1>1
<1> QED
  BY <1>1, <1>2, <1>3 DEF k, a

LEMMA RowsLeft ==
  ASSUME NEW n \in {4, 5}, NEW r \in 1 .. Rows + 1
  PROVE  /\ (Rows + 1 - r) * RowSteps(n) \in Nat
         /\ r = Rows + 1 => (Rows + 1 - r) * RowSteps(n) = 0
         /\ r = 1 => (Rows + 1 - r) * RowSteps(n) = Rows * RowSteps(n)
<1>1. RowSteps(n) \in Nat /\ Rows + 1 - r \in Nat
  BY BenchmarkAssumption DEF RowSteps
<1>2. r = 1 => Rows + 1 - r = Rows
  BY BenchmarkAssumption
<1>3. r = Rows + 1 => Rows + 1 - r = 0
  BY BenchmarkAssumption
<1> QED
  BY <1>1, <1>2, <1>3

LEMMA StepCounts ==
  ASSUME BenchmarkInv, Next, pc' # "failed"
  PROVE  StepsLeft' = StepsLeft - 1 /\ StepsLeft' >= 0
<1> DEFINE four == RowSteps(4)
           five == RowSteps(5)
<1>1. /\ four \in Nat /\ five \in Nat /\ Rows * five \in Nat
      /\ four' = four /\ five' = five
      /\ four = 4 * Repeats + 2 /\ five = 5 * Repeats + 2
  BY BenchmarkAssumption, RowsLeft DEF RowSteps
<1>2. i \in 1 .. Rows + 1 /\ j \in 0 .. Repeats
  BY DEF BenchmarkInv, TypeOK
<1>3. CASE SendRow
  <2>1. /\ pc = "send_row" /\ pc' = "send" /\ i' = i /\ j' = 0 /\ i \in 1 .. Rows
    BY <1>2, <1>3, BenchmarkAssumption DEF SendRow, BeginRow, Goto
  <2>2. StepsLeft = (Rows + 1 - i) * four + (Rows * five + 2)
    BY <2>1 DEF StepsLeft, RestOf
  <2>3. StepsLeft' = ((Rows - i) * four + 4 * Repeats + 1) + (Rows * five + 2)
    BY <2>1, BenchmarkAssumption DEF StepsLeft, RestOf, Made, InSend
  <2>4. (Rows + 1 - i) * four = (Rows - i) * four + four /\ (Rows - i) * four \in Nat
    BY <2>1, RowLess
  <2> HIDE DEF four, five
  <2> QED
    BY <1>1, <2>2, <2>3, <2>4, BenchmarkAssumption
<1>4. CASE EndSendRow
  <2>1. /\ pc = "send" /\ pc' = "send_row" /\ i' = i + 1 /\ j = Repeats /\ i \in 1 .. Rows
    BY <1>2, <1>4, BenchmarkAssumption DEF EndSendRow, Goto, BenchmarkInv, Looping, InSend
  <2>2. StepsLeft = ((Rows - i) * four + (4 * (Repeats - j) - Made) + 1) + (Rows * five + 2)
    BY <2>1 DEF StepsLeft, RestOf, InSend
  <2>5. Made = 0 /\ 4 * (Repeats - j) = 0
    BY <2>1, BenchmarkAssumption DEF Made
  <2>3. StepsLeft' = (Rows - i) * four + (Rows * five + 2)
    <3>1. Rows + 1 - i' = Rows - i
      BY <2>1, BenchmarkAssumption
    <3> QED
      BY <2>1, <3>1 DEF StepsLeft, RestOf
  <2>4. (Rows - i) * four \in Nat
    BY <2>1, RowLess
  <2> HIDE DEF four, five
  <2> QED
    BY <1>1, <2>2, <2>3, <2>4, <2>5
<1>5. CASE EndSend
  <2>1. /\ pc = "send_row" /\ pc' = "receive_row" /\ i = Rows + 1 /\ i' = 1
    BY <1>2, <1>5, BenchmarkAssumption DEF EndSend, Goto
  <2>2. StepsLeft = (Rows + 1 - i) * four + (Rows * five + 2)
    BY <2>1 DEF StepsLeft, RestOf
  <2>3. StepsLeft' = (Rows + 1 - 1) * five + 1
    BY <2>1 DEF StepsLeft, RestOf, InSend
  <2>4. (Rows + 1 - i) * four = 0
    BY <1>2, <2>1, RowsLeft
  <2>5. Rows + 1 - 1 = Rows
    BY BenchmarkAssumption
  <2> HIDE DEF four, five
  <2> QED
    BY <1>1, <2>2, <2>3, <2>4, <2>5
<1>6. CASE Send \/ TaReceive \/ TaFreeReceived \/ Sent
  <2>1. /\ i' = i /\ i \in 1 .. Rows
        /\ \/ pc = "send" /\ pc' = "ta_receive" /\ j' = j /\ j < Repeats
           \/ pc = "ta_receive" /\ pc' = "ta_received" /\ j' = j /\ j < Repeats
           \/ pc = "ta_received" /\ pc' = "sent" /\ j' = j /\ j < Repeats
           \/ pc = "sent" /\ pc' = "send" /\ j' = j + 1 /\ j < Repeats
    BY <1>2, <1>6, BenchmarkAssumption
    DEF Send, TaReceive, TaFreeReceived, TaFree, Sent, Goto, Fail, host, BenchmarkInv, Looping,
      InSend, InReceive
  <2>2. StepsLeft = ((Rows - i) * four + (4 * (Repeats - j) - Made) + 1) + (Rows * five + 2)
    BY <2>1 DEF StepsLeft, RestOf, InSend
  <2>3. StepsLeft' = ((Rows - i) * four + (4 * (Repeats - j') - Made') + 1) + (Rows * five + 2)
    BY <2>1 DEF StepsLeft, RestOf, InSend
  <2>4. (Rows - i) * four \in Nat
    BY <2>1, RowLess
  <2>5. PICK p \in Int, q \in Int :
           /\ p = 4 * (Repeats - j) - Made
           /\ q = 4 * (Repeats - j') - Made'
           /\ q = p - 1 /\ q >= 0
    <3>1. j \in 0 .. Repeats - 1 /\ Repeats \in Nat
      BY <1>2, <2>1, BenchmarkAssumption
    <3> QED
      BY <2>1, <3>1 DEF Made
  <2>6. StepsLeft = ((Rows - i) * four + p + 1) + (Rows * five + 2)
    BY <2>2, <2>5, Zenon
  <2>7. StepsLeft' = ((Rows - i) * four + q + 1) + (Rows * five + 2)
    BY <2>3, <2>5, Zenon
  <2> HIDE DEF four, five
  <2> QED
    BY <1>1, <2>4, <2>5, <2>6, <2>7
<1>7. CASE ReceiveRow
  <2>1. /\ pc = "receive_row" /\ pc' = "receive" /\ i' = i /\ j' = 0 /\ i \in 1 .. Rows
    BY <1>2, <1>7, BenchmarkAssumption DEF ReceiveRow, BeginRow, Goto
  <2>2. StepsLeft = (Rows + 1 - i) * five + 1
    BY <2>1 DEF StepsLeft, RestOf, InSend
  <2>3. StepsLeft' = ((Rows - i) * five + 5 * Repeats + 1) + 1
    BY <2>1, BenchmarkAssumption DEF StepsLeft, RestOf, Made, InSend
  <2>4. (Rows + 1 - i) * five = (Rows - i) * five + five /\ (Rows - i) * five \in Nat
    BY <2>1, RowLess
  <2> HIDE DEF four, five
  <2> QED
    BY <1>1, <2>2, <2>3, <2>4, BenchmarkAssumption
<1>8. CASE EndReceiveRow
  <2>1. /\ pc = "receive" /\ pc' = "receive_row" /\ i' = i + 1 /\ j = Repeats
        /\ i \in 1 .. Rows
    BY <1>2, <1>8, BenchmarkAssumption
    DEF EndReceiveRow, Goto, BenchmarkInv, Looping, InReceive
  <2>2. StepsLeft = ((Rows - i) * five + (5 * (Repeats - j) - Made) + 1) + 1
    BY <2>1 DEF StepsLeft, RestOf, InSend
  <2>5. Made = 0 /\ 5 * (Repeats - j) = 0
    BY <2>1, BenchmarkAssumption DEF Made
  <2>3. StepsLeft' = (Rows - i) * five + 1
    <3>1. Rows + 1 - i' = Rows - i
      BY <2>1, BenchmarkAssumption
    <3> QED
      BY <2>1, <3>1 DEF StepsLeft, RestOf, InSend
  <2>4. (Rows - i) * five \in Nat
    BY <2>1, RowLess
  <2> HIDE DEF four, five
  <2> QED
    BY <1>1, <2>2, <2>3, <2>4, <2>5
<1>9. CASE EndReceive
  <2>1. pc = "receive_row" /\ pc' = "done" /\ i = Rows + 1
    BY <1>2, <1>9, BenchmarkAssumption DEF EndReceive, Goto
  <2>2. StepsLeft = (Rows + 1 - i) * five + 1 /\ StepsLeft' = 0
    BY <2>1 DEF StepsLeft, RestOf, InSend
  <2>3. (Rows + 1 - i) * five = 0
    BY <1>2, <2>1, RowsLeft
  <2> HIDE DEF four, five
  <2> QED
    BY <1>1, <2>2, <2>3
<1>10. CASE Receive \/ TaHandle \/ TaSend \/ TaFreeSent \/ Received
  <2>1. /\ i' = i /\ i \in 1 .. Rows
        /\ \/ pc = "receive" /\ pc' = "ta_handle" /\ j' = j /\ j < Repeats
           \/ pc = "ta_handle" /\ pc' = "ta_send" /\ j' = j /\ j < Repeats
           \/ pc = "ta_send" /\ pc' = "ta_sent" /\ j' = j /\ j < Repeats
           \/ pc = "ta_sent" /\ pc' = "received" /\ j' = j /\ j < Repeats
           \/ pc = "received" /\ pc' = "receive" /\ j' = j + 1 /\ j < Repeats
    BY <1>2, <1>10, BenchmarkAssumption
    DEF Receive, TaHandle, TaSend, TaFreeSent, TaFree, Received, Goto, Fail, host, BenchmarkInv,
      Looping, InSend, InReceive
  <2>2. StepsLeft = ((Rows - i) * five + (5 * (Repeats - j) - Made) + 1) + 1
    BY <2>1 DEF StepsLeft, RestOf, InSend
  <2>3. StepsLeft' = ((Rows - i) * five + (5 * (Repeats - j') - Made') + 1) + 1
    BY <2>1 DEF StepsLeft, RestOf, InSend
  <2>4. (Rows - i) * five \in Nat
    BY <2>1, RowLess
  <2>5. PICK p \in Int, q \in Int :
           /\ p = 5 * (Repeats - j) - Made
           /\ q = 5 * (Repeats - j') - Made'
           /\ q = p - 1 /\ q >= 0
    <3>1. j \in 0 .. Repeats - 1 /\ Repeats \in Nat
      BY <1>2, <2>1, BenchmarkAssumption
    <3> QED
      BY <2>1, <3>1 DEF Made
  <2>6. StepsLeft = ((Rows - i) * five + p + 1) + 1
    BY <2>2, <2>5, Zenon
  <2>7. StepsLeft' = ((Rows - i) * five + q + 1) + 1
    BY <2>3, <2>5, Zenon
  <2> HIDE DEF four, five
  <2> QED
    BY <1>1, <2>4, <2>5, <2>6, <2>7
<1> QED
  BY <1>3, <1>4, <1>5, <1>6, <1>7, <1>8, <1>9, <1>10 DEF Next

(* Each row has the transfers it should, and no run is longer than the     *)
(* loops of both benchmarks; that the program goes on until they have      *)
(* ended is its fairness.                                                  *)
THEOREM LoopsEnd == Spec => CountsDown
<1>1. BenchmarkInv /\ [Next]_vars => [pc' = "failed" \/ (StepsLeft' = StepsLeft - 1 /\ StepsLeft' >= 0)]_vars
  BY StepCounts
<1> QED
  BY <1>1, Stepping, PTL DEF Spec, CountsDown
===============================================================================
