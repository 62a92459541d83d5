------------------------------ MODULE FerryProofs ------------------------------
(***************************************************************************)
(* Proofs about Ferry: whatever the commands and the calls are and         *)
(* whatever fails, the trusted application holds no memory between two     *)
(* commands; if the handlers fill their structs, it only stops for lack of *)
(* memory and success means that the struct in the shared region is whole; *)
(* and every call is a remote call.                                        *)
(***************************************************************************)
EXTENDS Ferry, TLAPS

(* Where the values are between the call and the handler. *)
Passing ==
  /\ point # "idle" => call \in Calls /\ arg \in Args[call]
  /\ result # Nothing => call \in Calls
  /\ outcome # Nothing => call \in Calls
  /\ point \in {"invoke", "receive", "handle"} => outcome = Nothing /\ result = Nothing
  /\ point = "invoke" \/ InTa => (In => in_region = Typed(call.in, arg))
  /\ point \in {"invoke", "receive"} =>
       /\ call.in = "value" => op = arg
       /\ call.in = "none" => arg = Nothing
  /\ InTa =>
       /\ ta = "alive"
       /\ Understood(call)
       /\ IF OutType(call) = "none" THEN reply = Nothing
          ELSE reply \in Commands[call.cmd].replies
  /\ point = "receive" => In /\ stmt = 1
  /\ point = "send" => Out
  /\ point \in {"send", "free", "returned"} => result \in Result
  /\ point \in {"handle", "send", "free"} =>
       seen = arg \/ (seen = Garbled /\ (TaMayBeShort \/ ~ Matched(call)))
  /\ "memory" \in faults => TaMayBeShort

(* The members set are those the handler has filled; what is live is what  *)
(* the wrapper is going to free.                                           *)
FilledBefore(s) == \E i \in 1 .. stmt - 1 : Fills(Body[i]) /\ Body[i].slot = s

Filling ==
  /\ InTa => DOMAIN thing = Members(OutType(call))
  /\ point \in {"receive", "handle"} =>
       /\ stmt \in 1 .. Len(Body) + 1
       /\ \A s \in DOMAIN thing : thing[s] = "set" => FilledBefore(s)
  /\ ~ InTa \/ point = "receive" => heap = {}
  /\ InTa => heap \subseteq Freed

(* When the handler has filled all. *)
Whole ==
  /\ point \in {"receive", "handle"} =>
       \A s \in DOMAIN thing : FilledBefore(s) => thing[s] = "set"
  /\ point \in {"send", "free"} => (Out => Complete \/ faults # {})
  /\ point \in {"send", "free"} /\ result = "SUCCESS" => Complete
  /\ seen = Garbled => faults # {}
  /\ ta = "dead" => faults # {}
  /\ result \in {"OUT_OF_MEMORY", "TARGET_DEAD"} => faults # {}

(* What the handler produced. *)
Producing ==
  /\ point = "handle" =>
       \A i \in 1 .. stmt - 1 : Body[i].do = "expect" => seen \in {Body[i].value, Garbled}
  /\ point \in {"send", "free"} =>
       /\ outcome = [in |-> seen, result |-> result, out |-> reply]
       /\ result \in {"SUCCESS", "NO_DATA", "OUT_OF_MEMORY"}
       /\ point = "free" /\ result = "SUCCESS" /\ Out => out_region = Typed(OutType(call), reply)
       /\ call.out = "value" => op = reply
  /\ point \in {"returned", "idle", "crashed"} /\ result = "SUCCESS" =>
       /\ Understood(call)
       /\ outcome # Nothing
       /\ outcome.result = "SUCCESS"
       /\ outcome.out \in Values \cup {Nothing}
       /\ call.out = "none" => outcome.out = Nothing
       /\ call.out = "value" => op = outcome.out
       /\ Out => out_region = Typed(OutType(call), outcome.out) /\ outcome.out \in Values

FerryInv == TypeOK /\ Passing /\ Filling
WholeInv == FerryInv /\ Whole /\ Producing

-----------------------------------------------------------------------------
(* What the parameter types of a call tell of its command.                 *)
LEMMA Parameters ==
  ASSUME NEW c \in Calls, Understood(c)
  PROVE  /\ c.params[1] = "memref_input" <=> Struct(InType(c))
         /\ Struct(c.in) <=> Struct(InType(c))
         /\ Struct(c.out) <=> Struct(OutType(c))
         /\ c.in = "value" <=> InType(c) = "value"
         /\ c.in = "none" <=> InType(c) = "none"
         /\ c.out = "value" <=> OutType(c) = "value"
         /\ c.out = "none" <=> OutType(c) = "none"
<1>1. InParameters(c) /\ InParameters(Commands[c.cmd]) /\ Commands[c.cmd].params = c.params
  BY FerryAssumption DEF Understood
<1> QED
  BY <1>1 DEF InParameters, Passes, Struct, InType, OutType

LEMMA TaParameters ==
  ASSUME FerryInv, InTa
  PROVE  /\ call \in Calls /\ Understood(call)
         /\ In <=> Struct(InType(call))
         /\ In <=> Struct(call.in)
         /\ Out <=> Struct(OutType(call))
         /\ call.out = "value" <=> OutType(call) = "value"
         /\ call.out = "none" <=> OutType(call) = "none"
         /\ IF call.out = "none" THEN reply = Nothing
            ELSE reply \in Commands[call.cmd].replies /\ reply \in Values
<1>1. /\ call \in Calls /\ Understood(call)
      /\ IF OutType(call) = "none" THEN reply = Nothing
         ELSE reply \in Commands[call.cmd].replies
  BY DEF FerryInv, Passing, InTa
<1>2. Commands[call.cmd].replies \subseteq Values
  BY <1>1, FerryAssumption DEF Understood
<1> QED
  BY <1>1, <1>2, Parameters DEF In, Out

LEMMA InitType == Init => TypeOK
<1> HAVE Init
<1>1. point \in Points /\ faults \subseteq {"memory", "type"} /\ stmt \in Nat \ {0}
  <2>1. point = "idle" /\ faults = {} /\ stmt = 1
    BY Zenon DEF Init
  <2>2. stmt \in Nat \ {0}
    BY <2>1
  <2> QED
    BY <2>1, <2>2, Zenon DEF Points
<1> QED
  BY <1>1, Zenon DEF Init, TypeOK

LEMMA InitFerry == Init => FerryInv
BY InitType, NothingAssumption DEF Init, FerryInv, Passing, Filling, InTa

(* Every step keeps each part of the invariant. *)
LEMMA TypeStep ==
  ASSUME FerryInv, [Next]_vars
  PROVE  TypeOK'
<1> USE FerryAssumption, NothingAssumption
    DEF host, regions, frame, secure, FerryInv, TypeOK, Passing, InTa,
        Points, Result, Understood, Typed
<1>1. ASSUME NEW c \in Calls, NEW v \in Args[c], Invoke(c, v) PROVE TypeOK'
  BY <1>1 DEF Invoke, Goto
<1>2. CASE TransportFails
  BY <1>2 DEF TransportFails, Return
<1>3. CASE TargetDead
  BY <1>3 DEF TargetDead, Return
<1>4. CASE Reject
  BY <1>4 DEF Reject, Return
<1>5. CASE Dispatch
  BY <1>5 DEF Dispatch, Goto
<1>6. CASE TaReceive
  BY <1>6 DEF TaReceive, Receive, Goto
<1>7. CASE TaReceiveShort
  BY <1>7 DEF TaReceiveShort, Receive, Goto
<1>28. CASE TaReceiveMistyped
  BY <1>28 DEF TaReceiveMistyped, Receive, Goto
<1>8. CASE TaReceiveFaults
  BY <1>8 DEF TaReceiveFaults, Die, Return
<1>9. CASE ReadFaults
  BY <1>9 DEF ReadFaults, Die, Return, AtStatement
<1>10. CASE ReadStruct
  BY <1>10 DEF ReadStruct, AtStatement, NextStatement
<1>11. CASE AssignMember
  BY <1>11 DEF AssignMember, AtStatement, NextStatement
<1>12. CASE AllocMember
  BY <1>12 DEF AllocMember, AtStatement, NextStatement
<1>13. CASE AllocFails
  BY <1>13 DEF AllocFails, AtStatement, HandlerReturns
<1>14. CASE AllocUncheckedFails
  BY <1>14 DEF AllocUncheckedFails, AtStatement, Die, Return
<1>15. CASE NoData
  BY <1>15 DEF NoData, AtStatement, HandlerReturns
<1>16. CASE Succeed
  BY <1>16 DEF Succeed, HandlerReturns
<1>17. CASE TaSend
  <2>1. /\ Struct(OutType(call)) /\ OutType(call) \in STRING
        /\ point = "send" /\ call \in Calls
    BY <1>17, Parameters DEF TaSend, Goto, Out, OutType
  <2>2. reply \in Values
    BY <2>1 DEF Struct
  <2> QED
    BY <1>17, <2>1, <2>2 DEF TaSend, Goto
<1>18. CASE SendFaults
  BY <1>18 DEF SendFaults
<1>19. CASE TaFree
  BY <1>19 DEF TaFree, Goto
<1>20. CASE FreeFaults
  BY <1>20 DEF FreeFaults, Die, Return
<1>21. CASE FinishIn
  BY <1>21 DEF FinishIn, Finish
<1>22. CASE FinishNative
  BY <1>22 DEF FinishNative, Finish
<1>23. CASE HostReceive
  BY <1>23 DEF HostReceive, Fits, Finish
<1>24. CASE HostReceiveGarbled
  BY <1>24 DEF HostReceiveGarbled, Finish
<1>25. CASE HostReceiveFaults
  BY <1>25 DEF HostReceiveFaults, Goto
<1>26. CASE FreeGot
  BY <1>26 DEF FreeGot
<1>27. CASE UNCHANGED vars
  BY <1>27 DEF vars
<1> QED
  BY <1>1, <1>2, <1>3, <1>4, <1>5, <1>6, <1>7, <1>8, <1>9, <1>10, <1>11, <1>12, <1>13, <1>14,
     <1>15, <1>16, <1>17, <1>18, <1>19, <1>20, <1>21, <1>22, <1>23, <1>24, <1>25, <1>26, <1>27, <1>28
  DEF Next, Proceed, Library, Wrapper, Handle

LEMMA PassingStep ==
  ASSUME FerryInv, [Next]_vars
  PROVE  Passing'
<1> USE FerryAssumption, NothingAssumption
    DEF host, regions, frame, secure, FerryInv, TypeOK, Passing, InTa,
        In, Out, Understood, Typed, Result
<1>1. ASSUME NEW c \in Calls, NEW v \in Args[c], Invoke(c, v) PROVE Passing'
  BY <1>1 DEF Invoke, Goto
<1>2. CASE TransportFails
  BY <1>2 DEF TransportFails, Return
<1>3. CASE TargetDead
  BY <1>3 DEF TargetDead, Return
<1>4. CASE Reject
  BY <1>4 DEF Reject, Return
<1>5. CASE Dispatch
  <2>1. point = "invoke" /\ call \in Calls /\ Understood(call) /\ call' = call
    BY <1>5 DEF Dispatch, Goto
  <2>2. /\ In <=> Struct(InType(call))
        /\ call.in = "value" <=> InType(call) = "value"
        /\ call.in = "none" <=> InType(call) = "none"
    BY <2>1, Parameters
  <2>3. ~ In => seen' = arg
    BY <1>5, <2>1, <2>2 DEF Dispatch, Struct
  <2> HIDE DEF In, Understood
  <2>4. In' = In /\ (Understood(call)' <=> Understood(call))
    BY <2>1 DEF In, Understood
  <2>5. IF OutType(call) = "none" THEN reply' = Nothing
        ELSE reply' \in Commands[call.cmd].replies
    BY <1>5 DEF Dispatch
  <2> QED
    BY <1>5, <2>1, <2>3, <2>4, <2>5 DEF Dispatch, Goto
<1>6. CASE TaReceive
  BY <1>6 DEF TaReceive, Receive, Goto
<1>7. CASE TaReceiveShort
  BY <1>7 DEF TaReceiveShort, Receive, Goto
<1>28. CASE TaReceiveMistyped
  BY <1>28 DEF TaReceiveMistyped, Receive, Goto, Matched
<1>8. CASE TaReceiveFaults
  BY <1>8 DEF TaReceiveFaults, Die, Return
<1>9. CASE ReadFaults
  BY <1>9 DEF ReadFaults, Die, Return, AtStatement
<1>10. CASE ReadStruct
  BY <1>10 DEF ReadStruct, AtStatement, NextStatement
<1>11. CASE AssignMember
  BY <1>11 DEF AssignMember, AtStatement, NextStatement
<1>12. CASE AllocMember
  BY <1>12 DEF AllocMember, AtStatement, NextStatement
<1>13. CASE AllocFails
  BY <1>13 DEF AllocFails, AtStatement, HandlerReturns
<1>14. CASE AllocUncheckedFails
  BY <1>14 DEF AllocUncheckedFails, AtStatement, Die, Return
<1>15. CASE NoData
  BY <1>15 DEF NoData, AtStatement, HandlerReturns
<1>16. CASE Succeed
  BY <1>16 DEF Succeed, HandlerReturns
<1>17. CASE TaSend
  BY <1>17 DEF TaSend, Goto
<1>18. CASE SendFaults
  BY <1>18 DEF SendFaults
<1>19. CASE TaFree
  BY <1>19 DEF TaFree, Goto
<1>20. CASE FreeFaults
  BY <1>20 DEF FreeFaults, Die, Return
<1>21. CASE FinishIn
  BY <1>21 DEF FinishIn, Finish
<1>22. CASE FinishNative
  BY <1>22 DEF FinishNative, Finish
<1>23. CASE HostReceive
  BY <1>23 DEF HostReceive, Fits, Finish
<1>24. CASE HostReceiveGarbled
  BY <1>24 DEF HostReceiveGarbled, Finish
<1>25. CASE HostReceiveFaults
  BY <1>25 DEF HostReceiveFaults, Goto
<1>26. CASE FreeGot
  BY <1>26 DEF FreeGot
<1>27. CASE UNCHANGED vars
  BY <1>27 DEF vars
<1> QED
  BY <1>1, <1>2, <1>3, <1>4, <1>5, <1>6, <1>7, <1>8, <1>9, <1>10, <1>11, <1>12, <1>13, <1>14,
     <1>15, <1>16, <1>17, <1>18, <1>19, <1>20, <1>21, <1>22, <1>23, <1>24, <1>25, <1>26, <1>27, <1>28
  DEF Next, Proceed, Library, Wrapper, Handle

(* The statement a handler is at, and what the next one has before it.     *)
LEMMA StatementKnown ==
  ASSUME FerryInv, HandlersInOrder, point = "handle", stmt <= Len(Body)
  PROVE  /\ stmt \in DOMAIN Body
         /\ DOMAIN Body = 1 .. Len(Body)
         /\ FillsInOrder(Body, OutType(call))
<1>1. call \in Calls /\ Understood(call)
  BY DEF FerryInv, Passing, InTa
<1>2. Body \in Seq([do : STRING, slot : Nat, value : STRING])
  BY <1>1, FerryAssumption DEF Understood, Body
<1>3. FillsInOrder(Body, OutType(call))
  BY <1>1, FerryAssumption DEF Understood, Body, OutType, HandlersInOrder
<1>4. stmt \in 1 .. Len(Body) + 1
  BY DEF FerryInv, Filling
<1> QED
  BY <1>2, <1>3, <1>4

LEMMA FilledNext ==
  ASSUME FerryInv, HandlersInOrder, point = "handle", stmt <= Len(Body), NextStatement,
         NEW s
  PROVE  FilledBefore(s)' <=> FilledBefore(s) \/ (Fills(Current) /\ Current.slot = s)
<1>1. stmt \in Nat \ {0} /\ stmt' = stmt + 1 /\ call' = call
  BY DEF FerryInv, TypeOK, NextStatement, host
<1>2. 1 .. stmt' - 1 = (1 .. stmt - 1) \cup {stmt}
  BY <1>1
<1>3. Body' = Body
  BY <1>1 DEF Body
<1>4. FilledBefore(s)' <=> \E i \in 1 .. stmt' - 1 : Fills(Body[i]) /\ Body[i].slot = s
  BY <1>3 DEF FilledBefore, Fills
<1> QED
  BY <1>2, <1>4 DEF FilledBefore, Current

LEMMA FillingStep ==
  ASSUME HandlersInOrder, FerryInv, [Next]_vars
  PROVE  Filling'
<1> USE FerryAssumption, NothingAssumption
    DEF host, regions, frame, secure, FerryInv, TypeOK, Passing, InTa,
        Filling, FilledBefore, In, Out, Understood, Freed, Blocks, Body
<1>1. ASSUME NEW c \in Calls, NEW v \in Args[c], Invoke(c, v) PROVE Filling'
  BY <1>1 DEF Invoke, Goto
<1>2. CASE TransportFails
  BY <1>2 DEF TransportFails, Return
<1>3. CASE TargetDead
  BY <1>3 DEF TargetDead, Return
<1>4. CASE Reject
  BY <1>4 DEF Reject, Return
<1>5. CASE Dispatch
  BY <1>5 DEF Dispatch, Goto
<1>6. CASE TaReceive
  BY <1>6 DEF TaReceive, Receive, Goto
<1>7. CASE TaReceiveShort
  BY <1>7 DEF TaReceiveShort, Receive, Goto
<1>28. CASE TaReceiveMistyped
  BY <1>28 DEF TaReceiveMistyped, Receive, Goto
<1>8. CASE TaReceiveFaults
  BY <1>8 DEF TaReceiveFaults, Die, Return
<1>9. CASE ReadFaults
  BY <1>9 DEF ReadFaults, Die, Return, AtStatement
<1>10. CASE ReadStruct
  BY <1>10 DEF ReadStruct, AtStatement, NextStatement
<1>11. CASE AssignMember
  <2>1. point = "handle" /\ stmt <= Len(Body)
    BY <1>11 DEF AssignMember, AtStatement
  <2>2. /\ stmt \in DOMAIN Body
        /\ DOMAIN Body = 1 .. Len(Body)
        /\ FillsInOrder(Body, OutType(call))
    BY <2>1, StatementKnown
  <2>3. NextStatement /\ heap' = heap
    BY <1>11 DEF AssignMember
  <2>4. Fills(Current) /\ Current.slot \in Members(OutType(call))
    BY <1>11, <2>2 DEF AssignMember, AtStatement, FillsInOrder, Fills, Current
  <2>5. thing' = [thing EXCEPT ![Current.slot] = "set"] /\ DOMAIN thing = Members(OutType(call))
    BY <1>11, <2>1 DEF AssignMember, FerryInv, Filling, InTa
  <2>6. stmt' = stmt + 1 /\ UNCHANGED <<point, call, heap>>
    BY <2>3 DEF NextStatement
  <2>7. ASSUME NEW s \in DOMAIN thing', thing'[s] = "set" PROVE FilledBefore(s)'
    <3>1. FilledBefore(s)' <=> FilledBefore(s) \/ (Fills(Current) /\ Current.slot = s)
      BY <2>1, <2>3, FilledNext
    <3>2. s = Current.slot \/ thing[s] = "set"
      BY <2>5, <2>7
    <3>3. thing[s] = "set" => FilledBefore(s)
      BY <2>1, <2>5, <2>7 DEF FerryInv, Filling
    <3> QED
      BY <2>4, <3>1, <3>2, <3>3
  <2>8. Freed \subseteq Freed'
    BY <2>4, <2>5, <2>6 DEF Freed, In, Out, Blocks, Pointers, OfKind, Members, Slots
  <2>9. stmt' \in 1 .. Len(Body') + 1
    BY <2>1, <2>2, <2>6 DEF Body
  <2> QED
    BY <2>1, <2>5, <2>6, <2>7, <2>8, <2>9 DEF FerryInv, Filling, InTa, Body
<1>12. CASE AllocMember
  <2>1. point = "handle" /\ stmt <= Len(Body)
    BY <1>12 DEF AllocMember, AtStatement
  <2>2. /\ stmt \in DOMAIN Body
        /\ DOMAIN Body = 1 .. Len(Body)
        /\ FillsInOrder(Body, OutType(call))
    BY <2>1, StatementKnown
  <2>3. /\ NextStatement
        /\ heap' = heap \cup Blocks("out", {Current.slot})
    BY <1>12 DEF AllocMember
  <2>4. /\ Fills(Current) /\ Current.slot \in Members(OutType(call))
        /\ Current.slot \in Pointers(OutType(call))
        /\ OutType(call) \notin {"none", "value"}
        /\ \A j \in 1 .. stmt - 1 : Fills(Body[j]) =>
             Body[j].slot \notin {Current.slot} \cup Inner(OutType(call), Current.slot)
    BY <1>12, <2>2 DEF AllocMember, AtStatement, FillsInOrder, Fills, Allocs, Current
  <2>5. /\ DOMAIN thing = Members(OutType(call))
        /\ thing' = [s \in DOMAIN thing |->
             IF s = Current.slot THEN "set"
             ELSE IF s \in Inner(OutType(call), Current.slot) THEN "zero" ELSE thing[s]]
    BY <1>12, <2>1 DEF AllocMember, FerryInv, Filling, InTa
  <2>6. stmt' = stmt + 1 /\ UNCHANGED <<point, call>>
    BY <2>3 DEF NextStatement
  <2>7. ASSUME NEW s \in DOMAIN thing', thing'[s] = "set" PROVE FilledBefore(s)'
    <3>1. FilledBefore(s)' <=> FilledBefore(s) \/ (Fills(Current) /\ Current.slot = s)
      BY <2>1, <2>3, FilledNext
    <3>2. s = Current.slot \/ thing[s] = "set"
      BY <2>5, <2>7
    <3>3. thing[s] = "set" => FilledBefore(s)
      BY <2>1, <2>5, <2>7 DEF FerryInv, Filling
    <3> QED
      BY <2>4, <3>1, <3>2, <3>3
  <2>8. \A s \in DOMAIN thing : thing[s] = "set" => thing'[s] = "set"
    <3> SUFFICES ASSUME NEW s \in DOMAIN thing, thing[s] = "set" PROVE thing'[s] = "set"
      OBVIOUS
    <3>1. FilledBefore(s)
      BY <2>1 DEF FerryInv, Filling
    <3>2. s \notin Inner(OutType(call), Current.slot)
      BY <2>4, <3>1 DEF FilledBefore
    <3> QED
      BY <2>5, <3>2
  <2>9. Freed \subseteq Freed' /\ Blocks("out", {Current.slot}) \subseteq Freed'
    <3>0. Pointers(OutType(call)) \subseteq DOMAIN thing
      BY <2>4, <2>5 DEF Pointers, OfKind, Members
    <3>1. {s \in Pointers(OutType(call)) : thing[s] = "set"} \cup {Current.slot}
            \subseteq {s \in Pointers(OutType(call)) : thing'[s] = "set"}
      BY <2>4, <2>5, <2>8, <3>0
    <3>2. Pointers(InType(call))' = Pointers(InType(call)) /\ Pointers(OutType(call))' = Pointers(OutType(call))
      BY <2>6
    <3>3. Out /\ Out' /\ In' = In
      BY <2>1, <2>4, <2>6, TaParameters DEF In, Out, InTa, Struct
    <3> HIDE DEF In, Out
    <3> QED
      BY <3>1, <3>2, <3>3 DEF Freed, Blocks
  <2>10. stmt' \in 1 .. Len(Body') + 1
    BY <2>1, <2>2, <2>6 DEF Body
  <2> QED
    BY <2>1, <2>3, <2>5, <2>6, <2>7, <2>9, <2>10 DEF FerryInv, Filling, InTa, Body
<1>13. CASE AllocFails
  <2>1. point = "handle" /\ stmt <= Len(Body)
    BY <1>13 DEF AllocFails, AtStatement
  <2>2. /\ stmt \in DOMAIN Body
        /\ DOMAIN Body = 1 .. Len(Body)
        /\ FillsInOrder(Body, OutType(call))
    BY <2>1, StatementKnown
  <2>3. /\ Current.slot \in Members(OutType(call))
        /\ \A j \in 1 .. stmt - 1 : Fills(Body[j]) => Body[j].slot # Current.slot
    <3>1. Body[stmt].do = "alloc"
      BY <1>13 DEF AllocFails, AtStatement, Current
    <3>2. Fills(Body[stmt]) /\ Allocs(Body[stmt])
      BY <3>1 DEF Fills, Allocs
    <3> QED
      BY <2>2, <3>2 DEF FillsInOrder, Current
  <2>4. /\ DOMAIN thing = Members(OutType(call))
        /\ thing' = [thing EXCEPT ![Current.slot] = "zero"]
        /\ UNCHANGED <<call, heap>>
        /\ point' \in {"send", "free", "returned"}
        /\ point' = "returned" => ~ Out /\ ~ In
    BY <1>13, <2>1 DEF AllocFails, HandlerReturns, FerryInv, Filling, InTa
  <2>5. \A s \in DOMAIN thing : thing[s] = "set" => thing'[s] = "set"
    <3>1. ~ FilledBefore(Current.slot)
      BY <2>3 DEF FilledBefore
    <3>2. thing[Current.slot] # "set"
      BY <2>1, <2>3, <2>4, <3>1 DEF FerryInv, Filling
    <3> QED
      BY <2>4, <3>2
  <2>6. Freed \subseteq Freed'
    BY <2>4, <2>5 DEF Freed, In, Out, Blocks, Pointers, OfKind, Members, Slots
  <2> QED
    BY <2>1, <2>4, <2>6 DEF FerryInv, Filling, InTa, Freed
<1>14. CASE AllocUncheckedFails
  BY <1>14 DEF AllocUncheckedFails, AtStatement, Die, Return
<1>15. CASE NoData
  BY <1>15 DEF NoData, AtStatement, HandlerReturns
<1>16. CASE Succeed
  BY <1>16 DEF Succeed, HandlerReturns
<1>17. CASE TaSend
  BY <1>17 DEF TaSend, Goto
<1>18. CASE SendFaults
  BY <1>18 DEF SendFaults
<1>19. CASE TaFree
  BY <1>19 DEF TaFree, Goto
<1>20. CASE FreeFaults
  BY <1>20 DEF FreeFaults, Die, Return
<1>21. CASE FinishIn
  BY <1>21 DEF FinishIn, Finish
<1>22. CASE FinishNative
  BY <1>22 DEF FinishNative, Finish
<1>23. CASE HostReceive
  BY <1>23 DEF HostReceive, Fits, Finish
<1>24. CASE HostReceiveGarbled
  BY <1>24 DEF HostReceiveGarbled, Finish
<1>25. CASE HostReceiveFaults
  BY <1>25 DEF HostReceiveFaults, Goto
<1>26. CASE FreeGot
  BY <1>26 DEF FreeGot
<1>27. CASE UNCHANGED vars
  BY <1>27 DEF vars
<1> QED
  BY <1>1, <1>2, <1>3, <1>4, <1>5, <1>6, <1>7, <1>8, <1>9, <1>10, <1>11, <1>12, <1>13, <1>14,
     <1>15, <1>16, <1>17, <1>18, <1>19, <1>20, <1>21, <1>22, <1>23, <1>24, <1>25, <1>26, <1>27, <1>28
  DEF Next, Proceed, Library, Wrapper, Handle

(* A handler has filled what the wrapper follows once it has filled all.   *)
LEMMA HandlerKnown ==
  ASSUME FerryInv, HandlersFillAll, point = "handle"
  PROVE  /\ stmt \in 1 .. Len(Body) + 1
         /\ DOMAIN Body = 1 .. Len(Body)
         /\ FillsAll(Body, OutType(call))
         /\ DOMAIN thing = Members(OutType(call))
<1>1. call \in Calls /\ Understood(call)
  BY DEF FerryInv, Passing, InTa
<1>2. Body \in Seq([do : STRING, slot : Nat, value : STRING])
  BY <1>1, FerryAssumption DEF Understood, Body
<1>3. FillsAll(Body, OutType(call))
  BY <1>1, FerryAssumption DEF Understood, Body, OutType, HandlersFillAll
<1> QED
  BY <1>2, <1>3 DEF FerryInv, Filling, InTa

LEMMA CompleteIsSound ==
  ASSUME Complete, Struct(OutType(call)), DOMAIN thing = Members(OutType(call))
  PROVE  /\ \A kinds : NullOf(kinds, OutType(call)) = {}
         /\ ~ Stray(OutType(call))
BY DEF Complete, Struct, Members, NullOf, OfKind, Stray, Pointers, Slots

LEMMA WholeStep ==
  ASSUME HandlersInOrder, HandlersFillAll, WholeInv, [Next]_vars
  PROVE  Whole'
<1> USE FerryAssumption, NothingAssumption
    DEF host, regions, frame, secure, WholeInv, FerryInv, TypeOK, Passing, InTa,
        Filling, FilledBefore, Whole, In, Out, Understood, Body
<1>1. ASSUME NEW c \in Calls, NEW v \in Args[c], Invoke(c, v) PROVE Whole'
  BY <1>1 DEF Invoke, Goto, Result
<1>2. CASE TransportFails
  BY <1>2 DEF TransportFails, Return
<1>3. CASE TargetDead
  BY <1>3 DEF TargetDead, Return
<1>4. CASE Reject
  BY <1>4 DEF Reject, Return
<1>5. CASE Dispatch
  BY <1>5 DEF Dispatch, Goto
<1>6. CASE TaReceive
  <2>1. seen' = arg /\ ta' = ta /\ point' = "handle" /\ UNCHANGED <<thing, call, stmt, faults>>
    BY <1>6 DEF TaReceive, Receive, Goto, Typed
  <2>2. arg # Garbled
    BY <1>6 DEF TaReceive, Receive, Goto
  <2> QED
    BY <1>6, <2>1, <2>2 DEF TaReceive, Receive, Goto
<1>7. CASE TaReceiveShort
  BY <1>7 DEF TaReceiveShort, Receive, Goto
<1>28. CASE TaReceiveMistyped
  BY <1>28 DEF TaReceiveMistyped, Receive, Goto
<1>8. CASE TaReceiveFaults
  BY <1>8 DEF TaReceiveFaults, Die, Return
<1>9. CASE ReadFaults
  BY <1>9 DEF ReadFaults, Die, Return, AtStatement
<1>10. CASE ReadStruct
  <2>1. point = "handle" /\ stmt <= Len(Body) /\ NextStatement /\ ~ Fills(Current)
    BY <1>10 DEF ReadStruct, AtStatement, Fills
  <2>2. \A s : FilledBefore(s)' <=> FilledBefore(s)
    BY <2>1, FilledNext
  <2> QED
    BY <1>10, <2>1, <2>2 DEF ReadStruct, NextStatement
<1>11. CASE AssignMember
  <2>1. point = "handle" /\ stmt <= Len(Body) /\ NextStatement
    BY <1>11 DEF AssignMember, AtStatement
  <2>2. \A s : FilledBefore(s)' => FilledBefore(s) \/ Current.slot = s
    BY <2>1, FilledNext
  <2>3. thing' = [thing EXCEPT ![Current.slot] = "set"] /\ faults' = faults
    BY <1>11 DEF AssignMember
  <2>4. \A s \in DOMAIN thing' : FilledBefore(s)' => thing'[s] = "set"
    BY <2>1, <2>2, <2>3 DEF WholeInv, Whole
  <2> QED
    BY <2>1, <2>3, <2>4 DEF NextStatement, WholeInv, Whole
<1>12. CASE AllocMember
  <2>1. point = "handle" /\ stmt <= Len(Body) /\ NextStatement
    BY <1>12 DEF AllocMember, AtStatement
  <2>2. /\ stmt \in DOMAIN Body
        /\ FillsInOrder(Body, OutType(call))
    BY <2>1, StatementKnown
  <2>3. \A s : FilledBefore(s)' => FilledBefore(s) \/ Current.slot = s
    BY <2>1, FilledNext
  <2>4. \A s : FilledBefore(s) => s \notin Inner(OutType(call), Current.slot)
    <3>1. Allocs(Body[stmt])
      BY <1>12 DEF AllocMember, AtStatement, Allocs, Current
    <3>2. \A j \in 1 .. stmt - 1 : Fills(Body[j]) =>
            Body[j].slot \notin Inner(OutType(call), Body[stmt].slot)
      BY <2>2, <3>1 DEF FillsInOrder
    <3> QED
      BY <3>2 DEF FilledBefore, Current
  <2>5. thing' = [s \in DOMAIN thing |->
          IF s = Current.slot THEN "set"
          ELSE IF s \in Inner(OutType(call), Current.slot) THEN "zero" ELSE thing[s]]
    BY <1>12 DEF AllocMember
  <2>6. \A s \in DOMAIN thing' : FilledBefore(s)' => thing'[s] = "set"
    BY <2>1, <2>3, <2>4, <2>5 DEF WholeInv, Whole
  <2>7. faults' = faults
    BY <1>12 DEF AllocMember
  <2> QED
    BY <2>1, <2>6, <2>7 DEF NextStatement, WholeInv, Whole
<1>13. CASE AllocFails
  BY <1>13 DEF AllocFails, AtStatement, HandlerReturns
<1>14. CASE AllocUncheckedFails
  BY <1>14 DEF AllocUncheckedFails, AtStatement, Die, Return
<1>15. CASE NoData
  <2>1. ~ Out
    <3>1. OutType(call) = "none"
      BY <1>15, HandlerKnown, StatementKnown DEF NoData, AtStatement, FillsAll, Current
    <3> QED
      BY <1>15, <3>1, TaParameters DEF NoData, AtStatement, Struct
  <2> QED
    BY <1>15, <2>1 DEF NoData, AtStatement, HandlerReturns
<1>16. CASE Succeed
  <2>1. point = "handle" /\ stmt > Len(Body)
    BY <1>16 DEF Succeed
  <2>2. /\ stmt \in 1 .. Len(Body) + 1
        /\ DOMAIN Body = 1 .. Len(Body)
        /\ FillsAll(Body, OutType(call))
        /\ DOMAIN thing = Members(OutType(call))
    BY <2>1, HandlerKnown
  <2>3. 1 .. stmt - 1 = DOMAIN Body
    BY <2>1, <2>2
  <2>4. \A s \in DOMAIN thing : FilledBefore(s)
    BY <2>2, <2>3 DEF FillsAll
  <2>5. Complete
    BY <2>1, <2>4 DEF Complete
  <2> QED
    BY <1>16, <2>5 DEF Succeed, HandlerReturns, Complete
<1>17. CASE TaSend
  BY <1>17 DEF TaSend, Goto, Complete
<1>18. CASE SendFaults
  <2>1. Struct(OutType(call)) /\ DOMAIN thing = Members(OutType(call))
    BY <1>18, TaParameters DEF SendFaults
  <2>2. Complete => NullOf({"cstring", "buffer"}, OutType(call)) = {} /\ ~ Stray(OutType(call))
    BY <2>1, CompleteIsSound
  <2> QED
    BY <1>18, <2>1, <2>2 DEF SendFaults
<1>19. CASE TaFree
  BY <1>19 DEF TaFree, Goto
<1>20. CASE FreeFaults
  <2>1. Struct(OutType(call)) /\ DOMAIN thing = Members(OutType(call))
    BY <1>20, TaParameters DEF FreeFaults
  <2>2. Complete => NullOf({"struct"}, OutType(call)) = {} /\ ~ Stray(OutType(call))
    BY <2>1, CompleteIsSound
  <2> QED
    BY <1>20, <2>1, <2>2 DEF FreeFaults, Die, Return
<1>21. CASE FinishIn
  BY <1>21 DEF FinishIn, Finish
<1>22. CASE FinishNative
  BY <1>22 DEF FinishNative, Finish
<1>23. CASE HostReceive
  BY <1>23 DEF HostReceive, Fits, Finish
<1>24. CASE HostReceiveGarbled
  BY <1>24 DEF HostReceiveGarbled, Finish
<1>25. CASE HostReceiveFaults
  BY <1>25 DEF HostReceiveFaults, Goto
<1>26. CASE FreeGot
  BY <1>26 DEF FreeGot
<1>27. CASE UNCHANGED vars
  BY <1>27 DEF vars, Complete
<1> QED
  BY <1>1, <1>2, <1>3, <1>4, <1>5, <1>6, <1>7, <1>8, <1>9, <1>10, <1>11, <1>12, <1>13, <1>14,
     <1>15, <1>16, <1>17, <1>18, <1>19, <1>20, <1>21, <1>22, <1>23, <1>24, <1>25, <1>26, <1>27, <1>28
  DEF Next, Proceed, Library, Wrapper, Handle

(* What the statements before the next one have expected was there.        *)
LEMMA ExpectedNext ==
  ASSUME WholeInv, HandlersInOrder, point = "handle", stmt <= Len(Body), NextStatement,
         Current.do = "expect" => seen \in {Current.value, Garbled}
  PROVE  Producing'
<1>1. stmt \in Nat \ {0} /\ stmt' = stmt + 1 /\ call' = call /\ seen' = seen /\ point' = point
  BY DEF WholeInv, FerryInv, TypeOK, NextStatement, host
<1>2. 1 .. stmt' - 1 = (1 .. stmt - 1) \cup {stmt}
  BY <1>1
<1> QED
  BY <1>1, <1>2 DEF WholeInv, Producing, Body, Current

LEMMA ProducingStep ==
  ASSUME HandlersInOrder, HandlersFillAll, WholeInv, [Next]_vars
  PROVE  Producing'
<1> USE FerryAssumption, NothingAssumption
    DEF host, regions, frame, secure, WholeInv, FerryInv, TypeOK, Passing, InTa,
        Filling, Whole, Producing, In, Out, Understood, Body, Result
<1>1. ASSUME NEW c \in Calls, NEW v \in Args[c], Invoke(c, v) PROVE Producing'
  BY <1>1 DEF Invoke, Goto
<1>2. CASE TransportFails
  BY <1>2 DEF TransportFails, Return
<1>3. CASE TargetDead
  BY <1>3 DEF TargetDead, Return
<1>4. CASE Reject
  BY <1>4 DEF Reject, Return
<1>5. CASE Dispatch
  BY <1>5 DEF Dispatch, Goto
<1>6. CASE TaReceive
  <2>1. stmt = 1 /\ stmt' = stmt /\ point' = "handle"
    BY <1>6 DEF TaReceive, Receive, Goto
  <2> QED
    BY <2>1
<1>7. CASE TaReceiveShort
  <2>1. stmt = 1 /\ stmt' = stmt /\ point' = "handle"
    BY <1>7 DEF TaReceiveShort, Receive, Goto
  <2> QED
    BY <2>1
<1>28. CASE TaReceiveMistyped
  BY <1>28 DEF TaReceiveMistyped, Receive, Goto
<1>8. CASE TaReceiveFaults
  BY <1>8 DEF TaReceiveFaults, Die, Return
<1>9. CASE ReadFaults
  BY <1>9 DEF ReadFaults, Die, Return, AtStatement
<1>10. CASE ReadStruct
  <2>1. point = "handle" /\ stmt <= Len(Body) /\ NextStatement
    BY <1>10 DEF ReadStruct, AtStatement
  <2>2. Current.do = "expect" => seen \in {Current.value, Garbled}
    BY <1>10 DEF ReadStruct, AtStatement
  <2> QED
    BY <2>1, <2>2, ExpectedNext
<1>11. CASE AssignMember
  <2>1. point = "handle" /\ stmt <= Len(Body) /\ NextStatement /\ Current.do # "expect"
    BY <1>11 DEF AssignMember, AtStatement
  <2> QED
    BY <2>1, ExpectedNext
<1>12. CASE AllocMember
  <2>1. point = "handle" /\ stmt <= Len(Body) /\ NextStatement /\ Current.do # "expect"
    BY <1>12 DEF AllocMember, AtStatement
  <2> QED
    BY <2>1, ExpectedNext
<1>13. CASE AllocFails
  BY <1>13, TaParameters DEF AllocFails, AtStatement, HandlerReturns
<1>14. CASE AllocUncheckedFails
  BY <1>14 DEF AllocUncheckedFails, AtStatement, Die, Return
<1>15. CASE NoData
  BY <1>15, TaParameters DEF NoData, AtStatement, HandlerReturns
<1>16. CASE Succeed
  BY <1>16, TaParameters DEF Succeed, HandlerReturns
<1>17. CASE TaSend
  BY <1>17 DEF TaSend, Goto
<1>18. CASE SendFaults
  BY <1>18 DEF SendFaults
<1>19. CASE TaFree
  <2>2. /\ Understood(call)
        /\ reply \in Values \cup {Nothing}
        /\ Out => reply \in Values
        /\ call.out = "none" => reply = Nothing
    BY <1>19, TaParameters DEF TaFree, Goto, Struct
  <2>1. /\ outcome = [in |-> seen, result |-> result, out |-> reply]
        /\ result = "SUCCESS" /\ Out => out_region = Typed(OutType(call), reply)
        /\ call.out = "value" => op = reply
    BY <1>19 DEF TaFree, Goto
  <2> QED
    BY <1>19, <2>1, <2>2 DEF TaFree, Goto
<1>20. CASE FreeFaults
  BY <1>20 DEF FreeFaults, Die, Return
<1>21. CASE FinishIn
  BY <1>21 DEF FinishIn, Finish
<1>22. CASE FinishNative
  BY <1>22 DEF FinishNative, Finish
<1>23. CASE HostReceive
  BY <1>23 DEF HostReceive, Fits, Finish
<1>24. CASE HostReceiveGarbled
  BY <1>24 DEF HostReceiveGarbled, Finish
<1>25. CASE HostReceiveFaults
  BY <1>25 DEF HostReceiveFaults, Goto
<1>26. CASE FreeGot
  BY <1>26 DEF FreeGot
<1>27. CASE UNCHANGED vars
  BY <1>27 DEF vars
<1> QED
  BY <1>1, <1>2, <1>3, <1>4, <1>5, <1>6, <1>7, <1>8, <1>9, <1>10, <1>11, <1>12, <1>13, <1>14,
     <1>15, <1>16, <1>17, <1>18, <1>19, <1>20, <1>21, <1>22, <1>23, <1>24, <1>25, <1>26, <1>27, <1>28
  DEF Next, Proceed, Library, Wrapper, Handle

-----------------------------------------------------------------------------
LEMMA FerryStep == HandlersInOrder /\ FerryInv /\ [Next]_vars => FerryInv'
BY TypeStep, PassingStep, FillingStep DEF FerryInv

LEMMA FerryAlways == ASSUME HandlersInOrder PROVE Spec => []FerryInv
BY InitFerry, FerryStep, PTL DEF Spec

LEMMA WholeAlways ==
  ASSUME HandlersInOrder, HandlersFillAll
  PROVE  Spec => []WholeInv
<1>1. Init => WholeInv
  BY InitFerry, NothingAssumption DEF Init, WholeInv, Whole, Producing, Result
<1>2. WholeInv /\ [Next]_vars => WholeInv'
  BY FerryStep, WholeStep, ProducingStep DEF WholeInv
<1> QED
  BY <1>1, <1>2, PTL DEF Spec

(* The variables keep their types, whatever fails.                         *)
THEOREM FerryTypeCorrect == ASSUME HandlersInOrder PROVE Spec => []TypeOK
<1>1. FerryInv => TypeOK
  BY DEF FerryInv
<1> QED
  BY <1>1, FerryAlways, PTL

(* Whatever fails, and whether or not the handlers fill their structs, the *)
(* trusted application holds no memory between two commands.               *)
THEOREM NothingHeld == ASSUME HandlersInOrder PROVE Spec => []NothingLeft
<1>1. FerryInv => NothingLeft
  BY DEF FerryInv, Filling, InTa, NothingLeft
<1> QED
  BY <1>1, FerryAlways, PTL

(* When the handlers fill their structs, the trusted application stops for *)
(* lack of memory only: neither wrapper follows a pointer that is not set. *)
THEOREM StopsForLackOfMemory ==
  ASSUME HandlersInOrder, HandlersFillAll
  PROVE  Spec => []CrashHasCause
<1>1. WholeInv => CrashHasCause
  BY DEF WholeInv, Whole, CrashHasCause
<1> QED
  BY <1>1, WholeAlways, PTL

(* After a success the shared region holds, whole, the struct the handler  *)
(* has filled in this call.                                                *)
THEOREM SuccessWhole ==
  ASSUME HandlersInOrder, HandlersFillAll
  PROVE  Spec => []SuccessIsWhole
<1>1. WholeInv => SuccessIsWhole
  BY DEF WholeInv, Producing, SuccessIsWhole
<1> QED
  BY <1>1, WholeAlways, PTL

(* The host leaves the region in the one action that can take it there.    *)
LEMMA HostStep ==
  ASSUME WholeInv, HostFaultHasCause, [Next]_vars
  PROVE  HostFaultHasCause'
<1>1. CASE HostReceiveFaults
  <2>1. ASSUME result = "SUCCESS", Matched(call) PROVE Fits
    <3>1. point = "returned" /\ Out /\ call \in Calls
      BY <1>1 DEF HostReceiveFaults, Goto, WholeInv, FerryInv, Passing
    <3>2. out_region = Typed(OutType(call), outcome.out) /\ outcome.out \in Values
      BY <2>1, <3>1 DEF WholeInv, Producing
    <3> QED
      BY <2>1, <3>1, <3>2, FerryAssumption, NothingAssumption DEF Fits, Typed, Matched
  <2> QED
    BY <1>1, <2>1 DEF HostReceiveFaults, HostFaultHasCause, host
<1>2. CASE ~ HostReceiveFaults
  <2>1. point' = "crashed" => UNCHANGED <<point, result, call>>
    BY <1>2 DEF Next, Proceed, Library, Wrapper, Handle, Invoke, TransportFails, TargetDead,
      Reject, Dispatch, TaReceive, TaReceiveShort, TaReceiveMistyped, Receive, TaReceiveFaults, ReadFaults, ReadStruct,
      AssignMember, AllocMember, AllocFails, AllocUncheckedFails, NoData, Succeed, TaSend,
      SendFaults, TaFree, FreeFaults, FinishIn, FinishNative, HostReceive,
      HostReceiveGarbled, FreeGot, vars, host, Goto, Return, Die, HandlerReturns, NextStatement,
      AtStatement, Finish
  <2> QED
    BY <2>1 DEF HostFaultHasCause
<1> QED
  BY <1>1, <1>2

(* The host is led out of the region only by a call that failed, unless it *)
(* has no memory itself.                                                   *)
THEOREM HostLedAstray ==
  ASSUME HandlersInOrder, HandlersFillAll
  PROVE  Spec => []HostFaultHasCause
<1>1. Init => HostFaultHasCause
  BY DEF Init, HostFaultHasCause
<1> QED
  BY <1>1, WholeAlways, HostStep, PTL DEF Spec

-----------------------------------------------------------------------------
(* What a step of a call changes, for a user of the session.               *)
LEMMA CallSteps ==
  ASSUME FerryInv, Proceed \/ TransportFails
  PROVE  /\ UNCHANGED <<call, arg>>
         /\ result' = "NO_DATA" => result' = result \/ NoData
         /\ result' = "BAD_PARAMETERS" => result' = result \/ Reject
         /\ outcome' = outcome \/ (point = "handle" /\ outcome'.out = reply)
<1>1. CASE TransportFails
  BY <1>1 DEF TransportFails, Return, host, secure
<1>2. CASE Library
  BY <1>2 DEF Library, TargetDead, Return, FinishIn, FinishNative, HostReceive,
    HostReceiveGarbled, HostReceiveFaults, Finish, host, secure
<1>3. CASE Wrapper
  BY <1>3 DEF Wrapper, Reject, Dispatch, TaReceive, TaReceiveShort, TaReceiveMistyped, Receive, TaReceiveFaults, TaSend,
    SendFaults, TaFree, FreeFaults, Return, Die, host, secure
<1>4. CASE Handle
  <2>1. CASE AllocFails
    BY <2>1 DEF AllocFails, AtStatement, HandlerReturns, host
  <2>2. CASE NoData
    BY <2>2 DEF NoData, AtStatement, HandlerReturns, host
  <2>3. CASE Succeed
    BY <2>3 DEF Succeed, HandlerReturns, host
  <2>4. CASE ReadFaults \/ AllocUncheckedFails
    BY <2>4 DEF ReadFaults, AllocUncheckedFails, Die, Return, host
  <2>5. CASE ReadStruct \/ AssignMember \/ AllocMember
    BY <2>5 DEF ReadStruct, AssignMember, AllocMember, NextStatement, host
  <2> QED
    BY <1>4, <2>1, <2>2, <2>3, <2>4, <2>5 DEF Handle
<1> QED
  BY <1>1, <1>2, <1>3, <1>4 DEF Proceed

(* A handler that checks what it gets is given what the host sent, if that *)
(* comes in a struct that arrives whole or not at all.                     *)
LEMMA SeenSteps ==
  ASSUME FerryInv, Proceed \/ TransportFails, point' = "handle"
  PROVE  \/ point = "handle" /\ seen' = seen
         \/ seen' = arg
         \/ OfKind({"cstring", "buffer"}, InType(call)) # {} /\ call.in # "value"
         \/ ~ Matched(call)
<1>1. CASE Dispatch
  <2>1. ~ In /\ call \in Calls /\ Understood(call) /\ point = "invoke"
    BY <1>1 DEF Dispatch, Goto, FerryInv, Passing
  <2>2. /\ InType(call) \in {"none", "value"}
        /\ InType(call) = call.in
    BY <2>1, Parameters DEF In, Struct
  <2> QED
    BY <1>1, <2>1, <2>2 DEF Dispatch, FerryInv, Passing
<1>2. CASE TaReceive
  BY <1>2 DEF TaReceive, Receive, Goto, FerryInv, Passing, InTa, Typed
<1>3. CASE TaReceiveShort
  <2>1. In /\ call \in Calls
    BY <1>3 DEF TaReceiveShort, Receive, Goto, FerryInv, Passing
  <2>2. call.in # "value"
    BY <2>1, FerryAssumption DEF In, InParameters, Struct
  <2>3. OfKind({"cstring", "buffer"}, InType(call)) # {}
    BY <1>3 DEF TaReceiveShort
  <2> QED
    BY <2>2, <2>3
<1>6. CASE TaReceiveMistyped
  BY <1>6 DEF TaReceiveMistyped, Goto, FerryInv, Passing, InTa, Typed, Matched
<1>4. CASE ReadStruct \/ AssignMember \/ AllocMember
  BY <1>4 DEF ReadStruct, AssignMember, AllocMember, AtStatement, NextStatement
<1>5. CASE ~ (Dispatch \/ TaReceive \/ TaReceiveShort \/ TaReceiveMistyped \/ ReadStruct
              \/ AssignMember \/ AllocMember)
  BY <1>5 DEF Proceed, Library, Wrapper, Handle, TransportFails, TargetDead, Reject,
    TaReceiveFaults, ReadFaults, AllocFails, AllocUncheckedFails, NoData, Succeed, TaSend,
    SendFaults, TaFree, FreeFaults, FinishIn, FinishNative, HostReceive, HostReceiveGarbled,
    HostReceiveFaults, Goto, Return, Die, HandlerReturns, Finish
<1> QED
  BY <1>1, <1>2, <1>3, <1>4, <1>5, <1>6

(* Only reading another struct, or lack of memory, goes wrong. *)
LEMMA FaultSteps ==
  ASSUME FerryInv, Proceed \/ TransportFails
  PROVE  faults' \subseteq faults \cup {"memory"} \/ ~ Matched(call)
<1>1. CASE TransportFails \/ Library
  BY <1>1 DEF TransportFails, Library, TargetDead, FinishIn, FinishNative, HostReceive,
    HostReceiveGarbled, HostReceiveFaults, Finish, secure
<1>2. CASE TaReceiveMistyped \/ TaReceiveFaults
  <2>1. in_region = Typed(call.in, arg)
    BY <1>2 DEF TaReceiveMistyped, TaReceiveFaults, Goto, FerryInv, Passing, InTa
  <2> QED
    BY <1>2, <2>1 DEF TaReceiveMistyped, TaReceiveFaults, Typed, Matched
<1>3. CASE Wrapper /\ ~ (TaReceiveMistyped \/ TaReceiveFaults)
  BY <1>3 DEF Wrapper, Reject, Dispatch, TaReceive, TaReceiveShort, TaSend, SendFaults, TaFree,
    FreeFaults, secure
<1>4. CASE Handle
  BY <1>4 DEF Handle, ReadFaults, ReadStruct, AssignMember, AllocMember, AllocFails,
    AllocUncheckedFails, NoData, Succeed
<1> QED
  BY <1>1, <1>2, <1>3, <1>4 DEF Proceed

-----------------------------------------------------------------------------
(* A call is a remote call.                                                *)
requestBar == IF point = "idle" THEN Nothing ELSE [call |-> call, arg |-> arg]
answerBar ==
  IF point = "idle" THEN [result |-> result, out |-> got]
  ELSE [result |-> Nothing, out |-> Nothing]
remoteVars == <<requestBar, outcome, answerBar>>

(* What the handler of a command returns is one of its outcomes: it was    *)
(* given what the host sent, and refused it only if it had to.             *)
LEMMA Executes ==
  ASSUME HandlersInOrder, HandlersFillAll, WholeInv, point = "handle",
         \/ stmt > Len(Body) /\ HandlerReturns("SUCCESS")
         \/ NoData
         \/ AllocFails
  PROVE  outcome' \in Produced[[call |-> call, arg |-> arg]]
<1> DEFINE q == [call |-> call, arg |-> arg]
           o == outcome'
           Out0 == IF OutType(call) = "none" THEN {Nothing} ELSE Commands[call.cmd].replies
<1>1. call \in Calls /\ arg \in Args[call] /\ Understood(call)
  BY DEF WholeInv, FerryInv, Passing, InTa
<1>2. /\ stmt \in 1 .. Len(Body) + 1
      /\ DOMAIN Body = 1 .. Len(Body)
  BY HandlerKnown DEF WholeInv
<1>3. \E r \in {"SUCCESS", "NO_DATA", "OUT_OF_MEMORY"} :
         /\ o = [in |-> seen, result |-> r, out |-> reply]
         /\ r = "SUCCESS" => Accepts(call, seen)
         /\ r = "NO_DATA" => Refuses(call, seen)
         /\ r = "OUT_OF_MEMORY" => TaMayBeShort
  <2>1. CASE stmt > Len(Body) /\ HandlerReturns("SUCCESS")
    <3>1. 1 .. stmt - 1 = DOMAIN Body
      BY <1>2, <2>1
    <3>2. Accepts(call, seen)
      BY <1>1, <3>1 DEF WholeInv, Producing, Accepts, Expected, Body
    <3> QED
      BY <1>1, <2>1, <3>2 DEF HandlerReturns
  <2>2. CASE NoData
    <3>1. stmt \in DOMAIN Body /\ Body[stmt].do = "expect" /\ Body[stmt].value # seen
      BY <1>1, <1>2, <2>2 DEF NoData, AtStatement, Current
    <3>2. Refuses(call, seen)
      BY <3>1 DEF Refuses, Expected, Body
    <3> QED
      BY <1>1, <2>2, <3>2 DEF NoData, HandlerReturns
  <2>3. CASE AllocFails
    BY <2>3 DEF AllocFails, HandlerReturns
  <2> QED
    BY <2>1, <2>2, <2>3
<1>4. reply \in Out0
  BY DEF WholeInv, FerryInv, Passing, InTa
<1>5. q \in Asked
  BY <1>1 DEF Asked
<1>6. seen \in Rebuilt(arg, TaMayBeShort \/ ~ Matched(call))
  BY DEF WholeInv, FerryInv, Passing, Rebuilt
<1>7. Produced[q] = {p \in [in : Rebuilt(arg, TaMayBeShort \/ ~ Matched(call)),
                            result : {"SUCCESS", "NO_DATA", "OUT_OF_MEMORY"}, out : Out0] :
                      /\ p.result = "SUCCESS" => Accepts(call, p.in)
                      /\ p.result = "NO_DATA" => Refuses(call, p.in)
                      /\ p.result = "OUT_OF_MEMORY" => TaMayBeShort}
  BY <1>1, <1>5 DEF Produced
<1> HIDE DEF Out0, o, q
<1> QED
  BY <1>3, <1>4, <1>6, <1>7 DEF o, q

(* What a call that returns hands to the host is what was executed, when   *)
(* it returns success.                                                     *)
Unsure == HostMayBeShort \/ (Understood(call) /\ ~ Matched(call))

LEMMA Answers ==
  ASSUME WholeInv, point = "returned", NEW v \in Values \cup {Nothing, Garbled}, Finish(v),
         result = "SUCCESS" => v \in Rebuilt(outcome.out, Unsure)
  PROVE  Remote!Answer
<1>1. result \in Result /\ call \in Calls /\ arg \in Values \cup {Nothing}
  BY DEF WholeInv, FerryInv, TypeOK, Passing
<1>2. result = "SUCCESS" => outcome # Nothing /\ outcome.result = result
  BY DEF WholeInv, Producing
<1>3. point' = "idle" /\ got' = v /\ UNCHANGED <<call, arg, result, outcome>>
  BY DEF Finish, secure
<1>4. requestBar # Nothing
  BY <1>1, NothingAssumption DEF requestBar
<1>5. result = "SUCCESS" => outcome.out \in Values \cup {Nothing}
  BY DEF WholeInv, Producing
<1>6. [call |-> call, arg |-> arg] \in Asked
  BY DEF WholeInv, FerryInv, Passing, Asked
<1>7. result = "SUCCESS" => v \in [q \in Asked |-> [t \in Values \cup {Nothing} |->
        Rebuilt(t, HostMayBeShort \/ (Understood(q.call) /\ ~ Matched(q.call)))]]
          [[call |-> call, arg |-> arg]][outcome.out]
  BY <1>5, <1>6 DEF Unsure
<1> QED
  BY <1>1, <1>2, <1>3, <1>4, <1>7 DEF Remote!Answer, requestBar

LEMMA Finishes ==
  ASSUME WholeInv,
         FinishIn \/ FinishNative \/ HostReceive \/ HostReceiveGarbled
  PROVE  \E v \in Values \cup {Nothing, Garbled} :
           /\ point = "returned" /\ Finish(v)
           /\ result = "SUCCESS" => v \in Rebuilt(outcome.out, Unsure)
<1> USE DEF Rebuilt
<1>1. CASE FinishIn
  BY <1>1 DEF FinishIn, WholeInv, Producing
<1>2. CASE FinishNative
  <2>1. op \in Values \cup {Nothing}
    BY DEF WholeInv, FerryInv, TypeOK
  <2> QED
    BY <1>2, <2>1 DEF FinishNative, WholeInv, Producing
<1>3. CASE HostReceive
  <2>1. point = "returned" /\ Finish(out_region.value) /\ out_region.value \in Values
    BY <1>3 DEF HostReceive, Fits, WholeInv, FerryInv, TypeOK
  <2>2. result = "SUCCESS" => out_region.value = outcome.out
    BY <1>3 DEF HostReceive, WholeInv, Producing, Typed
  <2> QED
    BY <2>1, <2>2
<1>4. CASE HostReceiveGarbled
  <2>1. /\ point = "returned" /\ Out /\ Finish(Garbled) /\ call \in Calls
        /\ Fits => HostMayBeShort
    BY <1>4 DEF HostReceiveGarbled, WholeInv, FerryInv, Passing
  <2>2. ~ Fits => result # "SUCCESS" \/ Unsure
    BY <2>1, FerryAssumption, NothingAssumption
    DEF WholeInv, Producing, Fits, Typed, Matched, Unsure
  <2> QED
    BY <2>1, <2>2 DEF Unsure
<1> QED
  BY <1>1, <1>2, <1>3, <1>4

LEMMA RemoteSteps ==
  ASSUME HandlersInOrder, HandlersFillAll, WholeInv, [Next]_vars
  PROVE  [Remote!Next]_remoteVars
<1> USE DEF host, regions, secure
<1>1. ASSUME NEW c \in Calls, NEW v \in Args[c], Invoke(c, v)
      PROVE  [Remote!Next]_remoteVars
  <2>1. [call |-> c, arg |-> v] \in Asked
    BY DEF Asked
  <2>2. Remote!Request
    BY <1>1, <2>1 DEF Invoke, Goto, Remote!Request, Remote!NoAnswer
  <2> QED
    BY <2>1, <2>2 DEF Remote!Next
<1>2. CASE TransportFails
  BY <1>2 DEF TransportFails, Return, remoteVars, requestBar, answerBar
<1>3. CASE TargetDead
  BY <1>3 DEF TargetDead, Return, remoteVars, requestBar, answerBar
<1>4. CASE Reject
  BY <1>4 DEF Reject, Return, remoteVars, requestBar, answerBar
<1>5. CASE Dispatch
  BY <1>5 DEF Dispatch, Goto, remoteVars, requestBar, answerBar
<1>6. CASE TaReceive
  BY <1>6 DEF TaReceive, Receive, Goto, remoteVars, requestBar, answerBar
<1>7. CASE TaReceiveShort
  BY <1>7 DEF TaReceiveShort, Receive, Goto, remoteVars, requestBar, answerBar
<1>28. CASE TaReceiveMistyped
  BY <1>28 DEF TaReceiveMistyped, Receive, Goto, remoteVars, requestBar, answerBar
<1>8. CASE TaReceiveFaults
  BY <1>8 DEF TaReceiveFaults, Die, Return, remoteVars, requestBar, answerBar
<1>9. CASE ReadFaults
  BY <1>9 DEF ReadFaults, Die, Return, AtStatement, remoteVars, requestBar, answerBar
<1>10. CASE ReadStruct
  BY <1>10 DEF ReadStruct, AtStatement, NextStatement, remoteVars, requestBar, answerBar
<1>11. CASE AssignMember
  BY <1>11 DEF AssignMember, AtStatement, NextStatement, remoteVars, requestBar, answerBar
<1>12. CASE AllocMember
  BY <1>12 DEF AllocMember, AtStatement, NextStatement, remoteVars, requestBar, answerBar
<1>13. CASE AllocFails
  <2>1. point = "handle" /\ outcome' \in Produced[[call |-> call, arg |-> arg]]
    BY <1>13, Executes DEF AllocFails, AtStatement
  <2>2. outcome = Nothing /\ call \in Calls /\ arg \in Values \cup {Nothing}
    BY <2>1 DEF WholeInv, FerryInv, TypeOK, Passing
  <2>3. point' # "idle" /\ UNCHANGED <<call, arg>>
    BY <1>13 DEF AllocFails, HandlerReturns
  <2>4. Remote!Execute
    BY <2>1, <2>2, <2>3, NothingAssumption DEF Remote!Execute
  <2> QED
    BY <2>4 DEF Remote!Next
<1>14. CASE AllocUncheckedFails
  BY <1>14 DEF AllocUncheckedFails, AtStatement, Die, Return, remoteVars, requestBar, answerBar
<1>15. CASE NoData
  <2>1. point = "handle" /\ outcome' \in Produced[[call |-> call, arg |-> arg]]
    BY <1>15, Executes DEF NoData, AtStatement, Succeed
  <2>2. outcome = Nothing /\ call \in Calls /\ arg \in Values \cup {Nothing}
    BY <2>1 DEF WholeInv, FerryInv, TypeOK, Passing
  <2>3. point' # "idle" /\ UNCHANGED <<call, arg>>
    BY <1>15 DEF NoData, HandlerReturns
  <2>4. Remote!Execute
    BY <2>1, <2>2, <2>3, NothingAssumption DEF Remote!Execute
  <2> QED
    BY <2>4 DEF Remote!Next
<1>16. CASE Succeed
  <2>1. point = "handle" /\ outcome' \in Produced[[call |-> call, arg |-> arg]]
    BY <1>16, Executes DEF NoData, AtStatement, Succeed
  <2>2. outcome = Nothing /\ call \in Calls /\ arg \in Values \cup {Nothing}
    BY <2>1 DEF WholeInv, FerryInv, TypeOK, Passing
  <2>3. point' # "idle" /\ UNCHANGED <<call, arg>>
    BY <1>16 DEF Succeed, HandlerReturns
  <2>4. Remote!Execute
    BY <2>1, <2>2, <2>3, NothingAssumption DEF Remote!Execute
  <2> QED
    BY <2>4 DEF Remote!Next
<1>17. CASE TaSend
  BY <1>17 DEF TaSend, Goto, remoteVars, requestBar, answerBar
<1>18. CASE SendFaults
  BY <1>18 DEF SendFaults, remoteVars, requestBar, answerBar
<1>19. CASE TaFree
  BY <1>19 DEF TaFree, Goto, remoteVars, requestBar, answerBar
<1>20. CASE FreeFaults
  BY <1>20 DEF FreeFaults, Die, Return, remoteVars, requestBar, answerBar
<1>21. CASE FinishIn
  BY <1>21, Finishes, Answers DEF Remote!Next
<1>22. CASE FinishNative
  BY <1>22, Finishes, Answers DEF Remote!Next
<1>23. CASE HostReceive
  BY <1>23, Finishes, Answers DEF Remote!Next
<1>24. CASE HostReceiveGarbled
  BY <1>24, Finishes, Answers DEF Remote!Next
<1>25. CASE HostReceiveFaults
  BY <1>25 DEF HostReceiveFaults, Goto, remoteVars, requestBar, answerBar
<1>26. CASE FreeGot
  <2>1. Remote!Free
    BY <1>26 DEF FreeGot, Remote!Free
  <2> QED
    BY <2>1 DEF Remote!Next
<1>27. CASE UNCHANGED vars
  BY <1>27 DEF vars, remoteVars, requestBar, answerBar
<1> QED
  BY <1>1, <1>2, <1>3, <1>4, <1>5, <1>6, <1>7, <1>8, <1>9, <1>10, <1>11, <1>12, <1>13, <1>14,
     <1>15, <1>16, <1>17, <1>18, <1>19, <1>20, <1>21, <1>22, <1>23, <1>24, <1>25, <1>26, <1>27, <1>28
  DEF Next, Proceed, Library, Wrapper, Handle

(* A command that answers with success was executed once, on what the host *)
(* sent, and the host gets what this execution filled in: nothing of an    *)
(* earlier call, and nothing of a call whose result was lost on the way.   *)
(* Only a world without memory, or with another idea of a call's structs,  *)
(* may find anything in a struct.                                          *)
THEOREM CallsAreRemote ==
  ASSUME HandlersInOrder, HandlersFillAll
  PROVE  Spec => ImplementsRemoteCall
<1>1. Init => Remote!Init
  BY DEF Init, Remote!Init, Remote!NoAnswer
<1>2. WholeInv /\ [Next]_vars => [Remote!Next]_remoteVars
  BY RemoteSteps
<1> QED
  BY <1>1, <1>2, WholeAlways, PTL
  DEF Spec, ImplementsRemoteCall, Remote!Spec, remoteVars, requestBar, answerBar

-----------------------------------------------------------------------------
(* The struct of a call, in the region and in the handler's hands, is one  *)
(* transfer of a channel.                                                  *)
inRegion == IF InTa /\ In THEN [sent |-> in_region, as |-> InType(call)] ELSE Nothing
inHands ==
  IF ~ InTa \/ point = "receive" \/ ~ In THEN Nothing
  ELSE IF seen = Garbled THEN Garbled ELSE Sending(call, seen)
inBlocks == {b[2] : b \in {x \in heap : x[1] = "in"}}
inwardVars == <<inRegion, inHands, inBlocks>>

(* What the channel has of a struct while the call is in the application.  *)
LEMMA InwardKnown ==
  ASSUME FerryInv, InTa, In
  PROVE  /\ call \in Calls /\ arg \in Args[call] /\ arg \in Values
         /\ in_region = Typed(call.in, arg)
         /\ inRegion = Sending(call, arg)
         /\ inRegion \in Offered
         /\ inRegion \notin {Nothing, Garbled}
         /\ inRegion.as = InType(call) /\ inRegion.sent.type = in_region.type
<1>1. call \in Calls /\ arg \in Args[call] /\ in_region = Typed(call.in, arg)
  BY DEF FerryInv, Passing, InTa
<1>2. /\ Struct(call.in) /\ arg \in Values /\ call.in \in STRING /\ InType(call) \in STRING
      /\ Understood(call)
  BY <1>1, TaParameters, FerryAssumption DEF Struct, InType, Understood
<1>3. inRegion = Sending(call, arg)
  BY <1>1 DEF inRegion, Sending
<1>4. Sending(call, arg) \in Offered
  BY <1>1, <1>2 DEF Offered
<1>5. Sending(call, arg) \notin {Nothing, Garbled}
  BY <1>1, <1>2, NothingAssumption DEF Sending, Typed
<1> QED
  BY <1>1, <1>2, <1>3, <1>4, <1>5 DEF Sending

(* The blocks of the struct it is sent are apart from those a handler      *)
(* allocates, and without such a struct there are none.                    *)
LEMMA InBlocksOnly ==
  ASSUME NEW S, heap' = heap \cup Blocks("out", S)
  PROVE  inBlocks' = inBlocks
<1>1. \A b \in Blocks("out", S) : b[1] # "in"
  BY DEF Blocks
<1>2. {x \in heap' : x[1] = "in"} = {x \in heap : x[1] = "in"}
  BY <1>1
<1> QED
  BY <1>2, Zenon DEF inBlocks

LEMMA InBlocksReceived ==
  ASSUME NEW S, heap = {}, heap' = heap \cup Blocks("in", S)
  PROVE  inBlocks = {} /\ inBlocks' = S
<1>1. \A s \in S : <<"in", s>>[1] = "in" /\ <<"in", s>>[2] = s
  OBVIOUS
<1>2. {x \in heap' : x[1] = "in"} = {<<"in", s>> : s \in S}
  BY <1>1 DEF Blocks
<1>3. inBlocks' = {b[2] : b \in {<<"in", s>> : s \in S}}
  BY <1>2, Zenon DEF inBlocks
<1>4. {b[2] : b \in {<<"in", s>> : s \in S}} = S
  BY <1>1
<1>5. inBlocks = {}
  BY DEF inBlocks
<1> QED
  BY <1>3, <1>4, <1>5

LEMMA NoInBlocks ==
  ASSUME FerryInv, ~ InTa \/ ~ In
  PROVE  inBlocks = {}
<1>1. CASE heap = {}
  BY <1>1 DEF inBlocks
<1>2. CASE heap # {}
  <2>1. InTa /\ heap \subseteq Freed
    BY <1>2 DEF FerryInv, Filling
  <2>2. \A b \in Freed : b[1] = "out"
    BY <2>1 DEF Freed, Blocks
  <2> QED
    BY <2>1, <2>2 DEF inBlocks
<1> QED
  BY <1>1, <1>2

(* Nothing changes for the channel while the call is outside, nor while    *)
(* the handler works on its own struct.                                    *)
LEMMA Outside ==
  ASSUME ~ InTa, ~ InTa', UNCHANGED heap
  PROVE  UNCHANGED inwardVars
BY DEF inwardVars, inRegion, inHands, inBlocks

LEMMA InHands ==
  ASSUME FerryInv, point \in {"handle", "send", "free"},
         point' \in {"handle", "send", "free"}, UNCHANGED <<call, in_region, seen, inBlocks>>
  PROVE  UNCHANGED inwardVars
BY DEF inwardVars, inRegion, inHands, InTa, In

(* Whoever ends the call gives the struct back. *)
LEMMA GivesBack ==
  ASSUME FerryInv, point \in {"handle", "send", "free"}, point' = "returned", heap' = {}
  PROVE  [Inward!Next]_inwardVars
<1>1. inRegion' = Nothing /\ inHands' = Nothing /\ inBlocks' = {}
  BY DEF inRegion, inHands, inBlocks, InTa
<1>2. CASE In
  <2>1. seen = Garbled \/ seen = arg
    BY DEF FerryInv, Passing
  <2>2. inHands # Nothing
    <3>1. Sending(call, arg) # Nothing
      BY <1>2, InwardKnown DEF InTa
    <3> QED
      BY <1>2, <2>1, <3>1, NothingAssumption DEF inHands, InTa
  <2>3. Inward!Release
    BY <1>1, <2>2 DEF Inward!Release, inRegion, inHands, inBlocks
  <2> QED
    BY <2>3 DEF Inward!Next
<1>3. CASE ~ In
  <2>1. inBlocks = {}
    BY <1>3, NoInBlocks
  <2> QED
    BY <1>1, <1>3, <2>1 DEF inwardVars, inRegion, inHands
<1> QED
  BY <1>2, <1>3

LEMMA InwardReceives ==
  ASSUME FerryInv, TaReceive \/ TaReceiveShort \/ TaReceiveMistyped
  PROVE  Inward!Deliver \/ Inward!DeliverBroken
<1> DEFINE type == InType(call)
<1>1. point = "receive" /\ point' = "handle" /\ UNCHANGED <<call, in_region>> /\ In /\ In'
  BY DEF TaReceive, TaReceiveShort, TaReceiveMistyped, Receive, Goto, FerryInv, Passing, host,
    regions, In
<1>2. /\ arg \in Values /\ in_region = Typed(call.in, arg)
      /\ inRegion = Sending(call, arg) /\ inRegion \in Offered
      /\ inRegion \notin {Nothing, Garbled}
      /\ inRegion.as = type /\ inRegion.sent.type = in_region.type
  BY <1>1, InwardKnown DEF InTa
<1>3. heap = {}
  BY <1>1 DEF FerryInv, Filling
<1>4. inRegion' = inRegion /\ inHands = Nothing
  BY <1>1 DEF inRegion, inHands, InTa
<1>5. Inward!Pending
  BY <1>2, <1>4 DEF Inward!Pending, inRegion, inHands
<1>6. CASE TaReceive
  <2>1. inBlocks' = Pointers(type)
    BY <1>3, <1>6, InBlocksReceived DEF TaReceive, Receive
  <2>2. seen' = arg
    BY <1>2, <1>6 DEF TaReceive, Typed
  <2>3. inHands' = inRegion
    BY <1>1, <1>2, <2>2, NothingAssumption DEF inHands, InTa
  <2> QED
    BY <1>2, <1>4, <1>5, <2>1, <2>3 DEF Inward!Deliver, inRegion, inHands, inBlocks
<1>7. CASE TaReceiveShort \/ TaReceiveMistyped
  <2>1. PICK missing \in SUBSET OfKind({"cstring", "buffer"}, type) :
           /\ heap' = heap \cup Blocks("in", Pointers(type) \ missing)
           /\ inRegion.as # inRegion.sent.type \/ (TaMayBeShort /\ missing # {})
    BY <1>2, <1>7 DEF TaReceiveShort, TaReceiveMistyped, Receive
  <2>2. inBlocks' = Pointers(type) \ missing
    BY <1>3, <2>1, InBlocksReceived
  <2>3. inHands' = Garbled
    BY <1>1, <1>7 DEF TaReceiveShort, TaReceiveMistyped, inHands, InTa
  <2>4. inRegion \notin {m \in Offered : m.as = m.sent.type} \/ (TaMayBeShort /\ missing # {})
    BY <2>1
  <2> QED
    BY <1>2, <1>4, <1>5, <2>1, <2>2, <2>3, <2>4
    DEF Inward!DeliverBroken, inRegion, inHands, inBlocks
<1> QED
  BY <1>6, <1>7

LEMMA InwardSteps ==
  ASSUME HandlersInOrder, FerryInv, [Next]_vars
  PROVE  [Inward!Next]_inwardVars
<1> USE DEF host, regions, frame, secure
<1>1. CASE \/ \E c \in Calls : \E v \in Args[c] : Invoke(c, v)
           \/ TransportFails \/ TargetDead \/ Reject
           \/ FinishIn \/ FinishNative \/ HostReceive \/ HostReceiveGarbled
           \/ HostReceiveFaults \/ FreeGot
  <2>1. ~ InTa /\ ~ InTa' /\ UNCHANGED heap
    BY <1>1 DEF InTa, Invoke, Goto, TransportFails, TargetDead, Reject, Return, FinishIn,
      FinishNative, HostReceive, HostReceiveGarbled, HostReceiveFaults, Finish, FreeGot
  <2> QED
    BY <2>1, Outside
<1>2. CASE Dispatch
  <2>1. point = "invoke" /\ UNCHANGED <<call, in_region, heap>>
    BY <1>2 DEF Dispatch, Goto
  <2>2. inRegion = Nothing /\ inHands = Nothing /\ inBlocks' = inBlocks
    BY <2>1 DEF inRegion, inHands, inBlocks, InTa
  <2>3. CASE In
    <3>1. point' = "receive" /\ In'
      BY <1>2, <2>1, <2>3 DEF Dispatch, Goto, In
    <3>2. /\ call \in Calls /\ arg \in Args[call] /\ in_region = Typed(call.in, arg)
          /\ Understood(call)
      BY <1>2, <2>1, <2>3 DEF Dispatch, FerryInv, Passing
    <3>3. inRegion' = Sending(call, arg) /\ inHands' = Nothing
      BY <2>1, <3>1, <3>2 DEF inRegion, inHands, InTa, Sending
    <3>4. Sending(call, arg) \in Offered
      BY <2>3, <3>2, Parameters DEF Offered, In
    <3>5. Inward!Offer(Sending(call, arg))
      BY <2>2, <3>3 DEF Inward!Offer, inRegion, inHands, inBlocks
    <3> QED
      BY <3>4, <3>5 DEF Inward!Next
  <2>4. CASE ~ In
    <3>1. ~ In'
      BY <2>1, <2>4 DEF In
    <3> QED
      BY <2>2, <3>1 DEF inwardVars, inRegion, inHands
  <2> QED
    BY <2>3, <2>4
<1>3. CASE TaReceive \/ TaReceiveShort \/ TaReceiveMistyped
  BY <1>3, InwardReceives DEF Inward!Next
<1>4. CASE TaReceiveFaults
  <2>1. /\ point = "receive" /\ point' = "returned" /\ heap' = {}
        /\ TaMayBeShort \/ in_region.type # InType(call)
        /\ Pointers(InType(call)) # {} /\ In /\ heap = {}
    BY <1>4 DEF TaReceiveFaults, Die, Return, FerryInv, Passing, Filling
  <2>2. /\ inRegion \in Offered /\ inRegion # Nothing
        /\ inRegion.as = InType(call) /\ inRegion.sent.type = in_region.type
    BY <2>1, InwardKnown DEF InTa
  <2>3. inHands = Nothing /\ inRegion' = Nothing /\ inHands' = Nothing /\ inBlocks' = inBlocks
    BY <2>1 DEF inRegion, inHands, inBlocks, InTa
  <2>4. Inward!Abort
    BY <2>1, <2>2, <2>3 DEF Inward!Abort, Inward!Pending, inRegion, inHands, inBlocks
  <2> QED
    BY <2>4 DEF Inward!Next
<1>5. CASE ReadStruct \/ AssignMember \/ AllocMember \/ TaSend
  <2>1. /\ point \in {"handle", "send", "free"} /\ point' \in {"handle", "send", "free"}
        /\ UNCHANGED <<call, in_region, seen>>
        /\ heap' = heap \/ heap' = heap \cup Blocks("out", {Current.slot})
    BY <1>5 DEF ReadStruct, AssignMember, AllocMember, TaSend, AtStatement, NextStatement, Goto
  <2>2. inBlocks' = inBlocks
    BY <2>1, InBlocksOnly DEF inBlocks
  <2> QED
    BY <2>1, <2>2, InHands
<1>6. CASE AllocFails \/ NoData \/ Succeed
  <2>1. /\ point = "handle" /\ point' \in {"send", "free", "returned"}
        /\ point' = "returned" => ~ In
        /\ UNCHANGED <<call, in_region, seen, heap>>
    BY <1>6 DEF AllocFails, NoData, Succeed, AtStatement, HandlerReturns
  <2>2. inBlocks' = inBlocks
    BY <2>1 DEF inBlocks
  <2>3. CASE point' = "returned"
    BY <2>1, <2>2, <2>3 DEF inwardVars, inRegion, inHands, InTa
  <2>4. CASE point' # "returned"
    BY <2>1, <2>2, <2>4, InHands
  <2> QED
    BY <2>3, <2>4
<1>7. CASE ReadFaults \/ AllocUncheckedFails \/ SendFaults \/ TaFree \/ FreeFaults
  <2>1. point \in {"handle", "send", "free"} /\ point' = "returned"
    BY <1>7 DEF ReadFaults, AllocUncheckedFails, SendFaults, TaFree, FreeFaults, AtStatement,
      Die, Return, Goto
  <2>2. heap \subseteq Freed
    BY <2>1 DEF FerryInv, Filling, InTa
  <2>3. heap' = {}
    BY <1>7, <2>2 DEF ReadFaults, AllocUncheckedFails, SendFaults, TaFree, FreeFaults, Die
  <2> QED
    BY <2>1, <2>3, GivesBack
<1>8. CASE UNCHANGED vars
  BY <1>8 DEF vars, inwardVars, inRegion, inHands, inBlocks, InTa, In
<1> QED
  BY <1>1, <1>2, <1>3, <1>4, <1>5, <1>6, <1>7, <1>8 DEF Next, Proceed, Library, Wrapper, Handle

(* The struct a command is sent reaches its handler as one transfer of a   *)
(* channel, and is given back before the answer, whatever the commands, in *)
(* whatever order and whatever fails.                                      *)
THEOREM InputIsTransferred == ASSUME HandlersInOrder PROVE Spec => ImplementsInward
<1>1. Init => Inward!Init
  <2> SUFFICES ASSUME Init PROVE Inward!Init
    OBVIOUS
  <2>1. ~ InTa /\ heap = {}
    BY DEF Init, InTa
  <2> QED
    BY <2>1 DEF Inward!Init
<1>2. FerryInv /\ [Next]_vars => [Inward!Next]_inwardVars
  BY InwardSteps
<1> QED
  BY <1>1, <1>2, FerryAlways, PTL
  DEF Spec, ImplementsInward, Inward!Spec, inwardVars, inRegion, inHands, inBlocks
===============================================================================
