--------------------------------- MODULE Ferry ---------------------------------
(***************************************************************************)
(* One session of a host with its trusted application: commands called one *)
(* after the other through the two shared regions.  A call passes          *)
(*   - the host library (lib/sdferry/src/host/call.c), which serializes a  *)
(*     struct into the first region, invokes the command, and rebuilds a   *)
(*     struct from the second;                                             *)
(*   - the dispatcher and the wrapper of the command (ta/register.h),      *)
(*     which receives a struct, runs the handler, sends the struct it      *)
(*     filled and frees the members of both;                               *)
(*   - the handler, which may run out of memory at any allocation.         *)
(* A struct's contents are one value here: how it crosses a region char by *)
(* char is StructCopy.  The structs the host sends have no NULL member and *)
(* fit the region.  Host and wrapper each name the type of a struct, and   *)
(* nothing compares the two: the wrapper checks parameter types only, and  *)
(* reads what lies in the region as its own type.                          *)
(***************************************************************************)
EXTENDS Registry

CONSTANTS
  Commands,      \* what the trusted application does for each command
  Layouts,       \* the structs both worlds register
  Calls, Args,   \* the calls the host makes, and the values it sends in each
  Values,        \* all values that are sent in either direction
  TransportMayFail, TaMayBeShort, HostMayBeShort, \* of memory, the last two
  Nothing, Garbled  \* no value; a value that cannot be told

Result == {"SUCCESS", "NO_DATA", "OUT_OF_MEMORY", "BAD_PARAMETERS",
           "TARGET_DEAD", "COMMUNICATION"}

(* The types a command is registered for; the wrapper compares the         *)
(* parameter types, and the host is to name the same structs (host/call.h, *)
(* lines 38 to 40).                                                        *)
InType(c)  == Commands[c.cmd].in
OutType(c) == Commands[c.cmd].out
Understood(c) == c.cmd \in DOMAIN Commands /\ Commands[c.cmd].params = c.params
Matched(c)    == InType(c) = c.in /\ OutType(c) = c.out

Struct(type) == type \notin {"none", "value"}

(* The library's functions and macros, and the test programs for their own *)
(* values, fill in the parameter types that go with what is moved.         *)
Passes(x, param) == \E i \in DOMAIN x.params : x.params[i] = param
InParameters(x) ==
  /\ Struct(x.in)     <=> x.params[1] = "memref_input"
  /\ Struct(x.out)    <=> Passes(x, "memref_output")
  /\ x.in = "value"   <=> Passes(x, "value_input")
  /\ x.out = "value"  <=> Passes(x, "value_output")

ASSUME FerryAssumption ==
  /\ Calls \subseteq [cmd : STRING, params : Seq(STRING), in : STRING, out : STRING]
  /\ \A c \in Calls :
       /\ Args[c] \subseteq (IF c.in = "none" THEN {Nothing} ELSE Values)
       /\ InParameters(c)
  /\ \A n \in DOMAIN Commands :
       /\ Commands[n].in \in STRING /\ Commands[n].out \in STRING
       /\ InParameters(Commands[n])
       /\ Commands[n].body \in Seq([do : STRING, slot : Nat, value : STRING])
       /\ Commands[n].replies \subseteq Values

ASSUME NothingAssumption ==
  /\ Nothing # Garbled
  /\ {Nothing, Garbled} \cap (Values \cup Result) = {}
  /\ {Nothing, Garbled} \cap [type : STRING, value : Values] = {}
  /\ {Nothing, Garbled} \cap [sent : [type : STRING, value : Values], as : STRING] = {}
  /\ Nothing \notin [call : Calls, arg : Values \cup {Nothing}]
  /\ Nothing \notin [in : Values \cup {Nothing, Garbled}, result : Result,
                    out : Values \cup {Nothing}]

VARIABLES
  point,       \* the point the call has reached
  call, arg,   \* the call, and the value the host sends with it
  in_region, out_region,  \* the shared memory: a typed value or Garbled
  op,          \* the value in the operation's own parameters
  result,      \* of the call
  got,         \* the host's out struct; Nothing when it owns no members
  ta,          \* whether the trusted application is alive
  seen,        \* the struct the handler is given
  thing,       \* the members of the struct the handler fills
  reply,       \* the value it fills it with
  stmt,        \* the next statement of the handler
  heap,        \* the blocks of the trusted application
  outcome,     \* history: what the handler produced in this call
  faults       \* history: what went wrong in the trusted application, an
               \* allocation ("memory") or reading another struct ("type")

regions == <<in_region, out_region, op>>
frame == <<seen, thing, reply, stmt>>
host == <<call, arg, got>>
secure == <<ta, frame, heap, outcome, faults>>
vars == <<point, host, regions, result, secure>>

-----------------------------------------------------------------------------
(* The structs *)

Slots(type) == DOMAIN Layouts[type]
Inner(type, p) == p + 1 .. p + Layouts[type][p].span
Members(type) ==
  IF type = "none" THEN {} ELSE IF type = "value" THEN {1, 2} ELSE Slots(type)
OfKind(kinds, type) == {s \in Slots(type) : Layouts[type][s].type \in kinds}
Pointers(type) == OfKind({"cstring", "buffer", "struct"}, type)
NullOf(kinds, type) == {s \in OfKind(kinds, type) : thing[s] = "zero"}

(* The members the send and the free function get to: none in a nested     *)
(* struct that is NULL.                                                    *)
Reached(type) ==
  {s \in Slots(type) : \A p \in NullOf({"struct"}, type) : s \notin Inner(type, p)}

In  == call.params[1] = "memref_input"
Out == Struct(call.out)
Body == Commands[call.cmd].body
Current == Body[stmt]

Typed(type, value) == [type |-> type, value |-> value]

(* What is live in the trusted application when a struct was received.     *)
Blocks(which, slots) == {<<which, s>> : s \in slots}

-----------------------------------------------------------------------------
Init ==
  /\ point = "idle"
  /\ call = Nothing /\ arg = Nothing
  /\ in_region = Garbled /\ out_region = Garbled /\ op = Nothing
  /\ result = Nothing /\ got = Nothing
  /\ ta = "alive"
  /\ seen = Nothing /\ thing = << >> /\ reply = Nothing /\ stmt = 1
  /\ heap = {}
  /\ outcome = Nothing
  /\ faults = {}

Goto(from, to) == point = from /\ point' = to

-----------------------------------------------------------------------------
(* The host library: the three functions of call.c up to the invocation.   *)
(* A native call has its value in the operation itself, which its caller   *)
(* sets up once for all its calls.                                         *)
Invoke(c, v) ==
  /\ Goto("idle", "invoke")
  /\ call' = c /\ arg' = v
  /\ in_region' = IF c.params[1] = "memref_input" THEN Typed(c.in, v) ELSE in_region
  /\ op' = IF c.in = "value" THEN v
           ELSE IF c.out = "value" /\ c = call THEN op ELSE Nothing
  /\ result' = Nothing /\ got' = Nothing /\ outcome' = Nothing
  /\ UNCHANGED <<out_region, ta, frame, heap, faults>>

(* TEEC_InvokeCommand does not reach the trusted application, does not get *)
(* its result, or finds it dead.                                           *)
Return(r) ==
  /\ point' = "returned"
  /\ result' = r
  /\ UNCHANGED <<host, regions>>

TransportFails ==
  /\ TransportMayFail
  /\ point \in {"invoke", "returned"}
  /\ Return("COMMUNICATION")
  /\ UNCHANGED secure

TargetDead ==
  /\ point = "invoke"
  /\ ta = "dead"
  /\ Return("TARGET_DEAD")
  /\ UNCHANGED secure

-----------------------------------------------------------------------------
(* The trusted application: dispatcher and wrapper.                        *)

(* It stops; its memory is gone, the call and all later ones get an error. *)
Die ==
  /\ Return("TARGET_DEAD")
  /\ ta' = "dead"
  /\ heap' = {}
  /\ UNCHANGED <<frame, outcome>>

Reject ==
  /\ point = "invoke"
  /\ ta = "alive"
  /\ ~ Understood(call)
  /\ Return("BAD_PARAMETERS")
  /\ UNCHANGED secure

(* A command that gets no struct goes straight to its handler.             *)
Dispatch ==
  /\ Goto("invoke", IF In THEN "receive" ELSE "handle")
  /\ ta = "alive"
  /\ Understood(call)
  /\ seen' = IF InType(call) = "value" THEN op ELSE Nothing
  /\ thing' = [s \in Members(OutType(call)) |-> "undefined"]
  /\ IF OutType(call) = "none" THEN reply' = Nothing ELSE reply' \in Commands[call.cmd].replies
  /\ stmt' = 1
  /\ UNCHANGED <<host, regions, result, ta, heap, outcome, faults>>

(* SDFERRY_RECEIVE_STRUCT with the wrapper's type.  Without memory some of *)
(* the struct's blocks are missing, and what is read behind a missing one  *)
(* is anything; so is a struct of another type, whose lengths are those of *)
(* blocks there may be no memory for.  A missing nested struct, or a       *)
(* length read from anywhere, stops the application.                       *)
Receive(missing) ==
  /\ heap' = heap \cup Blocks("in", Pointers(InType(call)) \ missing)
  /\ UNCHANGED <<host, regions, result, ta, thing, reply, stmt, outcome>>

TaReceive ==
  /\ Goto("receive", "handle")
  /\ in_region.type = InType(call)
  /\ Receive({})
  /\ seen' = in_region.value
  /\ UNCHANGED faults

TaReceiveShort ==
  /\ TaMayBeShort
  /\ Goto("receive", "handle")
  /\ in_region.type = InType(call)
  /\ \E missing \in (SUBSET OfKind({"cstring", "buffer"}, InType(call))) \ {{}} : Receive(missing)
  /\ seen' = Garbled
  /\ faults' = faults \cup {"memory"}

TaReceiveMistyped ==
  /\ Goto("receive", "handle")
  /\ in_region.type # InType(call)
  /\ \E missing \in SUBSET OfKind({"cstring", "buffer"}, InType(call)) : Receive(missing)
  /\ seen' = Garbled
  /\ faults' = faults \cup {"type"}

TaReceiveFaults ==
  /\ point = "receive"
  /\ Pointers(InType(call)) # {}
  /\ \/ TaMayBeShort /\ faults' = faults \cup {"memory"}
     \/ in_region.type # InType(call) /\ faults' = faults \cup {"type"}
  /\ Die

-----------------------------------------------------------------------------
(* The handler, a statement at a time.                                     *)

AtStatement(what) ==
  /\ point = "handle"
  /\ stmt <= Len(Body)
  /\ Current.do \in what

NextStatement ==
  /\ stmt' = stmt + 1
  /\ UNCHANGED <<point, host, regions, result, ta, seen, reply, outcome>>

(* A member printed through the pointer of a block that is missing, or as  *)
(* long as another member says.                                            *)
ReadFaults ==
  /\ AtStatement({"read"})
  /\ seen = Garbled
  /\ OfKind({"cstring", "buffer"}, InType(call)) # {}
  /\ Die
  /\ UNCHANGED faults

ReadStruct ==
  /\ \/ AtStatement({"read"})
     \/ AtStatement({"expect"}) /\ seen \in {Current.value, Garbled}
  /\ NextStatement
  /\ UNCHANGED <<thing, heap, faults>>

AssignMember ==
  /\ AtStatement({"assign"})
  /\ thing' = [thing EXCEPT ![Current.slot] = "set"]
  /\ NextStatement
  /\ UNCHANGED <<heap, faults>>

(* TEE_Malloc with TEE_MALLOC_FILL_ZERO: the members of a new nested       *)
(* struct are zero.                                                        *)
AllocMember ==
  /\ AtStatement({"alloc", "alloc_unchecked"})
  /\ thing' = [s \in DOMAIN thing |->
       IF s = Current.slot THEN "set"
       ELSE IF s \in Inner(OutType(call), Current.slot) THEN "zero" ELSE thing[s]]
  /\ heap' = heap \cup Blocks("out", {Current.slot})
  /\ NextStatement
  /\ UNCHANGED faults

(* The handler returns; the wrapper goes on whatever its result is.  A     *)
(* native command has no wrapper, and fills the parameters themselves.     *)
HandlerReturnsUnsent(r) ==  \* slip: the struct is freed and not sent
  /\ result' = r
  /\ point' = IF Out \/ In THEN "free" ELSE "returned"
  /\ op' = IF OutType(call) = "value" THEN reply ELSE op
  /\ outcome' = [in |-> seen, result |-> r, out |-> reply]
  /\ UNCHANGED <<host, in_region, out_region, ta, seen, reply, stmt, heap>>

HandlerReturns(r) ==
  /\ result' = r
  /\ point' = IF Out THEN "send" ELSE IF In THEN "free" ELSE "returned"
  /\ op' = IF OutType(call) = "value" THEN reply ELSE op
  /\ outcome' = [in |-> seen, result |-> r, out |-> reply]
  /\ UNCHANGED <<host, in_region, out_region, ta, seen, reply, stmt, heap>>

AllocFails ==
  /\ TaMayBeShort
  /\ AtStatement({"alloc"})
  /\ thing' = [thing EXCEPT ![Current.slot] = "zero"]
  /\ faults' = faults \cup {"memory"}
  /\ HandlerReturns("OUT_OF_MEMORY")

AllocUncheckedFails ==
  /\ TaMayBeShort
  /\ AtStatement({"alloc_unchecked"})
  /\ faults' = faults \cup {"memory"}
  /\ Die

NoData ==
  /\ AtStatement({"expect"})
  /\ seen # Current.value
  /\ HandlerReturns("NO_DATA")
  /\ UNCHANGED <<thing, faults>>

Succeed ==
  /\ point = "handle"
  /\ stmt > Len(Body)
  /\ HandlerReturns("SUCCESS")
  /\ UNCHANGED <<thing, faults>>

-----------------------------------------------------------------------------
(* The wrapper after the handler: SDFERRY_SEND_STRUCT follows every        *)
(* pointer it reaches but those to NULL nested structs, and                *)
(* SDFERRY_FREE_STRUCT_MEMBERS those too.  A pointer nobody assigned may   *)
(* lead anywhere, with any effect.                                         *)
Stray(type) == \E s \in Reached(type) \cap Pointers(type) : thing[s] = "undefined"

Complete == \A s \in DOMAIN thing : thing[s] = "set"

(* Slip: every send goes to the first parameter.                           *)
TaSendToFirst ==
  /\ Goto("send", "free")
  /\ NullOf({"cstring", "buffer"}, OutType(call)) \cap Reached(OutType(call)) = {}
  /\ IF In THEN in_region' = Typed(OutType(call), reply) /\ UNCHANGED out_region
     ELSE out_region' = Typed(OutType(call), reply) /\ UNCHANGED in_region
  /\ UNCHANGED <<host, op, result, secure>>

TaSend ==
  /\ Goto("send", "free")
  /\ NullOf({"cstring", "buffer"}, OutType(call)) \cap Reached(OutType(call)) = {}
  /\ out_region' = IF Complete THEN Typed(OutType(call), reply) ELSE Garbled
  /\ UNCHANGED <<host, in_region, op, result, secure>>

SendFaults ==
  /\ point = "send"
  /\ \/ NullOf({"cstring", "buffer"}, OutType(call)) \cap Reached(OutType(call)) # {}
     \/ Stray(OutType(call))
  /\ point' = "returned"
  /\ result' = "TARGET_DEAD"
  /\ out_region' \in {out_region, Garbled}
  /\ ta' = "dead"
  /\ heap' = {}
  /\ UNCHANGED <<host, in_region, op, frame, outcome, faults>>

(* Slip: the nested structs are not freed, only their members.             *)
FreedMembers ==
  (IF In THEN Blocks("in", OfKind({"cstring", "buffer"}, InType(call))) ELSE {}) \cup
  (IF Out THEN Blocks("out", OfKind({"cstring", "buffer"}, OutType(call))) ELSE {})

Freed ==
  (IF In THEN Blocks("in", Pointers(InType(call))) ELSE {}) \cup
  (IF Out THEN Blocks("out", {s \in Pointers(OutType(call)) : thing[s] = "set"}) ELSE {})

TaFree ==
  /\ Goto("free", "returned")
  /\ Out => NullOf({"struct"}, OutType(call)) = {}
  /\ heap' = heap \ Freed
  /\ UNCHANGED <<host, regions, result, ta, frame, outcome, faults>>

FreeFaults ==
  /\ point = "free"
  /\ Out
  /\ NullOf({"struct"}, OutType(call)) # {} \/ Stray(OutType(call))
  /\ Die
  /\ UNCHANGED faults

-----------------------------------------------------------------------------
(* The host library after the invocation: recieve_func is called whatever  *)
(* the result is.  A struct read from a region that holds another one, or  *)
(* without memory, is anything, or leads the host out of the region.       *)
Fits == out_region # Garbled /\ out_region.type = call.out

Finish(value) ==
  /\ point' = "idle"
  /\ got' = value
  /\ UNCHANGED <<call, arg, regions, result, secure>>

(* Slip: the values are read from a parameter that is not the command's.   *)
FinishNativeUnread == point = "returned" /\ call.out = "value" /\ Finish(Nothing)

FinishIn     == point = "returned" /\ call.out = "none" /\ Finish(Nothing)
FinishNative == point = "returned" /\ call.out = "value" /\ Finish(op)

HostReceive == point = "returned" /\ Out /\ Fits /\ Finish(out_region.value)

HostReceiveGarbled ==
  /\ point = "returned"
  /\ Out
  /\ Fits => HostMayBeShort /\ OfKind({"cstring", "buffer"}, call.out) # {}
  /\ Finish(Garbled)

HostReceiveFaults ==
  /\ Goto("returned", "crashed")
  /\ Out
  /\ ~ Fits \/ HostMayBeShort
  /\ Pointers(call.out) # {}
  /\ UNCHANGED <<host, regions, result, secure>>

(* The caller reads the members and frees them. *)
FreeGot ==
  /\ point = "idle"
  /\ got # Nothing
  /\ got' = Nothing
  /\ UNCHANGED <<point, call, arg, regions, result, secure>>

-----------------------------------------------------------------------------
Library ==
  \/ TargetDead
  \/ FinishIn \/ FinishNative \/ HostReceive \/ HostReceiveGarbled \/ HostReceiveFaults

Wrapper ==
  \/ Reject \/ Dispatch
  \/ TaReceive \/ TaReceiveShort \/ TaReceiveMistyped \/ TaReceiveFaults
  \/ TaSend \/ SendFaults \/ TaFree \/ FreeFaults

Handle ==
  \/ ReadFaults \/ ReadStruct \/ AssignMember
  \/ AllocMember \/ AllocFails \/ AllocUncheckedFails
  \/ NoData \/ Succeed

Proceed == Library \/ Wrapper \/ Handle

Next ==
  \/ \E c \in Calls : \E v \in Args[c] : Invoke(c, v)
  \/ Proceed
  \/ TransportFails
  \/ FreeGot

Spec == Init /\ [][Next]_vars

-----------------------------------------------------------------------------
(***************************************************************************)
(* Properties.                                                             *)
(***************************************************************************)

Points == {"idle", "invoke", "receive", "handle", "send", "free", "returned", "crashed"}

(* The type invariant.                                                     *)
TypeOK ==
  /\ point \in Points
  /\ call \in Calls \cup {Nothing}
  /\ arg \in Values \cup {Nothing}
  /\ out_region \in [type : STRING, value : Values] \cup {Garbled}
  /\ result \in Result \cup {Nothing}
  /\ got \in Values \cup {Nothing, Garbled}
  /\ ta \in {"alive", "dead"}
  /\ seen \in Values \cup {Nothing, Garbled}
  /\ reply \in Values \cup {Nothing}
  /\ op \in Values \cup {Nothing}
  /\ stmt \in Nat \ {0}
  /\ faults \subseteq {"memory", "type"}

(* Between two commands the trusted application holds no block: whatever a *)
(* handler allocated or was given, and however it returned, each wrapper   *)
(* gives it back before it answers (ta/register.h, lines 8, 9 and 46).     *)
NothingLeft == point \in {"idle", "invoke", "returned"} => heap = {}

(* A command that answers with success has been executed by its handler    *)
(* to the end, and the shared region holds the struct this execution       *)
(* filled, every member of it, and not an earlier one.                     *)
SuccessIsWhole ==
  point \in {"returned", "idle", "crashed"} /\ result = "SUCCESS" =>
    /\ outcome # Nothing /\ outcome.result = "SUCCESS"
    /\ Out => out_region = Typed(OutType(call), outcome.out)

(* The trusted application stops only after one of its allocations failed, *)
(* or after the host sent it another struct than the command is registered *)
(* for: otherwise every member a wrapper follows has been assigned.        *)
CrashHasCause == ta = "dead" => faults # {}

(* The host is led out of the shared region only by a call that failed,    *)
(* when it has no memory, or when it names another struct than the wrapper *)
(* does.                                                                   *)
HostFaultHasCause ==
  point = "crashed" => result # "SUCCESS" \/ HostMayBeShort \/ ~ Matched(call)

(* The host gets the result of the handler (ta/register.h, lines 8 and 9:  *)
(* the memory related to the struct is released, and the result of the     *)
(* function is returned).                                                  *)
ResultReturned ==
  point = "idle" /\ outcome # Nothing => result = outcome.result

-----------------------------------------------------------------------------
(* What the wrappers need of a handler: it fills every member of the       *)
(* struct, a nested one before what is inside, allocates no member twice,  *)
(* and refuses no struct when it has one to fill.                          *)
Fills(s)  == s.do \in {"assign", "alloc", "alloc_unchecked"}
Allocs(s) == s.do \in {"alloc", "alloc_unchecked"}

FillsInOrder(body, type) ==
  /\ \A i \in DOMAIN body : Fills(body[i]) => body[i].slot \in Members(type)
  /\ \A i \in DOMAIN body : Allocs(body[i]) =>
       /\ type \notin {"none", "value"}
       /\ body[i].slot \in Pointers(type)
       /\ \A j \in 1 .. i - 1 : Fills(body[j]) =>
            body[j].slot \notin {body[i].slot} \cup Inner(type, body[i].slot)

FillsAll(body, type) ==
  /\ \A s \in Members(type) : \E i \in DOMAIN body : Fills(body[i]) /\ body[i].slot = s
  /\ \A i \in DOMAIN body : body[i].do = "expect" => type = "none"

HandlersInOrder ==
  \A n \in DOMAIN Commands : FillsInOrder(Commands[n].body, Commands[n].out)
HandlersFillAll ==
  \A n \in DOMAIN Commands : FillsAll(Commands[n].body, Commands[n].out)

-----------------------------------------------------------------------------
(* The abstract call: the same requests, and the outcomes the handler of a *)
(* command can have.                                                       *)

Expected(c) ==
  LET body == Commands[c.cmd].body
  IN  {body[i].value : i \in {j \in DOMAIN body : body[j].do = "expect"}}
Accepts(c, v) == v = Garbled \/ Expected(c) \subseteq {v}
Refuses(c, v) == Expected(c) \ {v} # {}

Asked == UNION {{[call |-> c, arg |-> v] : v \in Args[c]} : c \in Calls}

(* What a receiver makes of a struct that was sent.                        *)
Rebuilt(value, may_be_garbled) == {value} \cup (IF may_be_garbled THEN {Garbled} ELSE {})

Produced ==
  [q \in Asked |->
     IF Understood(q.call)
     THEN {o \in [in : Rebuilt(q.arg, TaMayBeShort \/ ~ Matched(q.call)),
                  result : {"SUCCESS", "NO_DATA", "OUT_OF_MEMORY"},
                  out : IF OutType(q.call) = "none" THEN {Nothing}
                        ELSE Commands[q.call.cmd].replies] :
             /\ o.result = "SUCCESS" => Accepts(q.call, o.in)
             /\ o.result = "NO_DATA" => Refuses(q.call, o.in)
             /\ o.result = "OUT_OF_MEMORY" => TaMayBeShort}
     ELSE {}]

Remote == INSTANCE RemoteCall WITH
  Requests <- Asked,
  Outcomes <- Produced,
  Results <- Result,
  Success <- "SUCCESS",
  Structs <- Values \cup {Nothing, Garbled},
  Received <- [q \in Asked |-> [s \in Values \cup {Nothing} |->
                 Rebuilt(s, HostMayBeShort \/ (Understood(q.call) /\ ~ Matched(q.call)))]],
  request <- IF point = "idle" THEN Nothing ELSE [call |-> call, arg |-> arg],
  answer  <- IF point = "idle" THEN [result |-> result, out |-> got]
             ELSE [result |-> Nothing, out |-> Nothing]

(* Every call is a remote call: a success means that the handler ran once  *)
(* in this call, on the struct the host sent (ta/register.h, lines 76 to   *)
(* 97), and the host has the struct that run filled (host/call.c, line     *)
(* 101), or, in a world without memory or one that takes it for another    *)
(* struct, one that is made of anything.                                   *)
ImplementsRemoteCall == Remote!Spec

-----------------------------------------------------------------------------
(* The abstract channel: the struct a command is sent, from the dispatcher *)
(* on, when it lies in the shared region, until its members are freed.     *)

InTa == point \in {"receive", "handle", "send", "free"}

(* A struct that is sent, and the one it is received as.                   *)
Sending(c, value) == [sent |-> Typed(c.in, value), as |-> InType(c)]

Offered ==
  UNION {{Sending(c, v) : v \in Args[c]} :
         c \in {d \in Calls : Understood(d) /\ Struct(d.in)}}

Inward == INSTANCE StructChannel WITH
  Offers     <- Offered,
  Covered    <- {m \in Offered : m.as = m.sent.type},
  Owning     <- [m \in Offered |-> Pointers(m.as)],
  Loose      <- [m \in Offered |-> OfKind({"cstring", "buffer"}, m.as)],
  MayBeShort <- TaMayBeShort,
  NoStruct   <- Nothing,
  Broken     <- Garbled,
  offered    <- IF InTa /\ In THEN [sent |-> in_region, as |-> InType(call)] ELSE Nothing,
  delivered  <- IF ~ InTa \/ point = "receive" \/ ~ In THEN Nothing
                ELSE IF seen = Garbled THEN Garbled ELSE Sending(call, seen),
  blocks     <- {b[2] : b \in {x \in heap : x[1] = "in"}}

(* A command gets its struct as one transfer delivers it: whole, or, with  *)
(* memory short, without some of its blocks, or in no way the promise      *)
(* covers when the host names another struct; it stays in the region and   *)
(* in the handler's hands as it came, whatever the handler allocates,      *)
(* sends and fails at; and all of it is given back, once, before the       *)
(* answer (ta/register.h, lines 76 to 97).                                 *)
ImplementsInward == Inward!Spec
===============================================================================
