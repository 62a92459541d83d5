--------------------------- MODULE TestProgramProofs ---------------------------
(***************************************************************************)
(* Proofs about TestProgram: the program uses SDFerry's memory as          *)
(* SharedMemory expects of its user, and the session as Ferry does, so     *)
(* what is proved of each component holds in it; its calls are made with   *)
(* both regions live, and a program that ends well leaves nothing open.    *)
(***************************************************************************)
EXTENDS TestProgram, FerryProofs

MemoryProofs == INSTANCE SharedMemoryProofs WITH
  Contexts <- {Context}, None <- Nothing, pc <- memory_pc

-----------------------------------------------------------------------------
(* Where main is in the life of SDFerry and of a call.                     *)
Staged ==
  /\ stage \in {"context", "session", "initialize", "initializing", "test", "call", "check",
                "finalizing", "close", "close_context", "done", "failed"}
  /\ test \in Nat \ {0}
  /\ stage \notin {"call", "failed"} => point = "idle"
  /\ stage \notin {"initializing", "finalizing", "failed"} => memory_pc = "idle"
  /\ stage \in {"context", "session", "initialize", "initializing", "close",
                "close_context", "done"} => ~ initialized
  /\ stage \in {"test", "call", "check"} => initialized
  /\ stage \in {"initialize", "initializing", "test", "call", "check"} => session
  /\ stage = "initializing" => memory_pc \in {"alloc_in", "alloc_out", "cleanup_out"}
  /\ stage = "finalizing" => memory_pc \in {"release_in", "release_out"}
  /\ stage \in {"close_context", "done"} => ~ session
  /\ stage \in {"context", "session", "initialize", "initializing", "close",
                "close_context", "done"} => served = {}
  /\ open \subseteq {Context}
  /\ stage \in {"session", "initialize"} => Context \in open
  /\ stage = "done" => open = {}

LEMMA StagedStep ==
  ASSUME Staged, [ProgramNext]_program_vars
  PROVE  Staged'
<1> USE DEF Staged, From, memory, vars, program, Memory!Goto
<1>1. CASE InitializeContext
  BY <1>1 DEF InitializeContext, Memory!OpenContext
<1>2. CASE OpenSession
  BY <1>2 DEF OpenSession
<1>3. CASE OpenFails
  BY <1>3 DEF OpenFails
<1>4. CASE CallInitialize
  BY <1>4 DEF CallInitialize, Memory!CallInitialize
<1>5. CASE Initialize
  <2>1. stage = "initializing" /\ UNCHANGED <<session, test, round, vars>>
    BY <1>5 DEF Initialize
  <2>2. stage' = IF memory_pc' # "idle" THEN stage
                 ELSE IF initialized' THEN "test" ELSE "failed"
    BY <1>5 DEF Initialize
  <2>3. CASE Memory!AllocIn
    BY <2>1, <2>2, <2>3 DEF Memory!AllocIn
  <2>4. CASE Memory!AllocOut
    <3>1. initialized' /\ memory_pc' = "idle" /\ UNCHANGED <<context, open>>
      BY <2>4, Zenon DEF Memory!AllocOut
    <3>2. stage' = "test"
      BY <2>2, <3>1
    <3> QED
      BY <2>1, <3>1, <3>2
  <2>5. CASE Memory!CleanupOut
    BY <2>1, <2>2, <2>5 DEF Memory!CleanupOut
  <2>6. CASE Memory!AllocInFails
    BY <2>1, <2>2, <2>6 DEF Memory!AllocInFails
  <2>7. CASE Memory!AllocOutFails
    BY <2>1, <2>2, <2>7 DEF Memory!AllocOutFails
  <2> QED
    BY <1>5, <2>3, <2>4, <2>5, <2>6, <2>7 DEF Initialize
<1>6. CASE BeginCall
  BY <1>6 DEF BeginCall
<1>7. CASE MakeCall
  BY <1>7 DEF MakeCall
<1>8. CASE Errx
  BY <1>8 DEF Errx
<1>9. CASE EndCall
  BY <1>9 DEF EndCall
<1>10. CASE CallFinalize
  BY <1>10 DEF CallFinalize, Memory!CallFinalize
<1>11. CASE Finalize
  BY <1>11 DEF Finalize, Memory!ReleaseIn, Memory!ReleaseOut
<1>12. CASE CloseSession
  BY <1>12 DEF CloseSession
<1>13. CASE FinalizeContext
  BY <1>13 DEF FinalizeContext, Memory!CloseContext
<1>14. CASE UNCHANGED program_vars
  BY <1>14 DEF program_vars
<1> QED
  BY <1>1, <1>2, <1>3, <1>4, <1>5, <1>6, <1>7, <1>8, <1>9, <1>10, <1>11, <1>12, <1>13,
     <1>14
  DEF ProgramNext

LEMMA StagedAlways == ProgramSpec => []Staged
<1>1. ProgramInit => Staged
  BY DEF ProgramInit, Init, Memory!Init, Staged
<1> QED
  BY <1>1, StagedStep, PTL DEF ProgramSpec

-----------------------------------------------------------------------------
(* The program is a user of the library's memory.                          *)

LEMMA MemoryStep ==
  ASSUME Staged, [ProgramNext]_program_vars
  PROVE  [Memory!Next]_(Memory!vars)
<1> USE DEF Memory!Next, Memory!User, Memory!vars, Memory!memory, memory
<1>1. CASE InitializeContext
  BY <1>1 DEF InitializeContext
<1>2. CASE OpenSession
  BY <1>2 DEF OpenSession
<1>3. CASE OpenFails
  BY <1>3 DEF OpenFails
<1>4. CASE CallInitialize
  BY <1>4 DEF CallInitialize, From, Staged
<1>5. CASE Initialize
  BY <1>5 DEF Initialize, Memory!Initialize
<1>6. CASE BeginCall
  BY <1>6 DEF BeginCall
<1>7. CASE MakeCall
  BY <1>7 DEF MakeCall
<1>8. CASE Errx
  BY <1>8 DEF Errx
<1>9. CASE EndCall
  BY <1>9 DEF EndCall
<1>10. CASE CallFinalize
  BY <1>10 DEF CallFinalize, Memory!Finalize
<1>11. CASE Finalize
  BY <1>11 DEF Finalize, Memory!Finalize
<1>12. CASE CloseSession
  BY <1>12 DEF CloseSession
<1>13. CASE FinalizeContext
  BY <1>13 DEF FinalizeContext, From, Staged
<1>14. CASE UNCHANGED program_vars
  BY <1>14 DEF program_vars
<1> QED
  BY <1>1, <1>2, <1>3, <1>4, <1>5, <1>6, <1>7, <1>8, <1>9, <1>10, <1>11, <1>12, <1>13,
     <1>14
  DEF ProgramNext

(* main meets the obligations of SDFerry's user, which SDFerry does not    *)
(* check: it initializes in an open context, and finalizes before it       *)
(* closes that (main.c, lines 378 to 394 and 416 to 422).                  *)
THEOREM ProgramUsesMemory == ProgramSpec => MeetsObligation
<1>1. ProgramInit => Memory!Init
  BY DEF ProgramInit
<1> QED
  BY <1>1, MemoryStep, StagedAlways, PTL DEF ProgramSpec, MeetsObligation, Memory!Spec

LEMMA SameMemory ==
  [Memory!Next]_(Memory!vars) <=> [MemoryProofs!Next]_(MemoryProofs!vars)
BY Zenon
DEF Memory!Next, Memory!User, Memory!Initialize, Memory!Finalize, Memory!OpenContext, Memory!CloseContext,
    Memory!AlreadyInitialized, Memory!CallInitialize, Memory!AllocIn, Memory!AllocInFails, Memory!AllocOut,
    Memory!AllocOutFails, Memory!CleanupOut, Memory!CallFinalize, Memory!ReleaseIn, Memory!ReleaseOut,
    Memory!Goto, Memory!Allocate, Memory!Release, Memory!vars, Memory!memory,
    MemoryProofs!Next, MemoryProofs!User, MemoryProofs!Initialize, MemoryProofs!Finalize, MemoryProofs!OpenContext,
    MemoryProofs!CloseContext, MemoryProofs!AlreadyInitialized, MemoryProofs!CallInitialize, MemoryProofs!AllocIn,
    MemoryProofs!AllocInFails, MemoryProofs!AllocOut, MemoryProofs!AllocOutFails, MemoryProofs!CleanupOut,
    MemoryProofs!CallFinalize, MemoryProofs!ReleaseIn, MemoryProofs!ReleaseOut, MemoryProofs!Goto,
    MemoryProofs!Allocate, MemoryProofs!Release, MemoryProofs!vars, MemoryProofs!memory

LEMMA MemoryHeld == ProgramSpec => []MemoryProofs!MemoryInv
<1>1. ProgramInit => MemoryProofs!MemoryInv
  BY ProgramAssumption, MemoryProofs!InitHolding
  DEF ProgramInit, Memory!Init, MemoryProofs!Init
<1>2. MemoryProofs!MemoryInv /\ Staged /\ [ProgramNext]_program_vars
      => MemoryProofs!MemoryInv'
  BY ProgramAssumption, MemoryStep, SameMemory, MemoryProofs!StepHolding
<1> QED
  BY <1>1, <1>2, StagedAlways, PTL DEF ProgramSpec
-----------------------------------------------------------------------------
(* The program is a user of the session.                                   *)

LEMMA SessionStep ==
  ASSUME Staged, [ProgramNext]_program_vars
  PROVE  [Next]_vars
<1> USE DEF vars, memory
<1>1. CASE InitializeContext
  BY <1>1 DEF InitializeContext
<1>2. CASE OpenSession
  BY <1>2 DEF OpenSession
<1>3. CASE OpenFails
  BY <1>3 DEF OpenFails
<1>4. CASE CallInitialize
  BY <1>4 DEF CallInitialize
<1>5. CASE Initialize
  BY <1>5 DEF Initialize
<1>6. CASE BeginCall
  <2>1. test \in 1 .. Len(Tests)
    BY <1>6 DEF BeginCall, Staged
  <2> QED
    BY <1>6, <2>1, ProgramAssumption DEF BeginCall, Next
<1>7. CASE MakeCall
  BY <1>7 DEF MakeCall, Next
<1>8. CASE Errx
  BY <1>8 DEF Errx
<1>9. CASE EndCall
  <2>1. point = "idle"
    BY <1>9 DEF EndCall, From, Staged
  <2> QED
    BY <1>9, <2>1 DEF EndCall, FreeGot, Next, host, regions, secure
<1>10. CASE CallFinalize
  BY <1>10 DEF CallFinalize
<1>11. CASE Finalize
  BY <1>11 DEF Finalize
<1>12. CASE CloseSession
  BY <1>12 DEF CloseSession
<1>13. CASE FinalizeContext
  BY <1>13 DEF FinalizeContext
<1>14. CASE UNCHANGED program_vars
  BY <1>14 DEF program_vars
<1> QED
  BY <1>1, <1>2, <1>3, <1>4, <1>5, <1>6, <1>7, <1>8, <1>9, <1>10, <1>11, <1>12, <1>13,
     <1>14
  DEF ProgramNext

(* The calls of the program, what it frees and what it leaves alone are a  *)
(* behaviour of the session.                                               *)
THEOREM ProgramUsesSession == ProgramSpec => Spec
<1>1. ProgramInit => Init
  BY DEF ProgramInit
<1> QED
  BY <1>1, SessionStep, StagedAlways, PTL DEF ProgramSpec, Spec

-----------------------------------------------------------------------------
(* The functions of SDFerry use its statics without a look at the flag:    *)
(* the calls of the program are made while both regions are live.          *)
THEOREM CallsHaveMemory == ProgramSpec => []MemoryDuringCalls
<1>1. Staged /\ MemoryProofs!MemoryInv => MemoryDuringCalls
  BY DEF Staged, MemoryProofs!MemoryInv, MemoryProofs!Holding, MemoryProofs!Both,
    MemoryProofs!InOpenContext, MemoryProofs!Live, Memory!Live, MemoryDuringCalls
<1> QED
  BY <1>1, StagedAlways, MemoryHeld, PTL

(* A program that ends well has released both regions and closed both the  *)
(* session and the context.                                                *)
THEOREM EndsClean == ProgramSpec => []CleanExit
<1>1. Staged /\ MemoryProofs!MemoryInv => CleanExit
  BY DEF Staged, MemoryProofs!MemoryInv, MemoryProofs!Holding,
    MemoryProofs!Live, Memory!Live, CleanExit
<1> QED
  BY <1>1, StagedAlways, MemoryHeld, PTL

-----------------------------------------------------------------------------
(* A call leaves the program with what was executed, if it succeeded.      *)
ReplyRead ==
  stage = "check" /\ result = "SUCCESS" => outcome # Nothing /\ got = outcome.out

(* What the call of a test meets when the two programs agree on it: a      *)
(* handler that checks its struct has the one that was sent, no call is    *)
(* refused, and what is filled in is what the test wants.                  *)
Checks(body) == \E i \in DOMAIN body : body[i].do = "expect"

Refused == result \in {"NO_DATA", "BAD_PARAMETERS"}

Meeting ==
  /\ stage \in {"context", "session", "initialize", "initializing"} => result = Nothing
  /\ stage \in {"call", "check"} =>
       /\ test \in 1 .. Len(Tests)
       /\ call = Tests[test].call /\ arg = SentBy(Tests[test])
       /\ ~ Refused
       /\ outcome # Nothing /\ Tests[test].want # "" => outcome.out = Tests[test].want
  /\ stage = "call" /\ point = "handle" /\ Checks(Body) => seen = arg
  /\ faults \subseteq {"memory"}
  /\ FailureHasCause

LEMMA ReplyStep ==
  ASSUME ~ HostMayBeShort, TestsAgree, WholeInv, Staged, Meeting, ReplyRead,
         [ProgramNext]_program_vars
  PROVE  ReplyRead'
<1> USE DEF ReplyRead
<1>1. CASE MakeCall
  <2>1. CASE FinishIn \/ FinishNative \/ HostReceive \/ HostReceiveGarbled
    <3>1. PICK v : point = "returned" /\ Finish(v) /\ (result = "SUCCESS" => v = outcome.out)
      <4>1. Matched(call)
        BY <1>1 DEF MakeCall, Meeting, TestsAgree, Agree
      <4> QED
        BY <2>1, <4>1, Finishes DEF Rebuilt, Unsure
    <3>2. result = "SUCCESS" => outcome # Nothing
      BY <3>1 DEF WholeInv, Producing
    <3> QED
      BY <3>1, <3>2 DEF Finish, secure
  <2>2. CASE ~ (FinishIn \/ FinishNative \/ HostReceive \/ HostReceiveGarbled)
    <3>1. point' # "idle"
      BY <1>1, <2>2 DEF MakeCall, Proceed, Library, Wrapper, Handle, TransportFails, TargetDead,
        Reject, Dispatch, TaReceive, TaReceiveShort, TaReceiveMistyped, Receive, TaReceiveFaults, ReadFaults, ReadStruct,
        AssignMember, AllocMember, AllocFails, AllocUncheckedFails, NoData, Succeed, TaSend,
        SendFaults, TaFree, FreeFaults, HostReceiveFaults, Goto, Return, Die, HandlerReturns,
        NextStatement, AtStatement
    <3> QED
      BY <1>1, <3>1 DEF MakeCall
  <2> QED
    BY <2>1, <2>2
<1>2. CASE ~ MakeCall
  <2>1. stage' = "check" => UNCHANGED <<stage, result, outcome, got>>
    BY <1>2
    DEF ProgramNext, InitializeContext, OpenSession, OpenFails, CallInitialize, Initialize,
      BeginCall, Errx, EndCall, CallFinalize, Finalize, CloseSession, FinalizeContext, From,
      Staged, program_vars, program, vars, host, secure
  <2> QED
    BY <2>1
<1> QED
  BY <1>1, <1>2

LEMMA MeetingCall ==
  ASSUME ~ HostMayBeShort, TestsAgree, FerryInv, WholeInv', HostFaultHasCause', Meeting,
         MakeCall
  PROVE  Meeting'
<1> DEFINE t == Tests[test]
<1>1. /\ stage = "call" /\ (Proceed \/ TransportFails)
      /\ stage' \in {"call", "check", "failed"}
      /\ stage' = "failed" => point' = "crashed"
      /\ UNCHANGED test
  BY DEF MakeCall
<1>2. /\ test \in 1 .. Len(Tests) /\ call = t.call /\ arg = SentBy(t) /\ ~ Refused
      /\ outcome # Nothing /\ t.want # "" => outcome.out = t.want
      /\ Agree(t) /\ Matched(call)
  BY <1>1 DEF Meeting, TestsAgree, Agree
<1>3. /\ UNCHANGED <<call, arg>>
      /\ result' = "NO_DATA" => result' = result \/ NoData
      /\ result' = "BAD_PARAMETERS" => result' = result \/ Reject
      /\ outcome' = outcome \/ (point = "handle" /\ outcome'.out = reply)
  BY <1>1, CallSteps
<1>4. Body' = Body /\ Body = Commands[call.cmd].body
  BY <1>3 DEF Body
<1>5. ~ Refused'
  <2>1. ~ Reject
    BY <1>2 DEF Agree, Reject
  <2>2. ASSUME NoData PROVE FALSE
    <3>1. /\ point = "handle" /\ stmt \in DOMAIN Body
          /\ Body[stmt].do = "expect" /\ Body[stmt].value # seen
      <4>1. point = "handle" /\ stmt <= Len(Body) /\ Current.do = "expect"
            /\ seen # Current.value
        BY <2>2 DEF NoData, AtStatement
      <4>2. call \in Calls /\ Understood(call) /\ stmt \in Nat \ {0}
        BY <4>1 DEF FerryInv, TypeOK, Passing, InTa
      <4>3. Body \in Seq([do : STRING, slot : Nat, value : STRING])
        BY <4>2, FerryAssumption DEF Understood, Body
      <4> QED
        BY <4>1, <4>2, <4>3 DEF Current
    <3>2. seen = arg
      BY <1>1, <3>1 DEF Meeting, Checks
    <3>3. Body[stmt].value = arg
      BY <1>2, <1>4, <3>1 DEF Agree
    <3> QED
      BY <3>1, <3>2, <3>3
  <2> QED
    BY <1>2, <1>3, <2>1, <2>2 DEF Refused
<1>6. outcome' # Nothing /\ t.want # "" => outcome'.out = t.want
  <2>1. CASE outcome' = outcome
    BY <1>2, <2>1
  <2>2. CASE point = "handle" /\ outcome'.out = reply
    <3>1. call.out # "none" => reply \in Commands[call.cmd].replies
      BY <2>2, TaParameters DEF InTa
    <3> QED
      BY <1>2, <2>2, <3>1 DEF Agree
  <2> QED
    BY <1>3, <2>1, <2>2
<1>7. point' = "handle" /\ Checks(Body)' => seen' = arg'
  <2> SUFFICES ASSUME point' = "handle", Checks(Body)' PROVE seen' = arg'
    OBVIOUS
  <2>1. Checks(Body)
    BY <1>4 DEF Checks
  <2>2. call.in # "value" => OfKind({"cstring", "buffer"}, InType(call)) = {}
    BY <1>2, <1>4, <2>1 DEF Checks, Agree, Matched
  <2>3. \/ point = "handle" /\ seen' = seen
        \/ seen' = arg
    BY <1>1, <1>2, <2>2, SeenSteps
  <2> QED
    BY <1>1, <1>3, <2>1, <2>3 DEF Meeting
<1>9. faults' \subseteq {"memory"}
  BY <1>1, <1>2, FaultSteps DEF Meeting
<1>8. FailureHasCause'
  <2> SUFFICES ASSUME stage' = "failed" PROVE FailureHasCause'
    BY DEF FailureHasCause
  <2>1. result' # "SUCCESS"
    BY <1>1, <1>2, <1>3 DEF HostFaultHasCause
  <2>2. result' \in {"OUT_OF_MEMORY", "TARGET_DEAD"} => faults' = {"memory"}
    BY <1>9 DEF WholeInv, Whole
  <2> QED
    BY <1>5, <2>1, <2>2 DEF FailureHasCause, WholeInv, FerryInv, TypeOK, Result, Refused
<1> QED
  BY <1>1, <1>2, <1>3, <1>5, <1>6, <1>7, <1>8, <1>9 DEF Meeting

LEMMA MeetingStep ==
  ASSUME ~ HostMayBeShort, TestsAgree, Staged, WholeInv, WholeInv', ReplyRead,
         HostFaultHasCause', Meeting, [ProgramNext]_program_vars
  PROVE  Meeting'
<1> USE DEF Meeting, From, Refused, FailureHasCause
<1>1. CASE InitializeContext
  BY <1>1 DEF InitializeContext, vars, host, secure
<1>2. CASE OpenSession
  BY <1>2 DEF OpenSession, vars, host, secure
<1>3. CASE OpenFails
  BY <1>3 DEF OpenFails, vars, host, secure
<1>4. CASE CallInitialize
  BY <1>4 DEF CallInitialize, vars, host, secure
<1>5. CASE Initialize
  <2>1. stage = "initializing" /\ stage' \in {"initializing", "test", "failed"}
        /\ UNCHANGED <<result, faults>>
    BY <1>5 DEF Initialize, vars, secure
  <2> QED
    BY <2>1
<1>6. CASE BeginCall
  <2>1. /\ stage' = "call" /\ test' = test /\ test \in 1 .. Len(Tests)
        /\ call' = Tests[test].call /\ arg' = SentBy(Tests[test])
        /\ result' = Nothing /\ outcome' = Nothing /\ point' = "invoke"
        /\ faults' = faults
    BY <1>6 DEF BeginCall, Invoke, Goto, Staged
  <2>2. Nothing \notin {"NO_DATA", "BAD_PARAMETERS"}
    BY NothingAssumption DEF Result
  <2> QED
    BY <2>1, <2>2
<1>7. CASE MakeCall
  BY <1>7, MeetingCall DEF WholeInv
<1>8. CASE Errx
  <2>1. stage = "check" /\ stage' = "failed" /\ Unwanted /\ UNCHANGED <<result, faults>>
    BY <1>8 DEF Errx, vars, secure
  <2>2. result # "SUCCESS"
    BY <2>1 DEF Unwanted, ReplyRead
  <2> QED
    BY <2>1, <2>2 DEF WholeInv, FerryInv, TypeOK, Whole, Result
<1>9. CASE EndCall
  BY <1>9 DEF EndCall, secure
<1>10. CASE CallFinalize
  BY <1>10 DEF CallFinalize, vars, secure
<1>11. CASE Finalize
  BY <1>11 DEF Finalize, vars, secure
<1>12. CASE CloseSession
  BY <1>12 DEF CloseSession, vars, secure
<1>13. CASE FinalizeContext
  BY <1>13 DEF FinalizeContext, vars, secure
<1>14. CASE UNCHANGED program_vars
  BY <1>14 DEF program_vars, program, vars, host, secure, frame, Body, Checks
<1> QED
  BY <1>1, <1>2, <1>3, <1>4, <1>5, <1>6, <1>7, <1>8, <1>9, <1>10, <1>11, <1>12, <1>13,
     <1>14
  DEF ProgramNext

LEMMA MeetingAlways ==
  ASSUME ~ HostMayBeShort, HandlersInOrder, HandlersFillAll, TestsAgree
  PROVE  ProgramSpec => [](Meeting /\ ReplyRead)
<1>1. ProgramInit => Meeting /\ ReplyRead
  BY DEF ProgramInit, Init, Meeting, FailureHasCause, ReplyRead
<1> QED
  BY <1>1, MeetingStep, ReplyStep, StagedAlways, ProgramUsesSession, WholeAlways,
     HostLedAstray, PTL
  DEF ProgramSpec

(* When the two programs agree on their commands, no call is refused and   *)
(* no test gets what it does not want: the program fails because setting   *)
(* up or the transport fails, or the trusted application has no memory.    *)
THEOREM FailuresHaveCause ==
  ASSUME ~ HostMayBeShort, HandlersInOrder, HandlersFillAll, TestsAgree
  PROVE  ProgramSpec => []FailureHasCause
<1>1. Meeting => FailureHasCause
  BY DEF Meeting
<1> QED
  BY <1>1, MeetingAlways, PTL

(* What a test reads after a success is what its command has filled in,    *)
(* whatever else fails in the trusted application or on the way.           *)
THEOREM RepliesAreOwn ==
  ASSUME ~ HostMayBeShort, HandlersInOrder, HandlersFillAll, TestsAgree
  PROVE  ProgramSpec => []ReadsOwnReply
<1>1. ReplyRead => ReadsOwnReply
  BY DEF ReplyRead, ReadsOwnReply, Wanted
<1> QED
  BY <1>1, MeetingAlways, PTL

-----------------------------------------------------------------------------
(* What is proved of any session holds in the program: its calls are       *)
(* remote calls.                                                           *)
THEOREM ProgramCallsAreRemote ==
  ASSUME HandlersInOrder, HandlersFillAll
  PROVE  ProgramSpec => ImplementsRemoteCall
BY ProgramUsesSession, CallsAreRemote, PTL

(* And each of its commands gets its struct as one transfer of a channel.  *)
THEOREM ProgramInputIsTransferred ==
  ASSUME HandlersInOrder
  PROVE  ProgramSpec => ImplementsInward
BY ProgramUsesSession, InputIsTransferred, PTL
===============================================================================
