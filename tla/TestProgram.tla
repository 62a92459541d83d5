------------------------------ MODULE TestProgram ------------------------------
(***************************************************************************)
(* main of host/main.c: it opens a context and a session, initializes      *)
(* SDFerry, makes its tests one after the other, finalizes SDFerry and     *)
(* closes the two.  The program composes SharedMemory, whose steps are its *)
(* calls of TEEC_InitializeSDFerry and TEEC_FinalizeSDFerry, and Ferry,    *)
(* whose steps are its tests.  Any failure ends it at once (errx), and     *)
(* leaves the rest to the operating system.                                *)
(***************************************************************************)
EXTENDS Ferry

CONSTANTS
  Tests,         \* the calls of main, as in Commands
  Context,
  Regions,
  SetupMayFail   \* whether opening and allocating can fail

(* What a test sends.                                                      *)
SentBy(t) == IF t.call.in = "none" THEN Nothing ELSE t.arg

ASSUME ProgramAssumption ==
  /\ Nothing \notin {Context} \cup Regions
  /\ \A i \in 1 .. Len(Tests) :
       /\ Tests[i].call \in Calls
       /\ Args[Tests[i].call] = {SentBy(Tests[i])}

VARIABLES
  initialized, shared_mem_in, shared_mem_out, context, open, owner, served, memory_pc,
  stage,         \* the statement of main
  session,       \* whether the session is open
  test, round    \* the test, and its next call

Memory == INSTANCE SharedMemory WITH
  Contexts <- {Context}, None <- Nothing, pc <- memory_pc

memory == <<initialized, shared_mem_in, shared_mem_out, context, open, owner, served, memory_pc>>
program == <<stage, session, test, round>>
program_vars == <<program, memory, vars>>

ProgramInit ==
  /\ Init
  /\ Memory!Init
  /\ stage = "context"
  /\ session = FALSE
  /\ test = 1
  /\ round = 1

From(a, b) == stage = a /\ stage' = b

-----------------------------------------------------------------------------
InitializeContext ==
  /\ From("context", "session")
  /\ Memory!OpenContext(Context)
  /\ UNCHANGED <<session, test, round, vars>>

OpenSession ==
  /\ From("session", "initialize")
  /\ session' = TRUE
  /\ UNCHANGED <<test, round, memory, vars>>

OpenFails ==
  /\ SetupMayFail
  /\ stage \in {"context", "session"}
  /\ stage' = "failed"
  /\ UNCHANGED <<session, test, round, memory, vars>>

CallInitialize ==
  /\ From("initialize", "initializing")
  /\ Memory!CallInitialize(Context)
  /\ UNCHANGED <<session, test, round, vars>>

(* Slip: the result of the initialization is not looked at.                *)
InitializeUnchecked ==
  /\ stage = "initializing"
  /\ \/ Memory!AllocIn \/ Memory!AllocOut \/ Memory!CleanupOut
     \/ SetupMayFail /\ (Memory!AllocInFails \/ Memory!AllocOutFails)
  /\ stage' = IF memory_pc' # "idle" THEN stage ELSE "test"
  /\ UNCHANGED <<session, test, round, vars>>

Initialize ==
  /\ stage = "initializing"
  /\ \/ Memory!AllocIn \/ Memory!AllocOut \/ Memory!CleanupOut
     \/ SetupMayFail /\ (Memory!AllocInFails \/ Memory!AllocOutFails)
  /\ stage' = IF memory_pc' # "idle" THEN stage
              ELSE IF initialized' THEN "test" ELSE "failed"
  /\ UNCHANGED <<session, test, round, vars>>

-----------------------------------------------------------------------------
BeginCall ==
  /\ From("test", "call")
  /\ test <= Len(Tests)
  /\ Invoke(Tests[test].call, SentBy(Tests[test]))
  /\ UNCHANGED <<session, test, round, memory>>

MakeCall ==
  /\ stage = "call"
  /\ Proceed \/ TransportFails
  /\ stage' = IF point' = "idle" THEN "check"
              ELSE IF point' = "crashed" THEN "failed" ELSE stage
  /\ UNCHANGED <<session, test, round, memory>>

(* What can be any value can be the wanted one.                            *)
Wanted   == result = "SUCCESS" /\ (Tests[test].want # "" => got \in {Tests[test].want, Garbled})
Unwanted == result # "SUCCESS" \/ (Tests[test].want # "" /\ got # Tests[test].want)

Errx ==
  /\ From("check", "failed")
  /\ Unwanted
  /\ UNCHANGED <<session, test, round, memory, vars>>

(* Slip: an inner loop that starts its outer one again.                    *)
EndCallReset ==
  /\ From("check", "test")
  /\ Wanted
  /\ LET frees == Tests[test].frees IN
       got' = IF frees # 0 /\ round % frees = 0 THEN Nothing ELSE got
  /\ IF Tests[test].times > 1
     THEN round' = 1 /\ test' = test
     ELSE round' = 1 /\ test' = test + 1
  /\ UNCHANGED <<session, memory, point, call, arg, regions, result, secure>>

(* The members are freed after some calls of a test, and the loops go on.  *)
EndCall ==
  /\ From("check", "test")
  /\ Wanted
  /\ LET frees == Tests[test].frees IN
       got' = IF frees # 0 /\ round % frees = 0 THEN Nothing ELSE got
  /\ IF round < Tests[test].times
     THEN round' = round + 1 /\ test' = test
     ELSE round' = 1 /\ test' = test + 1
  /\ UNCHANGED <<session, memory, point, call, arg, regions, result, secure>>

-----------------------------------------------------------------------------
(* Slip: the context is closed, and SDFerry is not finalized before.       *)
CallFinalizeForgotten ==
  /\ From("test", "close")
  /\ test > Len(Tests)
  /\ UNCHANGED <<session, test, round, memory, vars>>

CallFinalize ==
  /\ From("test", "finalizing")
  /\ test > Len(Tests)
  /\ Memory!CallFinalize
  /\ UNCHANGED <<session, test, round, vars>>

Finalize ==
  /\ stage = "finalizing"
  /\ Memory!ReleaseIn \/ Memory!ReleaseOut
  /\ stage' = IF memory_pc' = "idle" THEN "close" ELSE stage
  /\ UNCHANGED <<session, test, round, vars>>

CloseSession ==
  /\ From("close", "close_context")
  /\ session' = FALSE
  /\ UNCHANGED <<test, round, memory, vars>>

FinalizeContext ==
  /\ From("close_context", "done")
  /\ Memory!CloseContext(Context)
  /\ UNCHANGED <<session, test, round, vars>>

-----------------------------------------------------------------------------
ProgramNext ==
  \/ InitializeContext \/ OpenSession \/ OpenFails \/ CallInitialize \/ Initialize
  \/ BeginCall \/ MakeCall \/ Errx \/ EndCall
  \/ CallFinalize \/ Finalize \/ CloseSession \/ FinalizeContext

ProgramSpec == ProgramInit /\ [][ProgramNext]_program_vars /\ WF_program_vars(ProgramNext)

-----------------------------------------------------------------------------
(***************************************************************************)
(* Properties.                                                             *)
(***************************************************************************)

(* SDFerry checks none of what it asks of its user: it is the order of     *)
(* main's calls that initializes it in an open context only, and finalizes *)
(* it before that context is closed (host/call.h, lines 10 and 22 to 26).  *)
MeetsObligation == Memory!Spec

(* SDFerry's functions use the statics without a look at the flag: both    *)
(* regions are live, in an open context, as long as a call is in progress. *)
MemoryDuringCalls ==
  stage \in {"call", "check"} =>
    /\ session
    /\ {shared_mem_in, shared_mem_out} \subseteq Memory!Live
    /\ shared_mem_in # shared_mem_out
    /\ \A r \in Memory!Live : owner[r] \in open

(* The program that ends well has given back what it opened.               *)
CleanExit == stage = "done" => Memory!Live = {} /\ open = {} /\ ~ session

(* A test fails for a failure of the system only: the two programs, built  *)
(* apart, agree on the parameters and structs of every command, on the     *)
(* values both wrote down, and on what a handler fills.                    *)
(* Nothing else ends the program before its last test.                     *)
FailureHasCause ==
  stage = "failed" =>
    \/ result \in {Nothing, "COMMUNICATION"}
    \/ result \in {"OUT_OF_MEMORY", "TARGET_DEAD"} /\ faults = {"memory"}

(* That agreement, command by command: its parameters and structs are      *)
(* those the host names, a handler that checks what it gets wants what the *)
(* test sends, in a struct that arrives whole or not at all, and a test    *)
(* that checks what it gets wants the one value the handler fills in.      *)
Agree(t) ==
  /\ Understood(t.call) /\ Matched(t.call)
  /\ \A i \in DOMAIN Commands[t.call.cmd].body :
       Commands[t.call.cmd].body[i].do = "expect" =>
         /\ Commands[t.call.cmd].body[i].value = SentBy(t)
         /\ t.call.in # "value" => OfKind({"cstring", "buffer"}, t.call.in) = {}
  /\ t.want # "" => t.call.out # "none" /\ Commands[t.call.cmd].replies = {t.want}

TestsAgree == \A i \in 1 .. Len(Tests) : Agree(Tests[i])

(* What a test reads of a reply is what the command it called has just     *)
(* filled in, although the region still holds the earlier replies.         *)
ReadsOwnReply == stage = "check" /\ Wanted => outcome # Nothing /\ got = outcome.out

(* Whatever fails, the program ends; by FailureHasCause, without a failure *)
(* it has then made all its tests and closed what it opened.               *)
Ends == <>(stage \in {"done", "failed"})
===============================================================================
