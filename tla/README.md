# A TLA+ model of SDFerry

SDFerry carries C structs between a host application (the normal world) and a
trusted application (the secure world) of OP-TEE, whose calls natively pass
integers and blocks of memory only.  An application registers its structs with
macros; SDFerry then writes a struct member by member into a buffer both worlds
share, invokes a command, and rebuilds the struct on the other side.

This directory models what of that can go wrong without a compiler or a test
showing it, checks the models with TLC and proves the main results with TLAPS.

## 1. The system

| part | source | state | operations |
| --- | --- | --- | --- |
| basic types | `lib/sdferry/src/basic.c`, `basic.h` | none | send, receive, alloc and free of `char`, `uint32_t`, `cstring`, `buffer`, `size_t` |
| registration | `lib/sdferry/include/sdferry/register.h` | none (generated functions) | send, receive, alloc, free and free-members of a struct |
| memory | `lib/sdferry/src/{host,ta}/memory.c` | the heap of each world | alloc, free |
| host library | `lib/sdferry/src/host/call.c` | `initialized`, two shared memory regions | initialize, finalize, send, receive, send and receive |
| command wrappers | `lib/sdferry/include/sdferry/ta/register.h` | one or two structs on the stack | receive command, send command, both |
| test trusted application | `ta/sdferry_test_ta.c` | `send_buffer_size_i`, `send_buffer_size_j` | dispatch, 13 commands |
| test host application | `host/main.c` | the structs of the test, the loops of the benchmarks | 7 tests, 6 benchmarks |

The host application calls the host library; that calls the generated send
function on the input region, invokes a command, and calls the generated receive
function on the output region.  In the trusted application the dispatcher calls a
wrapper, the wrapper the generated receive function, the handler, the generated
send function and the generated free functions.  The worlds share the two regions
and the parameters of the call: the parameter types, which the wrapper checks, and the
size of what was sent (`mem_ref.size`, `call.c:55`), which it does not look at.  No
type and no check of the registrations crosses.

Everything is sequential code; there is no thread, no callback that outlives a
call, and nothing is persisted.  What is hard here is something else:

* the shared buffer is never cleared, and no receive function looks at how much was
  sent, so a mistake of one char reads plausible old data;
* the same registration is written twice, in two programs;
* an allocation may fail in the middle of a struct, at the host and in the trusted
  application, and every other member must still be freed exactly once;
* no function knows the size of the buffer it writes;
* NULL nested structs are sent as nothing and received as something;
* the library is initialized in two steps of which either may fail, in contexts it
  does not track;
* the second benchmark rests on two counters in two programs that never compare;
* a handler that fails leaves members unassigned, and its wrapper sends and frees
  the struct all the same; the host then receives one whatever the result was;
* command numbers, parameter types, the struct a command takes and registrations are
  written down in both programs, and only the parameter types are ever checked.

What makes each part correct:

* basic types and registration: a struct arrives as it was sent; the two worlds
  agree on every offset; what is stored of a struct is its serial form, so that one that
  fits the buffer stays inside it; the heap holds what the struct points to, no more and no
  less; a nested struct lives longer than its members;
* host library: both regions or none, each released once, before its context, as long
  as its user does what `host/call.h` asks, which the library does not check;
* wrappers and handlers: whatever the handler returns, only what it assigned is
  sent and freed, and nothing stays allocated between two commands;
* host calls: a success means that the command was executed, with the struct the
  host sent, and that the host holds the struct this execution filled;
* test program: calls are made only between an initialization that succeeded and
  the finalization, and a test fails for a failure of the system only;
* benchmarks: the counters keep in step, and the largest struct fits everywhere.

## 2. The modules

| module | what it is |
| --- | --- |
| `Wire` | the chars each send function of `basic.c` stores, and what its receive function finds in a buffer |
| `Registry` | the REGISTER macros as layouts, and the structs the two applications register |
| `StructCopy` | a struct crosses, again and again, through one shared buffer: send, receive, free, and every failure on the way |
| `StructChannel` | what SDFerry promises about it: the offered struct is delivered, with the memory it needs, and given back |
| `SharedMemory` | `TEEC_InitializeSDFerry` and `TEEC_FinalizeSDFerry` |
| `MemoryPair` | what they promise: two regions at once, or none |
| `Benchmark` | the two benchmarks by size, host loops and trusted application together |
| `Commands` | the commands of the test application: handlers, wrappers, switch, and the host's tests |
| `Ferry` | a session of calls: host library, transport, dispatcher, wrapper and handler |
| `RemoteCall` | what the host is promised about a call |
| `TestProgram` | `main` of the test host: composes `SharedMemory` and `Ferry` |
| `MCStructCopy`, `MCSharedMemory`, `MCFerry`, `MCTestProgram` | the values of the constants for TLC |
| `WireTheorems`, `StructCopyProofs`, `ChannelProofs`, `SharedMemoryProofs`, `BenchmarkProofs`, `FerryProofs`, `TestProgramProofs` | lemmas and theorems |

**Wire and Registry.**  A buffer cell holds one char.  Chars of strings and raw
buffers are opaque values.  `sdferry_memcpy` copies the object representation of
a `uint32_t`: its char k is the record `[word |-> n, byte |-> k]`, so that a number
read from the wrong place is recognizably not one number, and then it may be any.
A layout is the expansion of a macro: one entry per call the send and the receive
function make, nested structs inlined, with the relative place of the size member
for a buffer.  The `NOBUFFER` macros drop the size.

**StructCopy.**  One action per call of a generated function: `BeginSend` enters
the send function, `SendMember` is one `result_size += __sdferry_send_TYPE(...)`,
`Invoke` the command, `ReceiveChar`, `ReceiveUint`, `ReceiveSize`, `ReceiveCstring`,
`ReceiveBuffer`, `ReceiveStruct` one `alloc` and `receive` each, `Return` hands the
struct to the handler (or to the host), `FreeMember` is one call of a free function.
`sent` and `read` are the `result_size` of the two functions, `ptr` the pointers of
the received struct, `heap` the live blocks.  Two history variables record where
each member was put (`at`) and what went wrong in this transfer (`lost`).  The same
code runs in both directions, so one module stands for both.  Undefined behaviour may
end in `crashed`: an assignment through a NULL nested struct always does; a store
beyond the buffer and a read beyond it may be survived.  `SendMember` has no guard: it
stores what fits inside the buffer, notes the `overrun`, and the command is invoked
all the same; `Overrun` is the sender that does not survive.  What is read beyond the
buffer has any content.

**StructChannel** has three variables: the struct offered, the struct delivered, and
the members of the delivered struct that own a block of memory.  A struct the promise
covers is delivered as it was offered, with all its blocks; with memory short it may
come broken, but then it misses a block it is allowed to miss (`Loose`); only a
struct that is not covered, or memory that is short, may stop the receiver
(`Abort`); and everything is given back (`Release`).  Two modules implement it:

* `StructCopy!ImplementsChannel`: `offered` is the struct in transfer from `BeginSend`
  to the free, `delivered` the struct held, `blocks` the members whose block is live.
  The promise covers a struct that is not NULL, whose nested structs are not NULL, that
  has no `size_t`, and whose serial form is no longer than the buffer (`TooLong`).  A
  world that does not survive a store beyond the buffer is an `Abort`, so the promise
  is also that this happens to no struct that fits.
* `Ferry!ImplementsInward`: `offered` is the struct in the first region while a command
  that takes one is executed (`InTa`), `delivered` what the handler holds, `blocks`
  what the trusted application allocated for it.  The promise covers every struct of
  the calls that the wrapper reads as the type the host sent.

So the step of `Ferry` that receives a struct whole is the step that `StructCopy`, char
by char, makes of it.

**SharedMemory.**  The initialize function is split at each call of the client
library (`AllocIn`, `AllocOut`, `CleanupOut`), the finalize function at each
release.  None of these actions has a guard for the order of the user's calls, as the
code has none.  `User` is the user as `host/call.h` wants it (lines 10 and 22 to 26):
contexts are opened and closed, SDFerry is initialized and finalized in any order,
except that it is initialized in an open context, and a context it was initialized for
is closed only after a finalize.  The properties of `SharedMemory` are promised to that
user; that `main` is one is a property of `TestProgram`.  `TEEC_AllocateSharedMemory` and `TEEC_ReleaseSharedMemory`
are external: a region that is not live becomes live in the context, and back.

**MemoryPair** has the regions SDFerry holds, their context, and the open contexts.
`ImplementsPair` maps `SharedMemory` to it: the two regions are acquired in the step
that allocates the second and given back in the step that releases the first; what is
between (`InOne`, one region of two is allocated), the clean-up of a failed
initialization included, is a stutter.

**Benchmark.**  The host's loops, the statics of the trusted application, the size
of what is in the shared buffer, and the heap of the trusted application as a
number of chars.  The heap has no overhead and the host's malloc does not fail;
an allocation that does not fit fails the benchmark.  `StepsLeft` is what is left of the
loops of both benchmarks, computed from their counters.

**Commands** holds data, not steps.  A handler is the sequence of its statements
that read the struct, check it, assign a member or allocate one (`Alloc` returns
`TEE_ERROR_OUT_OF_MEMORY` on failure, `AllocUnchecked` uses the NULL), in the order of
the source.  The three wrapper macros give a command its parameter types and its
structs, and `TaCommands` is the switch of `TA_InvokeCommandEntryPoint`.  `HostTests` is
the list of calls `main` makes, with what each test sends, how often, what it
wants back, and after how many calls it frees the members it received.  A struct's
contents are one value: how they cross char by char is `StructCopy`.

**Ferry.**  A call passes the points `invoke`, `receive`, `handle`, `send`, `free`,
`returned`.  `Invoke` is a function of `host/call.c` up to `TEEC_InvokeCommand`: it
serializes the struct into the first region.  The transport may fail before or
after the command was executed.  `Reject` and `Dispatch` are the switch with the
check of the parameter types; `TaReceive`, `TaSend` and `TaFree` the macros a wrapper
calls one after the other, whatever its handler returned, with the types the wrapper
was registered for (`InType`, `OutType`); between them the handler runs a statement at a
time.  The host's own types are those of the call.  Where they differ (`Matched` is
false) nothing notices: `TaReceiveMistyped` reads the struct in the region as another
one, with any contents and any of its blocks, or `TaReceiveFaults` stops on it, and
`HostReceiveGarbled` and `HostReceiveFaults` are the same at the host.  `thing` says of each member of the struct the handler
fills whether it is undefined (the struct is on the stack), set, or zero (inside a
new nested struct, or NULL after a failed allocation).  To follow an undefined
pointer may have any effect, so `TaSend` and `TaFree` stay possible beside
`SendFaults` and `FreeFaults`; to read a NULL string or buffer stops the trusted
application.  A NULL nested struct is skipped by the send function but not by the
free function.  `HostReceive` and its two companions are `recieve_func`, called whatever
the result was: from a region that does not hold the struct the host wants, it
makes a struct of anything, or is led out of the region.  The history variables are
`outcome`, what the handler produced in this call, and `faults`, what has gone wrong in
the trusted application: an allocation, or the reading of another struct.

**RemoteCall** has the request, the outcome of its execution and the answer.
`Execute` happens at most once per request, an answer of success needs it and hands
over what it produced; a failure may come before or after it.  In a world that may be
short of memory, and in a call that names another struct than its wrapper, the handler
may have been given, or the host get, a struct made of anything instead (`Rebuilt`).  `ImplementsRemoteCall`
maps `Ferry` to it: a request lasts from `Invoke` to the return of the library
function, and the outcome is the one the handler produced.

**TestProgram.**  `main` in order: context, session, initialization, the tests,
finalization, and the closing of both.  Its steps are those of `SharedMemory` and
`Ferry`, taken at the statement of `main` that calls them; `Wanted` is what a test
looks at, `Errx` the end of the program, which gives nothing back itself.  No step of
`main` waits for SDFerry or is held back by it: `FinalizeContext` closes the context as
line 422 does, whatever was finalized before.  `MeetsObligation` is that its order of
calls is nevertheless one the `User` of `SharedMemory` may make.  `TestsAgree`
says of the data in `Commands` that the two programs agree: each test calls a command of
the switch with its parameter types and its structs, sends the values the handler
expects, and wants the reply it fills in.

## 3. What TLC checks

| run | asks |
| --- | --- |
| `copy_ok` | four registered structs, with empty and non-empty strings and buffers and NULL nested structs, in any order through a buffer the largest fits exactly: `RoundTrip`, `InStep`, `HeapExact`, and the refinement `ImplementsChannel` |
| `copy_oom` | any allocation may fail, one struct fits exactly, one is a char too long and stored all the same, one has a `size_t`: `HeapExact`, `ParentsLive`, `OverrunHasCause` (only a struct whose serial form is longer than the buffer is stored beyond it), `OverreadHasCause`, and the refinement `ImplementsChannel`, of which this is the run where `DeliverBroken` and `Abort` happen |
| `copy_oom_offsets` | **violated**: a failed allocation of a string or a buffer leaves the next member at the wrong offset |
| `copy_size_t` | **violated**: a `size_t` member does not arrive |
| `memory_ok` | two contexts, three regions, any allocation may fail: `AllOrNothing`, `InOpenContext`, `ReleaseLive`, and the refinement `ImplementsPair` |
| `memory_second_context` | **violated**: `TEEC_SUCCESS` for a context that got no memory |
| `benchmark_ok` | 20 rows of 100 structs each way, the constants of the code: `TypeOK`, `InLockstep`, `RowSize`, `NeverFails`, `CountsDown` (each step that does not fail leaves one step less of the loops), `Completes` |
| `benchmark_leak` | **violated**: a struct is received over one that was not freed |
| `call_ok` | the calls of the tests in any order, three the trusted application does not understand, and three that name another struct than its wrapper, over a transport that fails, when any allocation of either world may fail: the refinement `ImplementsRemoteCall`, `NothingLeft`, `SuccessIsWhole`, and `CrashHasCause` |
| `call_result` | **violated**: a handler that runs out of memory stops the trusted application instead of returning its result |
| `program_faults` | `main` with its 13 tests, when setting up, the transport and the memory of the trusted application may fail or not: `MeetsObligation` (`main` calls SDFerry as `host/call.h` asks), `MemoryDuringCalls`, `CleanExit`, `FailureHasCause`, `HostFaultHasCause`, `ReadsOwnReply`, the refinement `ImplementsInward`, and `Ends` |

The violated runs are disagreements between the code and what its headers say:

* `basic.c:176`: a receive function without memory returns 0, not the number of
  chars its member has in the buffer (`basic.h:24` to 26), and the macro continues
  at the old offset.  In `copy_oom_offsets` the length of a `pointer_types` is read
  from the chars of its string.
* `basic.c:197` and 208: `size_t` is declared as a basic type, and its functions
  move nothing.
* `call.c:15`: the flag does not say in which context SDFerry is initialized.
* `main.c:258`: the members are freed once per row of 100 receives; `call.h:57` to 59
  asks for it after each.
* `sdferry_test_ta.c:97`: a handler that returns `TEE_ERROR_OUT_OF_MEMORY` leaves
  members unassigned or NULL, and the wrapper (`ta/register.h:60` to 64) sends and
  frees them before it returns the result that `ta/register.h:8` promises.  A NULL
  nested struct is tolerated by the send function and not by the free function.

**Bounds.**  `Word = 4` is the real width; a number is at most `MaxUint = 2`, so a
length is 0, 1 or 2, which tells apart the empty block, the block of one char and
one of several.  Two chars are enough to see one taken for another.  The buffer of
20 chars holds exactly the longest `rollup_type` of `copy_ok` (4+1 for the
basic part, 4+2, 4 and 4+1 for the pointers); of those of `copy_oom` one fits it
exactly and one is a char too long.  Four blocks are what a `rollup_type` needs at
once: any leak leaves a later transfer without one.  Three regions are one more than SDFerry holds, two
contexts let it be initialized in one and asked for another.  `Benchmark` needs no
bound: it runs with the code's numbers.  `MCFerry` has two values for the two
integers, 33 and 66 and another pair, so that the check of a handler can fail, and
one value for every other struct; that a region holds a struct of another type, or
an earlier reply of the same type, comes from the calls being made in any order.  The
calls of the benchmarks by size are left out there: they move the same struct as the
tests of `pointer_types`.  The mistyped calls send a `basic_types` to a wrapper of
`pointer_types`, which makes lengths of its members, and to one of `teec_value_clone`, and
receive the `pointer_types` of a call with two regions as a `rollup_type`.
`TestProgram` runs the 13 tests of `main` with benchmarks of two rows of two calls
instead of 20 of 100, the least that has two nested loops that both go round; one
context and two regions are what the program has.  In `program_faults` the host
itself does not run out of memory: after a success it would read a struct of
anything and go on, which is the finding at `basic.c:176`.

**Fairness.**  Only the two programs that run by themselves have it: `Benchmark!Spec`
and `TestProgram!ProgramSpec` have weak fairness of their next step, as they are
sequential code that runs until it ends, and their liveness is about loops: `Completes`
and `Ends`.  That a call comes back assumes that the client library returns from
`TEEC_InvokeCommand`, with an error if need be.  `StructCopy`, `Ferry` and `SharedMemory`
have no fairness: a transfer or a call is code without a loop, whose end says nothing
about it, and nobody has to begin one.

Deadlock is not checked where the system may stop: `crashed` in `StructCopy` and
`Ferry`, `done` or `failed` in `Benchmark` and `TestProgram`.

## 4. What TLAPS proves

For every value of the constants that satisfies the assumptions named in the
modules (`WireAssumption`, `CopyAssumption`, `OfferAssumption`,
`MemoryAssumption`, `BenchmarkAssumption`, `FerryAssumption`, `NothingAssumption`,
`ProgramAssumption`):

* `HeapIsExact`: `HeapExact` holds of `StructCopy`, for any two registries, even
  different ones, and any failures, a survived overrun included.  `HeapExact` is not
  inductive: that a fresh block is not yet owned needs that the members not yet
  received are NULL, and that a free meets each owner once needs the range of
  `slot`.  Both are `Tidy`; the inductive invariant is `HeapInv`.
* `WorldsInStep`: if both worlds register the same layouts (`SameRegistries`),
  `InStep` holds.  The argument is the invariant `SentInv`, which says that every
  member already sent lies in the buffer between `at[s]` and `at[s + 1]` and nothing
  stored later touches it, and `ReadInv`, which says that the receiver has followed.
  That the receiver finds the number that was stored, and no other, is `UintDecoded`
  and `BlockDecoded` of `WireTheorems`.  `TestRegistriesAgree` shows that the
  two copies of the test application are the same.
* `StructsRoundTrip`: if moreover no member is a `size_t` (`NoSizeMember`),
  `RoundTrip` holds.  Without that hypothesis run `copy_size_t` refutes it.
* `TransfersImplementChannel`: if both worlds register the same layouts, `StructCopy`
  implements `StructChannel`, whether memory is short or not and whether a member is a
  `size_t` or not: such a struct is not covered.  It needs two invariants beyond the
  others.  `PromisedInv`: no pointer of a struct the promise covers is NULL when it is
  sent, and it is not stored beyond the buffer, which is `LongInv`; `BlocksInv`: a member that was received has its block, or is a string or a
  buffer that came as NULL, and after a failed allocation there is one of these.
* `OverrunCaused`: a sender leaves the buffer only for a struct whose serial form is
  longer than the buffer, for any registries, buffers and structs.  `TooLong` counts the
  chars of the members that are in no NULL struct, one by one; the invariant
  `LongInv` says that `sent` is the number of those of the members behind (`Before`).
  That the send function, which jumps over a NULL struct as a whole, meets every other
  member once and none inside a NULL struct needs that nested structs end inside the
  struct around them (`WellNested`), as those of macros do.
* `OverreadCaused`: if both worlds register the same layouts, a receiver leaves the
  buffer only after a NULL struct, a failed allocation, or an overrun of the sender.
* `StructsOutliveMembers`: a nested struct lives longer than its members
  (`ParentsLive`), for any layouts and whatever allocation fails.
* `MemoryTypeCorrect`, `BothOrNone`, `RegionsReleasedInTime`, `RegionsReleasedOnce`:
  the properties of `SharedMemory`, for any contexts and regions.  The inductive invariant says
  what is live at each point of a call (`Holding`), and that the context of the regions
  is one SDFerry was initialized for, hence one its user does not close.
* `MemoryIsPair`: `SharedMemory` implements `MemoryPair`, from the same invariant: to its
  user an initialization gets both regions at once or changes nothing, a finalization
  gives both back at once, and their context is open all that time.
* `BenchmarkTypeCorrect`, `CountersInLockstep`, `RowsHaveTheirSize`: for any number
  of rows and repeats.  `InLockstep` needs to know where the loops are at each point
  (`Looping`).
* `LastRowIsEnough`: if the struct of the last row fits the shared buffer and the heap
  (`LastRowFits`), `NeverFails` holds: 20016 of 21000 chars and 20005 of 32768 in
  the code.
* `LoopsEnd`: every step of the benchmarks that does not fail makes `StepsLeft` one less,
  and it is never below 0 (`CountsDown`), for any number of rows and repeats.  It is the
  part of `Completes` that is about the counters; what remains of that is the fairness.
* `FerryTypeCorrect`, `NothingHeld`: whatever the commands and the calls are, and
  whatever fails, the trusted application holds nothing between two commands.  The
  one hypothesis is `HandlersInOrder`: a handler fills only members of its struct,
  and a nested struct before what is inside.  The inductive invariant `FerryInv` adds
  to `TypeOK` where the values of a call are (`Passing`) and that what is live is what
  the wrapper is about to free, because the members set are those the statements
  before have filled (`Filling`).
* `SuccessWhole`, `StopsForLackOfMemory`, `HostLedAstray`: if the handlers also fill
  every member (`HandlersFillAll`), `SuccessIsWhole`, `CrashHasCause` and
  `HostFaultHasCause` hold.  `Whole` and `Producing` say what a handler that came to its
  end has filled, and that nothing between it and the host changes that.  Both
  hypotheses are about the data in `Commands`; TLC evaluates them for the test
  application (`TestHandlersFill`).
* `CallsAreRemote`: under these two hypotheses, `Ferry` implements `RemoteCall`, for any
  commands, whatever the transport loses and whichever world is short of memory.
* `InputIsTransferred`: with `HandlersInOrder` only, `Ferry` implements `StructChannel` in
  the direction to the trusted application, for any commands and any failures.  That
  the handler holds the struct in the region follows from `Passing`; that the blocks
  are those of its members, through all the handler allocates for the struct it fills,
  from each block in `heap` carrying which of the two structs it belongs to.  A trusted application that is
  stopped while it receives is an `Abort`, one that is stopped later a `Release`.
* `ProgramUsesMemory`: `main` meets the obligations of `SharedMemory`'s user
  (`MeetsObligation`).  This is not so by construction: `main` calls the library and
  closes its context unconditionally.  It follows from `Staged`, the invariant that
  relates the statement of `main` to the library's state: when the context is closed,
  no context is served any more.
* `ProgramUsesSession`: every behaviour of `TestProgram` is one of `Ferry`.  So everything
  above holds in `TestProgram`.  From `ProgramUsesMemory` and `Staged` follow
  `CallsHaveMemory` and `EndsClean`; from `ProgramUsesSession`, and what a test has read
  (`ReplyRead`), follows `RepliesAreOwn`, for a host that has memory and tests that agree
  with the commands (`TestsAgree`): a region that is read as another struct is no reply.
* `FailuresHaveCause`: for any tests and any commands on which the two programs agree
  (`TestsAgree`, which TLC evaluates for the test application), with the handlers in order
  and filling every member, and a host that has memory, `FailureHasCause` holds.  The
  invariant is `Meeting`: a call in the making is never one the trusted application
  refuses, its handler sees what the host sent, so no check in it fails, and the reply
  it has filled when it comes to its end is the one wanted; what the host then holds is
  that reply by `Whole`, and a result other than success has one of the named causes.
* `ProgramCallsAreRemote`, `ProgramInputIsTransferred`: both refinements of `Ferry` hold
  of the calls of `main`.

Only model-checked: the liveness properties `Completes` and `Ends`.
Fairness and `ENABLED` are beyond the prover.  Every other property of a passing run is
stated by a theorem.  The properties of the violated runs are false, and have none.

## 5. What is not modelled

* The printed output, the times and the result files of the benchmarks, and the
  build files: no property is about them.
* The width of `uint32_t`: a struct near 2^32 chars does not fit any buffer long before.
* Opening and closing a session in the trusted application: its entry points keep no
  state.  The client library and the secure world behind it are external: they
  return an error, or deliver the call once and its result once.
* What a store beyond the shared buffer does to the rest of the memory.  It is noted, it
  may be survived or not, and nothing is promised of that transfer any more but what
  `HeapExact` says of the receiver's blocks; what the receiver then reads beyond the
  buffer is anything.  Nor is it modelled that a client library may refuse to invoke a
  command with a memory reference larger than its region.
* Each module leaves to another what that one is about.  `Ferry` has no chars: that a
  struct crosses unchanged is `StructCopy`, where it is proved; a host struct with a NULL
  member, or one that does not fit the region, is also only there.  `Ferry` and
  `TestProgram` do not count the heap; that the benchmark loses what it receives is
  `Benchmark`.  What a fresh region contains is unspecified in `Ferry` (`Garbled`).
* How the models of different modules meet.  In the direction to the trusted application,
  `StructCopy` and `Ferry` meet at `StructChannel`, and both sides are proved.  In the
  direction to the host they do not: `Ferry` does not model the heap of the host, so that
  an answer's receive is a transfer of `StructCopy` is argued from the code being the
  same.  So is that a region of `SharedMemory` is the buffer of such a transfer; what is
  proved of that is that a program that calls has its two regions (`MemoryDuringCalls`,
  `MemoryIsPair`).

## 6. What could come next

* The blocks a host receives, in `Ferry`, and with them the channel in the other
  direction.
