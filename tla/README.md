# A TLA+ model of AVEO

AVEO offloads functions from a host (VH) to an NEC vector engine (VE). This
directory models the parts of it in which several threads and processes meet,
checks them with TLC on small instances and proves the central facts with TLAPS
for every size. All paths below are relative to the repository.

## The system

* **Commands and queues** (`src/Command.hpp`, `src/Command.cpp`). A request is a
  `Command` in a `unique_ptr`. A context has three containers: the request
  deque, the map of commands in flight on the VE and the map of completed ones.
* **Contexts** (`src/Context.hpp`, `src/Context.cpp`). Application threads submit
  requests, wait or peek for results, synchronize, open request blocks and close
  the context. `_progress_nolock()` moves commands between the containers and
  the URPC rings. It runs under `prog_mtx`, in whichever thread gets hold of it:
  a submitter, a waiter, a peeker or the context's progress thread. Only the
  progress thread executes VH functions.
* **Asynchronous transfers** (`src/AsyncTransfer.cpp`). A transfer is split into
  fragments, chained by the result of the previous one.
* **Calls** (`src/CallArgs.*`, `Context::doCallAsync`, `src/veo_urpc_vh.cpp`).
  Arguments are laid out in registers and a stack image; big images are
  transferred before and after the call.
* **Process handles** (`src/ProcHandle.*`). A table of VE processes, the contexts
  of each, loaded libraries and a cache of symbols.
* **The VE side** (`src/veo_urpc_ve.c`, `src/veo_urpc.c`, `src/aveorun.c`). One
  handler loop per context, the handlers of the commands, a signal handler that
  reports exceptions.
* **Heterogeneous memory, hooks, VE DMA, shared memory, node selection**
  (`src/veo_hmem.cpp`, `src/veo_api.cpp`, `src/veo_vedma.cpp`, ...).

## Modules

| module | models |
|---|---|
| `CommQueue` | the three containers and their operations |
| `Context` | one context: client threads, progress thread, driver, VE process |
| `CommandStream` | what a context promises about its commands (abstract) |
| `ContextInv` | the inductive invariants of `Context` |
| `ContextProofs` | type correctness, and "every command is in exactly one place", proved |
| `ContextTheorems` | the rings and the in-flight map agree, `Context` implements `CommandStream`, claimable results, request blocks, `synchronize()` and wake-ups, proved |
| `MCContext` | instances of `Context` for TLC |
| `AsyncTransfer` | transfers in fragments, simple and large calls, the VE memory they touch |
| `AsyncTransferInv` | the inductive invariant of `AsyncTransfer` |
| `AsyncTransferProofs` | type correctness and the size of the fragments, proved; every step keeps the order of the queues and the chains of commands |
| `AsyncTransferResults` | who takes which result, when the stack image is deleted, complete transfers, proved |
| `AsyncTransferCalls` | complete calls, proved |
| `MCAsyncTransfer` | instances of `AsyncTransfer` for TLC |
| `CallArgs` | one argument object: its stack image, the calls made with it, the frame on the VE |
| `MCCallArgs` | instances of `CallArgs` for TLC |
| `ProcTable` | the table of VE processes, heterogeneous memory, hooks, the library's destructor |
| `ProcTableInv` | the inductive invariants of `ProcTable` |
| `ProcTableProofs` | every step keeps the invariant of the table, of the addresses built from it and of the data of the calls |
| `ProcTableTheorems` | the theorems about the table, the memory, the destructor and the hooks |
| `MCProcTable` | an instance of `ProcTable` for TLC |
| `ProcHandle` | one VE process: its contexts and VE threads, libraries and symbols |
| `ProcHandleInv` | the inductive invariants of `ProcHandle` |
| `ProcHandleProofs` | the theorems about the main context, the cores, the VE threads and `exitProc()` |
| `MCProcHandle` | instances of `ProcHandle` for TLC |

### State and steps of Context

A step is what a thread does between two points at which another thread can
observe it: one critical section, or one read of shared state. `pc[t]` and
`arg[t]` are the control state and the request ID of thread `t`. Since
`_progress_nolock()` runs under `prog_mtx`, its control state `ppc` and its
command pointer `hand` are single variables. Both mutexes are recursive and are
modelled with owner and depth, because the code relies on it: a VH submission
inside a request block locks `submit_mtx` again.

| code | actions |
|---|---|
| `genericAsyncReq`, `simpleCallAsync`, `callVHAsync` | `Issue`, `Push`, `CheckInFlight`, `TryLock`, `Notify` |
| `synchronize` | `Issue`..`Notify`, then `SyncCheck` and the wait; `SyncDead` |
| `callWaitResult` | `Begin`, `TryLock`, `PeekResult`, `WaitNotify`, `WaitCheck`, `WaitCompletion`, `WaitErase` |
| `callPeekResult` | `Begin`, `TryLock`, `PeekResult` |
| `reqBlockBegin`, `reqBlockEnd` | `BlockBegin`, `BlockEnd` |
| `close`, `progressTerminate` | `Close`, `Join`, `CloseExit` |
| `_progress_nolock` | `Recv`, `Complete`, `PopRequest`, `SubmitVH`, `SubmitVE`, `IdleRound`, `CancelRequests`, `CancelInFlight` |
| `progress_main`, `waitRequest`, `progressExec` | `WaitRequest`, `Woken`, `SpuriousWakeup`, `ProgressLock`, `ProgressExec`, `ProgressCheck` |
| VE process (external to the host library) | `VEReply`, `VEException`, `VEKilled` |

Abstractions:

* A command is its request ID and its kind: `VE` (calls, transfers,
  allocations), `VH`, `SYNC` (the VH function of `synchronize()`), `NOWAIT`.
  Arguments, results and payloads are left out; a result is a status.
* The URPC request number of a command in flight is identified with its request
  ID: the VE answers in the order of the ring, which is what makes the number of
  a reply that of its command.
* Each loop of `cancelAll()` is one step. The code does not lock the request
  deque for it; the model assumes that the data race with `pushRequest()` has no effect.
* The application makes no call once it has begun to close the context.
* VH functions make no API calls themselves.
* An exception that reaches the C API is caught and the call returns; in the
  progress thread and in `veo_context_sync()`, which do not catch it, the process
  ends (control state `thrown`).

### State and steps of AsyncTransfer

`Context` shows what happens to one command. `AsyncTransfer` is about requests
that consist of many: each application thread makes one request, a transfer or a
call, and waits for it. It shares `CommQueue` with `Context`.

| code | actions and operators |
|---|---|
| `asyncReadMem`, `asyncWriteMem` | `Start`, then `Fragment` once per iteration; `ChainFails` |
| fragment size | `defaultFrag`, `writeFrag`, `readFrag`, `fragment` |
| `doCallAsync` | `Start`, the fragments, `CallStep`, the fragments, `Finish` |
| `simpleCallAsync` | `CallStep` |
| `callWaitResult` | `Wait` |
| submit and result functions of the commands, run by `_progress_nolock` | `SubmitVE`, `SubmitVH`, `Recv`, with `peek`, `claimed`, `collected`, `resultStatus` |
| `cancelAll`, the check of the VE process, the end of `progress_main` | `CancelAll`, `IdleRound`, `ProgressExit` |
| `sendbuff_handler`, `recvbuff_handler`, the call handlers, `sigactionHandler` | `VEHandle`, `VEException`; `VEKilled` is external |

Data is the set of byte positions that have arrived: on the VE (`onVE`), in the
host buffer (`buffer`) and in the OUT arguments (`outArgs`). All calls use the same place of the VE stack,
so storing a stack image, or running a function, takes the bytes of every other
call away.

Abstractions:

* One branch of a `_progress_nolock()` round is one step, and so is the wait for a result; the
  threads that compete for these rounds, lost wake-ups and replies without a
  command are the subject of `Context`.
* A request ID is issued and its command pushed in one step, so IDs number the
  commands in the order in which they are pushed. In the code two threads may push in the other
  order; nothing in a chain compares IDs, and `Context` has the two steps.
* The environment variables that override the sizes are not set.
  `SizeAssumption` says what the default sizes satisfy; with a `VEO_SENDFRAG` of
  0 the loop would not end.
* `callAsync()` refuses an address of 0 before any state changes; such calls are left out.

### State and steps of CallArgs

An object of class `CallArgs` outlives the calls made with it: it may be changed,
set up for the next call, cleared or freed while an earlier call is queued or
runs. `arguments`, `stack_top`, `stack_buf` ... are its members, `heap` the stack
images that `new char[]` has allocated, `vh` the application's buffers, `calls`
what `doCallAsync()` has captured of each call.

| code | actions and operators |
|---|---|
| `veo_args_set_*`, `set_`, `setOnStack` | `set`, `setOnStack`, `put` |
| `veo_args_clear`, `veo_args_free` | `clear`, `veo_args_free` |
| `getStackImage`, `setStackImage`, `set_value`, `getRegVal` | operators of the same names, `stackSize`, `sizeOnStack`, `pad`, `align16` |
| `callAsync`, `setup`, `doCallAsync` | `callAsync`, `copyout`, `take` |
| `send_call_nolock`, `call_handler` | `frame`, `argument`, `call_handler` |
| `unpack_call_result`, the result function of `simpleCallAsync` | `Result`, `copyoutFromStackImage` |

Abstractions: a byte is a symbol that says where it comes from; a word has
2 bytes instead of 8, the parameter area begins at 4 instead of 176, and one
argument goes into a register instead of 8. A `double` is a value of a whole word. The VE function reads all its arguments and
fills every buffer with intent OUT. Images that need more than one CALL command
are the subject of `AsyncTransfer`; the context does not die. A call with a gap in
its argument numbers (a null pointer in the vector) is left out.

### State and steps of ProcTable

`procs` is the vector `__procs` with its mutex; `life` says what has become of each
process, `hmem` which heterogeneous memory addresses the application holds and
in which process each was allocated, `told` what the hooks have told the upper
layer. An address is a record of its flag, its identifier bits and the virtual
address; the macros of `veo_hmem_macros.h` are operators on it, the overflow of
the identifier into the flag included.

| code | actions and operators |
|---|---|
| `ProcHandle::ProcHandle` | `ProcHandle`, `register` |
| `veo_proc_destroy`, `exitProc` | `veo_proc_destroy`, `exitProc`, `exitProcReturn` |
| `veo_alloc_hmem`, `veo_alloc_mem` | `veo_alloc_hmem`, `allocBuff`, `_alloc_hmem_hook`, `veo_alloc_hmem_ident`; `veo_alloc_hmem_vh` |
| `veo_free_hmem`, `veo_free_mem` | `veo_free_hmem`, `look`, `freeBuff`, `_free_hmem_hook` |
| `veo_hmemcpy` | `veo_hmemcpy`, `look`, `look2`, `copy` |
| `veo_alloc_mem_async`, `veo_free_mem_async`, their VH functions | `veo_mem_async`, `mem_async`, `hmem_async_hook` |
| `_cleanup_procs` | `cleanup_start`, `cleanup_loop`, `cleanup_closing`, `cleanup_erase` |

Abstractions: `close()` of a process's contexts is the wait for its progress
thread. Processes do not die by themselves. The application starts no call on an
address whose process it has destroyed, but may destroy the process while the
call runs. There is one asynchronous request at a time per process. Hooks are
registered, or not, before the first call.

### State and steps of ProcHandle

One VE process with its main context and the program on the VE. `chan` and `rep`
are the two URPC rings of the main context, `request` and `inflight` its queues;
`peer[c]` and `thr[c]` are the URPC peer and the VE thread of context `c`; `frame`
is the local variable whose address `newpeer_handler()` gives to the thread it
creates.

| code | actions and operators |
|---|---|
| `openContext` | `openContext`, `openSync`, `pushSync`, `openFirst`, `openSend`, `openAttach`, `openReply`, `openFlag`, `nextCore` |
| `delContext`, `delContextNolock`, `close`, `exitProc` | `delContext`, `delContextEnd`, `exitProc`, `delContextNolock`, `delContextNolockEnd`, `exitMain`, `erase` |
| `genericAsyncReq`, `callWaitResult` | `Issue`, `push`, `callWaitResult`, `Returned` |
| `_progress_nolock`, `progressExec` | `receive`, `submit`, `postpone`, `leave`, `progressExec` |
| `loadLibrary`, `unloadLibrary`, `getSym` | `loadLibrary`, `loadReturn`, `unloadLibrary`, `unloadReturn`, `veo_get_sym`, `getSym`, `getSymStore` |
| `loadVE2VELibrary`, `getVEDMASyms` | `loadVE2VELibrary`, `setLibh_to_hashmap`, `getVEDMASyms` |
| handlers on the VE | actions of the same names; `newpeer_handler` is three steps, `ve_handler_loop` is the new thread reading its argument |

Abstractions: one round of `_progress_nolock()` is a step; the progress thread is
not asleep while there is work and the ring is never full (see `Context` for
both). The timeouts for a reply and for the attachment of a peer fire only when
the VE process is gone, and `ve_urpc_init()` succeeds. `accessPciRecvSyncRegister()`
is modelled for the main context. Two calls of one thread do not overlap, no
call is made during or after `exitProc()`, a context is closed by one thread,
and a thread uses only the library handles it has got itself.

## Runs

Every `MCContext_<run>.cfg` turns deadlock checking off: an application may stop
making calls, and the bound on request IDs (`NReq`) stops it anyway. The bounds
are two or three requests, one or two application threads, rings of two or three
slots, a check of the VE process on every idle round or every second one
(`Period`, 100 in the code). A race between submitters, waiters and the driver
involves one command and one other thread of a kind, which two threads and two
requests provide; three requests are used where the order of commands matters.
Two slots make the ring full with two commands, three keep it from being full.

Passing:

| run | checks | instance |
|---|---|---|
| `failures` | `TypeOK`, `OnePlace`, `Claimable`, `WireMatchesInFlight` | two threads, two VE or VH commands, wait and peek for any ID, VE exceptions |
| `submission` | `WakeupPending`, `BlockContiguous`, `SyncBarrier` | two threads, three commands, synchronize and request blocks, no faults |
| `order` | `StreamSpec` | one thread, three commands of every kind, close, every fault: refinement of `CommandStream` |
| `live` | `CallsReturn`, `DeadCallsReturn` | one thread, every call, a VE that raises exceptions or dies, a ring that is never full |
| `transfer` | `TypeOK`, `TransferComplete`, `SubmittedCallComplete`, `StackDeletedLast`, `ResultsReady`, `NothingLeft`, `FragmentsFit`, `RequestsReturn` | two threads, transfers of zero, two and three fragments, a simple and a large call, failing sends, VE exceptions, VE killed |
| `args` | `TypeOK`, `ImageSize`, `RegionsFit`, `ArgumentsArrive`, `BuffersOwned`, `OutBuffers` | two contexts, two buffers, every list of up to three arguments, one change, two calls |
| `procs` | `TypeOK`, `TableExact`, `AddressResolves`, `OwnerReached`, `MemoryKnown`, `HookBalance`, `NoneLeft`, `IdentifierStable`, `CallsEnd` | two threads, three processes, two identifiers, one virtual address per process, five calls |
| `process` | `TypeOK`, `MainQuiet`, `PeerServed`, `CoresDistinct`, `CacheFresh`, `NoDeadlock`, `ExitOrder` | two threads; four mixes of calls, see below |

Runs that find what a comment says violated by the code:

| run | property | what happens |
|---|---|---|
| `lost_wakeup` | `WaitReturns` | the waiter whose `try_lock` fails is left behind when the thread that drives the context returns |
| `dead_call` | `CallComplete` | the context dies after `callAsync()` has checked it: all parts of a large call are refused, and the VH command that collects them reports success |
| `out_slot` | `EveryArgumentArrives` | an OUT argument past the registers, in a call without copied-in arguments: the address of its buffer is written into an image that is never sent |
| `open_race` | `EveryReplyExpected` | the progress thread of the main context receives the reply to the NEWPEER that `openContext()` has sent past the queues, and throws |

`submission` is checked without faults; the theorems of `ContextTheorems` extend `SyncBarrier` and
`BlockContiguous` to every fault and `WakeupPending` to failing sends. `WakeupPending` does not hold
with the other faults: a thread that leaves
`_progress_nolock()` with an exception wakes nobody either. `SyncBarrier` excepts
the request with ID 0, for which `synchronize()` does not wait. `CallsReturn` speaks
of a living VE process. `DeadCallsReturn` also speaks of a dead one and excepts what does hang in
the code: VH commands pushed after the progress thread has ended, and `close()` after a
reply without command has left `prog_mtx` locked. Two more weaknesses are known from the model and have no run of
their own: with a full ring (`Slots = 2` and the fault `kill`) the check of the VE process is
skipped and `DeadCallsReturn` fails; with `peek` among the calls of `submission`,
`WakeupPending` fails, because a peeker puts a VH command back and wakes nobody.

In the runs of `MCAsyncTransfer` the program's sizes are scaled down: 4 stands for
a megabyte, so the small fragment is 4, the cut-off 8, alignment 2. Requests of 0
to 6 bytes take the branches of a small transfer; those for transfers above the
cut-off differ only in the divisor, and `FragmentsAlwaysFit` proves what is claimed of them for all sizes. Two
threads let one request fall between the parts of another. `NReq` is 8, the number of commands of two large
calls. Because of
`dead_call`, the passing run asks for complete calls only where every part was
submitted (`SubmittedCallComplete`), and `RequestsReturn` only while the VE process lives: what
happens to waiters after that is decided in `live`.

In `args` every list of arguments is an initial state, so the layout is checked for every
mixture; the change and the two calls that follow let every kind of change (another argument,
`veo_args_clear()`, `veo_args_free()`, a write into a buffer, the next call on the same or another context) fall
between every two stages of a call. Large frames cross a page and are refused. One length is a multiple of the word and one is not. `ArgumentsArrive` excepts
the calls of `out_slot`.

`procs` has more processes than identifiers, so that the table overflows; one virtual address
makes addresses of different processes, and of successive processes in one slot, differ in the
identifier only. Five calls suffice for the longest of the scenarios: create, allocate, destroy, create
again in the same slot, use the address. `CallsEnd` excepts a wait of `exitProc()`
for a progress thread whose hook waits for the table (`hookWaits`), which does hang; the run
shows that nothing else does. `NoneLeft` excepts processes whose constructor failed
after the VE process was ready.

`process` runs four mixes of calls (`work`): opening and closing contexts, six calls, which
reaches a vector with a closed context in the middle (three contexts besides the main one); all
calls on contexts together with symbol lookups and exit, four calls; loading, unloading
and lookups with two libraries and two handle values, four calls, so that a value
is used again for another library; and VE DMA calls besides loading and unloading, three calls. The VE process
may be killed in all but the third. Threads, libraries and handles are interchangeable
(`Symmetry`; there is no liveness property in this run). `NoDeadlock`
speaks of a living process and of the time before the exception of `open_race`.

### Fairness

`FairSpec` assumes weak fairness of each started call, of the driver, of the
progress thread and of the VE's reply: threads are scheduled, and a VE function
ends. Weak fairness suffices for the mutexes in the checked instances, where a
client takes `prog_mtx` only with `try_lock`. Nothing is assumed about faults,
spurious wake-ups or the application's next call. In `AsyncTransfer` the same
holds for each thread's request, the rounds of the driver and the VE's handler
loop. In `ProcTable` each thread inside a call, each progress thread and the destructor are weakly
fair, and no call has to be made; a thread that waits for `__procs_mtx` needs no
more than that, because the bound on calls ends the competition for it.

## Proofs

A proof that a step keeps an invariant has one named step per action, inside the lemma about the
step (`TypeNext`, `OrderNext`, `NextInv`, ...), and one line of argument per conjunct the action can disturb. Every
inductive invariant was checked with TLC on the instances of the runs before it was proved; the MC modules of
`Context`, `AsyncTransfer`, `ProcTable` and `ProcHandle` extend the modules `...Inv`, so a cfg can name the invariants.

### Context

`THEOREM TypeCorrect == Spec => []TypeOK` and
`THEOREM CommandsInOnePlace == Spec => []OnePlace` (`ContextProofs`) hold for any
set of threads, any number of requests and slots, any period, any set of calls
and faults. The assumptions are `NReqAssumption` and `ContextAssumption`: the
constants have their types, and the progress thread and `None` are not
application threads.

Neither property is inductive. `TypeOK` needs `Control`: `_progress_nolock()` is
active exactly when one thread is in it, which owns `prog_mtx` (`ProgInv`,
`ExecInv`); a VH submission holds `submit_mtx` until its `notifyAll()`
(`SubmitInv`); a call carries an issued ID (`ArgInv`); nobody is in a call when
the context closes (`CloseInv`). Without them the proof cannot exclude a mutex
unlocked by a stranger, or a driver with no command in its hand (`HandInv`).
`OnePlace` needs `LogInv` on top: an ID that is about to be pushed has not been
pushed before and belongs to one thread. The proof of type correctness goes
through a handful of control moves (a call goes on, a thread enters, returns from
or throws out of `_progress_nolock()`, ...), each shown once to preserve
`Control`; every action is then such a move and a change of data.

`ContextTheorems` proves `RepliesAlwaysExpected == Spec => []WireMatchesInFlight` and
`ContextImplementsStream == Spec => StreamSpec`, from the same two assumptions. The refinement rests on `OrderInv`:
the reply ring, the command ring, the hand of `_progress_nolock()` and the request queue, read one after the
other, hold commands in the order of submission. So whoever finishes a command finishes the oldest one,
whether it is executed on the host or answered by the VE. `StatusInv` says that a submitted command has a
result exactly when it has left the queue, the hand and the in-flight map, which excludes a
second result; `WireInv` says that the in-flight map and the rings part only after the context has exited.
`StreamStep` shows that each action is a step of `CommandStream` or a stutter.

It also proves

* `ResultsAlwaysClaimable`: `Spec => []Claimable`,
* `BlocksStayWhole`: `Spec => []BlockContiguous`,
* `SynchronizeIsBarrier`: `Spec => SyncBarrier`,
* `NoWakeupLost`: `ASSUME Calm PROVE Spec => []WakeupPending`.

`Claimable` needs `ClaimInv`: an ID leaves the set of outstanding IDs only in the call that destroys its command, or when a
nowait command is destroyed. `SyncBarrier` needs
three facts: a command that was executed was the oldest one without a result (`Executed`); a VH command, such as the one of
`synchronize()`, fails only when the context exits (`FailedVH`); and nobody but its thread
waits for it or destroys it (`SyncInv`, `PushInv`). `WakeupPending` is the one property that depends on what the
application calls and on what fails. `Calm` says that nobody peeks and that sends fail for good or not
at all; without either part TLC finds the progress thread asleep over a request. With `Calm` the context ends by `close()`
only, behind the progress thread (`CalmInv`), and the stronger `WakeInv` is
inductive: the thread on its way to `notifyAll()` has just submitted, or put back, a request.
The instance of `submission` is calm.

### AsyncTransfer

`THEOREM TransferTypes == Spec => []TypeOK` and
`THEOREM FragmentsAlwaysFit == Spec => []FragmentsFit` (`AsyncTransferProofs`) hold
for any threads, requests, rings and faults, and for all sizes that satisfy
`SizeAssumption`. They need each other and `LoopInv`: a thread in the loop over
the fragments has between one byte and the whole transfer left. From that
`FragmentBounds` gives a fragment of at least one byte, at most what is left and
at most one URPC command, by cases on the branches of `writeFrag` and `readFrag`;
so the rest stays a natural number and the loop ends with exactly 0.

`AsyncTransferResults` and `AsyncTransferCalls` prove, under the same assumptions,

* `ResultsAlwaysReady`: `Spec => []ResultsReady`,
* `StackAlwaysDeletedLast`: `Spec => []StackDeletedLast`,
* `NothingEverLeft`: `Spec => []NothingLeft`,
* `TransfersAlwaysComplete`: `Spec => []TransferComplete`,
* `CallsAlwaysComplete`: `Spec => []SubmittedCallComplete`.

These properties speak of a request when it is over; why they hold lies in what its commands do while they
are scattered over the queue, the rings and the completed ones. The invariant (`AsyncTransferInv`) has a layer for
each reason, and each layer uses those before it:

* `QueueInv`: the reply ring, the command ring and the request queue, read one after the other, are in the order
  of submission; the map of commands in flight is what is in the rings until the context is over; an
  EXCEPTION is the last reply.
* `ChainInv`: a fragment begins where its predecessor ends, and its predecessor is the last fragment before it
  (`CommandInv`); the loop goes on where its last fragment ends (`FragInv`); the
  IDs that `doCallAsync()` keeps are the ends of its chains (`PartsInv`), and the one the application gets is
  that of the last command (`RetInv`). While a large call is submitted it holds `submit_mtx`, so no other
  command comes between its own (`Contiguous`).
* `ResultInv`: an ID is outstanding until somebody takes its result (`DoneInv`), and whoever is to take
  it still finds it (`TakeInv`): every result has one taker, the next fragment, the VH command of the call or the waiting thread.
  The stack image is deleted when no command of the call is left (`DeleteInv`). A command that succeeded has
  taken the results of those before it, and all were good (`GoodInv`).
* `RangeInv` and `StoreInv`: a fragment that was executed has moved its bytes, and one that succeeded tells of all bytes
  up to its end. With the last fragment that is the whole transfer.
* `CallInv`: the fragments leave no gap (`CoverInv`); until the function runs, the fragments
  that arrived are on the VE stack (`BeforeInv`); it runs on part of its image only if a fragment
  failed or was refused, and what it leaves stays there until it has been read (`RanInv`). Both depend on `Contiguous`: all calls use
  the same stack, and a call of another thread in between would overwrite it.

The status of the last command therefore stands for the whole request, whichever of its
parts fails, is refused or is cancelled. The one exception is in the hypothesis of `SubmittedCallComplete`: the
VH command of a large call does not look at parts that were refused (`dead_call`).

### ProcTable

`ProcTableTheorems` proves, for any number of threads, processes, identifiers, virtual
addresses and calls,

* `TableAlwaysExact`: `Spec => []TableExact`,
* `AddressesResolve`: `Spec => []AddressResolves`,
* `OwnerAlwaysReached`: `Spec => []OwnerReached`,
* `IdentifiersStable`: `Spec => IdentifierStable`,
* `MemoryTypes`: `Spec => []TypeOK`,
* `CleanupLeavesNone`: `Spec => []NoneLeft`,
* `MemoryAlwaysKnown`: `Spec => []MemoryKnown`,
* `HooksAlwaysBalance`: `Spec => []HookBalance`,

from `ProcTableAssumption`: the numbers are naturals, there is at least one identifier, `None` and the
destructor are no application threads, `Null` is neither a handle nor an address, and the threads are finitely many (they
are counted in `HookBalance`). What the run checks is not
inductive. For the table, `TableInv` says that no process is in two slots and that exactly the live ones are in
the table; `HolderInv` that threads about to register have different processes, and that a
closing process has one thread that closes it and holds the mutex; `CleanInv` ties the destructor's
iterator to the slot it erases; `HmemInv` says that the identifier in every
address the application holds names the slot of its owner; and `ThreadInv(t)` says the same of the operands of a
call in progress, and of the process a thread has found for them. The
argument that matters is in the allocation: the number of processes is checked before the VE
allocates, so another process may be created in between; but the process itself was registered when the check was
made and a slot never moves, so its own identifier is below the limit (`Fits`).
`RegisteredSlot`, `RemovedSlot` and `IdentifierIsSlot` are the facts about the table; actions that leave the table and the
processes alone are dealt with together (`QuietStep`), the others one by one. That `std::find()`
has a first slot to return (`FirstFound`) is a hypothesis of the step lemmas of `ProcTableProofs`; `FirstSlot` in
`ProcTableTheorems` discharges it from the well-foundedness of the naturals.

For the memory, `DataInv` says what a call and an asynchronous job have in hand in each of their
states, and that nothing is allocated in a process that is not registered. `SweepInv` says that the slots the destructor
has passed are empty although `erase()` moves the others. `MemoryKnown` is half of `OwnerInv`, which is an equivalence: an
address is allocated in a running process if and only if the application, a call or the job of the process holds it, and it has
one holder. Without "only one" a second `free` could take away what another thread still holds. `HookBalance` follows from
`BalanceInv` (`ProcTableTheorems`): allocated addresses, plus the frees still to be told, minus the allocations still
to be told, are what the hooks have been told, under the one identifier of the process.

### ProcHandle

`THEOREM MainStaysQuiet == Spec => []MainQuiet` (`ProcHandleProofs`) holds for any number of threads,
contexts, libraries and calls, from `ProcHandleAssumption`: the numbers are naturals, and the progress thread, `None`
and `Null` are no application threads. While `openContext()` waits for the reply to its NEWPEER
nothing else may be queued or in flight, or one of the two would receive the other's reply. What makes it so is spread
over three mechanisms, and the invariant `IInv` has a part for each. The
mutexes (`LockInv`): whoever synchronizes or exchanges NEWPEER holds `ctx_mutex` and `submit_mtx`, so nobody
else pushes a request. The queue (`QueueInv`): a SYNC that somebody waits for is the last
request, so when the worker completes it, with nothing in flight, both queues are empty (`SyncInv`). The rings
(`WireInv`): the commands in flight are the replies and then the commands in the rings, in order, so
empty queues mean empty rings. From then on NEWPEER is alone (`Alone`). The exception is the request with ID 0, for
which `synchronize()` does not wait: `Numbered` and `StateInv` say that ID 0 has been issued before there is a context
and so before any NEWPEER. A worker that still drives may receive the reply to
NEWPEER and throw; `ThrowStep` shows that even this leaves nothing behind in queues and rings. Once the VE process is gone
only the mutexes matter (`DeadStep`).

Three more theorems hold for the same constants, from the same assumption:

* `CoresAlwaysDistinct == Spec => []CoresDistinct`
* `PeersAlwaysServed == Spec => []PeerServed`
* `ExitInOrder == Spec => ExitOrder`

`CoresDistinct` is close to `CtxInv`: the vector holds the contexts in the order of their creation and, if
they are pinned, of their cores, so the core after the last one's is free although `erase()` takes contexts
out of the middle (`Was` gives the position an element had before, and `WasFacts` says that the order stays). It needs
`HoldInv`: the context being opened is the newest and is not in the vector yet, and a
context being closed is in it and is closed by one thread.

`PeerServed` follows a VE thread from NEWPEER to its EXIT (`PeerInv`). `newpeer_handler()` gives the
new thread the address of a local variable, and the thread may read it when the handler has returned or serves the next NEWPEER. `FrameInv` says
that whenever the variable exists it belongs to the context being opened, and `ReplyInv` that a reply of success
means that there is a thread. Here `IInv` is needed: NEWPEER is alone in the rings, so the reply is its own. `LoopInv` says that a
thread that has not read its argument belongs to the newest peer, and that one that serves a peer belongs to a context that is
open or being opened. The exceptions are those of the property: an opening that failed at its end
(`peer[c] = "left"`), and a reply lost to the worker (`stuck`), after which no SYNC is answered
and so no other context is opened (`StuckInv`). NEWPEER goes past the queues, so no request in them is one (`OpsInv`).

`ExitOrder` is an action property. Only `exitMain` ends the process regularly, when the vector holds no other context; then
`LoopInv` leaves no thread that serves a peer.

### Only model-checked

* Liveness (`CallsReturn`, `DeadCallsReturn`, `RequestsReturn`, `CallsEnd`), which is beyond the prover.
* The properties of `CallArgs`: they speak of folds over argument lists of any length, whose proof would be an
  induction over the list, which is beyond the prover.
* `TypeOK`, `CacheFresh` and `NoDeadlock` of `ProcHandle`. The first two need the reference counts of `dlopen()`
  to equal the number of handles in the hands of threads, an induction over the set of threads; `NoDeadlock` is about
  enabled actions.

## Not modelled

* VE DMA, VE shared memory and VH-VE shared memory (`src/veo_vedma.cpp`, `src/veo_veshm.cpp`,
  `src/veo_vhveshm.cpp`): each operation is one or two VE function calls with fixed arguments, after the
  lookup modelled in `ProcHandle`; no state on the host.
* The choice of the VE node from environment variables and the queries of node, pid and
  architecture: they read the environment and files and change nothing.
* The environment variables that set the fragment sizes; a size of 0 would never finish.
* Timeouts that fire although the VE process lives, and what a late reply does then.
* The data races of `cancelAll()` and of the destructor with other threads, whose effect is undefined.
* `veo_prev_req_result()` on the VE, which only functions of the application call; `ping_handler()`.
* Logging, time, the build.
