----------------------------- MODULE ProcHandle -----------------------------
(***************************************************************************)
(* One VE process (ProcHandle.cpp) with the VE program behind it           *)
(* (veo_urpc_ve.c, veo_urpc.c): opening and closing contexts, each with a  *)
(* VE thread and a URPC peer of its own, and libraries and symbols with    *)
(* their caches on the host.                                               *)
(*                                                                         *)
(* Both use the main context, whose worker is driven by whoever holds      *)
(* prog_mtx.  Context models that worker in detail; here a step is one     *)
(* round of the loop of _progress_nolock(), the progress thread is never   *)
(* asleep while there is work, and the ring never is full.  What is new is *)
(* openContext(), which talks to the VE past the queues: it sends NEWPEER  *)
(* and receives the reply itself, under submit_mtx but not prog_mtx.       *)
(***************************************************************************)
EXTENDS Integers, Sequences, FiniteSets, Functions

CONSTANTS App,        \* threads of the application
          Progress,   \* the progress thread of the main context
          None,       \* no thread
          Null,       \* nullptr, 0, no value
          NCtx,       \* contexts opened besides the main one
          Libs,       \* libraries of the application
          VeDma,      \* the library loaded by loadVE2VELibrary()
          LibHandles, \* values dlopen() may return
          Syms,       \* symbols the application looks up
          Static,     \* symbols in _veo_static_symtable
          VeDmaSyms,  \* the sequence vedmasym of getVEDMASyms()
          Workloads   \* a behaviour makes up to max of the calls of one, and the
                      \* VE process may be killed if dies

Main == 0
Peers == 1 .. NCtx
AllCalls == {"open", "close", "pci", "load", "unload", "sym", "dma", "exit"}

ASSUME ProcHandleAssumption ==
  /\ NCtx \in Nat
  /\ \A w \in Workloads : w.calls \subseteq AllCalls /\ w.max \in Nat /\ w.dies \in BOOLEAN
  /\ Progress \notin App /\ None \notin App \cup {Progress} /\ Null \notin App

VARIABLES
  ctx_mutex, submit_mtx, prog_mtx,  \* holders; the last two of the main context
  stuck,      \* an exception has left prog_mtx locked for ever
  ctx,        \* the vector of opened contexts
  core,       \* of every context; -1 is any
  made,       \* URPC peers created by openContext()
  peer,       \* what has become of every peer
  omp,        \* VE_OMP_NUM_THREADS is 1
  state,      \* of the main context
  seq_no,     \* 0 until the main context has issued a request
  request, inflight,       \* its queues
  chan, rep,  \* its URPC rings
  sym_name, ve2velibh,     \* caches of symbols and of the VE2VE library
  pc, rq, res,             \* per thread: step, request, its result
  new,        \* per thread: the peer being opened or the context being closed
  hnd, todo,  \* per thread: library handle and symbols to look up
  hold,       \* per thread: the handle of a library it has loaded
  child,      \* the VE process
  vpc,        \* newpeer_handler(): step of the VE's main thread
  frame,      \* the local variable arg of newpeer_handler()
  thr,        \* VE threads of the contexts
  loaded, refs,            \* dynamic loader of the VE
  crashed,    \* an exception has ended the program
  work, ncalls

mutexes == <<ctx_mutex, submit_mtx, prog_mtx, stuck>>
ctxVars == <<ctx, core, made, peer, omp>>
mainVars == <<state, seq_no, request, inflight>>
ringVars == <<chan, rep>>
cacheVars == <<sym_name, ve2velibh>>
taskVars == <<new, hnd, todo>>
callVars == <<pc, rq, res, taskVars>>
threadVars == <<callVars, hold>>
veVars == <<child, vpc, frame, thr>>
dlVars == <<loaded, refs>>
vars == <<mutexes, ctxVars, mainVars, ringVars, cacheVars, threadVars, veVars, dlVars,
          crashed, work, ncalls>>

Request(op, by, a) == [op |-> op, by |-> by, a |-> a]
NoRequest == Request("none", Null, <<>>)
NoValue == <<>>    \* a result that nobody looks at

Init ==
  /\ ctx_mutex = None /\ submit_mtx = None /\ prog_mtx = None /\ stuck = FALSE
  /\ ctx = <<>> /\ core \in {[c \in 0 .. NCtx |-> i] : i \in {-1, 0}} /\ made = 0
  /\ peer = [c \in Peers |-> "none"] /\ omp \in BOOLEAN
  /\ state = "RUNNING" /\ seq_no = 0 /\ request = <<>> /\ inflight = <<>>
  /\ chan = <<>> /\ rep = <<>>
  /\ sym_name = {} /\ ve2velibh = Null
  /\ pc = [t \in App |-> "idle"] /\ rq = [t \in App |-> NoRequest]
  /\ res = [t \in App |-> <<>>] /\ new = [t \in App |-> Null]
  /\ hnd = [t \in App |-> Null] /\ todo = [t \in App |-> <<>>]
  /\ hold = [t \in App |-> Null]
  /\ child = "alive" /\ vpc = "poll" /\ frame = Null
  /\ thr = [c \in Peers |-> "none"]
  /\ loaded = [h \in LibHandles |-> Null] /\ refs = [h \in LibHandles |-> 0]
  /\ crashed = FALSE /\ work \in Workloads /\ ncalls = 0

-----------------------------------------------------------------------------
is_alive == state # "EXIT"
isActive == request # <<>> \/ inflight # <<>>

call(t, op) ==
  /\ pc[t] = "idle" /\ child # "exited" /\ ncalls < work.max /\ op \in work.calls
  /\ \A u \in App : pc[u] \notin {"exit", "exit_closing"}
  /\ ncalls' = ncalls + 1

GoTo(t, l) == pc' = [pc EXCEPT ![t] = l]

\* the call returns, and its local variables are gone
Return(t) ==
  /\ GoTo(t, "idle")
  /\ rq' = [rq EXCEPT ![t] = NoRequest] /\ res' = [res EXCEPT ![t] = <<>>]
  /\ new' = [new EXCEPT ![t] = Null] /\ hnd' = [hnd EXCEPT ![t] = Null]
  /\ todo' = [todo EXCEPT ![t] = <<>>]

\* a request to the main context: thread t will push it, then wait for it; a
\* dead context answers VEO_REQUEST_ID_INVALID, for which the wait fails
Issue(t, op, a) ==
  /\ rq' = [rq EXCEPT ![t] = Request(op, t, a)]
  /\ IF is_alive
     THEN GoTo(t, "push") /\ res' = [res EXCEPT ![t] = <<>>]
     ELSE GoTo(t, "wait") /\ res' = [res EXCEPT ![t] = <<Null>>]

\* genericAsyncReq(): pushRequest() under submit_mtx; nobody waits for the
\* nowait request, but progress() may drive the worker once
push(t) ==
  /\ pc[t] = "push" /\ rq[t].op # "SYNC" /\ submit_mtx = None
  /\ request' = Append(request, rq[t]) /\ seq_no' = 1
  /\ GoTo(t, "wait")
  /\ res' = IF rq[t].op = "PCI" THEN [res EXCEPT ![t] = <<Null>>] ELSE res
  /\ UNCHANGED <<mutexes, ctxVars, state, inflight, ringVars, cacheVars, rq, taskVars, hold,
                 veVars, dlVars, crashed, work, ncalls>>

(***************************************************************************)
(* callWaitResult(): try_lock() and drive the worker, or else block until  *)
(* the command is completed.  The nowait request only has progress(),      *)
(* which returns if there are commands in flight.                          *)
(***************************************************************************)
callWaitResult(t) ==
  /\ pc[t] = "wait"
  /\ IF prog_mtx \in {None, t} /\ (rq[t].op = "PCI" => inflight = <<>>)
     THEN prog_mtx' = t /\ GoTo(t, "drive")
     ELSE prog_mtx' = prog_mtx /\ GoTo(t, "block")
  /\ UNCHANGED <<ctx_mutex, submit_mtx, stuck, ctxVars, mainVars, ringVars, cacheVars, rq, res,
                 taskVars, hold, veVars, dlVars, crashed, work, ncalls>>

\* progressExec(): the progress thread takes prog_mtx while there is work
progressExec ==
  /\ prog_mtx = None /\ isActive /\ ~crashed /\ child # "exited"
  /\ prog_mtx' = Progress
  /\ UNCHANGED <<ctx_mutex, submit_mtx, stuck, ctxVars, mainVars, ringVars, cacheVars, threadVars,
                 veVars, dlVars, crashed, work, ncalls>>

drives(d) == prog_mtx = d /\ ~crashed /\ (d \in App => pc[d] = "drive")

\* pushCompletion(): only the call that issued the request will pick it up
answers(q, v) == IF q.by \in App /\ rq[q.by] = q THEN [res EXCEPT ![q.by] = <<v>>] ELSE res

\* a reply without a command in flight: the exception leaves prog_mtx locked;
\* an API function catches it, in the progress thread it ends the program
throws(d) ==
  IF d = Progress THEN crashed' = TRUE /\ UNCHANGED <<stuck, callVars, ctx_mutex, submit_mtx>>
  ELSE /\ stuck' = TRUE /\ crashed' = FALSE /\ Return(d)
       /\ ctx_mutex' = IF ctx_mutex = d THEN None ELSE ctx_mutex
       /\ submit_mtx' = IF submit_mtx = d THEN None ELSE submit_mtx

\* the commands in flight without q, the oldest if there are several alike
popInFlight(q) ==
  LET i == CHOOSE j \in DOMAIN inflight : inflight[j] = q /\ \A k \in 1 .. j - 1 : inflight[k] # q
  IN  SubSeq(inflight, 1, i - 1) \o SubSeq(inflight, i + 1, Len(inflight))

\* one round of _progress_nolock(): receive a reply, ...
receive(d) ==
  /\ drives(d) /\ rep # <<>> /\ rep' = Tail(rep)
  /\ IF Head(rep).to \notin Range(inflight)
     THEN throws(d) /\ inflight' = inflight
     ELSE /\ inflight' = popInFlight(Head(rep).to)
          /\ res' = answers(Head(rep).to, Head(rep).val)
          /\ UNCHANGED <<stuck, pc, rq, taskVars, ctx_mutex, submit_mtx, crashed>>
  /\ UNCHANGED <<prog_mtx, ctxVars, state, seq_no, request, chan, cacheVars, hold,
                 veVars, dlVars, work, ncalls>>

\* ... or submit a command, ...
submit(d) ==
  /\ drives(d) /\ rep = <<>> /\ request # <<>>
  /\ \/ /\ Head(request).op # "SYNC"
        /\ inflight' = Append(inflight, Head(request)) /\ chan' = Append(chan, Head(request))
        /\ res' = res
     \/ /\ Head(request).op = "SYNC" /\ inflight = <<>> /\ d = Progress
        /\ res' = answers(Head(request), NoValue)
        /\ UNCHANGED <<inflight, chan>>
  /\ request' = Tail(request)
  /\ UNCHANGED <<mutexes, ctxVars, state, seq_no, rep, cacheVars, pc, rq, taskVars, hold, veVars,
                 dlVars, crashed, work, ncalls>>

released == IF stuck THEN prog_mtx ELSE None

\* ... or leave it to the progress thread, ...
postpone(t) ==
  /\ drives(t) /\ rep = <<>> /\ request # <<>> /\ Head(request).op = "SYNC"
  /\ prog_mtx' = released /\ GoTo(t, "block")
  /\ UNCHANGED <<ctx_mutex, submit_mtx, stuck, ctxVars, mainVars, ringVars, cacheVars, rq, res,
                 taskVars, hold, veVars, dlVars, crashed, work, ncalls>>

\* ... or find nothing to do; the worker cancels all commands when it finds
\* the VE process gone.  A thread in callWaitResult() then peeks for its result.
leave(d) ==
  /\ drives(d) /\ rep = <<>>
  /\ \/ /\ request = <<>> /\ UNCHANGED mainVars /\ res' = res
        /\ prog_mtx' = IF d = Progress /\ isActive THEN d ELSE released
     \/ /\ request = <<>> /\ child = "dead"
        /\ state' = "EXIT" /\ inflight' = <<>> /\ UNCHANGED <<request, seq_no>>
        /\ res' = [t \in App |-> IF rq[t] \in Range(inflight) THEN <<Null>> ELSE res[t]]
        /\ prog_mtx' = released
  /\ IF d \in App THEN GoTo(d, IF res'[d] = <<>> THEN "wait" ELSE "peek") ELSE pc' = pc
  /\ UNCHANGED <<ctx_mutex, submit_mtx, stuck, ctxVars, ringVars, cacheVars, rq, taskVars, hold,
                 veVars, dlVars, crashed, work, ncalls>>

\* callWaitResult() has returned res[t] for a request op; Null is a failure
Returned(t, op) == pc[t] \in {"peek", "block"} /\ res[t] # <<>> /\ rq[t].op = op
result(t) == res[t][1]

-----------------------------------------------------------------------------
(***************************************************************************)
(* openContext(), under ctx_mutex and submit_mtx.                          *)
(***************************************************************************)
openContext(t) ==
  /\ call(t, "open") /\ ctx_mutex = None /\ ctx_mutex' = t
  /\ GoTo(t, "open")
  /\ UNCHANGED <<submit_mtx, prog_mtx, stuck, ctxVars, mainVars, ringVars, cacheVars, rq, res,
                 taskVars, hold, veVars, dlVars, crashed, work>>

\* mutant: the submission lock is not taken
openSyncUnlocked(t) ==
  /\ pc[t] = "open" /\ submit_mtx' = submit_mtx
  /\ Issue(t, "SYNC", <<>>)
  /\ UNCHANGED <<ctx_mutex, prog_mtx, stuck, ctxVars, mainVars, ringVars, cacheVars,
                 taskVars, hold, veVars, dlVars, crashed, work, ncalls>>

openSync(t) ==
  /\ pc[t] = "open" /\ submit_mtx = None /\ submit_mtx' = t
  /\ Issue(t, "SYNC", <<>>)
  /\ UNCHANGED <<ctx_mutex, prog_mtx, stuck, ctxVars, mainVars, ringVars, cacheVars,
                 taskVars, hold, veVars, dlVars, crashed, work, ncalls>>

\* synchronize() does not wait for the request with ID 0
pushSync(t) ==
  /\ pc[t] = "push" /\ rq[t].op = "SYNC"
  /\ request' = Append(request, IF seq_no = 0 THEN [rq[t] EXCEPT !.by = Null] ELSE rq[t])
  /\ seq_no' = 1
  /\ IF seq_no = 0
     THEN GoTo(t, "peek") /\ res' = [res EXCEPT ![t] = <<NoValue>>]
     ELSE GoTo(t, "wait") /\ res' = res
  /\ UNCHANGED <<mutexes, ctxVars, state, inflight, ringVars, cacheVars, rq, taskVars, hold,
                 veVars, dlVars, crashed, work, ncalls>>

\* mutant: submit_mtx is not released
openReturnLocked(t) == ctx_mutex' = None /\ submit_mtx' = submit_mtx /\ Return(t)

\* openContext() returns or throws: both locks are released
openReturn(t) == ctx_mutex' = None /\ submit_mtx' = None /\ Return(t)

\* the first context is the main one; others need VE_OMP_NUM_THREADS=1
openFirst(t) ==
  /\ Returned(t, "SYNC") /\ (ctx = <<>> \/ ~omp)
  /\ ctx' = IF ctx = <<>> THEN <<Main>> ELSE ctx
  /\ openReturn(t)
  /\ UNCHANGED <<prog_mtx, stuck, core, made, peer, omp, mainVars, ringVars, cacheVars,
                 hold, veVars, dlVars, crashed, work, ncalls>>

\* vh_urpc_peer_create() and the sending of NEWPEER; either may fail
openSend(t) ==
  /\ Returned(t, "SYNC") /\ ctx # <<>> /\ omp
  /\ \/ openReturn(t) /\ UNCHANGED <<made, peer, chan>>
     \/ /\ made < NCtx
        /\ made' = made + 1 /\ peer' = [peer EXCEPT ![made + 1] = "destroyed"]
        /\ chan' = chan /\ openReturn(t)
     \/ /\ made < NCtx
        /\ made' = made + 1 /\ peer' = [peer EXCEPT ![made + 1] = "created"]
        /\ chan' = Append(chan, Request("NEWPEER", Null, made + 1))
        /\ new' = [new EXCEPT ![t] = made + 1] /\ GoTo(t, "attach")
        /\ UNCHANGED <<ctx_mutex, submit_mtx, rq, res, hnd, todo>>
  /\ UNCHANGED <<prog_mtx, stuck, ctx, core, omp, mainVars, rep, cacheVars, hold,
                 veVars, dlVars, crashed, work, ncalls>>

\* urpc_wait_peer_attach(), which times out if the VE process is gone
openAttach(t) ==
  /\ pc[t] = "attach"
  /\ \/ peer[new[t]] # "created" /\ GoTo(t, "reply")
        /\ UNCHANGED <<ctx_mutex, submit_mtx, peer, rq, res, taskVars>>
     \/ /\ child # "alive" /\ peer[new[t]] = "created"
        /\ peer' = [peer EXCEPT ![new[t]] = "destroyed"] /\ openReturn(t)
  /\ UNCHANGED <<prog_mtx, stuck, ctx, core, made, omp, mainVars, ringVars, cacheVars, hold,
                 veVars, dlVars, crashed, work, ncalls>>

NewPeerComes(c) == child = "alive" /\ (vpc # "poll" \/ Request("NEWPEER", Null, c) \in Range(chan))

\* wait_req_result(): after a timeout rc is what the stack held
openReply(t) ==
  /\ pc[t] = "reply"
  /\ \E rc \in {0, 1} :
       /\ \/ rep # <<>> /\ Head(rep).val = rc /\ rep' = Tail(rep)
          \/ rep = <<>> /\ ~NewPeerComes(new[t]) /\ rep' = rep
       /\ IF rc = 0 THEN GoTo(t, "flag") /\ UNCHANGED <<ctx_mutex, submit_mtx, peer, rq, res, taskVars>>
          ELSE peer' = [peer EXCEPT ![new[t]] = "destroyed"] /\ openReturn(t)
  /\ UNCHANGED <<prog_mtx, stuck, ctx, core, made, omp, mainVars, chan, cacheVars, hold,
                 veVars, dlVars, crashed, work, ncalls>>

\* mutant: a core for every context of the vector
nextCoreByCount == IF core[ctx[Len(ctx)]] >= 0 THEN Len(ctx) ELSE -1

\* the core after that of the last context, if contexts are pinned
nextCore == IF core[ctx[Len(ctx)]] >= 0 THEN core[ctx[Len(ctx)]] + 1 ELSE -1

\* mutant: the VE thread is not waited for
openFlagNoWait(t) ==
  /\ pc[t] = "flag"
  /\ ctx' = Append(ctx, new[t]) /\ core' = [core EXCEPT ![new[t]] = nextCore]
  /\ openReturn(t)
  /\ UNCHANGED <<prog_mtx, stuck, made, peer, omp, mainVars, ringVars, cacheVars, hold,
                 veVars, dlVars, crashed, work, ncalls>>

\* the receiver flag is set; getStackPointer() asks the VE thread and
\* progressInit() starts a thread: if one fails the peer is left behind
openFlag(t) ==
  /\ pc[t] = "flag" /\ peer[new[t]] = "flagged"
  /\ \/ /\ child = "alive"
        /\ ctx' = Append(ctx, new[t]) /\ core' = [core EXCEPT ![new[t]] = nextCore]
        /\ peer' = peer
     \/ peer' = [peer EXCEPT ![new[t]] = "left"] /\ UNCHANGED <<ctx, core>>
  /\ openReturn(t)
  /\ UNCHANGED <<prog_mtx, stuck, made, omp, mainVars, ringVars, cacheVars, hold,
                 veVars, dlVars, crashed, work, ncalls>>

-----------------------------------------------------------------------------
(***************************************************************************)
(* close() of a context with its own peer: EXIT is sent to its VE thread   *)
(* and acknowledged.  A context that has found the process gone returns at *)
(* once and leaves its peer; one that has not waits until it times out.    *)
(***************************************************************************)
getContext(i) == ctx[i + 1]

closeSend(t, c, l) ==
  /\ new' = [new EXCEPT ![t] = c] /\ GoTo(t, l)
  /\ \/ peer' = [peer EXCEPT ![c] = "exit"]
     \/ child # "alive" /\ peer' = [peer EXCEPT ![c] = "left"]

\* ctx.erase() of the iterator that points to context c: those behind it move up
erase(c) ==
  LET it == CHOOSE i \in DOMAIN ctx : ctx[i] = c
  IN  [i \in 1 .. Len(ctx) - 1 |-> ctx[IF i < it THEN i ELSE i + 1]]

closeEnd(t, c) ==
  /\ peer[c] = "exit" => (thr[c] = "gone" \/ child # "alive")
  /\ peer' = [peer EXCEPT ![c] = IF @ = "exit" THEN "destroyed" ELSE @]
  /\ ctx' = erase(c)

\* veo_context_close(): the main context stays; each other is closed by one
\* thread, under ctx_mutex
veo_context_close(t) ==
  /\ call(t, "close")
  /\ \E i \in 0 .. Len(ctx) - 1 :
       IF getContext(i) = Main THEN UNCHANGED <<pc, new>>
       ELSE GoTo(t, "close") /\ new' = [new EXCEPT ![t] = getContext(i)]
  /\ \A u \in App \ {t} : pc[u] \in {"close", "closing"} => new'[t] # new[u] \/ pc'[t] = "idle"
  /\ UNCHANGED <<mutexes, ctxVars, mainVars, ringVars, cacheVars, rq, res, hnd, todo, hold,
                 veVars, dlVars, crashed, work>>

delContext(t) ==
  /\ pc[t] = "close" /\ ctx_mutex = None /\ ctx_mutex' = t
  /\ closeSend(t, new[t], "closing")
  /\ UNCHANGED <<submit_mtx, prog_mtx, stuck, ctx, core, made, omp, mainVars, ringVars, cacheVars, rq, res,
                 hnd, todo, hold, veVars, dlVars, crashed, work, ncalls>>

delContextEnd(t) ==
  /\ pc[t] = "closing" /\ closeEnd(t, new[t])
  /\ ctx_mutex' = None /\ Return(t)
  /\ UNCHANGED <<submit_mtx, prog_mtx, stuck, core, made, omp, mainVars, ringVars, cacheVars, hold,
                 veVars, dlVars, crashed, work, ncalls>>

(***************************************************************************)
(* exitProc(): every context but the main one is closed, then the main     *)
(* one, whose progress thread is joined first.  The application calls it   *)
(* when no other call is under way.                                        *)
(***************************************************************************)
exitProc(t) ==
  /\ call(t, "exit") /\ (\A u \in App : pc[u] = "idle") /\ ctx_mutex = None
  /\ ctx_mutex' = t /\ GoTo(t, "exit")
  /\ UNCHANGED <<submit_mtx, prog_mtx, stuck, ctxVars, mainVars, ringVars, cacheVars, rq, res,
                 taskVars, hold, veVars, dlVars, crashed, work>>

delContextNolock(t) ==
  /\ pc[t] = "exit"
  /\ \E i \in DOMAIN ctx : /\ ctx[i] # Main /\ \A j \in 1 .. i - 1 : ctx[j] = Main
                          /\ closeSend(t, ctx[i], "exit_closing")
  /\ UNCHANGED <<mutexes, ctx, core, made, omp, mainVars, ringVars, cacheVars, rq, res,
                 hnd, todo, hold, veVars, dlVars, crashed, work, ncalls>>

delContextNolockEnd(t) ==
  /\ pc[t] = "exit_closing" /\ closeEnd(t, new[t]) /\ GoTo(t, "exit")
  /\ UNCHANGED <<mutexes, core, made, omp, mainVars, ringVars, cacheVars, rq, res,
                 taskVars, hold, veVars, dlVars, crashed, work, ncalls>>

\* mutant: the contexts are not looked at
exitMainAtOnce(t) ==
  /\ pc[t] = "exit" /\ prog_mtx # Progress /\ (stuck => ~isActive)
  /\ child' = "exited" /\ state' = "EXIT" /\ ctx_mutex' = None /\ Return(t)
  /\ UNCHANGED <<submit_mtx, prog_mtx, stuck, ctxVars, seq_no, request, inflight, ringVars, cacheVars,
                 hold, vpc, frame, thr, dlVars, crashed, work, ncalls>>

exitMain(t) ==
  /\ pc[t] = "exit" /\ (\A i \in DOMAIN ctx : ctx[i] = Main)
  /\ prog_mtx # Progress /\ (stuck => ~isActive)
  /\ child' = "exited" /\ state' = "EXIT" /\ ctx_mutex' = None /\ Return(t)
  /\ UNCHANGED <<submit_mtx, prog_mtx, stuck, ctxVars, seq_no, request, inflight, ringVars, cacheVars,
                 hold, vpc, frame, thr, dlVars, crashed, work, ncalls>>

\* accessPciRecvSyncRegister(): a nowait request to every context of the
\* vector, of which only the one to the main context matters here
accessPciRecvSyncRegister(t) ==
  /\ call(t, "pci") /\ ctx_mutex = None
  /\ IF Main \in Range(ctx)
     THEN ctx_mutex' = t /\ Issue(t, "PCI", <<>>)
     ELSE UNCHANGED <<ctx_mutex, pc, rq, res>>
  /\ UNCHANGED <<submit_mtx, prog_mtx, stuck, ctxVars, mainVars, ringVars, cacheVars,
                 taskVars, hold, veVars, dlVars, crashed, work>>

accessReturn(t) ==
  /\ Returned(t, "PCI") /\ ctx_mutex' = None /\ Return(t)
  /\ UNCHANGED <<submit_mtx, prog_mtx, stuck, ctxVars, mainVars, ringVars, cacheVars, hold,
                 veVars, dlVars, crashed, work, ncalls>>

-----------------------------------------------------------------------------
(***************************************************************************)
(* Libraries and symbols.  A thread uses the handle it has got itself and  *)
(* gives it up when it unloads the library.                                *)
(***************************************************************************)
otherVars == <<mutexes, ctxVars, mainVars, ringVars, veVars, dlVars, crashed, work>>

loadLibrary(t) ==
  /\ call(t, "load") /\ hold[t] = Null
  /\ \E l \in Libs : Issue(t, "LOADLIB", <<l>>)
  /\ UNCHANGED <<otherVars, cacheVars, taskVars, hold>>

loadReturn(t) ==
  /\ Returned(t, "LOADLIB") /\ rq[t].a # <<VeDma>>
  /\ hold' = [hold EXCEPT ![t] = result(t)] /\ Return(t)
  /\ UNCHANGED <<otherVars, cacheVars, ncalls>>

\* mutant: the cache is kept
purgedNot(h) == sym_name

purged(h) == {e \in sym_name : e[1] # h}

\* unloadLibrary(): the cache is purged under sym_mtx, then the VE is asked
unloadLibrary(t) ==
  /\ call(t, "unload") /\ hold[t] # Null
  /\ sym_name' = purged(hold[t])
  /\ Issue(t, "UNLOADLIB", <<hold[t]>>)
  /\ hold' = [hold EXCEPT ![t] = Null]
  /\ UNCHANGED <<otherVars, ve2velibh, new, hnd, todo>>

unloadReturn(t) ==
  /\ Returned(t, "UNLOADLIB") /\ Return(t)
  /\ UNCHANGED <<otherVars, cacheVars, hold, ncalls>>

\* veo_get_sym(); a static symbol needs no library
veo_get_sym(t) ==
  /\ call(t, "sym")
  /\ \E s \in Syms : (hold[t] # Null \/ s \in Static) /\ todo' = [todo EXCEPT ![t] = <<s>>]
  /\ hnd' = [hnd EXCEPT ![t] = hold[t]] /\ GoTo(t, "getsym")
  /\ UNCHANGED <<otherVars, cacheVars, rq, res, new, hold>>

cached(h, s) == {e \in sym_name : e[1] = h /\ e[2] = s}

\* getSym() of the next symbol: from the cache or from the VE
getSym(t) ==
  /\ pc[t] = "getsym"
  /\ \/ todo[t] = <<>> /\ Return(t)
     \/ /\ todo[t] # <<>> /\ UNCHANGED <<new, hnd>>
        /\ IF cached(hnd[t], Head(todo[t])) # {}
           THEN todo' = [todo EXCEPT ![t] = Tail(@)] /\ UNCHANGED <<pc, rq, res>>
           ELSE Issue(t, "GETSYM", <<hnd[t], Head(todo[t])>>) /\ todo' = todo
  /\ UNCHANGED <<otherVars, cacheVars, hold, ncalls>>

\* mutant: a symbol that is not found is cached, too
getSymStoreNull(t) ==
  /\ Returned(t, "GETSYM")
  /\ sym_name' = sym_name \cup {<<hnd[t], Head(todo[t]), result(t)>>}
  /\ todo' = [todo EXCEPT ![t] = Tail(@)] /\ GoTo(t, "getsym")
  /\ UNCHANGED <<otherVars, ve2velibh, rq, res, new, hnd, hold, ncalls>>

\* the address is stored under sym_mtx; 0 is not, and ends the lookup
getSymStore(t) ==
  /\ Returned(t, "GETSYM")
  /\ IF result(t) = Null
     THEN Return(t) /\ sym_name' = sym_name
     ELSE /\ sym_name' = (sym_name \ cached(hnd[t], Head(todo[t])))
                           \cup {<<hnd[t], Head(todo[t]), result(t)>>}
          /\ todo' = [todo EXCEPT ![t] = Tail(@)] /\ GoTo(t, "getsym")
          /\ UNCHANGED <<rq, res, new, hnd>>
  /\ UNCHANGED <<otherVars, ve2velibh, hold, ncalls>>

(***************************************************************************)
(* A VE DMA call: loadVE2VELibrary(), which several threads may find not   *)
(* done yet, then getVEDMASyms(), which looks all symbols up if the one it *)
(* needs is not cached.                                                    *)
(***************************************************************************)
loadVE2VELibrary(t) ==
  /\ call(t, "dma")
  /\ IF ve2velibh = Null THEN Issue(t, "LOADLIB", <<VeDma>>) ELSE GoTo(t, "vedma") /\ UNCHANGED <<rq, res>>
  /\ hnd' = [hnd EXCEPT ![t] = ve2velibh]
  /\ UNCHANGED <<otherVars, cacheVars, new, todo, hold>>

setLibh_to_hashmap(t) ==
  /\ Returned(t, "LOADLIB") /\ rq[t].a = <<VeDma>>
  /\ ve2velibh' = result(t)
  /\ IF result(t) = Null THEN Return(t)
     ELSE /\ hnd' = [hnd EXCEPT ![t] = result(t)] /\ GoTo(t, "vedma")
          /\ UNCHANGED <<rq, res, new, todo>>
  /\ UNCHANGED <<otherVars, sym_name, hold, ncalls>>

getVEDMASyms(t) ==
  /\ pc[t] = "vedma"
  /\ \E s \in Range(VeDmaSyms) :
       todo' = [todo EXCEPT ![t] = IF cached(hnd[t], s) # {} THEN <<>> ELSE VeDmaSyms]
  /\ GoTo(t, "getsym")
  /\ UNCHANGED <<otherVars, cacheVars, rq, res, new, hnd, hold, ncalls>>

-----------------------------------------------------------------------------
(***************************************************************************)
(* The VE program: its main thread serves the ring of the main context in  *)
(* order.                                                                  *)
(***************************************************************************)
reply(q, v) == chan' = Tail(chan) /\ rep' = Append(rep, [to |-> q, val |-> v])
serves(op) == child = "alive" /\ vpc = "poll" /\ chan # <<>> /\ Head(chan).op = op

\* dlopen(): another reference if the library is loaded; it may fail
loadlib_handler ==
  /\ serves("LOADLIB")
  /\ LET l == Head(chan).a[1]
         has == {h \in LibHandles : loaded[h] = l}
     IN  \/ \E h \in IF has # {} THEN has ELSE {g \in LibHandles : loaded[g] = Null} :
              /\ loaded' = [loaded EXCEPT ![h] = l] /\ refs' = [refs EXCEPT ![h] = @ + 1]
              /\ reply(Head(chan), h)
         \/ reply(Head(chan), Null) /\ UNCHANGED dlVars
  /\ UNCHANGED <<mutexes, ctxVars, mainVars, cacheVars, threadVars, veVars, crashed, work, ncalls>>

unloadlib_handler ==
  /\ serves("UNLOADLIB")
  /\ LET h == Head(chan).a[1]
     IN  /\ refs' = [refs EXCEPT ![h] = @ - 1]
         /\ loaded' = [loaded EXCEPT ![h] = IF refs[h] = 1 THEN Null ELSE @]
  /\ reply(Head(chan), NoValue)
  /\ UNCHANGED <<mutexes, ctxVars, mainVars, cacheVars, threadVars, veVars, crashed, work, ncalls>>

\* dlsym() and the table of static symbols, which comes last and wins
address(h, s) ==
  IF s \in Static THEN <<Null, s>>
  ELSE IF h # Null /\ loaded[h] # Null THEN <<loaded[h], s>> ELSE Null

getsym_handler ==
  /\ serves("GETSYM")
  /\ \E a \in {address(Head(chan).a[1], Head(chan).a[2]), Null} : reply(Head(chan), a)
  /\ UNCHANGED <<mutexes, ctxVars, mainVars, cacheVars, threadVars, veVars, dlVars, crashed, work, ncalls>>

access_pcircvsyc_register_handler ==
  /\ serves("PCI") /\ reply(Head(chan), NoValue)
  /\ UNCHANGED <<mutexes, ctxVars, mainVars, cacheVars, threadVars, veVars, dlVars, crashed, work, ncalls>>

(***************************************************************************)
(* newpeer_handler(): attach to the peer, start a thread with the address  *)
(* of a local variable, then reply; the thread reads the variable when it  *)
(* runs.                                                                   *)
(***************************************************************************)
newpeer_handler ==
  /\ serves("NEWPEER")
  /\ frame' = Head(chan).a /\ vpc' = "create"
  /\ peer' = [peer EXCEPT ![Head(chan).a] = "attached"]
  /\ UNCHANGED <<mutexes, ctx, core, made, omp, mainVars, ringVars, cacheVars, threadVars, child, thr,
                 dlVars, crashed, work, ncalls>>

newpeer_create ==
  /\ child = "alive" /\ vpc = "create"
  /\ \/ thr' = [thr EXCEPT ![frame] = "created"] /\ vpc' = "reply" /\ UNCHANGED <<ringVars, frame>>
     \/ reply(Head(chan), 1) /\ thr' = thr /\ vpc' = "poll" /\ frame' = Null
  /\ UNCHANGED <<mutexes, ctxVars, mainVars, cacheVars, threadVars, child, dlVars, crashed, work, ncalls>>

newpeer_reply ==
  /\ child = "alive" /\ vpc = "reply"
  /\ reply(Head(chan), 0) /\ vpc' = "poll" /\ frame' = Null
  /\ UNCHANGED <<mutexes, ctxVars, mainVars, cacheVars, threadVars, child, thr, dlVars, crashed, work, ncalls>>

\* the peer to serve is read from the frame of newpeer_handler(): the thread
\* loops on that peer, on another one if the frame is in use again, or, once
\* the handler has returned, may find anything and fault
threadReads(c) ==
  IF frame = c THEN {"loop"} ELSE {IF frame = Null THEN "loop" ELSE "other", "fault"}

ve_handler_loop(c) ==
  /\ child = "alive" /\ thr[c] = "created"
  /\ \E r \in threadReads(c) :
       /\ thr' = [thr EXCEPT ![c] = IF r = "fault" THEN @ ELSE r]
       /\ peer' = [peer EXCEPT ![c] = IF r = "loop" /\ @ = "attached" THEN "flagged" ELSE @]
       /\ child' = IF r = "fault" THEN "dead" ELSE child
  /\ UNCHANGED <<mutexes, ctx, core, made, omp, mainVars, ringVars, cacheVars, threadVars, vpc, frame,
                 dlVars, crashed, work, ncalls>>

\* exit_handler() of a context's thread: the acknowledgement, then the end
exit_handler(c) ==
  /\ child = "alive" /\ thr[c] = "loop" /\ peer[c] = "exit"
  /\ thr' = [thr EXCEPT ![c] = "gone"]
  /\ UNCHANGED <<mutexes, ctxVars, mainVars, ringVars, cacheVars, threadVars, child, vpc, frame,
                 dlVars, crashed, work, ncalls>>

\* the VE process is killed
die ==
  /\ work.dies /\ child = "alive" /\ child' = "dead"
  /\ UNCHANGED <<mutexes, ctxVars, mainVars, ringVars, cacheVars, threadVars, vpc, frame, thr,
                 dlVars, crashed, work, ncalls>>

-----------------------------------------------------------------------------
Wait(t) == push(t) \/ pushSync(t) \/ callWaitResult(t) \/ postpone(t)
Open(t) ==
  \/ openContext(t) \/ openSync(t) \/ openFirst(t) \/ openSend(t) \/ openAttach(t)
  \/ openReply(t) \/ openFlag(t)
Close(t) == veo_context_close(t) \/ delContext(t) \/ delContextEnd(t)
Exit(t) == exitProc(t) \/ delContextNolock(t) \/ delContextNolockEnd(t) \/ exitMain(t)
Library(t) ==
  \/ loadLibrary(t) \/ loadReturn(t) \/ unloadLibrary(t) \/ unloadReturn(t)
  \/ veo_get_sym(t) \/ getSym(t) \/ getSymStore(t)
  \/ loadVE2VELibrary(t) \/ setLibh_to_hashmap(t) \/ getVEDMASyms(t)
Thread(t) ==
  /\ ~crashed
  /\ \/ Wait(t) \/ Open(t) \/ Close(t) \/ Exit(t) \/ Library(t)
     \/ accessPciRecvSyncRegister(t) \/ accessReturn(t)
Worker(d) == receive(d) \/ submit(d) \/ leave(d)
VE ==
  /\ ~crashed
  /\ \/ loadlib_handler \/ unloadlib_handler \/ getsym_handler
     \/ access_pcircvsyc_register_handler
     \/ newpeer_handler \/ newpeer_create \/ newpeer_reply
     \/ (\E c \in Peers : ve_handler_loop(c) \/ exit_handler(c)) \/ die

Next ==
  \/ \E t \in App : Thread(t)
  \/ progressExec \/ \E d \in App \cup {Progress} : Worker(d)
  \/ VE

Spec == Init /\ [][Next]_vars

-----------------------------------------------------------------------------
(***************************************************************************)
(* Properties.                                                             *)
(***************************************************************************)
Addresses == ((Libs \cup {VeDma, Null}) \X (Syms \cup Range(VeDmaSyms)))

\* Every variable stays in its type; in particular no failure (0) enters the
\* cache of symbols and no peer is numbered past the ones created.
TypeOK ==
  /\ ctx_mutex \in App \cup {None} /\ submit_mtx \in App \cup {None}
  /\ prog_mtx \in App \cup {Progress, None} /\ stuck \in BOOLEAN
  /\ ctx \in Seq(0 .. NCtx) /\ core \in [0 .. NCtx -> -1 .. NCtx + 1] /\ made \in 0 .. NCtx
  /\ peer \in [Peers -> {"none", "created", "attached", "flagged", "exit", "left", "destroyed"}]
  /\ \A c \in Peers : c > made => peer[c] = "none"
  /\ state \in {"RUNNING", "EXIT"} /\ seq_no \in {0, 1}
  /\ sym_name \subseteq (LibHandles \cup {Null}) \X (Syms \cup Range(VeDmaSyms)) \X Addresses
  /\ ve2velibh \in LibHandles \cup {Null}
  /\ new \in [App -> Peers \cup {Null}] /\ hold \in [App -> LibHandles \cup {Null}]
  /\ hnd \in [App -> LibHandles \cup {Null}]
  /\ \A t \in App : Len(res[t]) <= 1 /\ ((\E k \in DOMAIN VeDmaSyms : todo[t] = SubSeq(VeDmaSyms, k, Len(VeDmaSyms))) \/ Len(todo[t]) <= 1)
  /\ child \in {"alive", "dead", "exited"} /\ vpc \in {"poll", "create", "reply"}
  /\ frame \in Peers \cup {Null} /\ thr \in [Peers -> {"none", "created", "loop", "gone", "other"}]
  /\ refs \in [LibHandles -> Nat] /\ loaded \in [LibHandles -> Libs \cup {VeDma, Null}]
  /\ crashed \in BOOLEAN /\ ncalls \in 0 .. work.max

\* What openContext() takes submit_mtx and synchronizes for: while its NEWPEER
\* is under way, no command of the main context is queued or in flight, whatever
\* calls other threads have begun before or begin meanwhile.
MainQuiet ==
  child = "alive" => \A t \in App : pc[t] \in {"attach", "reply"} =>
    request = <<>> /\ inflight = <<>> /\ \A q \in Range(chan) : q.op = "NEWPEER"

\* Every open context has a VE thread that serves its peer and no other, in
\* spite of the thread reading its argument from the frame of newpeer_handler();
\* and every VE thread belongs to a context that is open or being opened,
\* unless the end of openContext() failed or its reply was lost.
PeerServed ==
  child = "alive" /\ ~crashed =>
    /\ \A c \in Peers : thr[c] # "other"
    /\ \A i \in DOMAIN ctx : ctx[i] # Main =>
         \/ peer[ctx[i]] = "flagged" /\ thr[ctx[i]] = "loop"
         \/ peer[ctx[i]] = "exit" /\ thr[ctx[i]] \in {"loop", "gone"}
    /\ \A c \in Peers : thr[c] \in {"created", "loop"} /\ peer[c] # "left" /\ ~stuck =>
         \/ c \in Range(ctx)
         \/ \E t \in App : pc[t] \in {"attach", "reply", "flag"} /\ new[t] = c

\* The contexts of a pinned process are on different cores, the main one on the
\* first, although contexts in the middle of the vector are closed and the
\* core of a new one is computed from the last; without pinning none is pinned.
CoresDistinct ==
  \A i, j \in DOMAIN ctx : i < j =>
    /\ ctx[i] # ctx[j] /\ ctx[j] # Main
    /\ IF core[Main] >= 0 THEN core[ctx[i]] < core[ctx[j]] ELSE core[ctx[j]] = -1

\* What the host remembers of the VE's libraries stays true: a cached symbol
\* has the address dlsym() would return now, even if its library was unloaded
\* and the handle value is that of another one by now, and the handles given
\* to threads and kept for VE DMA are those of loaded libraries.
CacheFresh ==
  child = "alive" =>
    /\ \A e \in sym_name : e[3] = address(e[1], e[2])
    /\ ve2velibh # Null => loaded[ve2velibh] = VeDma
    /\ \A t \in App : hold[t] # Null => loaded[hold[t]] \in Libs

\* exitProc() ends the process only after every other context's VE thread has
\* acknowledged its EXIT, so that no VE thread is cut off in its work; threads
\* of contexts whose opening failed excepted.
ExitOrder ==
  [][child = "alive" /\ child' = "exited" /\ ~stuck =>
       \A c \in Peers : thr[c] \in {"none", "gone"} \/ peer[c] = "left"]_vars

\* ctx_mutex, submit_mtx, prog_mtx and the replies of the VE never make the
\* threads wait for each other for ever while the process lives.
NoDeadlock ==
  child = "alive" /\ ~crashed /\ ~stuck /\ (\E t \in App : pc[t] # "idle") =>
    \/ \E t \in App : pc[t] # "idle" /\ ENABLED Thread(t)
    \/ ENABLED progressExec \/ \E d \in App \cup {Progress} : ENABLED Worker(d)
    \/ ENABLED (VE /\ child' = "alive")

\* "URPC req without corresponding cmd!?": every reply that the worker of the
\* main context receives is the reply to a command in flight.
EveryReplyExpected == ~stuck /\ ~crashed
=============================================================================
