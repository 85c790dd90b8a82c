-------------------------- MODULE ProcHandleProofs --------------------------
(***************************************************************************)
(* MainQuiet, CoresDistinct, PeerServed and ExitOrder proved for any       *)
(* number of threads, contexts, libraries and calls.  IInv comes first:    *)
(* openContext() has the ring of the main context for itself.  Then        *)
(* VectorInv: the contexts of the vector keep their order and their        *)
(* cores.  PeerInv rests on both: each context has a VE thread.            *)
(***************************************************************************)
EXTENDS ProcHandleInv, TLAPS

-----------------------------------------------------------------------------
\* A sequence of any elements is one of its own.
LEMMA SeqOf ==
  ASSUME NEW S, NEW s \in Seq(S)
  PROVE  IsSeq(s)
<1>1. \A i \in 1 .. Len(s) : s[i] \in Range(s)
  BY DEF Range
<1> QED
  BY <1>1, SMTT(30) DEF IsSeq

\* The empty sequence is the one of length 0.
LEMMA SeqEmpty ==
  /\ IsSeq(<<>>) /\ Len(<<>>) = 0
  /\ \A s : IsSeq(s) => Len(s) \in Nat /\ (s = <<>> <=> Len(s) = 0)
<1>1. IsSeq(<<>>)
  <2>1. <<>> \in Seq({})
    OBVIOUS
  <2> QED
    BY <2>1, SeqOf, Zenon
<1> QED
  BY <1>1 DEF IsSeq

\* What Append() leaves, for pushRequest() and the sending of a command.
LEMMA SeqAppend ==
  ASSUME NEW s, NEW e, IsSeq(s)
  PROVE  /\ IsSeq(Append(s, e)) /\ Len(Append(s, e)) = Len(s) + 1
         /\ \A i \in 1 .. Len(s) : Append(s, e)[i] = s[i]
         /\ Append(s, e)[Len(s) + 1] = e
<1> DEFINE S == Range(s)
<1>1. s \in Seq(S)
  BY Zenon DEF IsSeq
<1> HIDE DEF S
<1>2. s \in Seq(S \cup {e}) /\ e \in S \cup {e}
  BY <1>1
<1>3. Append(s, e) \in Seq(S \cup {e})
  BY <1>2
<1>4. IsSeq(Append(s, e))
  BY <1>3, SeqOf, Zenon
<1> QED
  BY <1>2, <1>3, <1>4

\* What Tail() leaves, for the receiving of a command or a reply.
LEMMA SeqTail ==
  ASSUME NEW s, IsSeq(s), s # <<>>
  PROVE  /\ IsSeq(Tail(s)) /\ Len(s) >= 1 /\ Len(Tail(s)) = Len(s) - 1
         /\ Head(s) = s[1]
         /\ \A i \in 1 .. (Len(s) - 1) : Tail(s)[i] = s[i + 1]
<1> DEFINE S == Range(s)
<1>1. s \in Seq(S)
  BY Zenon DEF IsSeq
<1> HIDE DEF S
<1>2. Tail(s) \in Seq(S)
  BY <1>1
<1>3. IsSeq(Tail(s))
  BY <1>2, SeqOf, Zenon
<1> QED
  BY <1>1, <1>2, <1>3

\* What erase() of an iterator leaves.
LEMMA SeqErase ==
  ASSUME NEW S, NEW s \in Seq(S), NEW k \in 1 .. Len(s), NEW e,
         e = [i \in 1 .. Len(s) - 1 |-> s[IF i < k THEN i ELSE i + 1]]
  PROVE  e \in Seq(S) /\ Len(e) = Len(s) - 1
<1> DEFINE n == Len(s)
           m(i) == IF i < k THEN i ELSE i + 1
<1>1. n \in Nat /\ n - 1 \in Nat /\ \A i \in 1 .. n : s[i] \in S
  OBVIOUS
<1>2. k \in 1 .. n /\ e = [i \in 1 .. n - 1 |-> s[m(i)]]
  BY Zenon
<1> HIDE DEF n
<1>3. \A i \in 1 .. n - 1 : m(i) \in 1 .. n
  BY <1>1, <1>2
<1> HIDE DEF m
<1>4. e \in [1 .. n - 1 -> S]
  BY <1>1, <1>2, <1>3, Zenon
<1> QED
  BY <1>1, <1>4 DEF n

\* popInFlight() of the oldest command in flight.
LEMMA PopHead ==
  ASSUME IsSeq(inflight), inflight # <<>>
  PROVE  inflight[1] \in Range(inflight) /\ popInFlight(inflight[1]) = Tail(inflight)
<1>1. PICK S : inflight \in Seq(S)
  BY Zenon DEF IsSeq
<1> DEFINE First(j) == inflight[j] = inflight[1] /\ \A k \in 1 .. j - 1 : inflight[k] # inflight[1]
<1>2. 1 \in DOMAIN inflight /\ First(1) /\ \A j \in DOMAIN inflight : First(j) => j = 1
  BY <1>1
<1>3. (CHOOSE j \in DOMAIN inflight : First(j)) = 1
  BY <1>2, Zenon
<1>4. popInFlight(inflight[1]) = SubSeq(inflight, 1, 1 - 1) \o SubSeq(inflight, 1 + 1, Len(inflight))
  BY <1>3, Zenon DEF popInFlight
<1>5. SubSeq(inflight, 1, 1 - 1) = <<>> /\ SubSeq(inflight, 1 + 1, Len(inflight)) = Tail(inflight)
  BY <1>1
<1> QED
  BY <1>1, <1>2, <1>4, <1>5 DEF Range

-----------------------------------------------------------------------------
\* Initially nothing is queued and no call is under way.
LEMMA InitInv == Init => IInv
<1> SUFFICES ASSUME Init PROVE IInv
  BY Zenon
<1>1. TypeInv
  BY SeqEmpty, Zenon DEF Init, TypeInv
<1>2. StateInv
  BY Zenon DEF Init, StateInv
<1>3. QueueInv
  BY SeqEmpty DEF Init, QueueInv
<1>4. WireInv
  BY SeqEmpty DEF Init, WireInv, Ordered
<1>5. ASSUME NEW t \in App PROVE ThreadInv(t)
  BY Zenon DEF Init, ThreadInv, LockInv, SyncInv, Syncs, Waits, Pushed, Peering, Numbered
<1> QED
  BY <1>1, <1>2, <1>3, <1>4, <1>5, Zenon DEF IInv

(***************************************************************************)
(* Steps of one thread that leave the queues and the rings alone.          *)
(***************************************************************************)
Only(t) ==
  \A u \in App : u # t => pc'[u] = pc[u] /\ rq'[u] = rq[u] /\ res'[u] = res[u] /\ new'[u] = new[u]

MutexStep(t) ==
  /\ ctx_mutex' = ctx_mutex \/ (ctx_mutex \in {None, t} /\ ctx_mutex' \in {None, t})
  /\ submit_mtx' = submit_mtx \/ (submit_mtx \in {None, t} /\ submit_mtx' \in {None, t})

SyncWaits(t) == pc[t] \in Pushed /\ rq[t].op = "SYNC" /\ res[t] = <<>>

wires == <<request, inflight, chan, rep, child, stuck, seq_no>>

ThreadStep(t) ==
  /\ TypeInv' /\ StateInv' /\ ThreadInv(t)' /\ Only(t) /\ MutexStep(t)
  /\ ~Peering(t) /\ ~Peering(t)' /\ (SyncWaits(t) => SyncWaits(t)')
  /\ UNCHANGED wires /\ (ctx' = ctx \/ ctx_mutex = t)

\* The mutexes keep what one thread does from mattering to the others.
LEMMA ThreadMoves ==
  ASSUME IInv, NEW t \in App, ThreadStep(t)
  PROVE  IInv'
<1> USE DEF ThreadStep, Only
<1>1. QueueInv'
  BY DEF IInv, QueueInv, SyncLast, SyncWaits, wires
<1>2. WireInv'
  BY Zenon DEF IInv, WireInv, Peering, wires
<1>3. ASSUME NEW u \in App, u # t PROVE ThreadInv(u)'
  <2>1. ThreadInv(u) /\ u # None
    BY ProcHandleAssumption, Zenon DEF IInv
  <2>2. LockInv(u)'
    BY <1>3, <2>1, Zenon DEF ThreadInv, LockInv, MutexStep, Syncs, Waits, Peering
  <2>3. SyncInv(u)'
    BY <1>3, <2>1, Zenon DEF ThreadInv, LockInv, SyncInv, Syncs, Waits, wires
  <2> QED
    BY <1>3, <2>1, <2>2, <2>3, Zenon DEF ThreadInv, Peering, Alone, Numbered, wires
<1> QED
  BY <1>1, <1>2, <1>3, Zenon DEF IInv

\* A call that takes no mutex and whose request, if any, is a plain one.
Plain(t) ==
  /\ TypeInv' /\ Only(t) /\ UNCHANGED <<mutexes, ctx, mainVars, ringVars, child, vpc>>
  /\ ~SyncWaits(t) /\ ~Peering(t)
  /\ pc'[t] \in {"idle", "push", "wait", "getsym", "vedma"}
  /\ pc'[t] \in {"push", "wait"} => rq'[t].op \notin {"SYNC", "PCI"}

\* Such a call does not matter to the invariant.
LEMMA PlainStep ==
  ASSUME IInv, NEW t \in App, Plain(t)
  PROVE  ThreadStep(t)
<1> USE DEF Plain, mutexes, mainVars, ringVars
<1>1. StateInv'
  BY Zenon DEF IInv, StateInv
<1>2. ThreadInv(t)'
  BY Zenon DEF ThreadInv, LockInv, SyncInv, Syncs, Waits, Pushed, Peering, Numbered
<1> QED
  BY <1>1, <1>2, Zenon DEF ThreadStep, MutexStep, wires, Peering, SyncWaits

\* Libraries and symbols.
LEMMA LibraryStep ==
  ASSUME IInv, NEW t \in App, Library(t)
  PROVE  ThreadStep(t)
<1> USE DEF IInv, TypeInv, Plain, Only, SyncWaits, Pushed, Peering, GoTo, otherVars, mutexes,
            ctxVars, mainVars, ringVars, veVars
<1>1. CASE loadLibrary(t)
  <2>0. PICK l \in Libs : Issue(t, "LOADLIB", <<l>>)
    BY <1>1, Zenon DEF loadLibrary
  <2>1. Plain(t)
    BY <1>1, <2>0, Zenon DEF loadLibrary, call, Issue, Request, taskVars
  <2> QED
    BY <2>1, PlainStep, Zenon
<1>2. CASE loadReturn(t)
  <2>1. Plain(t)
    BY <1>2, Zenon DEF loadReturn, Returned, Return
  <2> QED
    BY <2>1, PlainStep, Zenon
<1>3. CASE unloadLibrary(t)
  <2>1. Plain(t)
    BY <1>3, Zenon DEF unloadLibrary, call, Issue, Request
  <2> QED
    BY <2>1, PlainStep, Zenon
<1>4. CASE unloadReturn(t)
  <2>1. Plain(t)
    BY <1>4, Zenon DEF unloadReturn, Returned, Return
  <2> QED
    BY <2>1, PlainStep, Zenon
<1>5. CASE veo_get_sym(t)
  <2>1. Plain(t)
    BY <1>5, Zenon DEF veo_get_sym, call
  <2> QED
    BY <2>1, PlainStep, Zenon
<1>6. CASE getSym(t)
  <2>1. Plain(t)
    BY <1>6 DEF getSym, Issue, Request, Return
  <2> QED
    BY <2>1, PlainStep, Zenon
<1>7. CASE getSymStore(t)
  <2>1. Plain(t)
    BY <1>7, Zenon DEF getSymStore, Returned, Return
  <2> QED
    BY <2>1, PlainStep, Zenon
<1>8. CASE loadVE2VELibrary(t)
  <2>1. Plain(t)
    BY <1>8 DEF loadVE2VELibrary, call, Issue, Request
  <2> QED
    BY <2>1, PlainStep, Zenon
<1>9. CASE setLibh_to_hashmap(t)
  <2>1. Plain(t)
    BY <1>9, Zenon DEF setLibh_to_hashmap, Returned, Return
  <2> QED
    BY <2>1, PlainStep, Zenon
<1>10. CASE getVEDMASyms(t)
  <2>1. Plain(t)
    BY <1>10, Zenon DEF getVEDMASyms
  <2> QED
    BY <2>1, PlainStep, Zenon
<1> QED
  BY <1>1, <1>2, <1>3, <1>4, <1>5, <1>6, <1>7, <1>8, <1>9, <1>10, Zenon DEF Library

\* A thread that waits for its request goes on waiting.
LEMMA WaitStep ==
  ASSUME IInv, NEW t \in App, callWaitResult(t) \/ postpone(t)
  PROVE  ThreadStep(t)
<1> USE DEF mutexes, ctxVars, mainVars, ringVars, taskVars, veVars, GoTo, Pushed
<1>1. pc[t] \in {"wait", "drive"} /\ pc'[t] \in {"drive", "block"}
      /\ pc' = [pc EXCEPT ![t] = pc'[t]]
      /\ UNCHANGED <<ctx_mutex, submit_mtx, stuck, ctx, mainVars, ringVars, rq, res, new, child, vpc>>
  BY Zenon DEF IInv, TypeInv, callWaitResult, postpone, drives
<1>2. stuck => prog_mtx' \in App
  BY Zenon DEF IInv, StateInv, callWaitResult, postpone, released
<1>3. TypeInv' /\ Only(t)
  BY <1>1, Zenon DEF IInv, TypeInv, Only
<1>4. StateInv'
  BY <1>1, <1>2, Zenon DEF IInv, StateInv
<1>5. ThreadInv(t)'
  BY <1>1, Zenon DEF IInv, ThreadInv, LockInv, SyncInv, Syncs, Waits, Peering, Numbered
<1> QED
  BY <1>1, <1>3, <1>4, <1>5, Zenon DEF ThreadStep, MutexStep, wires, Peering, SyncWaits

\* A call returns and gives back the mutexes it holds.
LEMMA ReturnStep ==
  ASSUME IInv, NEW t \in App, Return(t), MutexStep(t), StateInv', UNCHANGED wires,
         ctx' = ctx \/ ctx_mutex = t, ~Peering(t), ~SyncWaits(t)
  PROVE  ThreadStep(t)
<1>1. TypeInv' /\ Only(t) /\ pc'[t] = "idle"
  BY Zenon DEF IInv, TypeInv, Only, Return, GoTo, wires
<1>2. ThreadInv(t)'
  BY <1>1, Zenon DEF ThreadInv, LockInv, SyncInv, Syncs, Waits, Pushed, Peering, Numbered
<1> QED
  BY <1>1, <1>2, Zenon DEF ThreadStep, Peering

\* openContext() up to its SYNC, and its ends.
LEMMA OpenStep ==
  ASSUME IInv, NEW t \in App, openContext(t) \/ openSync(t) \/ openFirst(t) \/ openFlag(t)
  PROVE  ThreadStep(t)
<1> USE DEF mutexes, ctxVars, mainVars, ringVars, taskVars, veVars
<1>1. CASE openContext(t)
  <2>1. pc[t] = "idle" /\ pc' = [pc EXCEPT ![t] = "open"] /\ ctx_mutex = None /\ ctx_mutex' = t
        /\ UNCHANGED <<submit_mtx, prog_mtx, stuck, ctx, mainVars, ringVars, rq, res, new, child, vpc>>
    BY <1>1, Zenon DEF openContext, call, GoTo
  <2>2. TypeInv' /\ Only(t) /\ pc'[t] = "open"
    BY <2>1, Zenon DEF IInv, TypeInv, Only
  <2>3. StateInv'
    BY <2>1, Zenon DEF IInv, StateInv
  <2>4. ThreadInv(t)'
    BY <2>1, <2>2, Zenon DEF ThreadInv, LockInv, SyncInv, Syncs, Waits, Pushed, Peering, Numbered
  <2> QED
    BY <2>1, <2>2, <2>3, <2>4, Zenon DEF ThreadStep, MutexStep, wires, Peering, SyncWaits, Pushed
<1>2. CASE openSync(t)
  <2>1. /\ pc[t] = "open" /\ submit_mtx = None /\ submit_mtx' = t /\ Issue(t, "SYNC", <<>>)
        /\ UNCHANGED <<ctx_mutex, prog_mtx, stuck, ctx, mainVars, ringVars, new, child, vpc>>
    BY <1>2, Zenon DEF openSync
  <2>2. TypeInv' /\ Only(t) /\ rq'[t].op = "SYNC" /\ rq'[t].by = t
        /\ (IF is_alive THEN pc'[t] = "push" /\ res'[t] = <<>> ELSE pc'[t] = "wait")
    BY <2>1, Zenon DEF IInv, TypeInv, Only, Issue, GoTo, Request
  <2>3. StateInv'
    BY <2>1, Zenon DEF IInv, StateInv
  <2>4. ThreadInv(t)'
    BY <2>1, <2>2, Zenon DEF IInv, StateInv, ThreadInv, LockInv, SyncInv, Syncs, Waits, Pushed,
       Peering,
                Numbered, is_alive
  <2> QED
    BY <2>1, <2>2, <2>3, <2>4, Zenon DEF ThreadStep, MutexStep, wires, Peering, SyncWaits, Pushed
<1>3. CASE openFirst(t)
  <2>1. /\ pc[t] \in Pushed /\ rq[t].op = "SYNC" /\ res[t] # <<>> /\ openReturn(t)
        /\ UNCHANGED <<prog_mtx, stuck, mainVars, ringVars, child, vpc>>
    BY <1>3, Zenon DEF openFirst, Returned, Pushed
  <2>2. ctx_mutex = t /\ submit_mtx = t
    BY <2>1, Zenon DEF IInv, ThreadInv, LockInv, Syncs, Waits
  <2>3. StateInv'
    BY <2>1, Zenon DEF IInv, StateInv, ThreadInv, Numbered
  <2> QED
    BY <2>1, <2>2, <2>3, ReturnStep, Zenon DEF openReturn, MutexStep, wires, Peering, SyncWaits,
       Pushed
<1>4. CASE openFlag(t)
  <2>1. /\ pc[t] = "flag" /\ openReturn(t)
        /\ UNCHANGED <<prog_mtx, stuck, mainVars, ringVars, child, vpc>>
    BY <1>4, Zenon DEF openFlag
  <2>2. ctx_mutex = t /\ submit_mtx = t
    BY <2>1, Zenon DEF IInv, ThreadInv, LockInv
  <2>3. StateInv'
    BY <2>1, Zenon DEF IInv, StateInv, ThreadInv, Numbered
  <2> QED
    BY <2>1, <2>2, <2>3, ReturnStep, Zenon DEF openReturn, MutexStep, wires, Peering, SyncWaits,
       Pushed
<1> QED
  BY <1>1, <1>2, <1>3, <1>4, Zenon

\* Closing contexts and ending the process.
LEMMA CloseStep ==
  ASSUME IInv, NEW t \in App,
         veo_context_close(t) \/ delContext(t) \/ delContextEnd(t) \/ exitProc(t)
           \/ delContextNolock(t) \/ delContextNolockEnd(t)
  PROVE  ThreadStep(t)
<1> USE DEF mutexes, ctxVars, mainVars, ringVars, taskVars, veVars
<1>0. ThreadInv(t) /\ TypeInv /\ StateInv
  BY Zenon DEF IInv
<1>1. CASE delContextEnd(t)
  <2>1. /\ pc[t] = "closing" /\ ctx_mutex' = None /\ Return(t)
        /\ UNCHANGED <<submit_mtx, prog_mtx, stuck, mainVars, ringVars, child, vpc>>
    BY <1>1, Zenon DEF delContextEnd
  <2>2. ctx_mutex = t /\ (child = "alive" => seq_no = 1)
    BY <1>0, <2>1, Zenon DEF ThreadInv, LockInv, Numbered
  <2>3. StateInv'
    BY <1>0, <2>1, <2>2, Zenon DEF StateInv
  <2> QED
    BY <2>1, <2>2, <2>3, ReturnStep, Zenon DEF MutexStep, wires, Peering, SyncWaits, Pushed
<1>2. CASE ~delContextEnd(t)
  <2> DEFINE AtClose == {"close", "closing", "exit", "exit_closing"}
  <2>1. /\ pc[t] \in {"idle"} \cup AtClose /\ pc' = [pc EXCEPT ![t] = pc'[t]]
        /\ new' = [new EXCEPT ![t] = new'[t]]
        /\ pc'[t] \in {"idle"} \cup AtClose
        /\ UNCHANGED <<submit_mtx, prog_mtx, stuck, mainVars, ringVars, rq, res, child, vpc>>
    BY <1>0, <1>2, Zenon DEF TypeInv, veo_context_close, delContext, exitProc, delContextNolock,
       delContextNolockEnd, call, closeSend, GoTo
  <2>2. /\ ctx_mutex' = ctx_mutex \/ (ctx_mutex = None /\ ctx_mutex' = t)
        /\ pc'[t] \in AtClose \ {"close"} => ctx_mutex' = t
        /\ ctx' = ctx \/ ctx_mutex = t
    BY <1>0, <1>2, Zenon DEF TypeInv, veo_context_close, delContext, exitProc, delContextNolock,
       delContextNolockEnd, call, closeSend, closeEnd, GoTo, ThreadInv, LockInv
  <2>3. child = "alive" /\ (pc'[t] \in AtClose \ {"exit"} \/ ctx' # ctx) => seq_no = 1
    <3>1. CASE veo_context_close(t)
      <4>1. \E i \in 0 .. Len(ctx) - 1 : TRUE
        BY <3>1, Zenon DEF veo_context_close
      <4>2. ctx # <<>>
        BY <4>1
      <4> QED
        BY <1>0, <4>2, Zenon DEF StateInv
    <3>2. CASE delContextNolock(t)
      <4>0. \E i \in DOMAIN ctx : TRUE
        BY <3>2, Zenon DEF delContextNolock
      <4>1. ctx # <<>>
        BY <4>0
      <4> QED
        BY <1>0, <4>1, Zenon DEF StateInv
    <3>3. CASE exitProc(t)
      BY <1>0, <3>3, Zenon DEF exitProc, GoTo, TypeInv
    <3>4. CASE delContext(t) \/ delContextNolockEnd(t)
      BY <1>0, <3>4, Zenon DEF delContext, delContextNolockEnd, ThreadInv, Numbered
    <3> QED
      BY <1>2, <3>1, <3>2, <3>3, <3>4, Zenon
  <2>4. TypeInv' /\ Only(t)
    BY <1>0, <2>1, Zenon DEF TypeInv, Only
  <2>5. StateInv'
    BY <1>0, <2>1, <2>3, Zenon DEF StateInv
  <2>6. ThreadInv(t)'
    BY <2>1, <2>2, <2>3, Zenon DEF ThreadInv, LockInv, SyncInv, Syncs, Waits, Pushed, Peering,
       Numbered
  <2> QED
    BY <2>1, <2>2, <2>4, <2>5, <2>6, Zenon DEF ThreadStep, MutexStep, wires, Peering, SyncWaits, Pushed
<1> QED
  BY <1>1, <1>2, Zenon

\* accessPciRecvSyncRegister().
LEMMA AccessStep ==
  ASSUME IInv, NEW t \in App, accessPciRecvSyncRegister(t) \/ accessReturn(t)
  PROVE  ThreadStep(t)
<1> USE DEF mutexes, ctxVars, mainVars, ringVars, taskVars, veVars
<1>0. ThreadInv(t) /\ TypeInv /\ StateInv
  BY Zenon DEF IInv
<1>1. CASE accessPciRecvSyncRegister(t)
  <2>1. /\ pc[t] = "idle" /\ ctx_mutex = None
        /\ UNCHANGED <<submit_mtx, prog_mtx, stuck, ctx, mainVars, ringVars, new, child, vpc>>
        /\ \/ ctx_mutex' = t /\ Issue(t, "PCI", <<>>)
           \/ UNCHANGED <<ctx_mutex, pc, rq, res>>
    BY <1>1, Zenon DEF accessPciRecvSyncRegister, call
  <2>2. /\ TypeInv' /\ Only(t)
        /\ \/ ctx_mutex' = t /\ pc'[t] \in {"push", "wait"} /\ rq'[t].op = "PCI"
           \/ ctx_mutex' = ctx_mutex /\ pc'[t] = "idle"
    BY <1>0, <2>1 DEF TypeInv, Only, Issue, GoTo, Request
  <2>3. StateInv'
    BY <1>0, <2>1, Zenon DEF StateInv
  <2>4. ThreadInv(t)'
    BY <2>2, Zenon DEF ThreadInv, LockInv, SyncInv, Syncs, Waits, Pushed, Peering, Numbered
  <2> QED
    BY <2>1, <2>2, <2>3, <2>4, Zenon DEF ThreadStep, MutexStep, wires, Peering, SyncWaits, Pushed
<1>2. CASE accessReturn(t)
  <2>1. /\ pc[t] \in Pushed /\ rq[t].op = "PCI" /\ ctx_mutex' = None /\ Return(t)
        /\ UNCHANGED <<submit_mtx, prog_mtx, stuck, ctx, mainVars, ringVars, child, vpc>>
    BY <1>2, Zenon DEF accessReturn, Returned, Pushed
  <2>2. ctx_mutex = t
    BY <1>0, <2>1, Zenon DEF ThreadInv, LockInv, Waits
  <2>3. StateInv'
    BY <1>0, <2>1, Zenon DEF StateInv
  <2> QED
    BY <2>1, <2>2, <2>3, ReturnStep, Zenon DEF MutexStep, wires, Peering, SyncWaits, Pushed
<1> QED
  BY <1>1, <1>2, Zenon

(***************************************************************************)
(* Steps of one thread that change the queues or the rings.                *)
(***************************************************************************)
\* What holds of the other threads when one takes a step.
LEMMA Locked ==
  ASSUME IInv, NEW t \in App, NEW u \in App
  PROVE  /\ LockInv(u) /\ u # None
         /\ Syncs(u) \/ Peering(u) \/ pc[u] = "flag" => submit_mtx = u
         /\ child = "alive" => IsSeq(request) /\ IsSeq(inflight) /\ IsSeq(chan) /\ IsSeq(rep)
  BY ProcHandleAssumption, Zenon DEF IInv, TypeInv, ThreadInv, LockInv

\* Empty queues are in order.
LEMMA NothingQueued ==
  ASSUME child' = "alive" => request' = <<>> /\ inflight' = <<>>
  PROVE  QueueInv'
<1>1. child' = "alive" => Len(request') = 0 /\ Len(inflight') = 0
  BY SeqEmpty, Zenon
<1> QED
  BY <1>1 DEF QueueInv

\* genericAsyncReq(): nobody synchronizes while a request is pushed.
LEMMA PushStep ==
  ASSUME IInv, NEW t \in App, push(t)
  PROVE  IInv'
<1> USE DEF mutexes, ctxVars, mainVars, ringVars, taskVars, veVars, GoTo
<1>1. /\ pc[t] = "push" /\ rq[t].op # "SYNC" /\ submit_mtx = None
      /\ request' = Append(request, rq[t]) /\ seq_no' = 1
      /\ pc' = [pc EXCEPT ![t] = "wait"] /\ res' = [res EXCEPT ![t] = res'[t]]
      /\ UNCHANGED <<mutexes, ctx, state, inflight, ringVars, rq, new, child, vpc>>
  BY Zenon DEF push, IInv, TypeInv
<1>2. TypeInv' /\ Only(t)
  BY <1>1, SeqAppend, Zenon DEF IInv, TypeInv, Only
<1>3. StateInv'
  BY <1>1, Zenon DEF IInv, StateInv
<1>4. ASSUME NEW u \in App PROVE ~Syncs(u) /\ ~Peering(u) /\ ~Syncs(u)' /\ ~Peering(u)' /\ LockInv(u)'
  <2>1. LockInv(u) /\ u # None
    BY Locked, Zenon
  <2>2. ~Syncs(u) /\ ~Peering(u) /\ pc[u] # "flag"
    BY <1>1, <2>1, Zenon DEF LockInv
  <2> QED
    BY <1>1, <1>2, <2>1, <2>2, Zenon DEF LockInv, Syncs, Waits, Pushed, Peering, Only, IInv, TypeInv
<1>5. ASSUME NEW u \in App PROVE ThreadInv(u)'
  BY <1>1, <1>4, Zenon DEF ThreadInv, SyncInv, Numbered, Syncs, Waits
<1>6. QueueInv'
  <2> SUFFICES ASSUME child = "alive" PROVE QueueInv'
    BY <1>1, Zenon DEF QueueInv
  <2>1. ASSUME ~stuck, NEW i \in 1 .. Len(request') PROVE SyncLast(request, i)'
    <3>0. IsSeq(request) /\ Len(request) \in Nat
      BY SeqEmpty, Zenon DEF IInv, TypeInv
    <3>1. /\ Len(request') = Len(request) + 1 /\ request'[Len(request) + 1] = rq[t]
          /\ \A j \in 1 .. Len(request) : request'[j] = request[j]
      <4>1. request' = Append(request, rq[t])
        BY <1>1, Zenon
      <4> QED
        BY <3>0, <4>1, SeqAppend
    <3>2. CASE i \in 1 .. Len(request)
      <4>1. request'[i] = request[i] /\ SyncLast(request, i)
        BY <2>1, <3>1, <3>2, Zenon DEF IInv, QueueInv
      <4> QED
        BY <1>4, <4>1, Zenon DEF SyncLast, Syncs, Waits
    <3>3. CASE i = Len(request) + 1
      BY <1>1, <3>1, <3>3, Zenon DEF SyncLast
    <3> QED
      BY <3>0, <3>1, <3>2, <3>3
  <2> QED
    BY <1>1, <2>1, Zenon DEF IInv, QueueInv
<1>7. WireInv'
  BY <1>1, <1>4, Zenon DEF IInv, WireInv
<1> QED
  BY <1>2, <1>3, <1>5, <1>6, <1>7, Zenon DEF IInv

\* synchronize() pushes the last request of the queue.
LEMMA PushSyncStep ==
  ASSUME IInv, NEW t \in App, pushSync(t)
  PROVE  IInv'
<1> USE DEF mutexes, ctxVars, mainVars, ringVars, taskVars, veVars, GoTo
<1> DEFINE q == IF seq_no = 0 THEN [rq[t] EXCEPT !.by = Null] ELSE rq[t]
<1>1. /\ pc[t] = "push" /\ rq[t].op = "SYNC" /\ request' = Append(request, q) /\ seq_no' = 1
      /\ pc' = [pc EXCEPT ![t] = pc'[t]] /\ res' = [res EXCEPT ![t] = res'[t]]
      /\ pc'[t] \in Pushed /\ (seq_no # 0 => res'[t] = res[t])
      /\ UNCHANGED <<mutexes, ctx, state, inflight, ringVars, rq, new, child, vpc>>
  BY Zenon DEF pushSync, IInv, TypeInv, Pushed
<1>2. submit_mtx = t /\ ctx_mutex = t /\ (child = "alive" => res[t] = <<>> /\ rq[t].by = t)
  BY <1>1, Zenon DEF IInv, ThreadInv, LockInv, SyncInv, Syncs, Waits
<1>3. TypeInv' /\ Only(t)
  BY <1>1, SeqAppend, Zenon DEF IInv, TypeInv, Only
<1>4. StateInv'
  BY <1>1, Zenon DEF IInv, StateInv
<1>5. ASSUME NEW u \in App, u # t PROVE ~Syncs(u) /\ ~Peering(u) /\ ThreadInv(u)'
  <2>1. LockInv(u) /\ ~Syncs(u) /\ ~Peering(u)
    BY <1>2, <1>5, Locked, Zenon
  <2> QED
    BY <1>1, <1>3, <1>5, <2>1, Zenon DEF ThreadInv, LockInv, SyncInv, Numbered, Syncs, Waits,
       Peering, Only
<1>6. ThreadInv(t)'
  <2>1. child = "alive" /\ res'[t] # <<>> => ctx = <<>>
    <3>1. seq_no # 0 => res'[t] = res[t]
      BY <1>1, Zenon
    <3>2. child = "alive" /\ ctx # <<>> => seq_no = 1
      BY Zenon DEF IInv, StateInv
    <3> QED
      BY <1>2, <3>1, <3>2
  <2> QED
    BY <1>1, <1>2, <2>1, Zenon DEF ThreadInv, LockInv, SyncInv, Numbered, Syncs, Waits, Peering,
       Pushed
<1>7. QueueInv'
  <2> SUFFICES ASSUME child = "alive" PROVE QueueInv'
    BY <1>1, Zenon DEF QueueInv
  <2>0. IsSeq(request) /\ Len(request) \in Nat
    BY SeqEmpty, Zenon DEF IInv, TypeInv
  <2>1. /\ Len(request') = Len(request) + 1 /\ request'[Len(request) + 1] = q
        /\ \A i \in 1 .. Len(request) : request'[i] = request[i]
    BY <1>1, <2>0, SeqAppend
  <2>2. ASSUME ~stuck, NEW i \in 1 .. Len(request') PROVE SyncLast(request, i)'
    <3>1. CASE i \in 1 .. Len(request)
      <4>1. request'[i] = request[i] /\ SyncLast(request, i)
        BY <2>1, <2>2, <3>1, Zenon DEF IInv, QueueInv
      <4> QED
        BY <1>1, <1>5, <4>1, Zenon DEF SyncLast, Syncs, Waits, Pushed
    <3>2. CASE i = Len(request) + 1
      <4>1. request'[i] = q
        BY <2>1, <3>2, Zenon
      <4>2. CASE seq_no = 0
        <5>1. q.by = Null
          BY <1>2, <4>2
        <5> QED
          BY <4>1, <5>1, Zenon DEF SyncLast
      <4>3. CASE seq_no # 0
        BY <1>1, <1>2, <2>1, <3>2, <4>1, <4>3, Zenon DEF SyncLast
      <4> QED
        BY <4>2, <4>3, Zenon
    <3> QED
      BY <2>0, <2>1, <3>1, <3>2
  <2> QED
    BY <1>1, <2>2, Zenon DEF IInv, QueueInv
<1>8. WireInv'
  BY <1>1, <1>5, Zenon DEF IInv, WireInv, Peering
<1> QED
  BY <1>3, <1>4, <1>5, <1>6, <1>7, <1>8, Zenon DEF IInv

\* The queues and rings are empty when openContext() sends NEWPEER.
LEMMA SendStep ==
  ASSUME IInv, NEW t \in App, openSend(t)
  PROVE  IInv'
<1> USE DEF mutexes, ctxVars, mainVars, ringVars, taskVars, veVars, GoTo
<1>1. /\ pc[t] \in Pushed /\ rq[t].op = "SYNC" /\ res[t] # <<>> /\ ctx # <<>>
      /\ UNCHANGED <<prog_mtx, stuck, ctx, mainVars, rep, child, vpc>>
  BY Zenon DEF openSend, Returned, Pushed
<1>2. ctx_mutex = t /\ submit_mtx = t
  BY <1>1, Zenon DEF IInv, ThreadInv, LockInv, Syncs, Waits
<1>3. CASE openReturn(t) /\ chan' = chan
  <2>1. StateInv'
    BY <1>1, <1>3, Zenon DEF IInv, StateInv
  <2>2. ThreadStep(t)
    BY <1>1, <1>2, <1>3, <2>1, ReturnStep, Zenon
       DEF openReturn, MutexStep, wires, Peering, SyncWaits, Pushed
  <2> QED
    BY <2>2, ThreadMoves, Zenon
<1>4. CASE \E c : /\ chan' = Append(chan, Request("NEWPEER", Null, c))
                  /\ new' = [new EXCEPT ![t] = c] /\ pc' = [pc EXCEPT ![t] = "attach"]
                  /\ UNCHANGED <<ctx_mutex, submit_mtx, rq, res>>
  <2>1. PICK c : /\ chan' = Append(chan, Request("NEWPEER", Null, c))
                 /\ new' = [new EXCEPT ![t] = c] /\ pc' = [pc EXCEPT ![t] = "attach"]
                 /\ UNCHANGED <<ctx_mutex, submit_mtx, rq, res>>
    BY <1>4, Zenon
  <2>2. TypeInv' /\ Only(t) /\ pc'[t] = "attach" /\ new'[t] = c
    BY <1>1, <2>1, SeqAppend, Zenon DEF IInv, TypeInv, Only
  <2>3. ASSUME NEW u \in App, u # t PROVE ~Peering(u) /\ ThreadInv(u)'
    <3>1. LockInv(u) /\ ~Peering(u) /\ ThreadInv(u)
      BY <1>2, <2>3, Locked, Zenon DEF IInv
    <3> QED
      BY <1>1, <2>1, <2>2, <2>3, <3>1, Zenon DEF ThreadInv, LockInv, SyncInv, Numbered, Syncs,
         Waits, Peering, Only
  <2>4. ASSUME child = "alive" PROVE Alone(t)' /\ chan' # <<>> /\ request = <<>> /\ inflight = <<>>
    <3>1. request = <<>> /\ inflight = <<>>
      BY <1>1, <2>4, Zenon DEF IInv, ThreadInv, SyncInv, Syncs, Waits
    <3>2. Ordered(inflight, rep, chan) /\ IsSeq(rep) /\ IsSeq(chan)
      BY <1>1, <2>3, <2>4, Zenon DEF IInv, WireInv, TypeInv, Peering, Pushed
    <3>3. rep = <<>> /\ chan = <<>>
      <4>1. Len(rep) + Len(chan) = 0 /\ Len(rep) \in Nat /\ Len(chan) \in Nat
        BY <3>1, <3>2, SeqEmpty, Zenon DEF Ordered
      <4> QED
        BY <3>2, <4>1, SeqEmpty
    <3>4. chan' = <<Request("NEWPEER", Null, c)>>
      BY <2>1, <3>3
    <3> QED
      BY <1>1, <2>2, <3>1, <3>3, <3>4, Zenon DEF Alone
  <2>5. StateInv'
    BY <1>1, <2>1, <2>4, Zenon DEF IInv, StateInv
  <2>6. ThreadInv(t)'
    BY <1>1, <1>2, <2>1, <2>2, <2>4, Zenon DEF IInv, ThreadInv, LockInv, SyncInv, Numbered,
       Syncs, Waits, Peering, Pushed
  <2>7. QueueInv'
    BY <1>1, <2>4, NothingQueued, Zenon
  <2>8. WireInv'
    BY <2>2, Zenon DEF WireInv, Peering
  <2> QED
    BY <2>2, <2>3, <2>5, <2>6, <2>7, <2>8, Zenon DEF IInv
<1> QED
  BY <1>3, <1>4, Zenon DEF openSend

\* The VE attaches to the new peer, and its reply arrives or does not.
LEMMA PeerStep ==
  ASSUME IInv, NEW t \in App, openAttach(t) \/ openReply(t)
  PROVE  IInv'
<1> USE DEF mutexes, ctxVars, mainVars, ringVars, taskVars, veVars, GoTo
<1>1. /\ Peering(t) /\ ThreadInv(t) /\ TypeInv /\ pc'[t] \in {"reply", "flag", "idle"}
      /\ UNCHANGED <<prog_mtx, stuck, ctx, mainVars, chan, child, vpc>>
      /\ \/ UNCHANGED <<ctx_mutex, submit_mtx, rq, res, new>> /\ pc' = [pc EXCEPT ![t] = pc'[t]]
         \/ openReturn(t) /\ pc'[t] = "idle"
  BY Zenon DEF openAttach, openReply, openReturn, Return, Peering, IInv, TypeInv
<1>2. ctx_mutex = t /\ submit_mtx = t /\ (child = "alive" => Alone(t))
  BY <1>1, Zenon DEF ThreadInv, LockInv
<1>3. rep' = rep \/ (rep # <<>> /\ rep' = Tail(rep))
  BY Zenon DEF openAttach, openReply
<1>4. TypeInv' /\ Only(t)
  <2>1. child = "alive" => IsSeq(request) /\ IsSeq(inflight) /\ IsSeq(chan) /\ IsSeq(rep')
    BY <1>1, <1>3, SeqTail, Zenon DEF TypeInv
  <2>2. /\ pc' = [u \in App |-> pc'[u]] /\ rq' = [u \in App |-> rq'[u]]
        /\ res' = [u \in App |-> res'[u]] /\ new' = [u \in App |-> new'[u]] /\ Only(t)
    BY <1>1, Zenon DEF TypeInv, Only, openReturn, Return
  <2> QED
    BY <1>1, <2>1, <2>2, Zenon DEF TypeInv
<1>5. StateInv'
  BY <1>1, Zenon DEF IInv, StateInv
<1>6. ASSUME NEW u \in App, u # t PROVE ~Peering(u) /\ ThreadInv(u)'
  <2>1. LockInv(u) /\ ~Peering(u) /\ ~Syncs(u) /\ ThreadInv(u) /\ ctx_mutex # u /\ submit_mtx # u
    BY <1>2, <1>6, Locked, Zenon DEF IInv
  <2> QED
    BY <1>1, <1>4, <1>6, <2>1, Zenon DEF ThreadInv, LockInv, SyncInv, Numbered, Syncs, Waits,
       Peering, Only
<1>7. QueueInv'
  BY <1>1, <1>2, NothingQueued, Zenon DEF Alone
<1>8. CASE Peering(t)'
  <2>1. pc'[t] = "reply" /\ UNCHANGED <<ctx_mutex, submit_mtx, new, rep>>
    <3>1. CASE openAttach(t)
      BY <1>1, <1>8, <3>1, Zenon DEF openAttach, openReturn, Return, Peering, TypeInv
    <3>2. CASE openReply(t)
      BY <1>1, <1>8, <3>2, Zenon DEF openReply, openReturn, Return, Peering, TypeInv
    <3> QED
      BY <3>1, <3>2, Zenon
  <2>2. ThreadInv(t)'
    BY <1>1, <2>1, Zenon DEF ThreadInv, LockInv, SyncInv, Numbered, Syncs, Waits, Pushed,
       Peering, Alone
  <2>3. WireInv'
    BY <1>8, Zenon DEF WireInv
  <2> QED
    BY <1>4, <1>5, <1>6, <1>7, <2>2, <2>3, Zenon DEF IInv
<1>9. CASE ~Peering(t)'
  <2>1. pc'[t] \in {"flag", "idle"}
    BY <1>1, <1>9, Zenon DEF Peering
  <2>2. ThreadInv(t)'
    BY <1>1, <1>2, <2>1, Zenon DEF ThreadInv, LockInv, SyncInv, Numbered, Syncs, Waits, Pushed,
       Peering
  <2>3. ASSUME child = "alive" PROVE rep' = <<>> /\ chan' = <<>>
    <3>1. openReply(t)
      BY <1>1, <2>1, <2>3, Zenon DEF openAttach, IInv, TypeInv
    <3>2. IsSeq(rep) /\ IsSeq(chan) /\ Alone(t)
      BY <1>1, <1>2, <2>3, Zenon DEF TypeInv
    <3>3. CASE rep # <<>>
      <4>1. chan = <<>> /\ Len(rep) <= 1 /\ rep' = Tail(rep)
        BY <3>1, <3>2, <3>3, Zenon DEF Alone, openReply
      <4>2. IsSeq(rep') /\ Len(rep') = Len(rep) - 1 /\ Len(rep) >= 1 /\ Len(rep) \in Nat
        BY <3>2, <3>3, <4>1, SeqTail, SeqEmpty, Zenon
      <4> QED
        BY <1>1, <4>1, <4>2, SeqEmpty
    <3>4. CASE rep = <<>>
      <4>1. ~NewPeerComes(new[t]) /\ rep' = rep
        BY <3>1, <3>4, Zenon DEF openReply
      <4>2. chan # <<Request("NEWPEER", Null, new[t])>>
        BY <2>3, <4>1 DEF NewPeerComes, Range
      <4> QED
        BY <1>1, <3>2, <3>4, <4>1, <4>2, Zenon DEF Alone
    <3> QED
      BY <3>3, <3>4, Zenon
  <2>4. WireInv'
    BY <1>1, <1>2, <2>3, SeqEmpty DEF WireInv, Ordered, Alone
  <2> QED
    BY <1>4, <1>5, <1>6, <1>7, <2>2, <2>4, Zenon DEF IInv
<1> QED
  BY <1>8, <1>9, Zenon

(***************************************************************************)
(* Steps after which the VE process is gone.                               *)
(***************************************************************************)
\* The rest of the invariant speaks of a living process.
LEMMA DeadStep ==
  ASSUME child' # "alive",
         pc' = [t \in App |-> pc'[t]], rq' = [t \in App |-> rq'[t]],
         res' = [t \in App |-> res'[t]], new' = [t \in App |-> new'[t]],
         stuck' => prog_mtx' \in App,
         \A t \in App : LockInv(t)'
  PROVE  IInv'
<1>1. TypeInv' /\ StateInv' /\ QueueInv' /\ WireInv'
  BY Zenon DEF TypeInv, StateInv, QueueInv, WireInv
<1>2. ASSUME NEW t \in App PROVE ThreadInv(t)'
  BY <1>2, Zenon DEF ThreadInv, SyncInv
<1> QED
  BY <1>1, <1>2, Zenon DEF IInv

\* exitProc() of the main context.
LEMMA ExitStep ==
  ASSUME IInv, NEW t \in App, exitMain(t)
  PROVE  IInv'
<1> USE DEF mutexes, ctxVars, mainVars, ringVars, veVars
<1>1. /\ pc[t] = "exit" /\ child' = "exited" /\ ctx_mutex' = None /\ Return(t)
      /\ UNCHANGED <<submit_mtx, prog_mtx, stuck, ctx>>
  BY Zenon DEF exitMain
<1>2. /\ pc' = [u \in App |-> pc'[u]] /\ rq' = [u \in App |-> rq'[u]]
      /\ res' = [u \in App |-> res'[u]] /\ new' = [u \in App |-> new'[u]]
      /\ Only(t) /\ pc'[t] = "idle"
  BY <1>1, Zenon DEF IInv, TypeInv, Only, Return, GoTo
<1>3. ctx_mutex = t
  BY <1>1, Zenon DEF IInv, ThreadInv, LockInv
<1>4. ASSUME NEW u \in App PROVE LockInv(u)'
  <2>1. CASE u = t
    BY <1>1, <1>2, <2>1, Zenon DEF LockInv, Syncs, Waits, Pushed, Peering
  <2>2. CASE u # t
    BY <1>1, <1>2, <1>3, <2>2, Zenon DEF IInv, ThreadInv, LockInv, Syncs, Waits, Peering, Only
  <2> QED
    BY <2>1, <2>2, Zenon
<1> QED
  BY <1>1, <1>2, <1>4, DeadStep, Zenon DEF IInv, StateInv

\* The VE process is killed, or its new thread faults.
LEMMA DieStep ==
  ASSUME IInv, child' # "alive",
         UNCHANGED <<mutexes, ctx, mainVars, ringVars, pc, rq, res, new>>
  PROVE  IInv'
<1> USE DEF mutexes
<1>1. ASSUME NEW u \in App PROVE LockInv(u)'
  BY Zenon DEF IInv, ThreadInv, LockInv, Syncs, Waits, Peering
<1> QED
  BY <1>1, DeadStep, Zenon DEF IInv, StateInv, TypeInv

(***************************************************************************)
(* The VE.                                                                 *)
(***************************************************************************)
\* A handler takes the oldest command and replies to it.
LEMMA ReplyStep ==
  ASSUME IInv, NEW v, child = "alive", chan # <<>>, reply(Head(chan), v), vpc' = "poll",
         UNCHANGED <<mutexes, ctx, mainVars, pc, rq, res, new, child>>
  PROVE  IInv'
<1> USE DEF mutexes, mainVars, reply
<1>1. /\ IsSeq(chan) /\ IsSeq(rep) /\ Len(chan) \in Nat /\ Len(rep) \in Nat /\ Len(chan) >= 1
      /\ IsSeq(chan') /\ IsSeq(rep') /\ Len(chan') = Len(chan) - 1 /\ Len(rep') = Len(rep) + 1
      /\ \A i \in 1 .. Len(chan') : chan'[i] = chan[i + 1]
      /\ \A i \in 1 .. Len(rep) : rep'[i] = rep[i]
      /\ rep'[Len(rep) + 1] = [to |-> chan[1], val |-> v]
  BY SeqEmpty, SeqTail, SeqAppend DEF IInv, TypeInv
<1>2. TypeInv' /\ StateInv' /\ QueueInv'
  BY <1>1, Zenon DEF IInv, TypeInv, StateInv, QueueInv, SyncLast
<1>3. WireInv'
  <2> SUFFICES ASSUME Ordered(inflight, rep, chan) PROVE Ordered(inflight, rep, chan)'
    BY Zenon DEF IInv, WireInv, Peering
  <2>1. \A i \in 1 .. Len(rep') : rep'[i].to = inflight[i]
    BY <1>1 DEF Ordered
  <2>2. \A i \in 1 .. Len(chan') : chan'[i] = inflight[Len(rep') + i]
    BY <1>1 DEF Ordered
  <2>3. Len(inflight) = Len(rep') + Len(chan') /\ inflight' = inflight
    BY <1>1 DEF Ordered
  <2> QED
    BY <2>1, <2>2, <2>3, Zenon DEF Ordered
<1>4. ASSUME NEW u \in App PROVE ThreadInv(u)'
  <2>1. Alone(u) => Alone(u)'
    <3> SUFFICES ASSUME Alone(u) PROVE Alone(u)'
      BY Zenon
    <3>1. rep = <<>> /\ Len(chan) = 1
      BY Zenon DEF Alone
    <3>2. chan' = <<>> /\ Len(rep') = 1
      BY <1>1, <3>1, SeqEmpty
    <3> QED
      BY <3>2 DEF Alone
  <2> QED
    BY <2>1, Zenon DEF IInv, ThreadInv, LockInv, SyncInv, Numbered, Syncs, Waits, Peering
<1> QED
  BY <1>2, <1>3, <1>4, Zenon DEF IInv

(***************************************************************************)
(* The worker of the main context.                                         *)
(***************************************************************************)
\* A reply without a command in flight is that to NEWPEER, and all there is.
LEMMA PeerReply ==
  ASSUME IInv, child = "alive", rep # <<>>, Head(rep).to \notin Range(inflight)
  PROVE  /\ \E u \in App : Peering(u)
         /\ request = <<>> /\ inflight = <<>> /\ chan = <<>> /\ Tail(rep) = <<>>
<1>1. IsSeq(rep) /\ IsSeq(inflight) /\ IsSeq(chan) /\ IsSeq(request) /\ Len(rep) >= 1
  BY SeqTail, Zenon DEF IInv, TypeInv
<1>2. PICK u \in App : Peering(u)
  <2> SUFFICES ASSUME \A u \in App : ~Peering(u) PROVE FALSE
    BY Zenon
  <2>1. Ordered(inflight, rep, chan)
    BY Zenon DEF IInv, WireInv
  <2>2. Len(rep) \in Nat /\ Len(chan) \in Nat /\ Len(inflight) \in Nat /\ Head(rep) = rep[1]
    BY <1>1, SeqEmpty, SeqTail, Zenon
  <2>3. Len(inflight) # 0 /\ rep[1].to = inflight[1]
    BY <1>1, <2>1, <2>2 DEF Ordered
  <2>4. inflight[1] \in Range(inflight)
    BY <1>1, <2>3, SeqEmpty, PopHead, Zenon
  <2> QED
    BY <2>2, <2>3, <2>4, Zenon
<1>3. Alone(u)
  BY <1>2, Zenon DEF IInv, ThreadInv
<1>4. chan = <<>> /\ Len(rep) <= 1 /\ request = <<>> /\ inflight = <<>>
  BY <1>3, Zenon DEF Alone
<1>5. IsSeq(Tail(rep)) /\ Len(Tail(rep)) = Len(rep) - 1 /\ Len(rep) \in Nat
  BY <1>1, SeqTail, SeqEmpty, Zenon
<1>6. Len(Tail(rep)) = 0
  BY <1>1, <1>4, <1>5
<1> QED
  BY <1>2, <1>4, <1>5, <1>6, SeqEmpty, Zenon

\* The exception leaves nothing on the way.
LEMMA ThrowStep ==
  ASSUME IInv, NEW d \in App \cup {Progress}, receive(d), Head(rep).to \notin Range(inflight)
  PROVE  IInv'
<1> USE DEF ctxVars, veVars
<1>1. /\ prog_mtx = d /\ (d \in App => pc[d] = "drive") /\ rep # <<>> /\ rep' = Tail(rep)
      /\ throws(d) /\ UNCHANGED <<prog_mtx, ctx, state, seq_no, request, inflight, chan, child, vpc>>
  BY Zenon DEF receive, drives
<1>2. /\ pc' = [u \in App |-> pc'[u]] /\ rq' = [u \in App |-> rq'[u]]
      /\ res' = [u \in App |-> res'[u]] /\ new' = [u \in App |-> new'[u]]
      /\ Only(d) /\ (d \in App => pc'[d] = "idle")
  BY <1>1, ProcHandleAssumption, Zenon DEF IInv, TypeInv, throws, Return, GoTo, Only, callVars,
     taskVars
<1>3. stuck' => prog_mtx' \in App
  BY <1>1, Zenon DEF IInv, StateInv, throws
<1>4. ASSUME NEW u \in App, u # d PROVE LockInv(u)'
  BY <1>1, <1>2, <1>4 DEF IInv, ThreadInv, LockInv, Syncs, Waits, Peering, Only, throws
<1>5. d \in App => LockInv(d)'
  BY <1>2, Zenon DEF LockInv, Syncs, Waits, Pushed, Peering
<1>6. CASE child # "alive"
  BY <1>1, <1>2, <1>3, <1>4, <1>5, <1>6, DeadStep, Zenon
<1>7. CASE child = "alive"
  <2>4. request = <<>> /\ inflight = <<>> /\ chan = <<>> /\ rep' = <<>>
    BY <1>1, <1>7, PeerReply, Zenon
  <2>2. PICK u \in App : Peering(u)
    BY <1>1, <1>7, PeerReply, Zenon
  <2>3. u # d
    BY <1>1, <2>2, Zenon DEF Peering
  <2>5. TypeInv' /\ StateInv' /\ QueueInv' /\ WireInv'
    <3>1. TypeInv' /\ StateInv'
      BY <1>1, <1>2, <1>3, <2>4, SeqEmpty, Zenon DEF IInv, TypeInv, StateInv
    <3>2. QueueInv'
      BY <1>1, <2>4, NothingQueued, Zenon
    <3>3. Peering(u)'
      BY <1>2, <2>2, <2>3, Zenon DEF Peering, Only
    <3> QED
      BY <3>1, <3>2, <3>3, Zenon DEF WireInv
  <2>6. ASSUME NEW w \in App PROVE ThreadInv(w)'
    <3>1. CASE w = d
      BY <1>2, <1>5, <3>1, Zenon DEF ThreadInv, SyncInv, Numbered, Syncs, Waits, Pushed, Peering
    <3>2. CASE w # d
      BY <1>1, <1>2, <1>4, <2>4, <3>2, SeqEmpty, SMTT(30)
         DEF IInv, ThreadInv, SyncInv, Numbered, Syncs, Waits, Peering, Only, Alone
    <3> QED
      BY <3>1, <3>2, Zenon
  <2> QED
    BY <2>5, <2>6, Zenon DEF IInv
<1> QED
  BY <1>6, <1>7, Zenon

\* Steps of the worker that change queues, rings and results only.
WorkerMoves ==
  /\ res' = [u \in App |-> res'[u]]
  /\ UNCHANGED <<mutexes, ctx, state, seq_no, pc, rq, new, child, vpc>>

\* A worker's step concerns only the queues if the VE process lives, for the
\* mutexes stay.
LEMMA WorkerStep ==
  ASSUME IInv, WorkerMoves,
         child = "alive" =>
           /\ IsSeq(request') /\ IsSeq(inflight') /\ IsSeq(chan') /\ IsSeq(rep')
           /\ vpc # "poll" => chan' # <<>>
           /\ \A u \in App : ~Peering(u) /\ SyncInv(u)'
           /\ QueueInv' /\ WireInv'
  PROVE  IInv'
<1> USE DEF WorkerMoves, mutexes
<1>1. ASSUME NEW u \in App PROVE LockInv(u)'
  BY Zenon DEF IInv, ThreadInv, LockInv, Syncs, Waits, Peering
<1>2. CASE child # "alive"
  BY <1>1, <1>2, DeadStep, Zenon DEF IInv, StateInv, TypeInv
<1>3. CASE child = "alive"
  <2>1. TypeInv' /\ StateInv'
    BY <1>3, Zenon DEF IInv, TypeInv, StateInv
  <2>2. ASSUME NEW u \in App PROVE ThreadInv(u)'
    BY <1>1, <1>3, Zenon DEF IInv, ThreadInv, Peering, Numbered
  <2> QED
    BY <1>3, <2>1, <2>2, Zenon DEF IInv
<1> QED
  BY <1>2, <1>3, Zenon

\* A reply to a command in flight is that to the oldest.
LEMMA OldestReply ==
  ASSUME IInv, child = "alive", rep # <<>>, Head(rep).to \in Range(inflight)
  PROVE  /\ inflight # <<>> /\ (\A u \in App : ~Peering(u)) /\ Ordered(inflight, rep, chan)
         /\ Head(rep).to = inflight[1] /\ popInFlight(Head(rep).to) = Tail(inflight)
<1>1. /\ IsSeq(rep) /\ IsSeq(inflight) /\ Len(rep) >= 1 /\ Len(rep) \in Nat /\ Head(rep) = rep[1]
  BY SeqTail, SeqEmpty, Zenon DEF IInv, TypeInv
<1>2. inflight # <<>>
  BY SeqEmpty DEF Range
<1>3. ASSUME NEW u \in App PROVE ~Peering(u)
  BY <1>2, Zenon DEF IInv, ThreadInv, Alone
<1>4. Ordered(inflight, rep, chan)
  BY <1>3, Zenon DEF IInv, WireInv
<1>5. Head(rep).to = inflight[1]
  BY <1>1, <1>4 DEF Ordered
<1> QED
  BY <1>1, <1>2, <1>3, <1>4, <1>5, PopHead, Zenon

\* The worker takes it from the commands in flight.
LEMMA ReceiveStep ==
  ASSUME IInv, NEW d \in App \cup {Progress}, receive(d), Head(rep).to \in Range(inflight)
  PROVE  IInv'
<1> USE DEF mutexes, ctxVars, taskVars, veVars
<1> DEFINE q == Head(rep).to
<1>1. /\ rep # <<>> /\ rep' = Tail(rep) /\ inflight' = popInFlight(q)
      /\ res' = answers(q, Head(rep).val)
      /\ UNCHANGED <<mutexes, ctx, state, seq_no, request, chan, pc, rq, new, child, vpc>>
  BY Zenon DEF receive
<1>2. WorkerMoves
  BY <1>1, Zenon DEF WorkerMoves, answers, IInv, TypeInv
<1>3. ASSUME child = "alive"
      PROVE  /\ IsSeq(request') /\ IsSeq(inflight') /\ IsSeq(chan') /\ IsSeq(rep')
             /\ vpc # "poll" => chan' # <<>>
             /\ \A u \in App : ~Peering(u) /\ SyncInv(u)'
             /\ QueueInv' /\ WireInv'
  <2>1. /\ IsSeq(rep) /\ IsSeq(inflight) /\ IsSeq(chan) /\ IsSeq(request) /\ Len(rep) >= 1
        /\ Len(rep) \in Nat /\ Len(chan) \in Nat /\ Len(inflight) \in Nat
        /\ Head(rep) = rep[1] /\ IsSeq(rep') /\ Len(rep') = Len(rep) - 1
        /\ \A i \in 1 .. Len(rep') : rep'[i] = rep[i + 1]
    BY <1>1, <1>3, SeqTail, SeqEmpty DEF IInv, TypeInv
  <2>2. inflight # <<>> /\ (\A u \in App : ~Peering(u)) /\ q = inflight[1]
        /\ inflight' = Tail(inflight)
    BY <1>1, <1>3, OldestReply, Zenon
  <2>4. Ordered(inflight, rep, chan)
    BY <1>1, <1>3, OldestReply, Zenon
  <2>7. /\ IsSeq(inflight') /\ Len(inflight) >= 1 /\ Len(inflight') = Len(inflight) - 1
        /\ \A i \in 1 .. Len(inflight') : inflight'[i] = inflight[i + 1]
    BY <2>1, <2>2, SeqTail, Zenon
  <2>8. ASSUME NEW u \in App, rq[u].op = "SYNC" PROVE res'[u] = res[u]
    <3>1. q.op # "SYNC"
      BY <1>3, <2>1, <2>2, <2>7 DEF IInv, QueueInv
    <3> QED
      BY <1>1, <2>8, <3>1, Zenon DEF answers, IInv, TypeInv
  <2>9. ASSUME NEW u \in App PROVE SyncInv(u)'
    BY <1>1, <1>3, <2>2, <2>8, Zenon DEF IInv, ThreadInv, SyncInv, Syncs, Waits
  <2>10. QueueInv'
    <3>1. ASSUME ~stuck, NEW i \in 1 .. Len(request) PROVE SyncLast(request, i)'
      <4>1. SyncLast(request, i)
        BY <1>3, <3>1, Zenon DEF IInv, QueueInv
      <4> QED
        BY <1>1, <2>8, <4>1, Zenon DEF SyncLast
    <3>2. ASSUME NEW i \in 1 .. Len(inflight') PROVE inflight'[i].op # "SYNC"
      <4>1. i + 1 \in 1 .. Len(inflight) /\ inflight'[i] = inflight[i + 1]
        BY <2>1, <2>7
      <4> QED
        BY <1>3, <4>1, Zenon DEF IInv, QueueInv
    <3> QED
      BY <1>1, <3>1, <3>2, Zenon DEF QueueInv
  <2>11. Ordered(inflight, rep, chan)'
    <3>1. Len(inflight') = Len(rep') + Len(chan)
      BY <2>1, <2>4, <2>7 DEF Ordered
    <3>2. ASSUME NEW i \in 1 .. Len(rep') PROVE rep'[i].to = inflight'[i]
      BY <2>1, <2>4, <2>7, <3>1 DEF Ordered
    <3>3. ASSUME NEW i \in 1 .. Len(chan) PROVE chan[i] = inflight'[Len(rep') + i]
      BY <2>1, <2>4, <2>7, <3>1, SMTT(30) DEF Ordered
    <3> QED
      BY <1>1, <3>1, <3>2, <3>3, Zenon DEF Ordered
  <2> QED
    BY <1>1, <2>1, <2>2, <2>7, <2>9, <2>10, <2>11, <1>3, Zenon DEF IInv, StateInv, WireInv
<1> QED
  BY <1>2, <1>3, WorkerStep, Zenon

\* A command goes to the VE behind those in flight.
LEMMA SubmitCommand ==
  ASSUME IInv, WorkerMoves, request # <<>>, Head(request).op # "SYNC",
         inflight' = Append(inflight, Head(request)), chan' = Append(chan, Head(request)),
         request' = Tail(request), rep' = rep, res' = res
  PROVE  IInv'
<1> USE DEF WorkerMoves, mutexes
<1>1. ASSUME child = "alive"
      PROVE  /\ IsSeq(request') /\ IsSeq(inflight') /\ IsSeq(chan') /\ IsSeq(rep')
             /\ vpc # "poll" => chan' # <<>>
             /\ \A u \in App : ~Peering(u) /\ SyncInv(u)'
             /\ QueueInv' /\ WireInv'
  <2> DEFINE q == Head(request)
  <2>1. /\ IsSeq(rep) /\ IsSeq(inflight) /\ IsSeq(chan) /\ IsSeq(request)
        /\ Len(rep) \in Nat /\ Len(chan) \in Nat /\ Len(inflight) \in Nat /\ Len(request) \in Nat
    BY <1>1, SeqEmpty, Zenon DEF IInv, TypeInv
  <2>2. /\ IsSeq(request') /\ Len(request') = Len(request) - 1
        /\ \A i \in 1 .. Len(request') : request'[i] = request[i + 1]
    BY <2>1, SeqTail, Zenon
  <2>3. /\ IsSeq(inflight') /\ Len(inflight') = Len(inflight) + 1
        /\ \A i \in 1 .. Len(inflight) : inflight'[i] = inflight[i]
        /\ inflight'[Len(inflight) + 1] = q
    BY <2>1, SeqAppend
  <2>4. /\ IsSeq(chan') /\ Len(chan') = Len(chan) + 1
        /\ \A i \in 1 .. Len(chan) : chan'[i] = chan[i]
        /\ chan'[Len(chan) + 1] = q
    BY <2>1, SeqAppend
  <2>5. chan' # <<>>
    BY <2>1, <2>4, SeqEmpty
  <2>6. ASSUME NEW u \in App PROVE ~Peering(u) /\ SyncInv(u)'
    BY <1>1, Zenon DEF IInv, ThreadInv, Alone, SyncInv, Syncs, Waits
  <2>7. QueueInv'
    <3>1. ASSUME ~stuck, NEW i \in 1 .. Len(request') PROVE SyncLast(request, i)'
      <4>1. SyncLast(request, i + 1) /\ request'[i] = request[i + 1]
        BY <1>1, <2>1, <2>2, <3>1, SMTT(30) DEF IInv, QueueInv
      <4> QED
        BY <2>1, <2>2, <4>1, SMTT(30) DEF SyncLast
    <3>2. ASSUME NEW i \in 1 .. Len(inflight') PROVE inflight'[i].op # "SYNC"
      BY <1>1, <2>1, <2>3 DEF IInv, QueueInv
    <3> QED
      BY <3>1, <3>2, Zenon DEF QueueInv
  <2>8. Ordered(inflight, rep, chan)'
    <3>1. Ordered(inflight, rep, chan)
      BY <1>1, <2>6, Zenon DEF IInv, WireInv
    <3>2. Len(inflight') = Len(rep) + Len(chan')
      BY <2>1, <2>3, <2>4, <3>1 DEF Ordered
    <3>3. ASSUME NEW i \in 1 .. Len(rep) PROVE rep[i].to = inflight'[i]
      BY <2>1, <2>3, <2>4, <3>1, SMTT(30) DEF Ordered
    <3>4. ASSUME NEW i \in 1 .. Len(chan') PROVE chan'[i] = inflight'[Len(rep) + i]
      <4> DEFINE n == Len(chan)
      <4>0. n \in Nat /\ i \in 1 .. (n + 1)
        BY <2>1, <2>4, Zenon
      <4> HIDE DEF n
      <4>3. i \in 1 .. n \/ i = n + 1
        BY <4>0
      <4> USE DEF n
      <4>1. CASE i \in 1 .. Len(chan)
        BY <2>1, <2>3, <2>4, <3>1, <4>1, SMTT(30) DEF Ordered
      <4>2. CASE i = Len(chan) + 1
        BY <2>1, <2>3, <2>4, <3>1, <4>2 DEF Ordered
      <4> QED
        BY <4>1, <4>2, <4>3, Zenon
    <3> QED
      BY <3>2, <3>3, <3>4, Zenon DEF Ordered
  <2> QED
    BY <2>1, <2>2, <2>3, <2>4, <2>5, <2>6, <2>7, <2>8, Zenon DEF WireInv
<1> QED
  BY <1>1, WorkerStep, Zenon

\* The progress thread completes a SYNC when nothing is in flight: if somebody
\* waits for it, nothing is queued behind it.
LEMMA SubmitSync ==
  ASSUME IInv, WorkerMoves, request # <<>>, Head(request).op = "SYNC", inflight = <<>>,
         prog_mtx = Progress, res' = answers(Head(request), NoValue),
         request' = Tail(request), UNCHANGED <<inflight, chan, rep>>
  PROVE  IInv'
<1> USE DEF WorkerMoves, mutexes
<1>1. ASSUME child = "alive"
      PROVE  /\ IsSeq(request') /\ IsSeq(inflight') /\ IsSeq(chan') /\ IsSeq(rep')
             /\ vpc # "poll" => chan' # <<>>
             /\ \A u \in App : ~Peering(u) /\ SyncInv(u)'
             /\ QueueInv' /\ WireInv'
  <2> DEFINE q == Head(request)
  <2>1. /\ IsSeq(rep) /\ IsSeq(inflight) /\ IsSeq(chan) /\ IsSeq(request) /\ Len(request) \in Nat
    BY <1>1, SeqEmpty, Zenon DEF IInv, TypeInv
  <2>2. /\ IsSeq(request') /\ Len(request) >= 1 /\ Len(request') = Len(request) - 1 /\ q = request[1]
        /\ \A i \in 1 .. Len(request') : request'[i] = request[i + 1]
    BY <2>1, SeqTail, Zenon
  <2>3. ~stuck
    BY ProcHandleAssumption, Zenon DEF IInv, StateInv
  <2>4. ASSUME NEW i \in 1 .. Len(request) PROVE SyncLast(request, i)
    BY <1>1, <2>3, Zenon DEF IInv, QueueInv
  <2>5. ASSUME NEW u \in App PROVE ~Peering(u) /\ SyncInv(u)
    BY <1>1, Zenon DEF IInv, ThreadInv, Alone
  <2>6. WireInv'
    BY <1>1, <2>5, Zenon DEF IInv, WireInv
  <2>7. CASE q.by = Null
    <3>1. res' = res
      BY <2>7, ProcHandleAssumption, Zenon DEF answers
    <3>2. ASSUME NEW u \in App PROVE SyncInv(u)'
      BY <1>1, <2>5, <3>1, Zenon DEF SyncInv, Syncs, Waits
    <3>3. ASSUME NEW i \in 1 .. Len(request') PROVE SyncLast(request, i)'
      <4>1. SyncLast(request, i + 1) /\ request'[i] = request[i + 1]
        BY <2>1, <2>2, <2>4
      <4> QED
        BY <2>1, <2>2, <3>1, <4>1, SMTT(30) DEF SyncLast
    <3>4. QueueInv'
      BY <1>1, <3>3, Zenon DEF IInv, QueueInv
    <3> QED
      BY <1>1, <2>1, <2>2, <2>5, <2>6, <3>2, <3>4, Zenon DEF IInv, StateInv
  <2>8. CASE q.by # Null
    <3>1. Len(request) = 1 /\ pc[q.by] \in Pushed
      BY <2>1, <2>2, <2>4, <2>8 DEF SyncLast
    <3>2. request' = <<>> /\ Len(request') = 0
      <4>1. Len(request') = 0
        BY <2>2, <3>1
      <4> QED
        BY <2>2, <4>1, SeqEmpty, Zenon
    <3>3. ASSUME NEW u \in App PROVE SyncInv(u)'
      <4>1. pc[u] = "push" => res'[u] = res[u]
        BY <3>1, Zenon DEF answers, Pushed, IInv, TypeInv
      <4> QED
        BY <1>1, <2>5, <3>2, <4>1, Zenon DEF SyncInv, Syncs, Waits
    <3>4. QueueInv'
      BY <1>1, <3>2 DEF IInv, QueueInv
    <3> QED
      BY <1>1, <2>1, <2>2, <2>5, <2>6, <3>3, <3>4, Zenon DEF IInv, StateInv
  <2> QED
    BY <2>7, <2>8, Zenon
<1> QED
  BY <1>1, WorkerStep, Zenon

\* One round of _progress_nolock() that submits something.
LEMMA SubmitStep ==
  ASSUME IInv, NEW d \in App \cup {Progress}, submit(d)
  PROVE  IInv'
<1> USE DEF mutexes, ctxVars, taskVars, veVars
<1>1. /\ prog_mtx = d /\ request # <<>> /\ request' = Tail(request)
      /\ UNCHANGED <<mutexes, ctx, state, seq_no, rep, pc, rq, new, child, vpc>>
  BY Zenon DEF submit, drives
<1>2. WorkerMoves
  BY <1>1, Zenon DEF WorkerMoves, submit, answers, IInv, TypeInv
<1>3. CASE Head(request).op # "SYNC"
  <2>1. /\ inflight' = Append(inflight, Head(request)) /\ chan' = Append(chan, Head(request))
        /\ res' = res
    BY <1>3, Zenon DEF submit
  <2> QED
    BY <1>1, <1>2, <1>3, <2>1, SubmitCommand, Zenon
<1>4. CASE Head(request).op = "SYNC"
  <2>1. /\ inflight = <<>> /\ d = Progress /\ res' = answers(Head(request), NoValue)
        /\ UNCHANGED <<inflight, chan>>
    BY <1>4, Zenon DEF submit
  <2> QED
    BY <1>1, <1>2, <1>4, <2>1, SubmitSync, Zenon
<1> QED
  BY <1>3, <1>4, Zenon

\* The worker finds nothing to do, or the VE process gone.
LEMMA LeaveStep ==
  ASSUME IInv, NEW d \in App \cup {Progress}, leave(d)
  PROVE  IInv'
<1> USE DEF mutexes, ctxVars, ringVars, taskVars, veVars, GoTo, Pushed
<1>1. /\ prog_mtx = d /\ (d \in App => pc[d] = "drive")
      /\ UNCHANGED <<ctx_mutex, submit_mtx, stuck, ctx, ringVars, rq, new, child, vpc>>
  BY Zenon DEF leave, drives
<1>2. stuck => prog_mtx' \in App
  BY <1>1, ProcHandleAssumption, Zenon DEF IInv, StateInv, leave, released
<1>3. /\ pc' = [u \in App |-> pc'[u]] /\ (d \in App => pc'[d] \in {"wait", "peek"})
      /\ \A u \in App : u # d => pc'[u] = pc[u]
  BY ProcHandleAssumption, Zenon DEF IInv, TypeInv, leave
<1>4. ASSUME NEW u \in App PROVE LockInv(u)'
  <2>1. CASE u = d
    BY <1>1, <1>3, <2>1, Zenon DEF IInv, ThreadInv, LockInv, Syncs, Waits, Peering
  <2>2. CASE u # d
    BY <1>1, <1>3, <2>2, Zenon DEF IInv, ThreadInv, LockInv, Syncs, Waits, Peering
  <2> QED
    BY <2>1, <2>2, Zenon
<1>5. CASE child # "alive"
  <2>1. res' = [u \in App |-> res'[u]]
    BY Zenon DEF leave, IInv, TypeInv
  <2>2. rq' = [u \in App |-> rq'[u]] /\ new' = [u \in App |-> new'[u]]
    BY <1>1, Zenon DEF IInv, TypeInv
  <2> QED
    BY <1>1, <1>2, <1>3, <1>4, <1>5, <2>1, <2>2, DeadStep, Zenon
<1>6. CASE child = "alive"
  <2>1. UNCHANGED mainVars /\ res' = res
    BY <1>6, Zenon DEF leave
  <2>2. TypeInv' /\ StateInv'
    BY <1>1, <1>2, <1>3, <2>1, Zenon DEF IInv, TypeInv, StateInv, mainVars
  <2>3. CASE d \in App
    <3>1. ThreadInv(d)'
      BY <1>1, <1>3, <1>4, <2>1, <2>3, Zenon
         DEF IInv, ThreadInv, SyncInv, Syncs, Waits, Peering, Numbered, mainVars
    <3>2. ThreadStep(d)
      BY <1>1, <1>3, <2>1, <2>2, <2>3, <3>1, Zenon
         DEF ThreadStep, Only, MutexStep, wires, Peering, SyncWaits, mainVars
    <3> QED
      BY <2>3, <3>2, ThreadMoves, Zenon
  <2>4. CASE d = Progress
    <3>1. pc' = pc
      BY <1>1, <2>4, ProcHandleAssumption, Zenon DEF leave
    <3>2. ASSUME NEW u \in App PROVE ThreadInv(u)'
      BY <1>1, <1>4, <2>1, <3>1, Zenon DEF IInv, ThreadInv, SyncInv, Syncs, Waits, Peering,
         Numbered, Alone, mainVars
    <3>3. QueueInv' /\ WireInv'
      BY <1>1, <2>1, <3>1, Zenon DEF IInv, QueueInv, SyncLast, WireInv, Peering, mainVars
    <3> QED
      BY <2>2, <3>2, <3>3, Zenon DEF IInv
  <2> QED
    BY <2>3, <2>4, Zenon
<1> QED
  BY <1>5, <1>6, Zenon

-----------------------------------------------------------------------------
\* Steps that change neither a call nor a queue nor a ring.
LEMMA QuietStep ==
  ASSUME IInv, stuck => prog_mtx' \in App, vpc' # "poll" => vpc # "poll" \/ chan # <<>>,
         UNCHANGED <<ctx_mutex, submit_mtx, stuck, ctx, mainVars, ringVars, pc, rq, res, new, child>>
  PROVE  IInv'
<1> USE DEF mainVars, ringVars
<1>1. TypeInv' /\ StateInv'
  BY Zenon DEF IInv, TypeInv, StateInv
<1>2. QueueInv' /\ WireInv'
  BY Zenon DEF IInv, QueueInv, SyncLast, WireInv, Peering
<1>3. ASSUME NEW u \in App PROVE ThreadInv(u)'
  BY Zenon DEF IInv, ThreadInv, LockInv, SyncInv, Syncs, Waits, Peering, Numbered, Alone
<1> QED
  BY <1>1, <1>2, <1>3, Zenon DEF IInv

\* The VE program replies to commands in their order; it may also die.
LEMMA VEStep ==
  ASSUME IInv, VE
  PROVE  IInv'
<1> USE DEF mutexes, ctxVars, mainVars, ringVars, threadVars, callVars, taskVars, veVars
<1>1. ASSUME NEW v, serves("LOADLIB") \/ serves("UNLOADLIB") \/ serves("GETSYM") \/ serves("PCI"),
             reply(Head(chan), v),
             UNCHANGED <<mutexes, ctxVars, mainVars, threadVars, veVars>>
      PROVE  IInv'
  <2>1. /\ child = "alive" /\ chan # <<>> /\ vpc' = "poll"
        /\ UNCHANGED <<mutexes, ctx, mainVars, pc, rq, res, new, child>>
    BY <1>1, Zenon DEF serves
  <2> QED
    BY <1>1, <2>1, ReplyStep, Zenon
<1>2. CASE loadlib_handler
  <2>1. PICK v : reply(Head(chan), v)
    BY <1>2, Zenon DEF loadlib_handler
  <2>2. serves("LOADLIB") /\ UNCHANGED <<mutexes, ctxVars, mainVars, threadVars, veVars>>
    BY <1>2, Zenon DEF loadlib_handler
  <2> QED
    BY <1>1, <2>1, <2>2, Zenon
<1>3. CASE unloadlib_handler
  <2>1. /\ serves("UNLOADLIB") /\ reply(Head(chan), NoValue)
        /\ UNCHANGED <<mutexes, ctxVars, mainVars, threadVars, veVars>>
    BY <1>3, Zenon DEF unloadlib_handler
  <2> QED
    BY <1>1, <2>1, Zenon
<1>4. CASE getsym_handler
  <2>1. PICK v : reply(Head(chan), v)
    BY <1>4, Zenon DEF getsym_handler
  <2>2. serves("GETSYM") /\ UNCHANGED <<mutexes, ctxVars, mainVars, threadVars, veVars>>
    BY <1>4, Zenon DEF getsym_handler
  <2> QED
    BY <1>1, <2>1, <2>2, Zenon
<1>5. CASE access_pcircvsyc_register_handler
  <2>1. /\ serves("PCI") /\ reply(Head(chan), NoValue)
        /\ UNCHANGED <<mutexes, ctxVars, mainVars, threadVars, veVars>>
    BY <1>5, Zenon DEF access_pcircvsyc_register_handler
  <2> QED
    BY <1>1, <2>1, Zenon
<1>6. CASE newpeer_handler
  <2>1. /\ chan # <<>>
        /\ UNCHANGED <<mutexes, ctx, mainVars, ringVars, pc, rq, res, new, child>>
    BY <1>6, Zenon DEF newpeer_handler, serves
  <2> QED
    BY <2>1, QuietStep, Zenon DEF IInv, StateInv
<1>7. CASE newpeer_create \/ newpeer_reply
  <2>1. /\ child = "alive" /\ vpc # "poll"
        /\ UNCHANGED <<mutexes, ctx, mainVars, pc, rq, res, new, child>>
    BY <1>7, Zenon DEF newpeer_create, newpeer_reply
  <2>2. chan # <<>>
    BY <2>1, Zenon DEF IInv, StateInv
  <2>3. \/ UNCHANGED ringVars
        \/ vpc' = "poll" /\ \E v : reply(Head(chan), v)
    BY <1>7, Zenon DEF newpeer_create, newpeer_reply
  <2>4. CASE UNCHANGED ringVars
    BY <2>1, <2>4, QuietStep, Zenon DEF IInv, StateInv
  <2>5. CASE vpc' = "poll" /\ \E v : reply(Head(chan), v)
    <3>1. PICK v : reply(Head(chan), v)
      BY <2>5, Zenon
    <3> QED
      BY <2>1, <2>2, <2>5, <3>1, ReplyStep, Zenon
  <2> QED
    BY <2>3, <2>4, <2>5, Zenon
<1>8. CASE \E c \in Peers : ve_handler_loop(c) \/ exit_handler(c)
  <2>1. PICK c \in Peers : ve_handler_loop(c) \/ exit_handler(c)
    BY <1>8, Zenon
  <2>2. /\ child' = child \/ child' # "alive"
        /\ UNCHANGED <<mutexes, ctx, mainVars, ringVars, pc, rq, res, new, vpc>>
    BY <2>1, Zenon DEF ve_handler_loop, exit_handler
  <2>3. CASE child' = child
    BY <2>2, <2>3, QuietStep, Zenon DEF IInv, StateInv
  <2>4. CASE child' # "alive"
    BY <2>2, <2>4, DieStep, Zenon
  <2> QED
    BY <2>2, <2>3, <2>4, Zenon
<1>9. CASE die
  <2>1. /\ child' # "alive"
        /\ UNCHANGED <<mutexes, ctx, mainVars, ringVars, pc, rq, res, new>>
    BY <1>9, Zenon DEF die
  <2> QED
    BY <2>1, DieStep, Zenon
<1> QED
  BY <1>2, <1>3, <1>4, <1>5, <1>6, <1>7, <1>8, <1>9, Zenon DEF VE

\* Every step keeps the invariant.
LEMMA NextInv == IInv /\ [Next]_vars => IInv'
<1> SUFFICES ASSUME IInv, [Next]_vars PROVE IInv'
  BY Zenon
<1> USE DEF mutexes, ctxVars, mainVars, ringVars, threadVars, callVars, taskVars, veVars
<1>1. CASE \E t \in App : Thread(t)
  <2>1. PICK t \in App : Thread(t)
    BY <1>1, Zenon
  <2>2. CASE push(t)
    BY <2>2, PushStep, Zenon
  <2>3. CASE pushSync(t)
    BY <2>3, PushSyncStep, Zenon
  <2>4. CASE callWaitResult(t) \/ postpone(t)
    BY <2>4, WaitStep, ThreadMoves, Zenon
  <2>5. CASE openContext(t) \/ openSync(t) \/ openFirst(t) \/ openFlag(t)
    BY <2>5, OpenStep, ThreadMoves, Zenon
  <2>6. CASE openSend(t)
    BY <2>6, SendStep, Zenon
  <2>7. CASE openAttach(t) \/ openReply(t)
    BY <2>7, PeerStep, Zenon
  <2>8. CASE veo_context_close(t) \/ delContext(t) \/ delContextEnd(t) \/ exitProc(t)
               \/ delContextNolock(t) \/ delContextNolockEnd(t)
    BY <2>8, CloseStep, ThreadMoves, Zenon
  <2>9. CASE exitMain(t)
    BY <2>9, ExitStep, Zenon
  <2>10. CASE Library(t)
    BY <2>10, LibraryStep, ThreadMoves, Zenon
  <2>11. CASE accessPciRecvSyncRegister(t) \/ accessReturn(t)
    BY <2>11, AccessStep, ThreadMoves, Zenon
  <2> QED
    BY <2>1, <2>2, <2>3, <2>4, <2>5, <2>6, <2>7, <2>8, <2>9, <2>10, <2>11, Zenon
       DEF Thread, Wait, Open, Close, Exit
<1>2. CASE progressExec
  <2>1. /\ ~stuck
        /\ UNCHANGED <<ctx_mutex, submit_mtx, stuck, ctx, mainVars, ringVars, pc, rq, res, new, child, vpc>>
    BY <1>2, ProcHandleAssumption, Zenon DEF progressExec, IInv, StateInv
  <2> QED
    BY <2>1, QuietStep, Zenon
<1>3. CASE \E d \in App \cup {Progress} : Worker(d)
  <2>1. PICK d \in App \cup {Progress} : Worker(d)
    BY <1>3, Zenon
  <2>2. CASE receive(d)
    BY <2>2, ThrowStep, ReceiveStep, Zenon
  <2> QED
    BY <2>1, <2>2, SubmitStep, LeaveStep, Zenon DEF Worker
<1>4. CASE VE
  BY <1>4, VEStep, Zenon
<1>5. CASE UNCHANGED vars
  <2>1. UNCHANGED <<ctx_mutex, submit_mtx, prog_mtx, stuck, ctx, mainVars, ringVars, pc, rq, res,
                    new, child, vpc>>
    BY <1>5, Zenon DEF vars
  <2> QED
    BY <2>1, QuietStep, Zenon DEF IInv, StateInv
<1> QED
  BY <1>1, <1>2, <1>3, <1>4, <1>5, Zenon DEF Next

(***************************************************************************)
(* The vector of contexts.                                                 *)
(***************************************************************************)
\* A step of thread t, as far as the contexts in the hands of threads go.
Mine(t) == \A u \in App : u # t => pc'[u] = pc[u] /\ new'[u] = new[u]

\* A step of thread t that leaves the vector alone.
VectorQuiet(t) ==
  /\ Mine(t) /\ UNCHANGED <<made, ctx, core>>
  /\ ~Closing(t)' /\ ~Exiting(t)' /\ (Opening(t)' => Opening(t) /\ new'[t] = new[t])
  /\ pc[t] = "idle" => \A w \in App : ~Exiting(w)

\* Such a step keeps the invariant.
LEMMA VectorKept ==
  ASSUME VectorInv, NEW t \in App, VectorQuiet(t)
  PROVE  VectorInv'
<1>1. CtxInv'
  BY Zenon DEF VectorInv, VectorQuiet, CtxInv, Pinned
<1>2. ASSUME NEW u \in App PROVE HoldInv(u)'
  <2>1. CASE u = t
    BY <2>1, Zenon DEF VectorInv, VectorQuiet, HoldInv, InCtx
  <2>2. CASE u # t
    <3>1. pc'[u] = pc[u] /\ new'[u] = new[u] /\ HoldInv(u)
      BY <2>2, Zenon DEF VectorInv, VectorQuiet, Mine
    <3>2. Exiting(u)' => pc[t] = "idle" /\ Exiting(u)
      BY <2>2, <3>1, Zenon DEF HoldInv, Exiting
    <3>3. ~Exiting(u)'
      \/ \A w \in App \ {u} : pc'[w] = "idle"
      BY <2>2, <3>1, <3>2, Zenon DEF VectorQuiet, HoldInv, Exiting, Mine
    <3>4. \A w \in App \ {u} : Closing(u)' /\ Closing(w)' => new'[w] # new'[u]
      BY <2>2, <3>1, Zenon DEF VectorQuiet, HoldInv, Closing, Mine
    <3> QED
      BY <3>1, <3>3, <3>4, Zenon DEF VectorQuiet, HoldInv, Opening, Closing, Exiting, InCtx
  <2> QED
    BY <2>1, <2>2, Zenon
<1> QED
  BY <1>1, <1>2, Zenon DEF VectorInv

\* Calls that neither open nor close a context, the waiting for the VE in
\* openContext() included.
LEMMA CallKept ==
  ASSUME IInv, NEW t \in App,
         \/ Wait(t) \/ openContext(t) \/ openSync(t) \/ openAttach(t) \/ openReply(t)
         \/ Library(t) \/ accessPciRecvSyncRegister(t) \/ accessReturn(t)
  PROVE  VectorQuiet(t)
<1> USE DEF IInv, TypeInv, VectorQuiet, Mine, Opening, Closing, Exiting, GoTo, ctxVars, taskVars
<1>1. CASE Wait(t)
  BY <1>1, Zenon DEF Wait, push, pushSync, callWaitResult, postpone, drives
<1>2. CASE openContext(t) \/ openSync(t)
  BY <1>2, Zenon DEF openContext, openSync, call, Issue
<1>3. CASE openAttach(t) \/ openReply(t)
  BY <1>3, Zenon DEF openAttach, openReply, openReturn, Return
<1>4. CASE accessPciRecvSyncRegister(t) \/ accessReturn(t)
  BY <1>4, Zenon DEF accessPciRecvSyncRegister, accessReturn, Returned, call, Issue, Return
<1>5. CASE Library(t)
  <2> USE DEF otherVars
  <2>1. CASE loadLibrary(t) \/ unloadLibrary(t) \/ loadVE2VELibrary(t)
    BY <2>1, Zenon DEF loadLibrary, unloadLibrary, loadVE2VELibrary, call, Issue
  <2>2. CASE loadReturn(t) \/ unloadReturn(t) \/ getSymStore(t) \/ setLibh_to_hashmap(t)
    BY <2>2, Zenon DEF loadReturn, unloadReturn, getSymStore, setLibh_to_hashmap, Returned, Return
  <2>3. CASE veo_get_sym(t) \/ getSym(t) \/ getVEDMASyms(t)
    BY <2>3, Zenon DEF veo_get_sym, getSym, getVEDMASyms, call, Issue, Return
  <2> QED
    BY <1>5, <2>1, <2>2, <2>3, Zenon DEF Library
<1> QED
  BY <1>1, <1>2, <1>3, <1>4, <1>5, Zenon

\* Whoever holds ctx_mutex is the only one to open or close, and exits alone.
LEMMA HolderAlone ==
  ASSUME IInv, VectorInv, NEW t \in App, ctx_mutex = t, NEW u \in App, u # t
  PROVE  /\ ~Opening(u) /\ pc[u] \notin {"closing", "exit", "exit_closing"} /\ ~Exiting(u)
  BY Zenon DEF IInv, ThreadInv, LockInv, Opening, Peering, Exiting

\* Where the element was that erase() of position k leaves at position i.
Was(k, i) == IF i < k THEN i ELSE i + 1

\* The elements left keep their order, and only k goes.
LEMMA WasFacts ==
  ASSUME NEW n \in Nat, NEW k \in 2 .. n
  PROVE  /\ \A i \in 1 .. n - 1 : Was(k, i) \in 1 .. n /\ Was(k, i) # k /\ (Was(k, i) = 1 <=> i = 1)
         /\ \A i, j \in 1 .. n - 1 : i < j => Was(k, i) < Was(k, j)
         /\ \A m \in 1 .. n : m # k => \E i \in 1 .. n - 1 : Was(k, i) = m
<1>1. \A i \in 1 .. n - 1 : Was(k, i) \in 1 .. n /\ Was(k, i) # k /\ (Was(k, i) = 1 <=> i = 1)
  BY DEF Was
<1>2. \A i, j \in 1 .. n - 1 : i < j => Was(k, i) < Was(k, j)
  BY DEF Was
<1>3. ASSUME NEW m \in 1 .. n, m # k PROVE \E i \in 1 .. n - 1 : Was(k, i) = m
  <2>1. CASE m < k
    <3>1. m \in 1 .. n - 1 /\ Was(k, m) = m
      BY <2>1 DEF Was
    <3> QED
      BY <3>1, Zenon
  <2>2. CASE ~(m < k)
    <3>1. m - 1 \in 1 .. n - 1 /\ Was(k, m - 1) = m
      BY <1>3, <2>2 DEF Was
    <3> QED
      BY <3>1, Zenon
  <2> QED
    BY <2>1, <2>2, Zenon
<1> QED
  BY <1>1, <1>2, <1>3, Zenon

\* What the vector holds.
LEMMA CtxTypes ==
  ASSUME CtxInv
  PROVE  /\ NCtx \in Nat /\ made \in Nat /\ made \in 0 .. NCtx /\ ctx \in Seq(0 .. made)
         /\ Len(ctx) \in Nat /\ DOMAIN ctx = 1 .. Len(ctx)
         /\ \A i \in 1 .. Len(ctx) : ctx[i] \in 0 .. made
<1>1. NCtx \in Nat /\ made \in 0 .. NCtx /\ ctx \in Seq(0 .. made)
  BY ProcHandleAssumption, Zenon DEF CtxInv
<1>2. made \in Nat
  BY <1>1
<1> DEFINE S == 0 .. made
<1>3. ctx \in Seq(S)
  BY <1>1, Zenon
<1> HIDE DEF S
<1>4. Len(ctx) \in Nat /\ DOMAIN ctx = 1 .. Len(ctx) /\ \A i \in 1 .. Len(ctx) : ctx[i] \in S
  BY <1>3
<1> QED
  BY <1>1, <1>2, <1>4, Zenon DEF S

\* The contexts of the vector are all different.
LEMMA CtxDiffer ==
  ASSUME CtxInv, NEW i \in 1 .. Len(ctx), NEW j \in 1 .. Len(ctx), i # j
  PROVE  ctx[i] # ctx[j]
<1> DEFINE n == Len(ctx)
           x == ctx[i]
           y == ctx[j]
<1>1. /\ n \in Nat /\ i \in 1 .. n /\ j \in 1 .. n
      /\ made \in Nat /\ x \in 0 .. made /\ y \in 0 .. made
  BY CtxTypes, Zenon
<1> HIDE DEF n
<1>2. i < j \/ j < i
  BY <1>1
<1>3. x < y \/ y < x
  BY <1>2, Zenon DEF CtxInv
<1> HIDE DEF x, y
<1>4. x # y
  BY <1>1, <1>3
<1> QED
  BY <1>4, Zenon DEF x, y

\* ctx.erase() moves the contexts behind c by one.
LEMMA Erased ==
  ASSUME CtxInv, NEW c, c # Main, InCtx(c)
  PROVE  /\ erase(c) \in Seq(0 .. made) /\ Len(ctx) \in Nat
         /\ \E k \in 2 .. Len(ctx) :
              /\ ctx[k] = c /\ k \in 1 .. Len(ctx) /\ Len(erase(c)) = Len(ctx) - 1
              /\ \A i \in 1 .. Len(ctx) - 1 : erase(c)[i] = ctx[Was(k, i)]
<1>1. ctx \in Seq(0 .. made) /\ Len(ctx) \in Nat /\ DOMAIN ctx = 1 .. Len(ctx)
  BY DEF CtxInv
<1>2. PICK k \in 1 .. Len(ctx) : k = CHOOSE i \in DOMAIN ctx : ctx[i] = c
  BY <1>1, Zenon DEF InCtx
<1>3. ctx[k] = c
  BY <1>1, <1>2, Zenon DEF InCtx
<1>4. k \in 2 .. Len(ctx)
  <2>1. k # 1
    BY <1>3, Zenon DEF CtxInv
  <2> QED
    BY <1>1, <2>1
<1> DEFINE S == 0 .. made
           e == erase(c)
<1>5. e = [i \in 1 .. Len(ctx) - 1 |-> ctx[IF i < k THEN i ELSE i + 1]]
  BY <1>2, Zenon DEF erase
<1>6. ctx \in Seq(S) /\ k \in 1 .. Len(ctx)
  BY <1>1, Zenon
<1> HIDE DEF S, e
<1>7. e \in Seq(S) /\ Len(e) = Len(ctx) - 1
  BY <1>5, <1>6, SeqErase, Zenon
<1>8. \A i \in 1 .. Len(ctx) - 1 : e[i] = ctx[Was(k, i)]
  BY <1>5, Zenon DEF Was
<1> QED
  BY <1>1, <1>3, <1>4, <1>7, <1>8, Zenon DEF S, e

\* A context leaves the vector.
LEMMA EraseKept ==
  ASSUME VectorInv, NEW t \in App, Mine(t), ctx' = erase(new[t]), UNCHANGED <<made, core>>,
         Closing(t), pc[t] # "close", pc'[t] = IF Exiting(t) THEN "exit" ELSE "idle",
         \A u \in App \ {t} : ~Opening(u) /\ ~Exiting(u)
  PROVE  /\ VectorInv'
         /\ \A c : InCtx(c)' <=> InCtx(c) /\ c # new[t]
<1> DEFINE c == new[t]
           n == Len(ctx)
<1>0. CtxInv /\ HoldInv(t) /\ c # Main /\ InCtx(c)
  BY Zenon DEF VectorInv, HoldInv
<1>1. PICK k \in 2 .. n :
        /\ ctx[k] = c /\ k \in 1 .. n /\ Len(ctx') = n - 1 /\ ctx' \in Seq(0 .. made) /\ n \in Nat
        /\ \A i \in 1 .. n - 1 : ctx'[i] = ctx[Was(k, i)]
  BY <1>0, Erased, Zenon
<1> HIDE DEF c, n
<1>2. /\ \A i \in 1 .. n - 1 : Was(k, i) \in 1 .. n /\ Was(k, i) # k /\ (Was(k, i) = 1 <=> i = 1)
      /\ \A i, j \in 1 .. n - 1 : i < j => Was(k, i) < Was(k, j)
      /\ \A m \in 1 .. n : m # k => \E i \in 1 .. n - 1 : Was(k, i) = m
  <2>1. n \in Nat /\ k \in 2 .. n
    BY <1>1, Zenon
  <2> QED
    BY <2>1, WasFacts, ZenonT(30)
<1>4. CtxInv'
  <2>1. ASSUME NEW i \in 1 .. Len(ctx')
        PROVE  /\ ctx'[i] = Main <=> i = 1
               /\ core[ctx'[i]] \in IF Pinned THEN 0 .. ctx'[i] ELSE {-1}
    <3>1. ctx'[i] = ctx[Was(k, i)] /\ Was(k, i) \in 1 .. n /\ (Was(k, i) = 1 <=> i = 1)
      BY <1>1, <1>2, Zenon
    <3> QED
      BY <1>0, <3>1, Zenon DEF CtxInv, n
  <2>2. ASSUME NEW i \in 1 .. Len(ctx'), NEW j \in 1 .. Len(ctx'), i < j
        PROVE  ctx'[i] < ctx'[j] /\ (Pinned => core[ctx'[i]] < core[ctx'[j]])
    <3>1. /\ ctx'[i] = ctx[Was(k, i)] /\ Was(k, i) \in 1 .. n /\ Was(k, i) < Was(k, j)
          /\ ctx'[j] = ctx[Was(k, j)] /\ Was(k, j) \in 1 .. n
      BY <1>1, <1>2, <2>2, Zenon
    <3> QED
      BY <1>0, <3>1, Zenon DEF CtxInv, n
  <2> QED
    BY <1>0, <1>1, <2>1, <2>2, Zenon DEF CtxInv, Pinned
<1>5. \A x : InCtx(x)' <=> InCtx(x) /\ x # c
  <2>1. ASSUME NEW x, InCtx(x)' PROVE InCtx(x) /\ x # c
    <3>1. PICK i \in 1 .. Len(ctx') : ctx'[i] = x
      BY <2>1, Zenon DEF InCtx
    <3>2. x = ctx[Was(k, i)] /\ Was(k, i) \in 1 .. n /\ Was(k, i) # k
      BY <1>1, <1>2, <3>1, Zenon
    <3>3. ctx[Was(k, i)] # ctx[k]
      BY <1>0, <1>1, <3>2, CtxDiffer, Zenon DEF n
    <3> QED
      BY <1>1, <3>2, <3>3, Zenon DEF InCtx, n
  <2>2. ASSUME NEW x, InCtx(x), x # c PROVE InCtx(x)'
    <3>1. PICK m \in 1 .. n : ctx[m] = x
      BY <2>2, Zenon DEF InCtx, n
    <3>2. PICK i \in 1 .. n - 1 : Was(k, i) = m
      BY <1>1, <1>2, <2>2, <3>1, Zenon
    <3> QED
      BY <1>1, <3>1, <3>2, Zenon DEF InCtx
  <2> QED
    BY <2>1, <2>2, Zenon
<1>6. ASSUME NEW u \in App PROVE HoldInv(u)'
  <2>1. CASE u = t
    BY <2>1, <1>0, Zenon DEF HoldInv, Mine, Opening, Closing, Exiting
  <2>2. CASE u # t
    <3>1. HoldInv(u) /\ pc'[u] = pc[u] /\ new'[u] = new[u] /\ ~Opening(u) /\ ~Exiting(u)
      BY <2>2, Zenon DEF VectorInv, Mine
    <3>2. Closing(u) => new[u] # c
      BY <2>2, <3>1, <1>0, Zenon DEF HoldInv, c
    <3>3. \A w \in App \ {u} : Closing(w)' => Closing(w) /\ new'[w] = new[w]
      BY Zenon DEF Mine, Closing, Exiting
    <3> QED
      BY <1>5, <3>1, <3>2, <3>3, Zenon DEF HoldInv, Opening, Closing, Exiting
  <2> QED
    BY <2>1, <2>2, Zenon
<1> QED
  BY <1>4, <1>5, <1>6, Zenon DEF VectorInv, c

\* openContext() puts the main context into the vector.
LEMMA FirstKept ==
  ASSUME IInv, VectorInv, NEW t \in App, openFirst(t)
  PROVE  VectorInv' /\ \A c \in Peers : InCtx(c)' <=> InCtx(c)
<1>1. /\ pc[t] \in Pushed /\ rq[t].op = "SYNC" /\ UNCHANGED <<core, made>>
      /\ ctx' = (IF ctx = <<>> THEN <<Main>> ELSE ctx)
      /\ Mine(t) /\ pc'[t] = "idle"
  BY Zenon DEF openFirst, Returned, openReturn, Return, GoTo, Pushed, Mine, IInv, TypeInv
<1>2. ctx_mutex = t
  BY <1>1, Zenon DEF IInv, ThreadInv, LockInv, Syncs, Waits
<1>3. CASE ctx # <<>>
  <2>1. VectorQuiet(t)
    BY <1>1, <1>3, Zenon DEF VectorQuiet, Opening, Closing, Exiting, Pushed
  <2> QED
    BY <1>1, <1>3, <2>1, VectorKept, Zenon DEF InCtx
<1>4. CASE ctx = <<>>
  <2>1. ctx' = <<Main>> /\ Len(ctx') = 1 /\ ctx'[1] = Main /\ \A c : ~InCtx(c)
    BY <1>1, <1>4, SeqEmpty DEF InCtx
  <2>2. \A c \in Peers : ~InCtx(c)'
    BY <2>1 DEF InCtx, Peers, Main
  <2>3. CtxInv'
    <3>1. /\ made \in 0 .. NCtx /\ made \in Nat /\ core[Main] \in {-1, 0}
          /\ core \in [0 .. NCtx -> -1 .. NCtx]
      BY ProcHandleAssumption DEF VectorInv, CtxInv
    <3>2. ctx' \in Seq(0 .. made')
      <4>1. Main \in 0 .. made' /\ ctx' = <<Main>>
        BY <1>1, <2>1, <3>1 DEF Main
      <4> QED
        BY <4>1
    <3>3. core[Main] \in IF Pinned THEN 0 .. Main ELSE {-1}
      BY <3>1 DEF Main, Pinned
    <3>4. \A i \in 1 .. Len(ctx') : i = 1 /\ ctx'[i] = Main /\ \A j \in 1 .. Len(ctx') : ~(i < j)
      BY <2>1
    <3>5. made' = made /\ core' = core /\ (Pinned' <=> Pinned)
      BY <1>1, Zenon DEF Pinned
    <3> QED
      BY <3>1, <3>2, <3>3, <3>4, <3>5, Zenon DEF CtxInv
  <2>4. ASSUME NEW u \in App PROVE HoldInv(u)'
    <3>1. u # t => ~Opening(u) /\ ~Closing(u) /\ ~Exiting(u)
      BY <1>2, <2>1, HolderAlone, Zenon DEF VectorInv, HoldInv
    <3> QED
      BY <1>1, <3>1, Zenon DEF HoldInv, Opening, Closing, Exiting, Mine
  <2> QED
    BY <2>1, <2>2, <2>3, <2>4, Zenon DEF VectorInv
<1> QED
  BY <1>3, <1>4, Zenon

\* A peer is created for the context being opened.
LEMMA SendKept ==
  ASSUME IInv, VectorInv, NEW t \in App, openSend(t)
  PROVE  VectorInv' /\ UNCHANGED ctx /\ \A u \in App : ~Opening(u) /\ (u # t => ~Opening(u)')
<1>1. /\ pc[t] \in Pushed /\ rq[t].op = "SYNC" /\ ctx # <<>> /\ UNCHANGED <<ctx, core>> /\ Mine(t)
      /\ \/ made' = made /\ pc'[t] = "idle"
         \/ made < NCtx /\ made' = made + 1 /\ pc'[t] = "idle"
         \/ made < NCtx /\ made' = made + 1 /\ pc'[t] = "attach" /\ new'[t] = made + 1
  BY Zenon DEF openSend, Returned, openReturn, Return, GoTo, Pushed, Mine, IInv, TypeInv
<1>2. ctx_mutex = t
  BY <1>1, Zenon DEF IInv, ThreadInv, LockInv, Syncs, Waits
<1>3. /\ made \in Nat /\ made \in 0 .. NCtx /\ NCtx \in Nat /\ ctx \in Seq(0 .. made)
      /\ made' \in 0 .. NCtx /\ made <= made'
  <2>1. made \in Nat /\ made \in 0 .. NCtx /\ NCtx \in Nat /\ ctx \in Seq(0 .. made)
    BY CtxTypes, Zenon DEF VectorInv
  <2>2. made' = made \/ (made < NCtx /\ made' = made + 1)
    BY <1>1, Zenon
  <2>3. made' \in 0 .. NCtx /\ made <= made'
    BY <2>1, <2>2
  <2> QED
    BY <2>1, <2>3, Zenon
<1>4. ctx' \in Seq(0 .. made')
  <2>1. 0 .. made \subseteq 0 .. made'
    BY <1>3
  <2> QED
    BY <1>1, <1>3, <2>1
<1>5. CtxInv'
  BY <1>1, <1>3, <1>4, Zenon DEF VectorInv, CtxInv, Pinned
<1>6. ASSUME NEW u \in App PROVE ~Opening(u) /\ ~Exiting(u) /\ (u # t => ~Opening(u)')
  BY <1>1, <1>2, HolderAlone, Zenon DEF Opening, Exiting, Pushed, Mine
<1>7. made' = made + 1 => ~InCtx(made)' /\ made' >= 1
  BY <1>1, <1>3 DEF InCtx
<1>8. ASSUME NEW u \in App PROVE HoldInv(u)'
  <2>1. CASE u = t
    BY <1>1, <1>6, <1>7, <2>1, Zenon DEF HoldInv, Opening, Closing, Exiting
  <2>2. CASE u # t
    <3>1. HoldInv(u) /\ pc'[u] = pc[u] /\ new'[u] = new[u]
      BY <1>1, <2>2, Zenon DEF VectorInv, Mine
    <3>2. \A w \in App : Closing(w)' => Closing(w) /\ new'[w] = new[w]
      BY <1>1, Zenon DEF Mine, Closing
    <3> QED
      BY <1>1, <1>6, <2>2, <3>1, <3>2, Zenon DEF HoldInv, Opening, Closing, Exiting, InCtx
  <2> QED
    BY <2>1, <2>2, Zenon
<1> QED
  BY <1>1, <1>5, <1>6, <1>8, Zenon DEF VectorInv

\* The new context comes last and gets the next core.
LEMMA FlagKept ==
  ASSUME IInv, VectorInv, NEW t \in App, openFlag(t)
  PROVE  VectorInv' /\ \A c : InCtx(c)' <=> InCtx(c) \/ (c = made /\ ctx' # ctx)
<1>1. /\ pc[t] = "flag" /\ made' = made /\ Mine(t) /\ pc'[t] = "idle" /\ new[t] = made
      /\ \/ ctx' = Append(ctx, made) /\ core' = [core EXCEPT ![made] = nextCore]
         \/ UNCHANGED <<ctx, core>>
  BY Zenon DEF openFlag, openReturn, Return, GoTo, Mine, IInv, TypeInv, VectorInv, HoldInv, Opening
<1>2. ctx_mutex = t
  BY <1>1, Zenon DEF IInv, ThreadInv, LockInv
<1>3. CASE UNCHANGED <<ctx, core>>
  <2>1. VectorQuiet(t)
    BY <1>1, <1>3, Zenon DEF VectorQuiet, Opening, Closing, Exiting
  <2> QED
    BY <1>1, <1>3, <2>1, VectorKept, Zenon DEF InCtx
<1>4. CASE ctx' = Append(ctx, made) /\ core' = [core EXCEPT ![made] = nextCore]
  <2> DEFINE n == Len(ctx)
  <2>1. /\ made \in 1 .. NCtx /\ NCtx \in Nat /\ ctx \in Seq(0 .. made) /\ n \in Nat \ {0}
        /\ \A i \in 1 .. n : ctx[i] \in 0 .. made /\ ctx[i] # made
    <3>1. HoldInv(t) /\ Opening(t)
      BY <1>1, Zenon DEF VectorInv, Opening
    <3>2. made >= 1 /\ ctx # <<>> /\ \A i \in 1 .. n : ctx[i] # made
      BY <3>1, Zenon DEF HoldInv, InCtx
    <3>3. made \in 0 .. NCtx /\ NCtx \in Nat /\ ctx \in Seq(0 .. made)
      BY ProcHandleAssumption, Zenon DEF VectorInv, CtxInv
    <3> QED
      BY <3>2, <3>3
  <2>2. /\ ctx' \in Seq(0 .. made) /\ Len(ctx') = n + 1 /\ ctx'[n + 1] = made
        /\ \A i \in 1 .. n : ctx'[i] = ctx[i]
    BY <1>4, <2>1
  <2>3. /\ core \in [0 .. NCtx -> -1 .. NCtx]
        /\ nextCore = IF Pinned THEN core[ctx[n]] + 1 ELSE -1
        /\ Pinned => core[ctx[n]] \in 0 .. ctx[n] /\ core[ctx[n]] + 1 \in 0 .. made
    <3>1. n \in 1 .. n /\ ctx[n] \in Nat /\ ctx[n] < made
      BY <2>1
    <3>2. /\ core \in [0 .. NCtx -> -1 .. NCtx]
          /\ core[ctx[n]] \in IF Pinned THEN 0 .. ctx[n] ELSE {-1}
      BY <3>1, Zenon DEF VectorInv, CtxInv
    <3>3. /\ core[ctx[n]] >= 0 <=> Pinned
          /\ Pinned => core[ctx[n]] \in 0 .. ctx[n] /\ core[ctx[n]] + 1 \in 0 .. made
      <4> DEFINE x == core[ctx[n]]
                 y == ctx[n]
      <4>1. y \in Nat /\ made \in 1 .. NCtx /\ NCtx \in Nat /\ y < made /\ x \in IF Pinned THEN 0 .. y ELSE {-1}
        BY <2>1, <3>1, <3>2, Zenon
      <4> HIDE DEF x, y
      <4>2. /\ x >= 0 <=> Pinned
            /\ Pinned => x \in 0 .. y /\ x + 1 \in 0 .. made
        BY <4>1
      <4> QED
        BY <4>2, Zenon DEF x, y
    <3> QED
      BY <3>2, <3>3, Zenon DEF nextCore
  <2>4. /\ core' \in [0 .. NCtx -> -1 .. NCtx] /\ core'[made] = nextCore
        /\ \A c \in 0 .. NCtx : c # made => core'[c] = core[c]
    <3>1. nextCore \in -1 .. NCtx /\ made \in 0 .. NCtx
      <4> DEFINE x == core[ctx[n]] + 1
      <4>1. /\ nextCore = (IF Pinned THEN x ELSE -1) /\ (Pinned => x \in 0 .. made)
            /\ made \in 1 .. NCtx /\ NCtx \in Nat
        BY <2>1, <2>3, Zenon
      <4> HIDE DEF x
      <4> QED
        BY <4>1
    <3> QED
      BY <1>4, <2>3, <3>1, Zenon
  <2>5. core'[Main] = core[Main] /\ \A i \in 1 .. n : core'[ctx[i]] = core[ctx[i]]
    <3>1. Main \in 0 .. NCtx /\ Main # made /\ \A c \in 0 .. made : c \in 0 .. NCtx
      <4>1. made \in 1 .. NCtx /\ NCtx \in Nat
        BY <2>1, Zenon
      <4> QED
        BY <4>1 DEF Main
    <3> QED
      BY <2>1, <2>4, <3>1, Zenon
  <2> HIDE DEF n
  <2>6. \A i \in 1 .. n : /\ (ctx[i] = Main <=> i = 1)
                          /\ core[ctx[i]] \in IF Pinned THEN 0 .. ctx[i] ELSE {-1}
    BY Zenon DEF VectorInv, CtxInv, n
  <2>7. \A i, j \in 1 .. n : i < j => ctx[i] < ctx[j] /\ (Pinned => core[ctx[i]] < core[ctx[j]])
    BY Zenon DEF VectorInv, CtxInv, n
  <2>8. Pinned' <=> Pinned
    BY <2>5, Zenon DEF Pinned
  <2>9. ASSUME NEW i \in 1 .. (n + 1)
        PROVE  /\ ctx'[i] = Main <=> i = 1
               /\ core'[ctx'[i]] \in IF Pinned THEN 0 .. ctx'[i] ELSE {-1}
    <3>1. CASE i \in 1 .. n
      BY <2>2, <2>5, <2>6, <3>1, Zenon
    <3>2. CASE i = n + 1
      <4>1. i # 1 /\ made # Main
        BY <2>1, <3>2 DEF Main
      <4>2. nextCore \in IF Pinned THEN 0 .. made ELSE {-1}
        BY <2>3, Zenon
      <4> QED
        BY <2>2, <2>4, <3>2, <4>1, <4>2, Zenon
    <3> QED
      BY <2>1, <3>1, <3>2
  <2>10. ASSUME NEW i \in 1 .. (n + 1), NEW j \in 1 .. (n + 1), i < j
         PROVE  ctx'[i] < ctx'[j] /\ (Pinned => core'[ctx'[i]] < core'[ctx'[j]])
    <3>1. CASE j \in 1 .. n
      <4>1. i \in 1 .. n
        BY <2>1, <2>10, <3>1
      <4> QED
        BY <2>2, <2>5, <2>7, <2>10, <3>1, <4>1, Zenon
    <3>2. CASE j = n + 1
      <4>1. i \in 1 .. n /\ n \in 1 .. n
        BY <2>1, <2>10, <3>2
      <4>2. ctx'[i] < ctx'[j]
        BY <2>1, <2>2, <3>2, <4>1
      <4>3. Pinned => core[ctx[i]] <= core[ctx[n]] /\ core[ctx[i]] \in Int /\ core[ctx[n]] \in Int
        <5> DEFINE x == core[ctx[i]]
                   y == core[ctx[n]]
        <5>1. i < n \/ i = n
          BY <2>1, <4>1
        <5>2. Pinned => x < y \/ x = y
          BY <2>7, <4>1, <5>1, Zenon
        <5>3. Pinned => x \in 0 .. ctx[i] /\ y \in 0 .. ctx[n]
          BY <2>6, <4>1, Zenon
        <5> HIDE DEF x, y
        <5>4. Pinned => x <= y /\ x \in Int /\ y \in Int
          BY <5>2, <5>3
        <5> QED
          BY <5>4, Zenon DEF x, y
      <4>4. core'[ctx'[i]] = core[ctx[i]] /\ core'[ctx'[j]] = nextCore
        BY <2>2, <2>4, <2>5, <3>2, <4>1, Zenon
      <4> QED
        BY <2>3, <4>2, <4>3, <4>4
    <3> QED
      BY <2>1, <3>1, <3>2
  <2>11. CtxInv'
    <3>1. core'[Main] \in {-1, 0} /\ made' \in 0 .. NCtx /\ ctx' \in Seq(0 .. made')
      BY <1>1, <2>2, <2>5, Zenon DEF VectorInv, CtxInv
    <3> QED
      BY <2>2, <2>4, <2>8, <2>9, <2>10, <3>1, Zenon DEF CtxInv
  <2>12. \A c : InCtx(c)' <=> InCtx(c) \/ c = made
    <3>1. n + 1 \in 1 .. (n + 1) /\ \A i \in 1 .. (n + 1) : i \in 1 .. n \/ i = n + 1
      BY <2>1
    <3>2. \A i \in 1 .. n : i \in 1 .. (n + 1)
      BY <2>1
    <3> QED
      BY <2>2, <3>1, <3>2, Zenon DEF InCtx, n
  <2>13. ASSUME NEW u \in App PROVE HoldInv(u)'
    <3>1. u # t => ~Opening(u) /\ ~Exiting(u) /\ HoldInv(u) /\ pc'[u] = pc[u] /\ new'[u] = new[u]
      BY <1>1, <1>2, HolderAlone, Zenon DEF VectorInv, Mine
    <3>2. \A w \in App : Closing(w)' => Closing(w) /\ new'[w] = new[w]
      BY <1>1, Zenon DEF Mine, Closing
    <3> QED
      BY <1>1, <2>12, <3>1, <3>2, Zenon DEF HoldInv, Opening, Closing, Exiting
  <2>14. ctx' # ctx
    BY <2>1, <2>2 DEF n
  <2> QED
    BY <2>11, <2>12, <2>13, <2>14, Zenon DEF VectorInv
<1> QED
  BY <1>1, <1>3, <1>4, Zenon

\* A context to close is picked: one that nobody else closes.
LEMMA PickKept ==
  ASSUME IInv, VectorInv, NEW t \in App,
         veo_context_close(t) \/ delContext(t) \/ exitProc(t) \/ delContextNolock(t)
  PROVE  /\ VectorInv' /\ UNCHANGED <<ctx, made>>
         /\ \A u \in App : Opening(u)' <=> Opening(u)
<1>1. Mine(t) /\ UNCHANGED <<made, ctx, core>> /\ ~Opening(t) /\ ~Opening(t)'
  BY Zenon DEF veo_context_close, delContext, exitProc, delContextNolock, call, closeSend, GoTo,
     Mine, Opening, ctxVars, taskVars, IInv, TypeInv
<1>2. CtxInv'
  BY <1>1, Zenon DEF VectorInv, CtxInv, Pinned
<1>3. ASSUME Closing(t)'
      PROVE  /\ new'[t] # Main /\ InCtx(new'[t])
             /\ \A u \in App \ {t} : Closing(u) => new[u] # new'[t]
  <2>1. CASE veo_context_close(t)
    <3>1. PICK i \in 0 .. Len(ctx) - 1 :
            IF getContext(i) = Main THEN UNCHANGED <<pc, new>>
            ELSE GoTo(t, "close") /\ new' = [new EXCEPT ![t] = getContext(i)]
      BY <2>1, Zenon DEF veo_context_close
    <3>2. /\ pc[t] = "idle" /\ \A u \in App : ~Exiting(u)
          /\ \A u \in App \ {t} : pc[u] \in {"close", "closing"} => new'[t] # new[u] \/ pc'[t] = "idle"
      BY <2>1, Zenon DEF veo_context_close, call, Exiting
    <3>3. new'[t] = ctx[i + 1] /\ new'[t] # Main /\ pc'[t] = "close"
      BY <1>3, <3>1, <3>2, Zenon DEF getContext, Closing, GoTo, IInv, TypeInv
    <3>4. i + 1 \in 1 .. Len(ctx)
      BY DEF VectorInv, CtxInv
    <3> QED
      BY <3>2, <3>3, <3>4, Zenon DEF InCtx, Closing, Exiting
  <2>2. CASE delContext(t)
    <3>1. pc[t] = "close" /\ new'[t] = new[t]
      BY <2>2, Zenon DEF delContext, closeSend, IInv, TypeInv
    <3> QED
      BY <3>1, Zenon DEF VectorInv, HoldInv, Closing
  <2>3. CASE exitProc(t)
    BY <1>3, <2>3, Zenon DEF exitProc, GoTo, Closing, IInv, TypeInv
  <2>4. CASE delContextNolock(t)
    <3>1. PICK i \in DOMAIN ctx : ctx[i] # Main /\ closeSend(t, ctx[i], "exit_closing")
      BY <2>4, Zenon DEF delContextNolock
    <3>2. pc[t] = "exit" /\ new'[t] = ctx[i]
      BY <2>4, <3>1, Zenon DEF delContextNolock, closeSend, IInv, TypeInv
    <3>3. i \in 1 .. Len(ctx)
      BY DEF VectorInv, CtxInv
    <3>4. \A u \in App \ {t} : pc[u] = "idle"
      BY <3>2, Zenon DEF VectorInv, HoldInv, Exiting
    <3> QED
      BY <3>1, <3>2, <3>3, <3>4, Zenon DEF InCtx, Closing
  <2> QED
    BY <2>1, <2>2, <2>3, <2>4, Zenon
<1>4. Exiting(t)' => \A u \in App \ {t} : pc[u] = "idle"
  BY Zenon DEF veo_context_close, delContext, exitProc, delContextNolock, call, closeSend, GoTo,
     Exiting, VectorInv, HoldInv, IInv, TypeInv
<1>5. ASSUME NEW u \in App \ {t} PROVE ~Exiting(u)
  <2>1. pc[t] = "idle" => ~Exiting(u)
    BY Zenon DEF veo_context_close, delContext, exitProc, delContextNolock, call, Exiting
  <2> QED
    BY <2>1, Zenon DEF VectorInv, HoldInv
<1>6. ASSUME NEW u \in App PROVE HoldInv(u)'
  <2>1. CASE u = t
    BY <1>1, <1>3, <1>4, <2>1, Zenon DEF HoldInv, Mine, Closing, InCtx
  <2>2. CASE u # t
    <3>1. HoldInv(u) /\ pc'[u] = pc[u] /\ new'[u] = new[u] /\ ~Exiting(u)
      BY <1>1, <1>5, <2>2, Zenon DEF VectorInv, Mine
    <3>2. Closing(u) => \A w \in App \ {u} : Closing(w)' => new'[w] # new[u]
      BY <1>1, <1>3, <2>2, <3>1, Zenon DEF HoldInv, Mine, Closing
    <3> QED
      BY <1>1, <3>1, <3>2, Zenon DEF HoldInv, Opening, Closing, Exiting, InCtx
  <2> QED
    BY <2>1, <2>2, Zenon
<1> QED
  BY <1>1, <1>2, <1>6, Zenon DEF VectorInv, Mine, Opening

\* A context has been closed.
LEMMA CloseKept ==
  ASSUME IInv, VectorInv, NEW t \in App, delContextEnd(t) \/ delContextNolockEnd(t)
  PROVE  /\ VectorInv' /\ made' = made /\ \A u \in App : Opening(u)' <=> Opening(u)
         /\ \A c : InCtx(c)' <=> InCtx(c) /\ c # new[t]
<1>1. /\ Mine(t) /\ ctx' = erase(new[t]) /\ UNCHANGED <<made, core>>
      /\ Closing(t) /\ pc[t] # "close" /\ pc'[t] = IF Exiting(t) THEN "exit" ELSE "idle"
  BY Zenon DEF delContextEnd, delContextNolockEnd, closeEnd, Return, GoTo, Mine, Closing, Exiting,
     taskVars, IInv, TypeInv
<1>2. ctx_mutex = t
  BY <1>1, Zenon DEF Closing, IInv, ThreadInv, LockInv
<1>3. \A u \in App \ {t} : ~Opening(u) /\ ~Exiting(u)
  BY <1>2, HolderAlone, Zenon
<1>4. VectorInv' /\ \A c : InCtx(c)' <=> InCtx(c) /\ c # new[t]
  BY <1>1, <1>3, EraseKept, Zenon
<1> QED
  BY <1>1, <1>4, Zenon DEF Opening, Closing, Mine

\* Every step keeps the vector in order.
LEMMA VectorNext ==
  ASSUME IInv, VectorInv, [Next]_vars
  PROVE  VectorInv'
<1>1. CASE \E t \in App : Thread(t)
  <2>1. PICK t \in App : Thread(t)
    BY <1>1, Zenon
  <2>2. CASE \/ Wait(t) \/ openContext(t) \/ openSync(t) \/ openAttach(t) \/ openReply(t)
             \/ Library(t) \/ accessPciRecvSyncRegister(t) \/ accessReturn(t)
    BY <2>2, CallKept, VectorKept, Zenon
  <2>3. CASE openFirst(t) \/ openSend(t) \/ openFlag(t)
    BY <2>3, FirstKept, SendKept, FlagKept, Zenon
  <2>4. CASE veo_context_close(t) \/ delContext(t) \/ exitProc(t) \/ delContextNolock(t)
    BY <2>4, PickKept, Zenon
  <2>5. CASE delContextEnd(t) \/ delContextNolockEnd(t)
    BY <2>5, CloseKept, Zenon
  <2>6. CASE exitMain(t)
    <3>1. VectorQuiet(t)
      BY <2>6, Zenon DEF exitMain, Return, GoTo, VectorQuiet, Mine, Opening, Closing, Exiting,
         ctxVars, IInv, TypeInv
    <3> QED
      BY <3>1, VectorKept, Zenon
  <2> QED
    BY <2>1, <2>2, <2>3, <2>4, <2>5, <2>6, Zenon DEF Thread, Open, Close, Exit
<1>2. CASE \E d \in App \cup {Progress} : Worker(d)
  <2>1. PICK d \in App \cup {Progress} : Worker(d)
    BY <1>2, Zenon
  <2>2. /\ UNCHANGED <<made, ctx, core>>
        /\ \/ UNCHANGED <<pc, new>>
           \/ /\ d \in App /\ pc[d] = "drive" /\ Mine(d)
              /\ pc'[d] \in {"idle", "wait", "peek"}
    BY <2>1, ProcHandleAssumption, Zenon DEF Worker, receive, submit, leave, throws, drives, Return,
       GoTo, Mine, ctxVars, callVars, taskVars, IInv, TypeInv
  <2>3. CASE UNCHANGED <<pc, new>>
    BY <2>2, <2>3, Zenon DEF VectorInv, CtxInv, Pinned, HoldInv, InCtx, Opening, Closing, Exiting
  <2>4. CASE d \in App /\ pc[d] = "drive" /\ Mine(d) /\ pc'[d] \in {"idle", "wait", "peek"}
    BY <2>2, <2>4, VectorKept, Zenon DEF VectorQuiet, Opening, Closing, Exiting
  <2> QED
    BY <2>2, <2>3, <2>4, Zenon
<1>3. CASE progressExec \/ VE \/ UNCHANGED vars
  <2>1. UNCHANGED <<made, ctx, core, pc, new>>
    BY <1>3, Zenon DEF progressExec, VE, loadlib_handler, unloadlib_handler, getsym_handler,
       access_pcircvsyc_register_handler, newpeer_handler, newpeer_create, newpeer_reply,
       ve_handler_loop, exit_handler, die, ctxVars, threadVars, callVars, taskVars, vars
  <2> QED
    BY <2>1, Zenon DEF VectorInv, CtxInv, Pinned, HoldInv, InCtx, Opening, Closing, Exiting
<1> QED
  BY <1>1, <1>2, <1>3, Zenon DEF Next

(***************************************************************************)
(* The requests of the calls.                                              *)
(***************************************************************************)
QueuesInv == OpsInv /\ StuckInv

\* The requests that calls make.
LEMMA UsualRequest ==
  ASSUME NEW op, NEW by, NEW a
  PROVE  Request(op, by, a).op = op /\ (op # "NEWPEER" => Usual(Request(op, by, a)))
  BY Zenon DEF Usual, Request

LEMMA NoneUsual == Usual(NoRequest) /\ NoRequest.op = "none"
  BY Zenon DEF Usual, NoRequest, Request

\* A step of thread t that pushes no request: the call returns, goes on, or has
\* a request to push.
Places == {"open", "attach", "reply", "flag", "close", "closing", "exit", "exit_closing",
           "getsym", "vedma"}
Plains == {"PCI", "LOADLIB", "UNLOADLIB", "GETSYM"}
CallMoves(t) ==
  /\ UNCHANGED <<request, inflight, child, stuck, seq_no>>
  /\ \/ Return(t)
     \/ UNCHANGED <<pc, rq, res>>
     \/ UNCHANGED <<rq, res>> /\ \E l \in Places : GoTo(t, l)
     \/ UNCHANGED <<rq, res>> /\ Waits(t) /\ \E l \in Pushed : GoTo(t, l)
     \/ \E op \in Plains : \E a : Issue(t, op, a)
     \/ is_alive /\ \E a : Issue(t, "SYNC", a)

\* Such a step keeps what is known of the requests.
LEMMA CallMovesKept ==
  ASSUME TypeInv, QueuesInv, NEW t \in App, CallMoves(t)
  PROVE  QueuesInv'
<1>1. CASE Return(t)
  <2>1. \A u \in App : \/ pc'[u] = pc[u] /\ rq'[u] = rq[u] /\ res'[u] = res[u]
                       \/ pc'[u] = "idle" /\ rq'[u] = NoRequest
    BY <1>1, Zenon DEF Return, GoTo, TypeInv
  <2> QED
    BY <2>1, NoneUsual, Zenon DEF CallMoves, QueuesInv, OpsInv, StuckInv, Syncs, Waits, Pushed
<1>2. CASE UNCHANGED <<pc, rq, res>>
  BY <1>2, Zenon DEF CallMoves, QueuesInv, OpsInv, StuckInv, Syncs, Waits
<1>3. CASE UNCHANGED <<rq, res>> /\ \E l \in Places : GoTo(t, l)
  <2>1. \A u \in App : pc'[u] = pc[u] \/ pc'[u] \in Places
    BY <1>3, Zenon DEF GoTo, TypeInv
  <2>2. \A u \in App : Waits(u)' => Waits(u)
    BY <2>1, Zenon DEF Waits, Pushed, Places
  <2> QED
    BY <1>3, <2>2, Zenon DEF CallMoves, QueuesInv, OpsInv, StuckInv, Syncs
<1>4. CASE UNCHANGED <<rq, res>> /\ Waits(t) /\ \E l \in Pushed : GoTo(t, l)
  <2>1. \A u \in App : Waits(u)' => Waits(u)
    BY <1>4, Zenon DEF GoTo, TypeInv, Waits
  <2> QED
    BY <1>4, <2>1, Zenon DEF CallMoves, QueuesInv, OpsInv, StuckInv, Syncs
<1>5. ASSUME NEW op \in Plains \cup {"SYNC"}, NEW a, Issue(t, op, a), op = "SYNC" => is_alive
      PROVE  QueuesInv'
  <2>1. /\ \A u \in App : u # t => pc'[u] = pc[u] /\ rq'[u] = rq[u] /\ res'[u] = res[u]
        /\ rq'[t] = Request(op, t, a) /\ (op = "SYNC" => res'[t] = <<>>)
    BY <1>5, Zenon DEF Issue, GoTo, TypeInv
  <2>2. rq'[t].op = op /\ Usual(rq'[t])
    <3>1. op # "NEWPEER"
      BY Zenon DEF Plains
    <3>2. Request(op, t, a).op = op /\ Usual(Request(op, t, a))
      BY <3>1, UsualRequest, Zenon
    <3> QED
      BY <2>1, <3>2, Zenon
  <2>3. OpsInv'
    BY <2>1, <2>2, Zenon DEF CallMoves, QueuesInv, OpsInv
  <2>4. StuckInv'
    BY <2>1, <2>2, Zenon DEF CallMoves, QueuesInv, StuckInv, Syncs, Waits
  <2> QED
    BY <2>3, <2>4, Zenon DEF QueuesInv
<1>6. CASE \E op \in Plains : \E a : Issue(t, op, a)
  <2>1. PICK op \in Plains : \E a : Issue(t, op, a)
    BY <1>6, Zenon
  <2>2. op # "SYNC"
    BY Zenon DEF Plains
  <2> QED
    BY <1>5, <2>1, <2>2, Zenon
<1>7. CASE is_alive /\ \E a : Issue(t, "SYNC", a)
  BY <1>5, <1>7, Zenon
<1> QED
  BY <1>1, <1>2, <1>3, <1>4, <1>6, <1>7, Zenon DEF CallMoves

\* All calls but the two that push and openContext()'s NEWPEER.
LEMMA CallsMove ==
  ASSUME IInv, NEW t \in App, Thread(t), ~push(t), ~pushSync(t), ~exitMain(t), child = "alive"
  PROVE  CallMoves(t)
<1> USE DEF CallMoves
<1>1. CASE Wait(t)
  <2> USE DEF Waits, Pushed, mainVars, veVars, taskVars
  <2>1. CASE callWaitResult(t)
    BY <2>1, Zenon DEF callWaitResult
  <2>2. CASE postpone(t)
    <3>1. pc[t] = "drive"
      BY <2>2, Zenon DEF postpone, drives
    <3> QED
      BY <2>2, <3>1, Zenon DEF postpone
  <2> QED
    BY <1>1, <2>1, <2>2, Zenon DEF Wait
<1>2. CASE Open(t)
  <2> USE DEF Places, mainVars, veVars, taskVars
  <2>1. CASE openContext(t)
    BY <2>1, Zenon DEF openContext
  <2>2. CASE openSync(t)
    <3>1. is_alive
      BY Zenon DEF IInv, StateInv, is_alive
    <3> QED
      BY <2>2, <3>1, Zenon DEF openSync
  <2>3. CASE openFirst(t) \/ openFlag(t)
    BY <2>3, Zenon DEF openFirst, openFlag, openReturn
  <2>4. CASE openSend(t)
    BY <2>4, Zenon DEF openSend, openReturn
  <2>5. CASE openAttach(t)
    BY <2>5, Zenon DEF openAttach, openReturn
  <2>6. CASE openReply(t)
    BY <2>6, Zenon DEF openReply, openReturn
  <2> QED
    BY <1>2, <2>1, <2>2, <2>3, <2>4, <2>5, <2>6, Zenon DEF Open
<1>3. CASE Close(t) \/ Exit(t)
  <2> USE DEF Places, mainVars, veVars, mutexes, taskVars
  <2>1. CASE veo_context_close(t) \/ exitProc(t)
    BY <2>1, Zenon DEF veo_context_close, exitProc
  <2>2. CASE delContext(t)
    BY <2>2, Zenon DEF delContext, closeSend
  <2>3. CASE delContextNolock(t)
    BY <2>3, Zenon DEF delContextNolock, closeSend
  <2>4. CASE delContextEnd(t) \/ delContextNolockEnd(t)
    BY <2>4, Zenon DEF delContextEnd, delContextNolockEnd
  <2> QED
    BY <1>3, <2>1, <2>2, <2>3, <2>4, Zenon DEF Close, Exit
<1>4. CASE Library(t)
  <2>1. UNCHANGED <<request, inflight, child, stuck, seq_no>>
    BY <1>4, LibraryStep, Zenon DEF ThreadStep, wires
  <2>2. CASE loadLibrary(t) \/ unloadLibrary(t)
    BY <2>1, <2>2, Zenon DEF loadLibrary, unloadLibrary, Plains
  <2>3. CASE loadReturn(t) \/ unloadReturn(t) \/ getSymStore(t) \/ setLibh_to_hashmap(t)
    BY <2>1, <2>3, Zenon DEF loadReturn, unloadReturn, getSymStore, setLibh_to_hashmap, Places
  <2>4. CASE veo_get_sym(t) \/ getSym(t) \/ getVEDMASyms(t) \/ loadVE2VELibrary(t)
    BY <2>1, <2>4, Zenon DEF veo_get_sym, getSym, getVEDMASyms, loadVE2VELibrary, Places, Plains
  <2> QED
    BY <1>4, <2>2, <2>3, <2>4, Zenon DEF Library
<1>5. CASE accessPciRecvSyncRegister(t) \/ accessReturn(t)
  BY <1>5, Zenon DEF accessPciRecvSyncRegister, accessReturn, mainVars, veVars, mutexes, Plains
<1> QED
  BY <1>1, <1>2, <1>3, <1>4, <1>5, Zenon DEF Thread

\* The VE process being gone, no request matters.
LEMMA QueuesDead ==
  ASSUME QueuesInv, child' # "alive", \A u \in App : rq'[u] = rq[u] \/ Usual(rq'[u])
  PROVE  QueuesInv'
  BY Zenon DEF QueuesInv, OpsInv, StuckInv

\* The calls of a process that is gone or ends.
LEMMA CallsLate ==
  ASSUME IInv, NEW t \in App, Thread(t), ~push(t), ~pushSync(t), exitMain(t) \/ child # "alive"
  PROVE  child' # "alive" /\ \A u \in App : rq'[u] = rq[u] \/ Usual(rq'[u])
<1> DEFINE Kept == \/ rq' = [rq EXCEPT ![t] = NoRequest]
                   \/ rq' = rq
                   \/ \E op \in Plains \cup {"SYNC"} : \E a : rq' = [rq EXCEPT ![t] = Request(op, t, a)]
<1>0. Kept => \A u \in App : rq'[u] = rq[u] \/ Usual(rq'[u])
  <2>1. rq = [u \in App |-> rq[u]]
    BY Zenon DEF IInv, TypeInv
  <2>2. ASSUME NEW op \in Plains \cup {"SYNC"}, NEW a PROVE Usual(Request(op, t, a))
    <3>1. op # "NEWPEER"
      BY Zenon DEF Plains
    <3> QED
      BY <3>1, UsualRequest, Zenon
  <2> QED
    BY <2>1, <2>2, NoneUsual, Zenon
<1> USE DEF Plains
<1> HIDE DEF Kept
<1>1. CASE Wait(t) \/ Open(t)
  <2>1. child' # "alive" /\ Kept
    BY <1>1, Zenon DEF Wait, callWaitResult, postpone, Open, openContext, openSync, openFirst, openSend,
       openAttach, openReply, openFlag, openReturn, Return, Issue, exitMain, veVars, taskVars, Kept
  <2> QED
    BY <1>0, <2>1, Zenon
<1>2. CASE Close(t) \/ Exit(t)
  <2>1. child' # "alive" /\ Kept
    BY <1>2, Zenon DEF Close, veo_context_close, delContext, delContextEnd, Exit, exitProc,
       delContextNolock, delContextNolockEnd, exitMain, Return, veVars, Kept
  <2> QED
    BY <1>0, <2>1, Zenon
<1>3. CASE Library(t) \/ accessPciRecvSyncRegister(t) \/ accessReturn(t)
  <2>1. child' # "alive"
    BY <1>3, Zenon DEF Library, loadLibrary, loadReturn, unloadLibrary, unloadReturn, veo_get_sym,
       getSym, getSymStore, loadVE2VELibrary, setLibh_to_hashmap, getVEDMASyms,
       accessPciRecvSyncRegister, accessReturn, veVars, otherVars, exitMain
  <2>2. Kept
    BY <1>3, Zenon DEF Library, loadLibrary, loadReturn, unloadLibrary, unloadReturn, veo_get_sym,
       getSym, getSymStore, loadVE2VELibrary, setLibh_to_hashmap, getVEDMASyms,
       accessPciRecvSyncRegister, accessReturn, Return, Issue, Kept
  <2> QED
    BY <1>0, <2>1, <2>2, Zenon
<1> QED
  BY <1>1, <1>2, <1>3, Zenon DEF Thread

\* The queues get requests of the calls only, and the worker moves them.
LEMMA QueuesNext ==
  ASSUME IInv, IInv', QueuesInv, [Next]_vars
  PROVE  QueuesInv'
<1> USE DEF ctxVars, mainVars, taskVars, callVars, threadVars, mutexes, veVars, ringVars
<1>0. child = "alive" => /\ IsSeq(request) /\ IsSeq(inflight) /\ Len(request) \in Nat
                         /\ Len(inflight) \in Nat
  BY SeqEmpty, Zenon DEF IInv, TypeInv
<1>1. CASE \E t \in App : Thread(t)
  <2>1. PICK t \in App : Thread(t)
    BY <1>1, Zenon
  <2>2. CASE push(t) \/ pushSync(t)
    <3>1. PICK q : request' = Append(request, q) /\ q.op # "NEWPEER"
      <4>1. CASE push(t)
        BY <4>1, Zenon DEF push, QueuesInv, OpsInv, Usual
      <4>2. CASE pushSync(t)
        <5> DEFINE q0 == IF seq_no = 0 THEN [rq[t] EXCEPT !.by = Null] ELSE rq[t]
        <5>1. Usual(rq[t]) /\ request' = Append(request, q0)
          BY <4>2, Zenon DEF pushSync, QueuesInv, OpsInv
        <5>2. q0.op # "NEWPEER"
          BY <5>1, Zenon DEF Usual, Request
        <5> QED
          BY <5>1, <5>2, Zenon
      <4> QED
        BY <2>2, <4>1, <4>2, Zenon
    <3>2. /\ UNCHANGED <<inflight, child, stuck, rq>> /\ seq_no' = 1
          /\ \A u \in App : pc'[u] = pc[u] \/ (u = t /\ Waits(t))
          /\ seq_no = 1 => \A u \in App : res'[u] = res[u] \/ rq[u].op = "PCI"
      <4>1. pc = [u \in App |-> pc[u]] /\ res = [u \in App |-> res[u]]
        BY Zenon DEF IInv, TypeInv
      <4>2. CASE push(t)
        BY <4>1, <4>2, Zenon DEF push, GoTo, Waits
      <4>3. CASE pushSync(t)
        <5>1. seq_no = 1 => seq_no # 0
          OBVIOUS
        <5> QED
          BY <4>1, <4>3, <5>1, Zenon DEF pushSync, GoTo, Waits
      <4> QED
        BY <2>2, <4>2, <4>3, Zenon
    <3>3. OpsInv'
      <4>1. ASSUME child = "alive", NEW i \in 1 .. Len(request') PROVE request'[i].op # "NEWPEER"
        <5>1. Len(request') = Len(request) + 1 /\ request'[Len(request) + 1] = q
              /\ \A j \in 1 .. Len(request) : request'[j] = request[j]
          BY <1>0, <3>1, <4>1, SeqAppend
        <5>2. i \in 1 .. Len(request) \/ i = Len(request) + 1
          BY <1>0, <4>1, <5>1
        <5> QED
          BY <3>1, <4>1, <5>1, <5>2, Zenon DEF QueuesInv, OpsInv
      <4> QED
        BY <3>2, <4>1, Zenon DEF QueuesInv, OpsInv
    <3>4. StuckInv'
      <4>1. \A u \in App : Syncs(u)' => Syncs(u)
        BY <3>2, Zenon DEF Syncs, Waits
      <4> QED
        BY <3>2, <4>1, Zenon DEF QueuesInv, StuckInv, Syncs
    <3> QED
      BY <3>3, <3>4, Zenon DEF QueuesInv
  <2>3. CASE ~push(t) /\ ~pushSync(t) /\ ~exitMain(t) /\ child = "alive"
    <3>1. CallMoves(t)
      BY <2>1, <2>3, CallsMove, Zenon
    <3> QED
      BY <3>1, CallMovesKept, Zenon DEF IInv
  <2>4. CASE ~push(t) /\ ~pushSync(t) /\ (exitMain(t) \/ child # "alive")
    <3>1. child' # "alive" /\ \A u \in App : rq'[u] = rq[u] \/ Usual(rq'[u])
      BY <2>1, <2>4, CallsLate, Zenon
    <3> QED
      BY <3>1, QueuesDead, Zenon
  <2> QED
    BY <2>2, <2>3, <2>4, Zenon
<1>2. CASE \E d \in App \cup {Progress} : Worker(d)
  <2>1. PICK d \in App \cup {Progress} : Worker(d)
    BY <1>2, Zenon
  <2>2. child' = child /\ seq_no' = seq_no /\ \A u \in App : rq'[u] = rq[u] \/ Usual(rq'[u])
    <3>1. child' = child /\ seq_no' = seq_no /\ (rq' = rq \/ rq' = [rq EXCEPT ![d] = NoRequest])
      BY <2>1, Zenon DEF Worker, receive, submit, leave, throws, Return
    <3>2. rq = [u \in App |-> rq[u]]
      BY Zenon DEF IInv, TypeInv
    <3> QED
      BY <3>1, <3>2, NoneUsual, Zenon
  <2>3. CASE child # "alive"
    BY <2>2, <2>3, QueuesDead, Zenon
  <2>4. CASE child = "alive"
    <3>1. CASE receive(d) /\ Head(rep).to \in Range(inflight)
      <4> DEFINE q == Head(rep).to
      <4>1. /\ inflight # <<>> /\ q = inflight[1] /\ inflight' = Tail(inflight)
            /\ res' = answers(q, Head(rep).val) /\ UNCHANGED <<request, stuck, pc, rq>>
        BY <2>4, <3>1, OldestReply, Zenon DEF receive
      <4> HIDE DEF q
      <4>2. /\ Len(inflight) >= 1 /\ Len(inflight') = Len(inflight) - 1
            /\ \A i \in 1 .. (Len(inflight) - 1) : inflight'[i] = inflight[i + 1]
        BY <1>0, <2>4, <4>1, SeqTail, Zenon
      <4>3. \A i \in 1 .. Len(inflight') : inflight'[i].op # "NEWPEER"
        BY <1>0, <2>4, <4>2, SMTT(30) DEF QueuesInv, OpsInv
      <4>4. q.op # "SYNC"
        BY <1>0, <2>4, <4>1, <4>2, SMTT(30) DEF IInv, QueueInv
      <4>5. \A u \in App : rq[u].op = "SYNC" => res'[u] = res[u]
        BY <4>1, <4>4, Zenon DEF answers, IInv, TypeInv
      <4> QED
        BY <2>2, <2>4, <4>1, <4>3, <4>5, Zenon DEF QueuesInv, OpsInv, StuckInv, Syncs, Waits
    <3>2. CASE receive(d) /\ Head(rep).to \notin Range(inflight)
      <4>1. rep # <<>> /\ throws(d) /\ drives(d) /\ UNCHANGED <<request, inflight>>
        BY <3>2, Zenon DEF receive
      <4>2. PICK u \in App : Peering(u)
        BY <2>4, <3>2, <4>1, PeerReply, Zenon
      <4>3. Len(request') = 0 /\ Len(inflight') = 0
        BY <2>4, <3>2, <4>1, PeerReply, SeqEmpty, Zenon
      <4>4. seq_no = 1 /\ submit_mtx = u
        BY <2>4, <4>2, Zenon DEF IInv, ThreadInv, LockInv, Numbered, Peering
      <4>5. \A w \in App : ~Syncs(w)
        BY <4>2, <4>4, Zenon DEF IInv, ThreadInv, LockInv, Syncs, Waits, Pushed, Peering
      <4>6. \A w \in App : ~Syncs(w)'
        <5>1. \A w \in App : pc'[w] = "idle" \/ (pc'[w] = pc[w] /\ rq'[w] = rq[w])
          BY <4>1, Zenon DEF throws, Return, GoTo, IInv, TypeInv
        <5> QED
          BY <4>5, <5>1, Zenon DEF Syncs, Waits, Pushed
      <4>7. OpsInv'
        BY <2>2, <4>3, SMTT(30) DEF QueuesInv, OpsInv
      <4> QED
        BY <2>2, <4>4, <4>6, <4>7, Zenon DEF QueuesInv, StuckInv
    <3>3. CASE submit(d)
      <4>1. /\ request # <<>> /\ request' = Tail(request) /\ prog_mtx = d
            /\ UNCHANGED <<stuck, pc, rq>>
            /\ \/ inflight' = Append(inflight, Head(request)) /\ res' = res
               \/ inflight' = inflight /\ d = Progress
        BY <3>3, Zenon DEF submit, drives
      <4>2. /\ Len(request) >= 1 /\ Len(request') = Len(request) - 1 /\ Head(request) = request[1]
            /\ \A i \in 1 .. (Len(request) - 1) : request'[i] = request[i + 1]
        BY <1>0, <2>4, <4>1, SeqTail, Zenon
      <4>3. /\ \A i \in 1 .. Len(request') : request'[i].op # "NEWPEER"
            /\ Head(request).op # "NEWPEER"
        BY <1>0, <2>4, <4>2, SMTT(30) DEF QueuesInv, OpsInv
      <4>4. \A i \in 1 .. Len(inflight') : inflight'[i].op # "NEWPEER"
        <5>1. CASE inflight' = inflight
          BY <2>4, <5>1, Zenon DEF QueuesInv, OpsInv
        <5>2. CASE inflight' = Append(inflight, Head(request))
          <6>1. /\ Len(inflight') = Len(inflight) + 1 /\ inflight'[Len(inflight) + 1] = Head(request)
                /\ \A i \in 1 .. Len(inflight) : inflight'[i] = inflight[i]
            BY <1>0, <2>4, <5>2, SeqAppend, ZenonT(60)
          <6>2. \A i \in 1 .. Len(inflight') : i \in 1 .. Len(inflight) \/ i = Len(inflight) + 1
            BY <1>0, <2>4, <6>1
          <6> QED
            BY <2>4, <4>3, <6>1, <6>2, Zenon DEF QueuesInv, OpsInv
        <5> QED
          BY <4>1, <5>1, <5>2, Zenon
      <4>5. stuck => res' = res
        BY <4>1, ProcHandleAssumption, Zenon DEF IInv, StateInv
      <4> QED
        BY <2>2, <2>4, <4>1, <4>3, <4>4, <4>5, Zenon DEF QueuesInv, OpsInv, StuckInv, Syncs, Waits
    <3>4. CASE leave(d)
      <4>1. /\ UNCHANGED <<request, inflight, res, rq, stuck>>
            /\ \A u \in App : pc'[u] = pc[u] \/ pc[u] = "drive"
        BY <2>4, <3>4, Zenon DEF leave, drives, GoTo, IInv, TypeInv
      <4>2. \A u \in App : Syncs(u)' => Syncs(u)
        BY <4>1, Zenon DEF Syncs, Waits, Pushed
      <4> QED
        BY <2>2, <2>4, <4>1, <4>2, Zenon DEF QueuesInv, OpsInv, StuckInv
    <3> QED
      BY <2>1, <3>1, <3>2, <3>3, <3>4, Zenon DEF Worker
  <2> QED
    BY <2>3, <2>4, Zenon
<1>3. CASE progressExec \/ VE \/ UNCHANGED vars
  <2>1. /\ UNCHANGED <<request, inflight, stuck, seq_no, pc, rq, res>>
        /\ child' = "alive" => child = "alive"
    BY <1>3, Zenon DEF progressExec, VE, loadlib_handler, unloadlib_handler, getsym_handler,
       access_pcircvsyc_register_handler, newpeer_handler, newpeer_create, newpeer_reply,
       ve_handler_loop, exit_handler, die, vars
  <2> QED
    BY <2>1, Zenon DEF QueuesInv, OpsInv, StuckInv, Syncs, Waits
<1> QED
  BY <1>1, <1>2, <1>3, Zenon DEF Next

(***************************************************************************)
(* The URPC peers and the VE threads.                                      *)
(***************************************************************************)
AnyOpening == \E t \in App : Opening(t)
ClosingNow(t) == pc[t] \in {"closing", "exit_closing"}

\* What is known while the program and the VE process live.
ServeInv ==
  /\ FrameInv /\ (\A t \in App : ReplyInv(t)) /\ \A c \in Peers : LoopInv(c)
  /\ \A c \in Peers : InCtx(c) => Served(c)
  /\ \A t \in App : ClosingNow(t) => peer[new[t]] = "exit"

PeerTypes ==
  peer \in [Peers -> PeerStates] /\ thr \in [Peers -> {"none", "created", "loop", "gone"}]

\* The parts of the invariant.
LEMMA PeerParts ==
  PeerInv <=> PeerTypes /\ QueuesInv /\ (child = "alive" /\ ~crashed => ServeInv)
  BY Zenon DEF PeerInv, PeerTypes, QueuesInv, ServeInv, ClosingNow

\* Steps that concern no peer: if the rings change, no NEWPEER is under way.
LEMMA ServeKept ==
  ASSUME ServeInv, UNCHANGED <<made, peer, thr, frame, vpc, stuck>>,
         UNCHANGED <<chan, rep>> \/ \A u \in App : ~Peering(u),
         \A c \in Peers : InCtx(c)' <=> InCtx(c),
         \A u \in App : /\ Opening(u)' <=> Opening(u)
                        /\ Peering(u)' <=> Peering(u)
                        /\ ClosingNow(u)' => ClosingNow(u) /\ new'[u] = new[u]
  PROVE  ServeInv'
<1>1. FrameInv'
  BY Zenon DEF ServeInv, FrameInv
<1>2. \A u \in App : ReplyInv(u)'
  BY Zenon DEF ServeInv, ReplyInv
<1>3. \A c \in Peers : LoopInv(c)' /\ (InCtx(c)' => Served(c)')
  BY Zenon DEF ServeInv, LoopInv, Served
<1> QED
  BY <1>1, <1>2, <1>3, Zenon DEF ServeInv

\* The number of the newest peer, and the one thread that may be opening.
LEMMA Newest ==
  ASSUME IInv, VectorInv, NEW t \in App, Opening(t)
  PROVE  /\ new[t] = made /\ made \in Peers /\ ~InCtx(made) /\ ctx_mutex = t
         /\ \A u \in App : u # t => ~Opening(u) /\ ~ClosingNow(u)
<1>1. new[t] = made /\ made >= 1 /\ ~InCtx(made)
  BY Zenon DEF VectorInv, HoldInv
<1>2. made \in Peers
  <2>1. made \in 0 .. NCtx /\ NCtx \in Nat
    BY CtxTypes, Zenon DEF VectorInv
  <2> QED
    BY <1>1, <2>1 DEF Peers
<1>3. ctx_mutex = t
  BY Zenon DEF IInv, ThreadInv, LockInv, Opening, Peering
<1> QED
  BY <1>1, <1>2, <1>3, HolderAlone, Zenon DEF ClosingNow

\* The contexts of the vector, the main one aside, have peers.
LEMMA CtxPeer ==
  ASSUME VectorInv, NEW c, c # Main, InCtx(c)
  PROVE  c \in Peers
<1>1. c \in 0 .. made /\ made \in 0 .. NCtx /\ NCtx \in Nat
  BY CtxTypes, Zenon DEF VectorInv, InCtx
<1> QED
  BY <1>1 DEF Peers, Main

\* A context being closed is one of the vector.
LEMMA CloserPeer ==
  ASSUME VectorInv, NEW t \in App, Closing(t)
  PROVE  /\ new[t] \in Peers /\ InCtx(new[t])
         /\ \A u \in App : u # t /\ Closing(u) => new[u] # new[t]
<1>1. new[t] # Main /\ InCtx(new[t])
  BY Zenon DEF VectorInv, HoldInv
<1>2. new[t] \in Peers
  BY <1>1, CtxPeer, Zenon
<1> QED
  BY <1>1, <1>2, Zenon DEF VectorInv, HoldInv

\* NEWPEER is sent for a peer that has no thread yet.
LEMMA ServeSend ==
  ASSUME IInv, IInv', VectorInv, VectorInv', QueuesInv, PeerTypes, ServeInv, child = "alive",
         NEW t \in App, openSend(t)
  PROVE  PeerTypes' /\ ServeInv'
<1>1. /\ Syncs(t) /\ res[t] # <<>> /\ Mine(t) /\ UNCHANGED <<ctx, thr, frame, vpc, stuck, rep>>
      /\ \/ /\ pc'[t] = "idle" /\ UNCHANGED <<made, peer, chan>>
         \/ /\ pc'[t] = "idle" /\ made < NCtx /\ made' = made + 1
            /\ peer' = [peer EXCEPT ![made + 1] = "destroyed"] /\ chan' = chan
         \/ /\ pc'[t] = "attach" /\ made < NCtx /\ made' = made + 1
            /\ peer' = [peer EXCEPT ![made + 1] = "created"]
            /\ chan' = Append(chan, Request("NEWPEER", Null, made + 1))
  BY Zenon DEF openSend, Returned, openReturn, Return, GoTo, Mine, Syncs, Waits, Pushed, veVars,
     IInv, TypeInv
<1>2. \A u \in App : ~Opening(u) /\ (u # t => ~Opening(u)')
  BY SendKept, Zenon
<1>3. ~stuck
  BY <1>1, Zenon DEF QueuesInv, StuckInv
<1>4. \A c \in Peers : thr[c] # "created"
  BY <1>2, <1>3, Zenon DEF ServeInv, LoopInv
<1>5. vpc = "poll" /\ frame = Null
  BY <1>2, Zenon DEF ServeInv, FrameInv, Opening, Peering
<1>6. \A u \in App : ClosingNow(u)' => ClosingNow(u) /\ new'[u] = new[u]
  BY <1>1, Zenon DEF Mine, ClosingNow
<1>7. CASE UNCHANGED <<made, peer, chan>> /\ pc'[t] = "idle"
  <2>1. \A u \in App : ~Opening(u)' /\ ~Peering(u) /\ ~Peering(u)'
    BY <1>2, <1>7, Zenon DEF Opening, Peering
  <2>2. \A c \in Peers : InCtx(c)' <=> InCtx(c)
    BY <1>1, Zenon DEF InCtx
  <2>3. ServeInv'
    BY <1>1, <1>2, <1>6, <1>7, <2>1, <2>2, ServeKept, Zenon
  <2> QED
    BY <1>1, <1>7, <2>3, Zenon DEF PeerTypes
<1>8. ASSUME NEW v \in {"created", "destroyed"}, made < NCtx, made' = made + 1,
             peer' = [peer EXCEPT ![made + 1] = v],
             \/ pc'[t] = "idle"
             \/ pc'[t] = "attach" /\ chan' = Append(chan, Request("NEWPEER", Null, made + 1))
      PROVE  PeerTypes' /\ ServeInv'
  <2> DEFINE k == made + 1
  <2>1. made \in Nat /\ made \in 0 .. NCtx /\ NCtx \in Nat /\ ctx \in Seq(0 .. made)
    BY CtxTypes, Zenon DEF VectorInv
  <2>2. k \in Peers /\ ~InCtx(k) /\ k > made
    BY <1>8, <2>1 DEF Peers, InCtx
  <2>3. \A c \in Peers : c > made' => c > made
    BY <1>8, <2>1 DEF Peers
  <2>4. made' = k
    BY <1>8, Zenon
  <2> HIDE DEF k
  <2>5. thr[k] = "none"
    BY <2>2, Zenon DEF ServeInv, LoopInv
  <2>6. PeerTypes' /\ peer'[k] = v /\ \A c \in Peers : c # k => peer'[c] = peer[c]
    <3>1. peer' = [peer EXCEPT ![k] = v]
      BY <1>8, Zenon DEF k
    <3> QED
      BY <1>1, <2>2, <3>1, Zenon DEF PeerTypes, PeerStates
  <2>7. \A c : InCtx(c)' <=> InCtx(c)
    BY <1>1, Zenon DEF InCtx
  <2>8. FrameInv'
    BY <1>1, <1>5, Zenon DEF FrameInv
  <2>9. ASSUME NEW u \in App, Peering(u)' PROVE ReplyInv(u)'
    <3>1. u = t /\ chan' = Append(chan, Request("NEWPEER", Null, made + 1))
      BY <1>2, <1>8, <2>9, Zenon DEF Opening, Peering
    <3>2. IsSeq(chan)
      BY Zenon DEF IInv, TypeInv
    <3>3. Len(chan') = Len(chan) + 1 /\ Len(chan) \in Nat
      BY <3>1, <3>2, SeqAppend, SeqEmpty, Zenon
    <3>4. chan' # <<>>
      BY <3>3, SeqEmpty
    <3> QED
      BY <1>1, <2>4, <2>5, <3>4, Zenon DEF ReplyInv
  <2>10. ASSUME NEW c \in Peers PROVE LoopInv(c)'
    <3>1. LoopInv(c)
      BY Zenon DEF ServeInv
    <3>2. CASE c = k
      BY <1>1, <1>8, <2>5, <2>6, <3>2, Zenon DEF LoopInv
    <3>3. CASE c # k
      BY <1>1, <1>2, <1>4, <2>3, <2>6, <2>7, <3>1, <3>3, Zenon DEF LoopInv
    <3> QED
      BY <3>2, <3>3, Zenon
  <2>11. \A c \in Peers : InCtx(c)' => Served(c)'
    BY <1>1, <2>2, <2>6, <2>7, Zenon DEF ServeInv, Served
  <2>12. ASSUME NEW u \in App, ClosingNow(u)' PROVE peer'[new'[u]] = "exit"
    <3>1. ClosingNow(u) /\ new'[u] = new[u] /\ Closing(u)
      BY <1>6, <2>12, Zenon DEF ClosingNow, Closing
    <3>2. new[u] \in Peers /\ InCtx(new[u])
      BY <3>1, CloserPeer, Zenon
    <3> QED
      BY <2>2, <2>6, <3>1, <3>2, Zenon DEF ServeInv
  <2> QED
    BY <2>6, <2>8, <2>9, <2>10, <2>11, <2>12, Zenon DEF ServeInv, ReplyInv
<1> QED
  BY <1>1, <1>7, <1>8, Zenon

\* The reply to NEWPEER, or the end of the wait for it.
LEMMA ServeReply ==
  ASSUME IInv, IInv', VectorInv, VectorInv', PeerTypes, ServeInv, child = "alive",
         NEW t \in App, openReply(t)
  PROVE  PeerTypes' /\ ServeInv'
<1>1. PICK rc \in {0, 1} :
        /\ \/ rep # <<>> /\ Head(rep).val = rc /\ rep' = Tail(rep)
           \/ rep = <<>> /\ ~NewPeerComes(new[t]) /\ rep' = rep
        /\ IF rc = 0 THEN GoTo(t, "flag") /\ UNCHANGED <<ctx_mutex, submit_mtx, peer, rq, res, taskVars>>
           ELSE peer' = [peer EXCEPT ![new[t]] = "destroyed"] /\ openReturn(t)
  BY Zenon DEF openReply
<1>2. /\ pc[t] = "reply" /\ Opening(t) /\ Peering(t)
      /\ UNCHANGED <<ctx, made, chan, thr, frame, vpc, stuck>>
  BY Zenon DEF openReply, Opening, Peering, veVars
<1>3. /\ new[t] = made /\ made \in Peers /\ ~InCtx(made)
      /\ \A u \in App : u # t => ~Opening(u) /\ ~ClosingNow(u)
  BY <1>2, Newest, Zenon
<1>4. Mine(t) /\ pc'[t] = (IF rc = 0 THEN "flag" ELSE "idle")
  BY <1>1, Zenon DEF GoTo, openReturn, Return, taskVars, Mine, IInv, TypeInv
<1>5. Alone(t) /\ (vpc # "poll" => chan # <<>>)
  BY <1>2, Zenon DEF IInv, ThreadInv, StateInv
<1>6. vpc = "poll"
  BY <1>1, <1>5, Zenon DEF Alone, NewPeerComes
<1>7. \A u \in App : ~Peering(u)' /\ ~ClosingNow(u)' /\ (u # t => ~Opening(u)')
  BY <1>3, <1>4, Zenon DEF Mine, Opening, Peering, ClosingNow
<1>8. FrameInv' /\ \A u \in App : ReplyInv(u)'
  BY <1>2, <1>6, <1>7, Zenon DEF ServeInv, FrameInv, ReplyInv
<1>9. \A c : InCtx(c)' <=> InCtx(c)
  BY <1>2, Zenon DEF InCtx
<1>10. CASE rc = 0
  <2>1. peer' = peer /\ Opening(t)'
    BY <1>1, <1>4, <1>10, Zenon DEF Opening
  <2>2. \A c \in Peers : LoopInv(c)' /\ (InCtx(c)' => Served(c)')
    BY <1>2, <1>9, <2>1, Zenon DEF ServeInv, LoopInv, Served
  <2> QED
    BY <1>2, <1>7, <1>8, <2>1, <2>2, Zenon DEF ServeInv, PeerTypes
<1>11. CASE rc = 1
  <2>1. peer' = [peer EXCEPT ![made] = "destroyed"]
    BY <1>1, <1>3, <1>11
  <2>2. PeerTypes' /\ peer'[made] = "destroyed" /\ \A c \in Peers : c # made => peer'[c] = peer[c]
    BY <1>2, <1>3, <2>1, Zenon DEF PeerTypes, PeerStates
  <2>3. ASSUME ~stuck PROVE thr[made] = "none"
    <3>1. chan # <<>> \/ rep # <<>>
      BY <1>2, <2>3, Zenon DEF ServeInv, ReplyInv
    <3>2. rep # <<>>
      <4>1. CASE rep = <<>>
        <5>1. chan = <<Request("NEWPEER", Null, new[t])>>
          BY <1>5, <3>1, <4>1, Zenon DEF Alone
        <5>2. Request("NEWPEER", Null, new[t]) \in Range(chan)
          BY <5>1 DEF Range
        <5> QED
          BY <1>1, <4>1, <5>2, Zenon DEF NewPeerComes
      <4> QED
        BY <4>1, Zenon
    <3> QED
      BY <1>1, <1>2, <1>11, <3>2, Zenon DEF ServeInv, ReplyInv
  <2>4. ASSUME NEW c \in Peers PROVE LoopInv(c)'
    <3>1. LoopInv(c)
      BY Zenon DEF ServeInv
    <3>2. CASE c = made
      BY <1>2, <2>2, <2>3, <3>1, <3>2, Zenon DEF LoopInv
    <3>3. CASE c # made
      BY <1>2, <1>9, <2>2, <3>1, <3>3, Zenon DEF LoopInv
    <3> QED
      BY <3>2, <3>3, Zenon
  <2>5. \A c \in Peers : InCtx(c)' => Served(c)'
    BY <1>2, <1>3, <1>9, <2>2, Zenon DEF ServeInv, Served
  <2> QED
    BY <1>7, <1>8, <2>2, <2>4, <2>5, Zenon DEF ServeInv
<1> QED
  BY <1>10, <1>11, Zenon

\* The context being opened enters the vector, or its peer is left behind.
LEMMA ServeFlag ==
  ASSUME IInv, VectorInv, PeerTypes, ServeInv, NEW t \in App, openFlag(t)
  PROVE  PeerTypes' /\ ServeInv'
<1>1. /\ pc[t] = "flag" /\ Opening(t) /\ ~Peering(t) /\ peer[new[t]] = "flagged"
      /\ \/ peer' = peer /\ ctx' = Append(ctx, new[t])
         \/ peer' = [peer EXCEPT ![new[t]] = "left"] /\ ctx' = ctx
      /\ UNCHANGED <<made, chan, rep, thr, frame, vpc, stuck>>
  BY Zenon DEF openFlag, Opening, Peering, veVars, ringVars
<1>2. Mine(t) /\ pc'[t] = "idle"
  BY Zenon DEF openFlag, openReturn, Return, GoTo, Mine, IInv, TypeInv
<1>3. /\ new[t] = made /\ made \in Peers /\ ~InCtx(made)
      /\ \A u \in App : u # t => ~Opening(u) /\ ~ClosingNow(u)
  BY <1>1, Newest, Zenon
<1>4. thr[made] = "loop" /\ peer[made] = "flagged"
  BY <1>1, <1>3, Zenon DEF ServeInv, LoopInv
<1>5. \A u \in App : ~Opening(u)' /\ ~Peering(u)' /\ ~ClosingNow(u)' /\ ~Peering(u)
  BY <1>1, <1>2, <1>3, Zenon DEF Mine, Opening, Peering, ClosingNow
<1>6. FrameInv' /\ \A u \in App : ReplyInv(u)'
  BY <1>1, <1>5, Zenon DEF ServeInv, FrameInv, ReplyInv
<1>7. \A c : InCtx(c)' <=> InCtx(c) \/ (c = made /\ ctx' # ctx)
  BY FlagKept, Zenon
<1>8. CASE peer' = peer /\ ctx' = Append(ctx, new[t])
  <2>1. InCtx(made)'
    <3>1. Len(ctx') = Len(ctx) + 1 /\ ctx'[Len(ctx) + 1] = made /\ Len(ctx) \in Nat
      BY <1>3, <1>8 DEF VectorInv, CtxInv
    <3>2. Len(ctx) + 1 \in 1 .. Len(ctx')
      BY <3>1
    <3> QED
      BY <1>1, <3>1, <3>2, Zenon DEF InCtx
  <2>2. ASSUME NEW c \in Peers PROVE LoopInv(c)' /\ (InCtx(c)' => Served(c)')
    <3>1. CASE c = made
      BY <1>1, <1>4, <1>8, <2>1, <3>1, Zenon DEF ServeInv, LoopInv, Served
    <3>2. CASE c # made
      BY <1>1, <1>7, <1>8, <3>2, Zenon DEF ServeInv, LoopInv, Served
    <3> QED
      BY <3>1, <3>2, Zenon
  <2> QED
    BY <1>1, <1>5, <1>6, <1>8, <2>2, Zenon DEF ServeInv, PeerTypes
<1>9. CASE peer' = [peer EXCEPT ![made] = "left"] /\ ctx' = ctx
  <2>1. PeerTypes' /\ peer'[made] = "left" /\ \A c \in Peers : c # made => peer'[c] = peer[c]
    BY <1>1, <1>3, <1>9, Zenon DEF PeerTypes, PeerStates
  <2>2. ASSUME NEW c \in Peers PROVE LoopInv(c)' /\ (InCtx(c)' => Served(c)')
    <3>1. CASE c = made
      BY <1>1, <1>3, <1>4, <1>7, <1>9, <2>1, <3>1, Zenon DEF ServeInv, LoopInv
    <3>2. CASE c # made
      BY <1>1, <1>7, <1>9, <2>1, <3>2, ZenonT(60) DEF ServeInv, LoopInv, Served
    <3> QED
      BY <3>1, <3>2, Zenon
  <2> QED
    BY <1>5, <1>6, <2>1, <2>2, Zenon DEF ServeInv
<1> QED
  BY <1>1, <1>3, <1>8, <1>9, Zenon

\* EXIT is sent to the VE thread of a context of the vector.
LEMMA ServeClose ==
  ASSUME IInv, VectorInv, VectorInv', PeerTypes, ServeInv, child = "alive",
         NEW t \in App, delContext(t) \/ delContextNolock(t)
  PROVE  PeerTypes' /\ ServeInv'
<1> DEFINE k == new'[t]
<1>1. /\ peer' = [peer EXCEPT ![k] = "exit"] /\ Mine(t) /\ Closing(t)'
      /\ UNCHANGED <<chan, rep, thr, frame, vpc, stuck>>
  BY Zenon DEF delContext, delContextNolock, closeSend, GoTo, Mine, Closing, veVars, ringVars, mutexes,
     IInv, TypeInv
<1>2. UNCHANGED <<ctx, made>> /\ \A u \in App : Opening(u)' <=> Opening(u)
  BY PickKept, Zenon
<1>3. ~Peering(t) /\ ~Peering(t)'
  BY Zenon DEF delContext, delContextNolock, closeSend, GoTo, Peering, IInv, TypeInv
<1>4. \A u \in App : Peering(u)' <=> Peering(u)
  BY <1>1, <1>3, Zenon DEF Mine, Peering
<1>5. \A c : InCtx(c)' <=> InCtx(c)
  BY <1>2, Zenon DEF InCtx
<1>6. k \in Peers /\ InCtx(k)
  <2>1. k # Main /\ InCtx(k)
    BY <1>1, <1>5, Zenon DEF VectorInv, HoldInv
  <2> QED
    BY <2>1, CtxPeer, Zenon
<1>7. \A u \in App : u # t /\ Closing(u)' => new'[u] # k /\ new'[u] \in Peers
  <2>1. ASSUME NEW u \in App, u # t, Closing(u)' PROVE new'[u] # k /\ new'[u] \in Peers
    <3>1. Closing(u) /\ new'[u] = new[u]
      BY <1>1, <2>1, Zenon DEF Mine, Closing
    <3>2. new'[u] \in Peers
      BY <3>1, CloserPeer, Zenon
    <3>3. new'[u] # k
      BY <1>1, <2>1, Zenon DEF VectorInv, HoldInv
    <3> QED
      BY <3>2, <3>3, Zenon
  <2> QED
    BY <2>1, Zenon
<1> HIDE DEF k
<1>8. PeerTypes' /\ peer'[k] = "exit" /\ \A c \in Peers : c # k => peer'[c] = peer[c]
  BY <1>1, <1>6, Zenon DEF PeerTypes, PeerStates
<1>9. FrameInv' /\ \A u \in App : ReplyInv(u)'
  BY <1>1, <1>2, <1>4, Zenon DEF ServeInv, FrameInv, ReplyInv
<1>10. ASSUME NEW c \in Peers PROVE LoopInv(c)' /\ (InCtx(c)' => Served(c)')
  <2>1. LoopInv(c) /\ (InCtx(c) => Served(c))
    BY Zenon DEF ServeInv
  <2>2. CASE c = k
    BY <1>1, <1>2, <1>5, <1>6, <1>8, <2>1, <2>2, Zenon DEF LoopInv, Served
  <2>3. CASE c # k
    BY <1>1, <1>2, <1>5, <1>8, <2>1, <2>3, Zenon DEF LoopInv, Served
  <2> QED
    BY <2>2, <2>3, Zenon
<1>11. ASSUME NEW u \in App, ClosingNow(u)' PROVE peer'[new'[u]] = "exit"
  <2>1. CASE u = t
    BY <1>8, <2>1, Zenon DEF k
  <2>2. CASE u # t
    <3>1. ClosingNow(u) /\ Closing(u)' /\ new'[u] = new[u]
      BY <1>1, <1>11, <2>2, Zenon DEF ClosingNow, Closing, Mine
    <3> QED
      BY <1>7, <1>8, <2>2, <3>1, Zenon DEF ServeInv
  <2> QED
    BY <2>1, <2>2, Zenon
<1> QED
  BY <1>8, <1>9, <1>10, <1>11, Zenon DEF ServeInv

\* EXIT has been acknowledged by the VE thread, and the context goes.
LEMMA ServeClosed ==
  ASSUME IInv, VectorInv, PeerTypes, ServeInv, child = "alive",
         NEW t \in App, delContextEnd(t) \/ delContextNolockEnd(t)
  PROVE  PeerTypes' /\ ServeInv'
<1> DEFINE k == new[t]
<1>1. /\ ClosingNow(t) /\ Closing(t) /\ closeEnd(t, k) /\ Mine(t) /\ ~ClosingNow(t)'
      /\ ~Peering(t) /\ ~Peering(t)' /\ UNCHANGED <<chan, rep, thr, frame, vpc, stuck>>
  BY Zenon DEF delContextEnd, delContextNolockEnd, Return, GoTo, Mine, Closing, ClosingNow, Peering,
     taskVars, veVars, ringVars, mutexes, IInv, TypeInv
<1>2. /\ made' = made /\ (\A u \in App : Opening(u)' <=> Opening(u))
      /\ \A c : InCtx(c)' <=> InCtx(c) /\ c # k
  BY CloseKept, Zenon
<1>3. \A u \in App : Peering(u)' <=> Peering(u)
  BY <1>1, Zenon DEF Mine, Peering
<1>4. /\ k \in Peers /\ InCtx(k)
      /\ \A u \in App : u # t /\ Closing(u) => new[u] # k /\ new[u] \in Peers
  BY <1>1, CloserPeer, Zenon
<1>5. peer[k] = "exit"
  BY <1>1, Zenon DEF ServeInv
<1>6. thr[k] = "gone" /\ peer' = [peer EXCEPT ![k] = IF @ = "exit" THEN "destroyed" ELSE @]
  BY <1>1, <1>5, Zenon DEF closeEnd
<1> HIDE DEF k
<1>7. PeerTypes' /\ peer'[k] = "destroyed" /\ \A c \in Peers : c # k => peer'[c] = peer[c]
  BY <1>1, <1>4, <1>5, <1>6, Zenon DEF PeerTypes, PeerStates
<1>8. FrameInv' /\ \A u \in App : ReplyInv(u)'
  BY <1>1, <1>2, <1>3, Zenon DEF ServeInv, FrameInv, ReplyInv
<1>9. ASSUME NEW c \in Peers PROVE LoopInv(c)' /\ (InCtx(c)' => Served(c)')
  <2>1. LoopInv(c) /\ (InCtx(c) => Served(c))
    BY Zenon DEF ServeInv
  <2>2. CASE c = k
    BY <1>1, <1>2, <1>6, <1>7, <2>1, <2>2, Zenon DEF LoopInv
  <2>3. CASE c # k
    BY <1>1, <1>2, <1>7, <2>1, <2>3, Zenon DEF LoopInv, Served
  <2> QED
    BY <2>2, <2>3, Zenon
<1>10. ASSUME NEW u \in App, ClosingNow(u)' PROVE peer'[new'[u]] = "exit"
  <2>1. u # t
    BY <1>1, <1>10, Zenon
  <2>2. ClosingNow(u) /\ Closing(u) /\ new'[u] = new[u]
    BY <1>1, <1>10, <2>1, Zenon DEF ClosingNow, Closing, Mine
  <2> QED
    BY <1>4, <1>7, <2>1, <2>2, Zenon DEF ServeInv
<1> QED
  BY <1>7, <1>8, <1>9, <1>10, Zenon DEF ServeInv

\* The worker of an application thread takes the reply to NEWPEER away.
LEMMA ServeThrow ==
  ASSUME IInv, PeerTypes, ServeInv, child = "alive", NEW d \in App,
         receive(d), Head(rep).to \notin Range(inflight)
  PROVE  PeerTypes' /\ ServeInv'
<1>1. /\ rep # <<>> /\ rep' = Tail(rep) /\ pc[d] = "drive" /\ stuck' = TRUE /\ Return(d)
      /\ UNCHANGED <<ctx, made, peer, chan, thr, frame, vpc>>
  BY ProcHandleAssumption, Zenon DEF receive, drives, throws, ctxVars, veVars
<1>2. PICK w \in App : Peering(w)
  BY <1>1, PeerReply, Zenon
<1>3. Alone(w) /\ IsSeq(rep)
  BY <1>2, Zenon DEF IInv, ThreadInv, TypeInv
<1>4. chan' = <<>> /\ rep' = <<>>
  <2>1. chan = <<>> /\ Len(rep) <= 1
    BY <1>1, <1>3, Zenon DEF Alone
  <2>2. rep' = <<>>
    BY <1>1, <1>3, <2>1, SeqTail, SeqEmpty
  <2> QED
    BY <1>1, <2>1, <2>2, Zenon
<1>5. Mine(d) /\ pc'[d] = "idle"
  BY <1>1, Zenon DEF Return, GoTo, Mine, IInv, TypeInv
<1>6. \A u \in App : /\ Opening(u)' <=> Opening(u)
                     /\ Peering(u)' <=> Peering(u)
                     /\ ClosingNow(u)' => ClosingNow(u) /\ new'[u] = new[u]
  BY <1>1, <1>5, Zenon DEF Mine, Opening, Peering, ClosingNow
<1>7. FrameInv' /\ \A u \in App : ReplyInv(u)'
  BY <1>1, <1>4, <1>6, Zenon DEF ServeInv, FrameInv, ReplyInv
<1>8. \A c \in Peers : LoopInv(c)' /\ (InCtx(c)' => Served(c)')
  BY <1>1, Zenon DEF ServeInv, LoopInv, Served, InCtx
<1> QED
  BY <1>1, <1>6, <1>7, <1>8, Zenon DEF ServeInv, PeerTypes

\* The VE's main thread finds NEWPEER only while a context is being opened,
\* and then nothing else.
LEMMA PeerCommand ==
  ASSUME IInv, VectorInv, QueuesInv, ServeInv, child = "alive", chan # <<>>,
         Head(chan).op = "NEWPEER" \/ vpc # "poll"
  PROVE  /\ \E t \in App : Peering(t) /\ Opening(t) /\ new[t] = made
         /\ made \in Peers /\ ~InCtx(made)
         /\ chan = <<Request("NEWPEER", Null, made)>> /\ rep = <<>>
         /\ \A u \in App : ClosingNow(u) => Peering(u)
<1>1. PICK t \in App : Peering(t)
  <2>1. CASE vpc # "poll"
    BY <2>1, Zenon DEF ServeInv, FrameInv
  <2>2. CASE Head(chan).op = "NEWPEER" /\ \A u \in App : ~Peering(u)
    <3>1. Ordered(inflight, rep, chan) /\ IsSeq(chan) /\ IsSeq(rep) /\ IsSeq(inflight)
      BY <2>2, Zenon DEF IInv, WireInv, TypeInv
    <3>2. /\ Len(chan) >= 1 /\ Len(chan) \in Nat /\ Len(rep) \in Nat /\ Len(inflight) \in Nat
          /\ Head(chan) = chan[1]
      BY <3>1, SeqTail, SeqEmpty, Zenon
    <3>3. Len(rep) + 1 \in 1 .. Len(inflight) /\ 1 \in 1 .. Len(chan)
      BY <3>1, <3>2 DEF Ordered
    <3>4. chan[1] = inflight[Len(rep) + 1]
      BY <3>1, <3>3, Zenon DEF Ordered
    <3> QED
      BY <2>2, <3>2, <3>3, <3>4, Zenon DEF QueuesInv, OpsInv
  <2> QED
    BY <2>1, <2>2, Zenon
<1>2. Opening(t)
  BY <1>1, Zenon DEF Peering, Opening
<1>3. /\ new[t] = made /\ made \in Peers /\ ~InCtx(made)
      /\ \A u \in App : u # t => ~Opening(u) /\ ~ClosingNow(u)
  BY <1>2, Newest, Zenon
<1>4. chan = <<Request("NEWPEER", Null, made)>> /\ rep = <<>>
  BY <1>1, <1>3, Zenon DEF IInv, ThreadInv, Alone
<1> QED
  BY <1>1, <1>2, <1>3, <1>4, Zenon

\* The VE's main thread attaches to the newest peer.
LEMMA ServeHandler ==
  ASSUME IInv, VectorInv, QueuesInv, PeerTypes, ServeInv, newpeer_handler
  PROVE  PeerTypes' /\ ServeInv'
<1>1. /\ child = "alive" /\ vpc = "poll" /\ chan # <<>> /\ Head(chan).op = "NEWPEER"
      /\ frame' = Head(chan).a /\ vpc' = "create"
      /\ peer' = [peer EXCEPT ![Head(chan).a] = "attached"]
      /\ UNCHANGED <<ctx, made, chan, rep, thr, stuck, pc, new>>
  BY Zenon DEF newpeer_handler, serves, ringVars, threadVars, callVars, taskVars, mutexes
<1>2. /\ \E t \in App : Peering(t) /\ Opening(t) /\ new[t] = made
      /\ made \in Peers /\ ~InCtx(made)
      /\ chan = <<Request("NEWPEER", Null, made)>> /\ rep = <<>>
      /\ \A u \in App : ClosingNow(u) => Peering(u)
  BY <1>1, PeerCommand, Zenon
<1>3. PICK t \in App : Peering(t) /\ Opening(t)
  BY <1>2, Zenon
<1>4. Head(chan).a = made
  BY <1>2 DEF Request
<1>5. thr[made] = "none"
  BY <1>1, <1>3, Zenon DEF ServeInv, ReplyInv
<1>6. /\ PeerTypes' /\ peer'[made] = "attached"
      /\ \A c \in Peers : c # made => peer'[c] = peer[c]
  BY <1>1, <1>2, <1>4, Zenon DEF PeerTypes, PeerStates
<1>7. FrameInv'
  BY <1>1, <1>3, <1>4, <1>5, Zenon DEF FrameInv, Peering
<1>8. \A u \in App : ReplyInv(u)'
  BY <1>1, <1>5, Zenon DEF ServeInv, ReplyInv, Peering
<1>9. ASSUME NEW c \in Peers PROVE LoopInv(c)' /\ (InCtx(c)' => Served(c)')
  <2>1. LoopInv(c) /\ (InCtx(c) => Served(c)) /\ (InCtx(c)' <=> InCtx(c))
    BY <1>1, Zenon DEF ServeInv, InCtx
  <2>2. CASE c = made
    BY <1>1, <1>2, <1>5, <1>6, <2>1, <2>2, Zenon DEF LoopInv
  <2>3. CASE c # made
    BY <1>1, <1>6, <2>1, <2>3, Zenon DEF LoopInv, Served, Opening
  <2> QED
    BY <2>2, <2>3, Zenon
<1>10. \A u \in App : ~ClosingNow(u)'
  BY <1>1, <1>2, Zenon DEF ClosingNow, Peering
<1> QED
  BY <1>6, <1>7, <1>8, <1>9, <1>10, Zenon DEF ServeInv

\* It starts a thread for the newest peer, or says that it could not.
LEMMA ServeCreate ==
  ASSUME IInv, VectorInv, QueuesInv, PeerTypes, ServeInv, newpeer_create
  PROVE  PeerTypes' /\ ServeInv'
<1>1. /\ child = "alive" /\ vpc = "create" /\ UNCHANGED <<ctx, made, peer, stuck, pc, new>>
      /\ \/ /\ thr' = [thr EXCEPT ![frame] = "created"] /\ vpc' = "reply"
            /\ UNCHANGED <<chan, rep, frame>>
         \/ reply(Head(chan), 1) /\ thr' = thr /\ vpc' = "poll" /\ frame' = Null
  BY Zenon DEF newpeer_create, ringVars, ctxVars, threadVars, callVars, taskVars, mutexes
<1>2. chan # <<>>
  BY <1>1, Zenon DEF IInv, StateInv
<1>3. /\ \E t \in App : Peering(t) /\ Opening(t) /\ new[t] = made
      /\ made \in Peers /\ ~InCtx(made)
      /\ chan = <<Request("NEWPEER", Null, made)>> /\ rep = <<>>
      /\ \A u \in App : ClosingNow(u) => Peering(u)
  BY <1>1, <1>2, PeerCommand, Zenon
<1>4. PICK t \in App : Peering(t) /\ Opening(t)
  BY <1>3, Zenon
<1>5. frame = made /\ thr[made] = "none" /\ peer[made] # "flagged"
  BY <1>1, <1>3, Zenon DEF ServeInv, FrameInv, LoopInv
<1>6. Peering(t)' /\ Opening(t)' /\ \A u \in App : ~ClosingNow(u)'
  BY <1>1, <1>3, <1>4, Zenon DEF Peering, Opening, ClosingNow
<1>7. \A c : InCtx(c)' <=> InCtx(c)
  BY <1>1, Zenon DEF InCtx
<1>8. CASE thr' = [thr EXCEPT ![frame] = "created"] /\ vpc' = "reply" /\ UNCHANGED <<chan, rep, frame>>
  <2>1. /\ PeerTypes' /\ thr'[made] = "created"
        /\ \A c \in Peers : c # made => thr'[c] = thr[c]
    BY <1>1, <1>3, <1>5, <1>8, Zenon DEF PeerTypes
  <2>2. FrameInv' /\ \A u \in App : ReplyInv(u)'
    BY <1>1, <1>3, <1>5, <1>6, <1>8, Zenon DEF ServeInv, FrameInv, ReplyInv, Peering
  <2>3. ASSUME NEW c \in Peers PROVE LoopInv(c)' /\ (InCtx(c)' => Served(c)')
    <3>1. LoopInv(c) /\ (InCtx(c) => Served(c))
      BY Zenon DEF ServeInv
    <3>2. CASE c = made
      <4>1. ~(made > made)
        BY <1>3 DEF Peers
      <4> QED
        BY <1>1, <1>3, <1>5, <1>6, <1>7, <2>1, <3>1, <3>2, <4>1, Zenon DEF LoopInv
    <3>3. CASE c # made
      BY <1>1, <1>6, <1>7, <2>1, <3>1, <3>3, Zenon DEF LoopInv, Served, Opening
    <3> QED
      BY <3>2, <3>3, Zenon
  <2> QED
    BY <1>6, <2>1, <2>2, <2>3, Zenon DEF ServeInv
<1>9. CASE reply(Head(chan), 1) /\ thr' = thr /\ vpc' = "poll" /\ frame' = Null
  <2>1. rep' # <<>>
    BY <1>3, <1>9 DEF reply
  <2>2. FrameInv' /\ \A u \in App : ReplyInv(u)'
    BY <1>1, <1>5, <1>9, <2>1, Zenon DEF FrameInv, ReplyInv
  <2>3. \A c \in Peers : LoopInv(c)' /\ (InCtx(c)' => Served(c)')
    BY <1>1, <1>7, <1>9, Zenon DEF ServeInv, LoopInv, Served, Opening
  <2> QED
    BY <1>1, <1>6, <1>9, <2>2, <2>3, Zenon DEF ServeInv, PeerTypes
<1> QED
  BY <1>1, <1>8, <1>9, Zenon

\* It replies that the thread has been started.
LEMMA ServeReplied ==
  ASSUME IInv, VectorInv, QueuesInv, PeerTypes, ServeInv, newpeer_reply
  PROVE  PeerTypes' /\ ServeInv'
<1>1. /\ child = "alive" /\ vpc = "reply" /\ UNCHANGED <<ctx, made, peer, thr, stuck, pc, new>>
      /\ reply(Head(chan), 0) /\ vpc' = "poll" /\ frame' = Null
  BY Zenon DEF newpeer_reply, ctxVars, threadVars, callVars, taskVars, mutexes
<1>2. chan # <<>>
  BY <1>1, Zenon DEF IInv, StateInv
<1>3. /\ chan = <<Request("NEWPEER", Null, made)>> /\ rep = <<>>
      /\ \A u \in App : ClosingNow(u) => Peering(u)
  BY <1>1, <1>2, PeerCommand, Zenon
<1>4. chan' = <<>> /\ rep' # <<>> /\ Head(rep').val = 0
  BY <1>1, <1>3 DEF reply
<1>5. FrameInv' /\ \A u \in App : ReplyInv(u)'
  <2>1. 0 # 1
    OBVIOUS
  <2> QED
    BY <1>1, <1>4, <2>1, Zenon DEF FrameInv, ReplyInv
<1>6. \A c \in Peers : LoopInv(c)' /\ (InCtx(c)' => Served(c)')
  BY <1>1, Zenon DEF ServeInv, LoopInv, Served, Opening, InCtx
<1>7. \A u \in App : ~ClosingNow(u)'
  BY <1>1, <1>3, Zenon DEF ClosingNow, Peering
<1> QED
  BY <1>1, <1>5, <1>6, <1>7, Zenon DEF ServeInv, PeerTypes

\* A VE thread reads its argument: it is that of the newest peer still, or
\* the frame is free.
LEMMA ServeLoop ==
  ASSUME VectorInv, PeerTypes, ServeInv, NEW k \in Peers, ve_handler_loop(k)
  PROVE  PeerTypes' /\ (child' = "alive" => ServeInv')
<1>1. /\ thr[k] = "created" /\ UNCHANGED <<ctx, made, chan, rep, vpc, frame, stuck, pc, new>>
  BY Zenon DEF ve_handler_loop, ringVars, threadVars, callVars, taskVars, mutexes
<1>2. k = made /\ frame \in {made, Null} /\ vpc # "create" /\ ~InCtx(k)
  BY <1>1, Zenon DEF ServeInv, LoopInv, FrameInv, Served
<1>3. PICK r \in threadReads(k) :
        /\ thr' = [thr EXCEPT ![k] = IF r = "fault" THEN @ ELSE r]
        /\ peer' = [peer EXCEPT ![k] = IF r = "loop" /\ @ = "attached" THEN "flagged" ELSE @]
        /\ child' = IF r = "fault" THEN "dead" ELSE child
  BY Zenon DEF ve_handler_loop
<1>4. r \in {"loop", "fault"}
  BY <1>2, <1>3, Zenon DEF threadReads
<1>5. /\ PeerTypes' /\ thr'[k] = (IF r = "fault" THEN "created" ELSE "loop")
      /\ peer'[k] = (IF r = "loop" /\ peer[k] = "attached" THEN "flagged" ELSE peer[k])
      /\ \A c \in Peers : c # k => peer'[c] = peer[c] /\ thr'[c] = thr[c]
  BY <1>1, <1>3, <1>4, Zenon DEF PeerTypes, PeerStates
<1>6. ASSUME child' = "alive" PROVE ServeInv'
  <2>1. thr'[k] = "loop" /\ (peer'[k] = "left" => peer[k] = "left")
    <3>1. r = "loop"
      BY <1>3, <1>4, <1>6, Zenon
    <3>2. thr'[k] = "loop" /\ (peer'[k] = "flagged" \/ peer'[k] = peer[k])
      BY <1>5, <3>1, Zenon
    <3> QED
      BY <3>2, Zenon
  <2>2. \A c : InCtx(c)' <=> InCtx(c)
    BY <1>1, Zenon DEF InCtx
  <2>3. FrameInv' /\ \A u \in App : ReplyInv(u)'
    BY <1>1, <1>2, Zenon DEF ServeInv, FrameInv, ReplyInv, Peering
  <2>4. ASSUME NEW c \in Peers PROVE LoopInv(c)' /\ (InCtx(c)' => Served(c)')
    <3>1. LoopInv(c) /\ (InCtx(c) => Served(c))
      BY Zenon DEF ServeInv
    <3>2. CASE c = k
      BY <1>1, <1>2, <2>1, <2>2, <3>1, <3>2, Zenon DEF LoopInv, Opening
    <3>3. CASE c # k
      BY <1>1, <1>5, <2>2, <3>1, <3>3, Zenon DEF LoopInv, Served, Opening
    <3> QED
      BY <3>2, <3>3, Zenon
  <2>5. ASSUME NEW u \in App, ClosingNow(u)' PROVE peer'[new'[u]] = "exit"
    <3>1. ClosingNow(u) /\ Closing(u)
      BY <1>1, <2>5, Zenon DEF ClosingNow, Closing
    <3>2. new[u] \in Peers /\ InCtx(new[u])
      BY <3>1, CloserPeer, Zenon
    <3> QED
      BY <1>1, <1>2, <1>5, <3>1, <3>2, Zenon DEF ServeInv
  <2> QED
    BY <2>3, <2>4, <2>5, Zenon DEF ServeInv
<1> QED
  BY <1>5, <1>6, Zenon

\* A VE thread acknowledges its EXIT.
LEMMA ServeExit ==
  ASSUME VectorInv, PeerTypes, ServeInv, NEW k \in Peers, exit_handler(k)
  PROVE  PeerTypes' /\ ServeInv'
<1>1. /\ thr[k] = "loop" /\ peer[k] = "exit" /\ thr' = [thr EXCEPT ![k] = "gone"]
      /\ UNCHANGED <<ctx, made, peer, chan, rep, vpc, frame, stuck, pc, new>>
  BY Zenon DEF exit_handler, ctxVars, ringVars, threadVars, callVars, taskVars, mutexes
<1>2. PeerTypes' /\ thr'[k] = "gone" /\ \A c \in Peers : c # k => thr'[c] = thr[c]
  BY <1>1, Zenon DEF PeerTypes
<1>3. ASSUME made \in Peers, thr[made] = "none" PROVE thr'[made] = "none"
  BY <1>1, <1>2, <1>3, Zenon
<1>4. FrameInv' /\ \A u \in App : ReplyInv(u)'
  <2>1. (\E t \in App : Peering(t)) => made \in Peers
    <3>1. ASSUME NEW t \in App, Peering(t) PROVE made \in Peers
      <4>1. made >= 1
        BY <3>1, Zenon DEF VectorInv, HoldInv, Opening, Peering
      <4>2. made \in 0 .. NCtx /\ NCtx \in Nat
        BY CtxTypes, Zenon DEF VectorInv
      <4> QED
        BY <4>1, <4>2 DEF Peers
    <3> QED
      BY <3>1, Zenon
  <2>2. FrameInv'
    BY <1>1, <1>3, <2>1, Zenon DEF ServeInv, FrameInv, Peering
  <2>3. \A u \in App : ReplyInv(u)'
    BY <1>1, <1>3, <2>1, Zenon DEF ServeInv, ReplyInv, Peering
  <2> QED
    BY <2>2, <2>3, Zenon
<1>5. ASSUME NEW c \in Peers PROVE LoopInv(c)' /\ (InCtx(c)' => Served(c)')
  <2>1. LoopInv(c) /\ (InCtx(c) => Served(c)) /\ (InCtx(c)' <=> InCtx(c))
    BY <1>1, Zenon DEF ServeInv, InCtx
  <2>2. CASE c = k
    BY <1>1, <1>2, <2>1, <2>2, Zenon DEF LoopInv, Served
  <2>3. CASE c # k
    BY <1>1, <1>2, <2>1, <2>3, Zenon DEF LoopInv, Served, Opening
  <2> QED
    BY <2>2, <2>3, Zenon
<1>6. \A u \in App : ClosingNow(u)' => peer'[new'[u]] = "exit"
  BY <1>1, Zenon DEF ServeInv, ClosingNow
<1> QED
  BY <1>2, <1>4, <1>5, <1>6, Zenon DEF ServeInv

\* Calls that concern no peer.
LEMMA ServeCall ==
  ASSUME IInv, VectorInv, PeerTypes, ServeInv, child = "alive", NEW t \in App,
         \/ Wait(t) \/ openContext(t) \/ openSync(t) \/ openFirst(t) \/ openAttach(t)
         \/ veo_context_close(t) \/ exitProc(t)
         \/ Library(t) \/ accessPciRecvSyncRegister(t) \/ accessReturn(t)
  PROVE  PeerTypes' /\ ServeInv'
<1> DEFINE Away == /\ Mine(t) /\ UNCHANGED <<made, peer, thr, frame, vpc, stuck, chan, rep>>
                   /\ (~Opening(t) /\ ~Opening(t)') \/ (Peering(t) /\ Peering(t)')
                   /\ ~ClosingNow(t)'
<1>1. Away
  <2> USE DEF IInv, TypeInv, GoTo, Mine, Opening, Peering, ClosingNow, ctxVars, taskVars, ringVars,
              veVars, mutexes
  <2>1. CASE Wait(t)
    BY <2>1, Zenon DEF Wait, push, pushSync, callWaitResult, postpone, drives
  <2>2. CASE openContext(t) \/ openSync(t)
    BY <2>2, Zenon DEF openContext, openSync, call, Issue
  <2>3. CASE openFirst(t) \/ openAttach(t)
    BY <2>3, Zenon DEF openFirst, openAttach, Returned, openReturn, Return
  <2>4. CASE veo_context_close(t) \/ exitProc(t)
    BY <2>4, Zenon DEF veo_context_close, exitProc, call
  <2>5. CASE accessPciRecvSyncRegister(t) \/ accessReturn(t)
    BY <2>5, Zenon DEF accessPciRecvSyncRegister, accessReturn, Returned, call, Issue, Return
  <2>6. CASE Library(t)
    <3> USE DEF otherVars
    <3>1. CASE loadLibrary(t) \/ unloadLibrary(t) \/ loadVE2VELibrary(t)
      BY <3>1, Zenon DEF loadLibrary, unloadLibrary, loadVE2VELibrary, call, Issue
    <3>2. CASE loadReturn(t) \/ unloadReturn(t) \/ getSymStore(t) \/ setLibh_to_hashmap(t)
      BY <3>2, Zenon DEF loadReturn, unloadReturn, getSymStore, setLibh_to_hashmap, Returned, Return
    <3>3. CASE veo_get_sym(t) \/ getSym(t) \/ getVEDMASyms(t)
      BY <3>3, Zenon DEF veo_get_sym, getSym, getVEDMASyms, call, Issue, Return
    <3> QED
      BY <2>6, <3>1, <3>2, <3>3, Zenon DEF Library
  <2> QED
    BY <2>1, <2>2, <2>3, <2>4, <2>5, <2>6, Zenon
<1>2. \A u \in App : /\ Opening(u)' <=> Opening(u)
                     /\ Peering(u)' <=> Peering(u)
                     /\ ClosingNow(u)' => ClosingNow(u) /\ new'[u] = new[u]
  BY <1>1, Zenon DEF Mine, Opening, Peering, ClosingNow
<1>3. \A c \in Peers : InCtx(c)' <=> InCtx(c)
  <2>1. ctx' = ctx \/ openFirst(t)
    BY Zenon DEF Wait, push, pushSync, callWaitResult, postpone, openContext, openSync, openAttach,
       veo_context_close, exitProc, accessPciRecvSyncRegister, accessReturn, Library, loadLibrary,
       unloadLibrary, loadVE2VELibrary, loadReturn, unloadReturn, getSymStore, setLibh_to_hashmap,
       veo_get_sym, getSym, getVEDMASyms, otherVars, ctxVars
  <2> QED
    BY <2>1, FirstKept, Zenon DEF InCtx
<1>4. ServeInv'
  BY <1>1, <1>2, <1>3, ServeKept, Zenon
<1> QED
  BY <1>1, <1>4, Zenon DEF PeerTypes

\* The worker touches the rings only when no NEWPEER is under way.
LEMMA ServeWorker ==
  ASSUME IInv, PeerTypes, ServeInv, child = "alive", ~crashed',
         NEW d \in App \cup {Progress}, Worker(d)
  PROVE  PeerTypes' /\ ServeInv'
<1>1. UNCHANGED <<ctx, made, peer, thr, frame, vpc>>
  BY Zenon DEF Worker, receive, submit, leave, ctxVars, veVars
<1>2. CASE receive(d) /\ Head(rep).to \notin Range(inflight)
  <2>1. d \in App
    BY <1>2, Zenon DEF receive, throws
  <2> QED
    BY <1>2, <2>1, ServeThrow, Zenon
<1>3. CASE receive(d) /\ Head(rep).to \in Range(inflight)
  <2>1. UNCHANGED <<stuck, pc, new>> /\ inflight # <<>>
    BY <1>3, OldestReply, Zenon DEF receive, taskVars
  <2>2. \A u \in App : ~Peering(u)
    BY <2>1, Zenon DEF IInv, ThreadInv, Alone
  <2>3. ServeInv'
    BY <1>1, <2>1, <2>2, ServeKept, Zenon DEF InCtx, Opening, Peering, ClosingNow
  <2> QED
    BY <1>1, <2>3, Zenon DEF PeerTypes
<1>4. CASE submit(d)
  <2>1. UNCHANGED <<stuck, pc, new>> /\ request # <<>>
    BY <1>4, Zenon DEF submit, taskVars, mutexes
  <2>2. \A u \in App : ~Peering(u)
    BY <2>1, Zenon DEF IInv, ThreadInv, Alone
  <2>3. ServeInv'
    BY <1>1, <2>1, <2>2, ServeKept, Zenon DEF InCtx, Opening, Peering, ClosingNow
  <2> QED
    BY <1>1, <2>3, Zenon DEF PeerTypes
<1>5. CASE leave(d)
  <2>1. /\ UNCHANGED <<stuck, new, chan, rep>>
        /\ \A u \in App : pc'[u] = pc[u] \/ (pc[u] = "drive" /\ pc'[u] \in {"wait", "peek"})
    BY <1>5, Zenon DEF leave, drives, GoTo, taskVars, ringVars, IInv, TypeInv
  <2>2. ServeInv'
    BY <1>1, <2>1, ServeKept, Zenon DEF InCtx, Opening, Peering, ClosingNow
  <2> QED
    BY <1>1, <2>2, Zenon DEF PeerTypes
<1> QED
  BY <1>2, <1>3, <1>4, <1>5, Zenon DEF Worker

\* The VE program answers the other commands when no NEWPEER is under way.
LEMMA ServeVE ==
  ASSUME IInv, VectorInv, QueuesInv, PeerTypes, ServeInv, child' = "alive", VE
  PROVE  PeerTypes' /\ ServeInv'
<1>1. CASE \/ loadlib_handler \/ unloadlib_handler \/ getsym_handler
           \/ access_pcircvsyc_register_handler
  <2>1. /\ child = "alive" /\ chan # <<>> /\ Head(chan).op # "NEWPEER"
        /\ UNCHANGED <<ctx, made, peer, thr, frame, vpc, stuck, pc, new>>
    BY <1>1, Zenon DEF loadlib_handler, unloadlib_handler, getsym_handler,
       access_pcircvsyc_register_handler, serves, ctxVars, veVars, mutexes, threadVars, callVars, taskVars
  <2>2. ASSUME NEW u \in App, Peering(u) PROVE FALSE
    <3>1. chan = <<Request("NEWPEER", Null, new[u])>>
      BY <2>1, <2>2, Zenon DEF IInv, ThreadInv, Alone
    <3>2. Head(chan).op = "NEWPEER"
      BY <3>1 DEF Request
    <3> QED
      BY <2>1, <3>2, Zenon
  <2>3. ServeInv'
    BY <2>1, <2>2, ServeKept, Zenon DEF InCtx, Opening, Peering, ClosingNow
  <2> QED
    BY <2>1, <2>3, Zenon DEF PeerTypes
<1>2. CASE newpeer_handler \/ newpeer_create \/ newpeer_reply
  BY <1>2, ServeHandler, ServeCreate, ServeReplied, Zenon
<1>3. CASE \E c \in Peers : ve_handler_loop(c) \/ exit_handler(c)
  BY <1>3, ServeLoop, ServeExit, Zenon
<1>4. ~die
  BY Zenon DEF die
<1> QED
  BY <1>1, <1>2, <1>3, <1>4, Zenon DEF VE

\* A peer gets another state.
LEMMA PeerSet ==
  ASSUME PeerTypes, thr' = thr, NEW x, NEW v \in PeerStates, peer' = [peer EXCEPT ![x] = v]
  PROVE  PeerTypes'
  BY Zenon DEF PeerTypes

\* The calls keep the types of peers and threads in any state of the process.
LEMMA CallTypes ==
  ASSUME PeerTypes, NEW t \in App, Thread(t)
  PROVE  PeerTypes'
<1>1. CASE ~(Open(t) \/ Close(t) \/ Exit(t))
  <2>1. UNCHANGED <<peer, thr>>
    BY <1>1, Zenon DEF Thread, Wait, push, pushSync, callWaitResult, postpone, Library, loadLibrary,
       loadReturn, unloadLibrary, unloadReturn, veo_get_sym, getSym, getSymStore, loadVE2VELibrary,
       setLibh_to_hashmap, getVEDMASyms, accessPciRecvSyncRegister, accessReturn, ctxVars, veVars,
       otherVars
  <2> QED
    BY <2>1, Zenon DEF PeerTypes
<1>2. CASE Open(t)
  <2>1. thr' = thr
    BY <1>2, Zenon DEF Open, openContext, openSync, openFirst, openSend, openAttach, openReply, openFlag,
       veVars
  <2>2. peer' = peer \/ \E x : \E v \in {"destroyed", "created", "left"} : peer' = [peer EXCEPT ![x] = v]
    BY <1>2, Zenon DEF Open, openContext, openSync, openFirst, openSend, openAttach, openReply, openFlag,
       ctxVars
  <2>3. {"destroyed", "created", "left"} \subseteq PeerStates
    BY Zenon DEF PeerStates
  <2> QED
    BY <2>1, <2>2, <2>3, PeerSet, Zenon DEF PeerTypes
<1>3. CASE Close(t) \/ Exit(t)
  <2>1. thr' = thr
    BY <1>3, Zenon DEF Close, Exit, veo_context_close, delContext, delContextEnd, exitProc,
       delContextNolock, delContextNolockEnd, exitMain, veVars
  <2>2. \/ peer' = peer
        \/ \E x : \E v \in {"exit", "left"} : peer' = [peer EXCEPT ![x] = v]
        \/ \E x : peer' = [peer EXCEPT ![x] = IF @ = "exit" THEN "destroyed" ELSE @]
    BY <1>3, Zenon DEF Close, Exit, veo_context_close, delContext, delContextEnd, exitProc,
       delContextNolock, delContextNolockEnd, exitMain, closeSend, closeEnd, ctxVars
  <2>3. {"exit", "left"} \subseteq PeerStates /\ "destroyed" \in PeerStates
    BY Zenon DEF PeerStates
  <2>4. ASSUME NEW x, peer' = [peer EXCEPT ![x] = IF @ = "exit" THEN "destroyed" ELSE @]
        PROVE  PeerTypes'
    BY <2>1, <2>3, <2>4, Zenon DEF PeerTypes
  <2> QED
    BY <2>1, <2>2, <2>3, <2>4, PeerSet, Zenon DEF PeerTypes
<1> QED
  BY <1>1, <1>2, <1>3, Zenon

\* Every step keeps the peers served.
LEMMA PeerNext ==
  ASSUME IInv, IInv', VectorInv, VectorInv', PeerInv, [Next]_vars
  PROVE  PeerInv'
<1>1. PeerTypes /\ QueuesInv /\ (child = "alive" /\ ~crashed => ServeInv)
  BY PeerParts, Zenon
<1>2. QueuesInv'
  BY <1>1, QueuesNext, Zenon
<1>3. ASSUME PeerTypes' /\ (child' = "alive" /\ ~crashed' => ServeInv') PROVE PeerInv'
  BY <1>2, <1>3, Zenon DEF PeerInv, PeerTypes, QueuesInv, ServeInv, ClosingNow
<1>4. CASE \E t \in App : Thread(t)
  <2>1. PICK t \in App : Thread(t)
    BY <1>4, Zenon
  <2>2. ~crashed /\ (child' = "alive" => child = "alive")
    BY <2>1, ZenonT(60) DEF Thread, Wait, push, pushSync, callWaitResult, postpone, Open, openContext, openSync,
       openFirst, openSend, openAttach, openReply, openFlag, Close, veo_context_close,
       delContext, delContextEnd, Exit, exitProc, delContextNolock, delContextNolockEnd, exitMain,
       Library, loadLibrary, loadReturn, unloadLibrary, unloadReturn, veo_get_sym, getSym,
       getSymStore, loadVE2VELibrary, setLibh_to_hashmap, getVEDMASyms,
       accessPciRecvSyncRegister, accessReturn, veVars, otherVars
  <2>3. PeerTypes'
    BY <1>1, <2>1, CallTypes, Zenon
  <2>4. ASSUME child' = "alive" PROVE ServeInv'
    <3>1. ServeInv /\ child = "alive"
      BY <1>1, <2>2, <2>4, Zenon
    <3>2. CASE \/ Wait(t) \/ openContext(t) \/ openSync(t) \/ openFirst(t) \/ openAttach(t)
               \/ veo_context_close(t) \/ exitProc(t)
               \/ Library(t) \/ accessPciRecvSyncRegister(t) \/ accessReturn(t)
      BY <1>1, <3>1, <3>2, ServeCall, Zenon
    <3>3. CASE openSend(t) \/ openReply(t) \/ openFlag(t)
      BY <1>1, <3>1, <3>3, ServeSend, ServeReply, ServeFlag, Zenon
    <3>4. CASE \/ delContext(t) \/ delContextNolock(t)
               \/ delContextEnd(t) \/ delContextNolockEnd(t)
      BY <1>1, <3>1, <3>4, ServeClose, ServeClosed, Zenon
    <3>5. ~exitMain(t)
      BY <2>4, Zenon DEF exitMain
    <3> QED
      BY <2>1, <3>2, <3>3, <3>4, <3>5, Zenon DEF Thread, Open, Close, Exit
  <2> QED
    BY <1>3, <2>3, <2>4, Zenon
<1>5. CASE \E d \in App \cup {Progress} : Worker(d)
  <2>1. PICK d \in App \cup {Progress} : Worker(d)
    BY <1>5, Zenon
  <2>2. ~crashed /\ UNCHANGED <<child, peer, thr>>
    BY <2>1, Zenon DEF Worker, receive, submit, leave, drives, ctxVars, veVars
  <2> QED
    BY <1>1, <1>3, <2>1, <2>2, ServeWorker, Zenon DEF PeerTypes
<1>6. CASE VE
  <2>1. ~crashed /\ child = "alive"
    BY <1>6, Zenon DEF VE, loadlib_handler, unloadlib_handler, getsym_handler,
       access_pcircvsyc_register_handler, serves, newpeer_handler, newpeer_create, newpeer_reply,
       ve_handler_loop, exit_handler, die
  <2>2. CASE child' = "alive"
    BY <1>1, <1>3, <1>6, <2>1, <2>2, ServeVE, Zenon
  <2>3. CASE child' # "alive"
    <3>1. UNCHANGED <<peer, thr>> \/ \E c \in Peers : ve_handler_loop(c)
      BY <1>6, <2>1, <2>3, Zenon DEF VE, loadlib_handler, unloadlib_handler, getsym_handler,
         access_pcircvsyc_register_handler, newpeer_handler, newpeer_create, newpeer_reply,
         exit_handler, die, ctxVars, veVars
    <3> QED
      BY <1>1, <1>3, <2>1, <2>3, <3>1, ServeLoop, Zenon DEF PeerTypes
  <2> QED
    BY <2>2, <2>3, Zenon
<1>7. CASE progressExec \/ UNCHANGED vars
  <2>1. UNCHANGED <<ctx, made, peer, thr, frame, vpc, stuck, chan, rep, pc, new, child, crashed>>
    BY <1>7, Zenon DEF progressExec, vars, ctxVars, veVars, ringVars, mutexes, threadVars, callVars, taskVars
  <2>2. ServeInv => ServeInv'
    BY <2>1, ServeKept, Zenon DEF InCtx, Opening, Peering, ClosingNow
  <2> QED
    BY <1>1, <1>3, <2>1, <2>2, Zenon DEF PeerTypes
<1> QED
  BY <1>4, <1>5, <1>6, <1>7, Zenon DEF Next

\* Nothing is open at first.
LEMMA VectorInit == Init => VectorInv /\ PeerInv
<1> SUFFICES ASSUME Init PROVE VectorInv /\ PeerInv
  BY Zenon
<1>1. CtxInv /\ \A c : ~InCtx(c)
  BY ProcHandleAssumption, SMTT(30) DEF Init, CtxInv, InCtx, Pinned, Main
<1>2. \A t \in App : /\ pc[t] = "idle" /\ ~Opening(t) /\ ~Closing(t) /\ ~Exiting(t)
                     /\ ~Peering(t) /\ ~ClosingNow(t) /\ ~Syncs(t)
  BY Zenon DEF Init, Opening, Closing, Exiting, Peering, ClosingNow, Syncs, Waits, Pushed
<1>3. VectorInv
  BY <1>1, <1>2, Zenon DEF VectorInv, HoldInv
<1>4. PeerTypes /\ \A c \in Peers : thr[c] = "none" /\ peer[c] = "none"
  BY Zenon DEF Init, PeerTypes, PeerStates
<1>5. QueuesInv
  <2>1. Len(request) = 0 /\ Len(inflight) = 0 /\ \A t \in App : rq[t] = NoRequest
    BY Zenon DEF Init
  <2>2. OpsInv
    BY <2>1, NoneUsual DEF OpsInv
  <2> QED
    BY <2>2, Zenon DEF Init, QueuesInv, StuckInv
<1>6. ServeInv
  <2>1. FrameInv
    BY Zenon DEF Init, FrameInv
  <2> QED
    BY <1>1, <1>2, <1>4, <2>1, Zenon DEF ServeInv, ReplyInv, LoopInv
<1> QED
  BY <1>3, <1>4, <1>5, <1>6, PeerParts, Zenon

\* While openContext() waits for its NEWPEER, on the main context's ring and
\* past its queues, no other command is queued, in flight or in the ring: for
\* any number of threads and whatever calls they make.
THEOREM MainStaysQuiet == Spec => []MainQuiet
<1>1. ASSUME IInv PROVE MainQuiet
  <2> SUFFICES ASSUME child = "alive", NEW t \in App, Peering(t)
               PROVE  /\ request = <<>> /\ inflight = <<>>
                      /\ \A q \in Range(chan) : q.op = "NEWPEER"
    BY Zenon DEF MainQuiet, Peering
  <2>1. Alone(t)
    BY <1>1, Zenon DEF IInv, ThreadInv
  <2>2. \A q \in Range(chan) : q.op = "NEWPEER"
    <3>1. CASE chan = <<>>
      BY <3>1, SeqEmpty DEF Range
    <3>2. CASE chan = <<Request("NEWPEER", Null, new[t])>>
      <4>1. DOMAIN chan = {1} /\ chan[1] = Request("NEWPEER", Null, new[t])
        BY <3>2
      <4>2. Range(chan) = {Request("NEWPEER", Null, new[t])}
        BY <4>1 DEF Range
      <4> QED
        BY <4>2 DEF Request
    <3> QED
      BY <2>1, <3>1, <3>2, Zenon DEF Alone
  <2> QED
    BY <2>1, <2>2, Zenon DEF Alone
<1> QED
  BY <1>1, InitInv, NextInv, PTL DEF Spec

\* All that the theorems about contexts rest on.
AllInv == IInv /\ VectorInv /\ PeerInv

LEMMA AllInvariant == Spec => []AllInv
<1>1. Init => AllInv
  BY InitInv, VectorInit, Zenon DEF AllInv
<1>2. AllInv /\ [Next]_vars => AllInv'
  <2> SUFFICES ASSUME AllInv, [Next]_vars PROVE AllInv'
    BY Zenon
  <2>1. IInv'
    BY NextInv, Zenon DEF AllInv
  <2>2. VectorInv'
    BY VectorNext, Zenon DEF AllInv
  <2>3. PeerInv'
    BY <2>1, <2>2, PeerNext, Zenon DEF AllInv
  <2> QED
    BY <2>1, <2>2, <2>3, Zenon DEF AllInv
<1> QED
  BY <1>1, <1>2, PTL DEF Spec

\* No two contexts of the vector are the same or on the same core, whichever
\* have been closed in between and however many threads open and close:
\* openContext() computes the core of a new context from the last one's.
THEOREM CoresAlwaysDistinct == Spec => []CoresDistinct
<1>1. ASSUME VectorInv PROVE CoresDistinct
  <2>1. DOMAIN ctx = 1 .. Len(ctx) /\ Len(ctx) \in Nat /\ ctx \in Seq(0 .. made) /\ made \in Nat
    BY <1>1, CtxTypes, Zenon DEF AllInv, VectorInv
  <2>2. ASSUME NEW i \in 1 .. Len(ctx), NEW j \in 1 .. Len(ctx), i < j
        PROVE  /\ ctx[i] # ctx[j] /\ ctx[j] # Main
               /\ IF core[Main] >= 0 THEN core[ctx[i]] < core[ctx[j]] ELSE core[ctx[j]] = -1
    <3>1. ctx[i] \in Nat /\ ctx[j] \in Nat /\ j # 1
      BY <2>1, <2>2
    <3>2. ctx[i] < ctx[j] /\ (Pinned => core[ctx[i]] < core[ctx[j]]) /\ ctx[j] # Main
      BY <1>1, <2>2, <3>1, Zenon DEF VectorInv, CtxInv
    <3>3. ~Pinned => core[ctx[j]] = -1
      BY <1>1, Zenon DEF VectorInv, CtxInv
    <3> QED
      BY <3>1, <3>2, <3>3 DEF Pinned
  <2> QED
    BY <2>1, <2>2, Zenon DEF CoresDistinct
<1> QED
  BY <1>1, AllInvariant, PTL DEF AllInv

\* Every open context has a VE thread that serves its own peer, although the
\* thread reads its argument from the frame of newpeer_handler(), and every VE
\* thread that serves belongs to a context: for any number of threads that open
\* and close contexts and make other calls meanwhile.
THEOREM PeersAlwaysServed == Spec => []PeerServed
<1>1. ASSUME IInv, VectorInv, PeerInv PROVE PeerServed
  <2> SUFFICES ASSUME child = "alive", ~crashed
               PROVE  /\ \A c \in Peers : thr[c] # "other"
                      /\ \A i \in DOMAIN ctx : ctx[i] # Main => Served(ctx[i])
                      /\ \A c \in Peers : thr[c] \in {"created", "loop"} /\ peer[c] # "left" /\ ~stuck =>
                           \/ c \in Range(ctx)
                           \/ \E t \in App : Opening(t) /\ new[t] = c
    BY Zenon DEF PeerServed, Served, Opening
  <2>1. PeerTypes /\ ServeInv
    BY <1>1, PeerParts, Zenon
  <2>2. DOMAIN ctx = 1 .. Len(ctx) /\ ctx \in Seq(0 .. made) /\ made \in 0 .. NCtx /\ NCtx \in Nat
    BY <1>1, CtxTypes, Zenon DEF AllInv, VectorInv
  <2>3. ASSUME NEW i \in DOMAIN ctx, ctx[i] # Main PROVE Served(ctx[i])
    <3>1. ctx[i] \in Peers
      BY <2>2, <2>3 DEF Peers, Main
    <3> QED
      BY <2>1, <2>2, <3>1, Zenon DEF ServeInv, InCtx
  <2>4. \A c \in Peers : thr[c] # "other"
    BY <2>1, Zenon DEF PeerTypes
  <2>5. ASSUME NEW c \in Peers, thr[c] \in {"created", "loop"}, peer[c] # "left", ~stuck
        PROVE  c \in Range(ctx) \/ \E t \in App : Opening(t) /\ new[t] = c
    <3>1. InCtx(c) \/ (c = made /\ \E t \in App : Opening(t))
      BY <2>1, <2>5, Zenon DEF ServeInv, LoopInv
    <3>2. InCtx(c) => c \in Range(ctx)
      BY <2>2, Zenon DEF InCtx, Range
    <3> QED
      BY <1>1, <3>1, <3>2, Zenon DEF VectorInv, HoldInv
  <2> QED
    BY <2>3, <2>4, <2>5, Zenon
<1> QED
  BY <1>1, AllInvariant, PTL DEF AllInv

\* exitProc() ends the VE process only when every VE thread has acknowledged
\* its EXIT, but for those of contexts whose opening failed.
THEOREM ExitInOrder == Spec => ExitOrder
<1> DEFINE Ends == child = "alive" /\ child' = "exited" /\ ~stuck =>
                     \A c \in Peers : thr[c] \in {"none", "gone"} \/ peer[c] = "left"
<1>1. ASSUME AllInv, [Next]_vars PROVE [Ends]_vars
  <2> SUFFICES ASSUME Next, child = "alive", child' = "exited", ~stuck, NEW c \in Peers
               PROVE  thr[c] \in {"none", "gone"} \/ peer[c] = "left"
    BY <1>1, Zenon
  <2>1. PICK t \in App : Thread(t) /\ exitMain(t)
    <3>1. ~VE /\ ~progressExec /\ \A d \in App \cup {Progress} : ~Worker(d)
      BY Zenon DEF VE, loadlib_handler, unloadlib_handler, getsym_handler,
         access_pcircvsyc_register_handler, newpeer_handler, newpeer_create, newpeer_reply,
         ve_handler_loop, exit_handler, die, progressExec, Worker, receive, submit, leave, veVars
    <3>2. PICK t \in App : Thread(t)
      BY <3>1, Zenon DEF Next
    <3> QED
      BY <3>2, Zenon DEF Thread, Wait, push, pushSync, callWaitResult, postpone, Open, openContext, openSync,
         openFirst, openSend, openAttach, openReply, openFlag, Close, veo_context_close,
         delContext, delContextEnd, Exit, exitProc, delContextNolock, delContextNolockEnd,
         Library, loadLibrary, loadReturn, unloadLibrary, unloadReturn, veo_get_sym, getSym,
         getSymStore, loadVE2VELibrary, setLibh_to_hashmap, getVEDMASyms,
         accessPciRecvSyncRegister, accessReturn, veVars, otherVars
  <2>2. pc[t] = "exit" /\ ~crashed /\ \A i \in DOMAIN ctx : ctx[i] = Main
    BY <2>1, Zenon DEF Thread, exitMain
  <2>3. PeerTypes /\ ServeInv
    BY <1>1, <2>2, PeerParts, Zenon DEF AllInv
  <2>4. ~InCtx(c)
    <3>1. DOMAIN ctx = 1 .. Len(ctx) /\ c # Main
      BY <1>1, SMTT(30) DEF AllInv, VectorInv, CtxInv, Peers, Main
    <3> QED
      BY <2>2, <3>1, Zenon DEF InCtx
  <2>5. \A u \in App : ~Opening(u)
    BY <1>1, <2>2, Zenon DEF AllInv, VectorInv, HoldInv, Exiting, Opening
  <2> QED
    BY <2>3, <2>4, <2>5, Zenon DEF ServeInv, LoopInv, PeerTypes
<1> QED
  BY <1>1, AllInvariant, PTL DEF Spec, ExitOrder

==============================================================================
