------------------------- MODULE ProcTableTheorems --------------------------
(***************************************************************************)
(* What holds of the table of processes and of their memory in every       *)
(* reachable state: the table is exact, the destructor leaves nothing, an  *)
(* allocated address has one holder, and the hooks are told of every       *)
(* address once.                                                           *)
(***************************************************************************)
EXTENDS ProcTableProofs, FiniteSetTheorems, WellFoundedInduction

\* No call is made or goes on once the destructor has started.
LEMMA ThreadOpen ==
  ASSUME IInv, NEW t \in App, Thread(t)
  PROVE  cpc = "no" /\ UNCHANGED <<cpc, it>>
<1>1. UNCHANGED <<cpc, it>>
  <2>1. CASE Create(t) \/ Destroy(t) \/ veo_mem_async(t)
    BY <2>1, Zenon DEF Create, ProcHandle, register, Destroy, veo_proc_destroy, exitProc,
       exitProcReturn,
       veo_mem_async, cleanVars
  <2>2. CASE Alloc(t)
    BY <2>2, Zenon DEF Alloc, veo_alloc_hmem, veo_alloc_hmem_vh, allocBuff, _alloc_hmem_hook,
       veo_alloc_hmem_ident, cleanVars
  <2>3. CASE Use(t)
    BY <2>3, Zenon DEF Use, veo_free_hmem, veo_hmemcpy, look, look2, copy, freeBuff,
       _free_hmem_hook, cleanVars
  <2> QED
    BY <2>1, <2>2, <2>3, Zenon DEF Thread
<1>2. pc[t] # "idle" \/ cpc = "no"
  <2>1. CASE Create(t) \/ Destroy(t) \/ veo_mem_async(t)
    BY <2>1, Zenon DEF Create, ProcHandle, register, Destroy, veo_proc_destroy, exitProc,
       exitProcReturn,
       veo_mem_async, call
  <2>2. CASE Alloc(t)
    BY <2>2, Zenon DEF Alloc, veo_alloc_hmem, veo_alloc_hmem_vh, allocBuff, _alloc_hmem_hook,
       veo_alloc_hmem_ident, call
  <2>3. CASE Use(t)
    BY <2>3, Zenon DEF Use, veo_free_hmem, veo_hmemcpy, look, look2, copy, freeBuff,
       _free_hmem_hook, call
  <2> QED
    BY <2>1, <2>2, <2>3, Zenon DEF Thread
<1> QED
  BY <1>1, <1>2, InCall, Zenon

\* Every step keeps the slots behind the destructor empty.
LEMMA SweepNext ==
  ASSUME IInv, SweepInv, [Next]_vars
  PROVE  SweepInv'
<1>1. /\ procs \in Seq(Handles \cup {Null}) /\ Len(procs) \in Nat /\ it \in Nat \ {0}
      /\ \A i \in 1 .. Len(procs) : procs[i] \in Handles \cup {Null}
  BY TableElems, Zenon DEF IInv, TypeInv
<1>2. CASE UNCHANGED vars
  <2>1. UNCHANGED <<cpc, it, procs>>
    BY <1>2, Zenon DEF vars, cleanVars, tableVars
  <2> QED
    BY <2>1, Zenon DEF SweepInv
<1>3. CASE \E t \in App : Thread(t)
  BY <1>3, ThreadOpen, Zenon DEF SweepInv
<1>4. CASE \E p \in Handles : ProgressThread(p)
  <2>1. UNCHANGED <<cpc, it, procs>>
    BY <1>4, Zenon DEF ProgressThread, mem_async, hmem_async_hook, cleanVars, tableVars
  <2> QED
    BY <2>1, Zenon DEF SweepInv
<1>5. CASE cleanup_start
  <2>1. UNCHANGED <<it, procs>> /\ it = 1 /\ cpc' = "loop"
    BY <1>5, Zenon DEF cleanup_start, tableVars, SweepInv
  <2> QED
    BY <1>1, <2>1 DEF SweepInv
<1>6. CASE cleanup_loop
  <2>1. procs' = procs /\ cpc = "loop"
    BY <1>6, Zenon DEF cleanup_loop
  <2>2. CASE it > Len(procs)
    BY <1>6, <2>1, <2>2, Zenon DEF cleanup_loop, SweepInv
  <2>3. CASE ~(it > Len(procs)) /\ procs[it] = Null
    <3>1. it' = it + 1 /\ cpc' = cpc
      BY <1>6, <2>3, Zenon DEF cleanup_loop
    <3>2. \A i \in 1 .. Len(procs) : i < it + 1 => i < it \/ i = it
      BY <1>1
    <3> QED
      BY <1>1, <2>1, <2>3, <3>1, <3>2, Zenon DEF SweepInv
  <2>4. CASE ~(it > Len(procs)) /\ procs[it] # Null
    BY <1>6, <2>1, <2>4, Zenon DEF cleanup_loop, SweepInv
  <2> QED
    BY <2>2, <2>3, <2>4, Zenon
<1>7. CASE cleanup_closing
  <2>1. PICK p \in Handles : procs' = removed(p)
    BY <1>7, Zenon DEF cleanup_closing, exitProcEnd
  <2>2. Len(procs') = Len(procs) /\ \A i \in 1 .. Len(procs) : procs[i] = Null => procs'[i] = Null
    BY <1>1, <2>1, RemovedSlot, Zenon
  <2>3. cpc = "closing" /\ cpc' = "erase" /\ it' = it
    BY <1>7, Zenon DEF cleanup_closing
  <2> QED
    BY <2>2, <2>3, Zenon DEF SweepInv
<1>8. CASE cleanup_erase
  <2>1. /\ cpc = "erase" /\ cpc' = "loop" /\ it' = it
        /\ procs' = [i \in 1 .. (Len(procs) - 1) |-> IF i < it THEN procs[i] ELSE procs[i + 1]]
    BY <1>8, Zenon DEF cleanup_erase, erased
  <2>2. it \in 1 .. Len(procs) /\ \A i \in 1 .. Len(procs) : i < it => procs[i] = Null
    BY <2>1, Zenon DEF IInv, CleanInv, SweepInv
  <2>3. Len(procs') = Len(procs) - 1
    BY <1>1, <2>1, <2>2
  <2>4. \A i \in 1 .. (Len(procs) - 1) : i < it => procs'[i] = Null
    BY <1>1, <2>1, <2>2
  <2> QED
    BY <1>1, <2>1, <2>3, <2>4, Zenon DEF SweepInv
<1> QED
  BY <1>2, <1>3, <1>4, <1>5, <1>6, <1>7, <1>8, Zenon DEF Next, Cleanup

-----------------------------------------------------------------------------
(***************************************************************************)
(* Who holds an address, from step to step.  The steps are taken one       *)
(* process and address at a time.                                          *)
(***************************************************************************)

\* Before a step after which the program still runs and no address was stale.
LEMMA StillOpen ==
  ASSUME IInv, [Next]_vars, cpc' = "no", ~stale'
  PROVE  /\ cpc = "no" /\ ~stale
         /\ \/ UNCHANGED vars
            \/ \E t \in App : Thread(t)
            \/ \E p \in Handles : ProgressThread(p)
<1>1. ~Cleanup
  BY Zenon DEF Cleanup, cleanup_start, cleanup_loop, cleanup_closing, cleanup_erase
<1>2. CASE UNCHANGED vars
  BY <1>2, Zenon DEF vars, memVars, cleanVars
<1>3. ASSUME NEW t \in App, Thread(t)
      PROVE  cpc = "no" /\ ~stale
  <2>1. cpc = "no"
    BY <1>3, ThreadOpen, Zenon
  <2>2. ASSUME Create(t) PROVE ~stale
    BY <2>2, Zenon DEF Create, ProcHandle, register, memVars
  <2>3. ASSUME Destroy(t) \/ veo_mem_async(t) PROVE ~stale
    BY <2>3, Zenon DEF Destroy, veo_proc_destroy, exitProc, exitProcReturn, veo_mem_async, memVars
  <2>4. ASSUME Alloc(t) PROVE ~stale
    BY <2>4, Zenon DEF Alloc, veo_alloc_hmem, veo_alloc_hmem_vh, allocBuff, _alloc_hmem_hook,
       veo_alloc_hmem_ident, memVars
  <2>5. ASSUME look(t) \/ look2(t) PROVE ~stale
    BY <2>5, Zenon DEF look, look2, resolve
  <2>6. ASSUME veo_free_hmem(t) \/ veo_hmemcpy(t) \/ copy(t) \/ freeBuff(t) \/ _free_hmem_hook(t) PROVE ~stale
    BY <2>6, Zenon DEF veo_free_hmem, veo_hmemcpy, copy, freeBuff, _free_hmem_hook, memVars
  <2>7. ~stale
    BY <1>3, <2>2, <2>3, <2>4, <2>5, <2>6, Zenon DEF Thread, Use
  <2> QED
    BY <2>1, <2>7, Zenon
<1>4. ASSUME NEW p \in Handles, ProgressThread(p)
      PROVE  cpc = "no" /\ ~stale
  BY <1>4 DEF ProgressThread, mem_async, hmem_async_hook, cleanVars
<1> QED
  BY <1>1, <1>2, <1>3, <1>4, Zenon DEF Next

\* A process that is alive after a step was so before, or has been registered.
LEMMA AliveStep ==
  ASSUME IInv, [Next]_vars, NEW h \in Handles, alive(h)'
  PROVE  alive(h) \/ \E t \in App : register(t) /\ hd[t] = h
  BY LifeStep, Zenon DEF alive, Known

\* Every step keeps one holder for every allocated address.
LEMMA OwnerNext ==
  ASSUME IInv, DataInv, OwnerInv, [Next]_vars
  PROVE  OwnerInv'
<1>OwnedSame.
    ASSUME NEW h \in Handles, NEW v \in VA, Owned(h, v),
           Kept(h, v)' = Kept(h, v), Carriers(h, v)' = Carriers(h, v),
           <<h, v>> \in plain' <=> <<h, v>> \in plain,
           InJob(h, v)' <=> InJob(h, v), v \in mem'[h] <=> v \in mem[h]
    PROVE  Owned(h, v)'
    BY <1>OwnedSame, Zenon DEF Owned
  \* Only thread t moves.
<1>CarriersMove.
    ASSUME NEW t \in App, NEW h \in Handles, NEW v \in VA,
           \A u \in App : u # t =>
             pc'[u] = pc[u] /\ hd'[u] = hd[u] /\ va'[u] = va[u] /\ arg'[u] = arg[u]
    PROVE  /\ Carries(t, h, v)' => Carriers(h, v)' = Carriers(h, v) \cup {t}
           /\ ~Carries(t, h, v)' => Carriers(h, v)' = Carriers(h, v) \ {t}
  <2> USE <1>CarriersMove
  <2>1. \A u \in App : u # t => (Carries(u, h, v)' <=> Carries(u, h, v))
    BY Zenon DEF Carries
  <2>2. \A u : u \in Carriers(h, v)' <=> u \in App /\ Carries(u, h, v)'
    BY Zenon DEF Carriers
  <2>3. \A u : u \in Carriers(h, v) <=> u \in App /\ Carries(u, h, v)
    BY Zenon DEF Carriers
  <2> QED
    BY <2>1, <2>2, <2>3, Zenon
  \* Thread t moves and the address stays in its hands or out of them.
<1>OwnedMove.
    ASSUME NEW t \in App, NEW h \in Handles, NEW v \in VA, Owned(h, v),
           \A u \in App : u # t =>
             pc'[u] = pc[u] /\ hd'[u] = hd[u] /\ va'[u] = va[u] /\ arg'[u] = arg[u],
           Carries(t, h, v)' <=> Carries(t, h, v),
           Kept(h, v)' = Kept(h, v), v \in mem'[h] <=> v \in mem[h],
           plain' = plain, job'[h] = job[h]
    PROVE  Owned(h, v)'
  <2> USE <1>OwnedMove
  <2>1. Carriers(h, v)' = Carriers(h, v)
    <3>1. t \in Carriers(h, v) <=> Carries(t, h, v)
      BY Zenon DEF Carriers
    <3> QED
      BY <3>1, <1>CarriersMove
  <2>2. InJob(h, v)' <=> InJob(h, v)
    BY Zenon DEF InJob
  <2> QED
    BY <2>1, <2>2, <1>OwnedSame, Zenon
<1>OwnedStill.
    ASSUME NEW h \in Handles, NEW v \in VA, Owned(h, v), UNCHANGED <<pc, hd, va, arg, hmem, plain>>,
           v \in mem'[h] <=> v \in mem[h], job'[h] = job[h]
    PROVE  Owned(h, v)'
  <2> USE <1>OwnedStill
  <2>1. Carriers(h, v)' = Carriers(h, v) /\ Kept(h, v)' = Kept(h, v)
    BY Zenon DEF Carriers, Carries, Kept
  <2>2. InJob(h, v)' <=> InJob(h, v)
    BY Zenon DEF InJob
  <2> QED
    BY <2>1, <2>2, <1>OwnedSame, Zenon
  \* A step of thread t alone, in which it holds no address before or after.
<1>OwnedIdle.
    ASSUME IInv, NEW t \in App, NEW h \in Handles, NEW v \in VA, Owned(h, v),
           NEW next, pc' = [pc EXCEPT ![t] = next],
           pc[t] \notin {"allochook", "ident", "look", "free"} \/ (pc[t] \in {"look", "free"} /\ Len(arg[t]) # 1),
           next \notin {"allochook", "ident", "look", "free"} \/ (next \in {"look", "free"} /\ Len(arg'[t]) # 1),
           \A u \in App : u # t => hd'[u] = hd[u] /\ va'[u] = va[u] /\ arg'[u] = arg[u],
           UNCHANGED <<hmem, plain>>, mem'[h] = mem[h], job'[h] = job[h]
    PROVE  Owned(h, v)'
  <2> USE <1>OwnedIdle
  <2>1. pc'[t] = next /\ \A u \in App : u # t => pc'[u] = pc[u]
    BY OwnStep, Zenon
  <2>2. ~Carries(t, h, v)
    BY Zenon DEF Carries
  <2>3. ~Carries(t, h, v)'
    BY <2>1, Zenon DEF Carries
  <2>4. Kept(h, v)' = Kept(h, v)
    BY Zenon DEF Kept
  <2> QED
    BY <2>1, <2>2, <2>3, <2>4, <1>OwnedMove, Zenon
  \* Creating and destroying processes moves no memory of the others.
<1>OwnedTable.
    ASSUME IInv, DataInv, NEW t \in App, Create(t) \/ Destroy(t),
           NEW h \in Handles, NEW v \in VA, Owned(h, v), alive(h), alive(h)'
    PROVE  Owned(h, v)'
  <2> USE <1>OwnedTable
  <2>1. CASE ProcHandle(t)
    <3>1. /\ UNCHANGED <<mem, hmem, plain, job, va, arg>> /\ pc[t] = "idle"
          /\ \A u \in App : u # t => hd'[u] = hd[u]
          /\ (pc' = [pc EXCEPT ![t] = "register"] \/ UNCHANGED <<pc, hd>>)
      BY <2>1, Zenon DEF ProcHandle, memVars, call, step, IInv, TypeInv
    <3>2. CASE UNCHANGED <<pc, hd>>
      BY <3>1, <3>2, <1>OwnedStill, Zenon
    <3>3. CASE pc' = [pc EXCEPT ![t] = "register"]
      BY <3>1, <3>3, <1>OwnedIdle, Zenon
    <3> QED
      BY <3>1, <3>2, <3>3, Zenon
  <2>2. CASE register(t)
    <3>1. UNCHANGED <<mem, hmem, plain, job, va, arg, hd>> /\ pc[t] = "register" /\ pc' = [pc EXCEPT ![t] = "idle"]
      BY <2>2, Zenon DEF register, memVars, step
    <3> QED
      BY <3>1, <1>OwnedIdle, Zenon
  <2>3. CASE veo_proc_destroy(t)
    <3>1. /\ UNCHANGED <<mem, hmem, plain, job, va, arg>> /\ pc[t] = "idle" /\ pc' = [pc EXCEPT ![t] = "exit"]
          /\ \A u \in App : u # t => hd'[u] = hd[u]
      BY <2>3, Zenon DEF veo_proc_destroy, memVars, step, call, IInv, TypeInv
    <3> QED
      BY <3>1, <1>OwnedIdle, Zenon
  <2>4. CASE exitProc(t)
    <3>1. UNCHANGED <<mem, hmem, plain, job, va, arg, hd>> /\ pc[t] = "exit" /\ pc' = [pc EXCEPT ![t] = "closing"]
      BY <2>4, Zenon DEF exitProc, memVars, step
    <3> QED
      BY <3>1, <1>OwnedIdle, Zenon
  <2>5. CASE exitProcReturn(t)
    <3>1. /\ UNCHANGED <<hmem, plain, va, arg, hd>> /\ pc[t] = "closing" /\ pc' = [pc EXCEPT ![t] = "idle"]
          /\ mem' = [mem EXCEPT ![hd[t]] = {}] /\ job' = [job EXCEPT ![hd[t]] = Jobless]
          /\ life' = [life EXCEPT ![hd[t]] = "exited"]
      BY <2>5, Zenon DEF exitProcReturn, exitProcEnd, step
    <3>2. h # hd[t]
      BY <3>1, Zenon DEF alive, IInv, TypeInv
    <3>3. mem'[h] = mem[h] /\ job'[h] = job[h]
      BY <3>1, <3>2, Zenon DEF DataInv, DataType
    <3> QED
      BY <3>1, <3>3, <1>OwnedIdle, Zenon
  <2> QED
    BY <2>1, <2>2, <2>3, <2>4, <2>5, Zenon DEF Create, Destroy
  \* Nobody holds memory of a process that has not been registered.
<1>OwnedNew.
    ASSUME IInv, DataInv, cpc = "no", NEW h \in Handles, NEW v \in VA, life[h] \notin Known
    PROVE  Kept(h, v) = {} /\ Carriers(h, v) = {} /\ <<h, v>> \notin plain /\ ~InJob(h, v) /\ v \notin mem[h]
  <2> USE <1>OwnedNew
  <2>1. h # Null
    BY ProcTableAssumption, Zenon
  <2>2. Kept(h, v) = {}
    <3> SUFFICES ASSUME NEW x \in hmem, x.owner = h PROVE FALSE
      BY Zenon DEF Kept
    <3>1. ResolvesIn(x, procs, life)
      BY Zenon DEF IInv, HmemInv
    <3> QED
      BY <2>1, <3>1, Zenon DEF ResolvesIn
  <2>3. Carriers(h, v) = {}
    <3> SUFFICES ASSUME NEW u \in App, Carries(u, h, v) PROVE FALSE
      BY Zenon DEF Carriers
    <3>1. CASE pc[u] \in {"allochook", "ident"} /\ hd[u] = h
      BY <3>1, Zenon DEF IInv, ThreadInv
    <3>2. CASE pc[u] \in {"look", "free"} /\ Len(arg[u]) = 1 /\ arg[u][1].owner = h
      <4>1. Operands(u)
        BY <3>2, Zenon DEF IInv, ThreadInv
      <4>2. ResolvesIn(arg[u][1], procs, life)
        BY <3>2, <4>1 DEF Operands
      <4> QED
        BY <2>1, <3>2, <4>2, Zenon DEF ResolvesIn
    <3> QED
      BY <3>1, <3>2, Zenon DEF Carries
  <2>4. <<h, v>> \notin plain /\ ~InJob(h, v) /\ v \notin mem[h]
    BY DEF DataInv, Fresh, InJob, Jobless
  <2> QED
    BY <2>2, <2>3, <2>4, Zenon
<1>OwnedRegister.
    ASSUME IInv, DataInv, NEW t \in App, register(t), NEW v \in VA
    PROVE  Owned(hd[t], v)'
  <2> USE <1>OwnedRegister
  <2> DEFINE h == hd[t]
  <2>1. cpc = "no" /\ h \in Handles /\ life[h] \notin Known
    BY InCall, Zenon DEF register, IInv, ThreadInv, Known
  <2>2. UNCHANGED <<mem, hmem, plain, job, va, arg, hd>> /\ pc' = [pc EXCEPT ![t] = "idle"] /\ pc[t] = "register"
    BY Zenon DEF register, memVars, step
  <2>3. /\ Kept(h, v) = {} /\ Carriers(h, v) = {} /\ <<h, v>> \notin plain
        /\ ~InJob(h, v) /\ v \notin mem[h]
    BY <2>1, <1>OwnedNew, Zenon
  <2>4. h' = h
    BY <2>2, Zenon
  <2>5. PICK k \in Handles : k = h
    BY <2>1, Zenon
  <2>6. Owned(k, v)
    BY <2>3, <2>5, Zenon DEF Owned
  <2>7. Owned(k, v)'
    BY <2>2, <2>6, <1>OwnedIdle, Zenon
  <2> QED
    BY <2>4, <2>5, <2>7, SMTT(30) DEF Owned, Kept, Carriers, Carries, InJob
  \* veo_alloc_hmem(): the address goes from the VE to the call and from the
  \* call to the application.
<1>OwnedAlloc.
    ASSUME IInv, DataInv, NEW t \in App, Alloc(t),
           NEW h \in Handles, NEW v \in VA, Owned(h, v), alive(h)
    PROVE  Owned(h, v)'
  <2> USE <1>OwnedAlloc
  <2>1. DataType /\ CallOK(t) /\ hd \in [App -> Handles \cup {Null}] /\ h # Null
    BY ProcTableAssumption, Zenon DEF DataInv, IInv, TypeInv
  <2>2. CASE veo_alloc_hmem(t)
    <3>1. /\ UNCHANGED <<mem, hmem, plain, job, va, arg>> /\ pc[t] = "idle"
          /\ \A u \in App : u # t => hd'[u] = hd[u]
          /\ (pc' = [pc EXCEPT ![t] = "alloc"] \/ UNCHANGED <<pc, hd>>)
      BY <2>1, <2>2, Zenon DEF veo_alloc_hmem, memVars, call, step
    <3>2. CASE UNCHANGED <<pc, hd>>
      BY <3>1, <3>2, <1>OwnedStill, Zenon
    <3>3. CASE pc' = [pc EXCEPT ![t] = "alloc"]
      BY <3>1, <3>3, <1>OwnedIdle, Zenon
    <3> QED
      BY <3>1, <3>2, <3>3, Zenon
  <2>3. CASE veo_alloc_hmem_vh(t)
    <3>1. PICK w \in VA : hmem' = hmem \cup {[addr |-> Virtual(w), owner |-> Null]}
      BY <2>3, Zenon DEF veo_alloc_hmem_vh
    <3>2. UNCHANGED <<mem, plain, job, pc, hd, va, arg>>
      BY <2>3, Zenon DEF veo_alloc_hmem_vh, threadVars
    <3>3. Kept(h, v)' = Kept(h, v)
      BY <2>1, <3>1 DEF Kept
    <3>4. Carriers(h, v)' = Carriers(h, v) /\ (InJob(h, v)' <=> InJob(h, v))
      BY <3>2, Zenon DEF Carriers, Carries, InJob
    <3> QED
      BY <3>2, <3>3, <3>4, <1>OwnedSame, Zenon
  <2>4. CASE allocBuff(t)
    <3>1. UNCHANGED <<hmem, plain, job, hd, arg>> /\ pc[t] = "alloc"
      BY <2>4, Zenon DEF allocBuff
    <3>2. CASE pc' = [pc EXCEPT ![t] = "idle"] /\ UNCHANGED <<mem, va>>
      BY <3>1, <3>2, <1>OwnedIdle, Zenon
    <3>3. ASSUME NEW w \in VA \ mem[hd[t]], NEW next \in {"allochook", "ident"},
                 mem' = [mem EXCEPT ![hd[t]] = @ \cup {w}], va' = [va EXCEPT ![t] = w],
                 pc' = [pc EXCEPT ![t] = next]
          PROVE  Owned(h, v)'
      <4>1. /\ pc'[t] = next /\ va'[t] = w
            /\ \A u \in App : u # t => pc'[u] = pc[u] /\ va'[u] = va[u]
        BY <2>1, <3>3, OwnStep, Zenon DEF DataType
      <4>2. ~Carries(t, h, v) /\ (Carries(t, h, v)' <=> hd[t] = h /\ w = v)
        BY <3>1, <3>3, <4>1, Zenon DEF Carries
      <4>3. Kept(h, v)' = Kept(h, v) /\ (InJob(h, v)' <=> InJob(h, v))
        BY <3>1, Zenon DEF Kept, InJob
      <4>4. CASE ~(hd[t] = h /\ w = v)
        <5>1. v \in mem'[h] <=> v \in mem[h]
          BY <2>1, <3>3, <4>4, Zenon DEF DataType
        <5> QED
          BY <3>1, <4>1, <4>2, <4>3, <4>4, <5>1, <1>OwnedMove, Zenon
      <4>5. CASE hd[t] = h /\ w = v
        <5>1. v \in mem'[h] /\ v \notin mem[h]
          BY <2>1, <3>3, <4>5, Zenon DEF DataType
        <5>2. Carriers(h, v)' = Carriers(h, v) \cup {t}
          BY <3>1, <4>1, <4>2, <4>5, <1>CarriersMove
        <5> QED
          BY <3>1, <4>3, <5>1, <5>2, Zenon DEF Owned
      <4> QED
        BY <4>4, <4>5, Zenon
    <3> QED
      BY <2>4, <3>2, <3>3, Zenon DEF allocBuff, step
  <2>5. CASE _alloc_hmem_hook(t)
    <3>1. /\ UNCHANGED <<mem, hmem, plain, job, hd, va, arg>> /\ pc[t] = "allochook"
          /\ pc' = [pc EXCEPT ![t] = "ident"]
      BY <2>5, Zenon DEF _alloc_hmem_hook, step
    <3>2. pc'[t] = "ident" /\ \A u \in App : u # t => pc'[u] = pc[u]
      BY <3>1, OwnStep, Zenon
    <3>3. Carries(t, h, v)' <=> Carries(t, h, v)
      BY <3>1, <3>2, Zenon DEF Carries
    <3>4. Kept(h, v)' = Kept(h, v)
      BY <3>1, Zenon DEF Kept
    <3> QED
      BY <3>1, <3>2, <3>3, <3>4, <1>OwnedMove, Zenon
  <2>6. CASE veo_alloc_hmem_ident(t)
    <3> DEFINE i == getProcIdentifier(hd[t])
               x == [addr |-> SET_PROC_IDENT(SET_VE_FLAG(Virtual(va[t])), i), owner |-> hd[t]]
    <3>1. /\ UNCHANGED <<mem, plain, job, hd, va, arg>> /\ pc[t] = "ident"
          /\ pc' = [pc EXCEPT ![t] = "idle"] /\ hmem' = IF i < 0 THEN hmem ELSE hmem \cup {x}
      BY <2>6, Zenon DEF veo_alloc_hmem_ident, step
    <3>2. pc'[t] = "idle" /\ \A u \in App : u # t => pc'[u] = pc[u]
      BY <3>1, OwnStep, Zenon
    <3>3. ~Carries(t, h, v)' /\ (Carries(t, h, v) <=> hd[t] = h /\ va[t] = v)
      BY <3>1, <3>2, Zenon DEF Carries
    <3>4. x.owner = hd[t] /\ x.addr.va = va[t]
      BY Zenon DEF SET_PROC_IDENT, SET_VE_FLAG, Virtual
    <3>5. CASE ~(hd[t] = h /\ va[t] = v)
      <4>1. Kept(h, v)' = Kept(h, v)
        BY <3>1, <3>4, <3>5, Zenon DEF Kept
      <4> QED
        BY <3>1, <3>2, <3>3, <3>5, <4>1, <1>OwnedMove, Zenon
    <3>6. CASE hd[t] = h /\ va[t] = v
      <4>1. i >= 0
        <5>1. PICK n \in 1 .. Len(procs) : procs[n] = h
          BY Zenon DEF IInv, TableInv
        <5>2. getProcIdentifier(h) = n - 1
          BY <5>1, IdentifierIsSlot, Zenon
        <5> QED
          BY <3>6, <5>2
      <4>2. i \in Int
        BY <3>6, IdentifierIsSlot
      <4>3. t \in Carriers(h, v) /\ Carriers(h, v)' = Carriers(h, v) \ {t}
        BY <3>1, <3>2, <3>3, <3>6, <1>CarriersMove DEF Carriers
      <4>4. Kept(h, v) = {} /\ <<h, v>> \notin plain /\ ~InJob(h, v) /\ v \in mem[h] /\ Carriers(h, v) = {t}
        BY <4>3, Zenon DEF Owned
      <4>5. hmem' = hmem \cup {x}
        <5>1. ~(i < 0)
          BY <4>1, <4>2
        <5> QED
          BY <3>1, <5>1, Zenon
      <4> HIDE DEF i, x
      <4>6. Kept(h, v)' = {x}
        BY <3>4, <3>6, <4>4, <4>5, Zenon DEF Kept
      <4>7. InJob(h, v)' <=> InJob(h, v)
        BY <3>1, Zenon DEF InJob
      <4>8. Carriers(h, v)' = {}
        BY <4>3, <4>4, Zenon
      <4> QED
        BY <3>1, <4>4, <4>6, <4>7, <4>8, Zenon DEF Owned
    <3> QED
      BY <3>5, <3>6, Zenon
  <2> QED
    BY <2>2, <2>3, <2>4, <2>5, <2>6, Zenon DEF Alloc
  \* veo_free_hmem() takes the address from the application, and from the VE
  \* after the lookup has found the owner.
<1>OwnedUse.
    ASSUME IInv, DataInv, NEW t \in App, Use(t), ~stale',
           NEW h \in Handles, NEW v \in VA, Owned(h, v), alive(h)
    PROVE  Owned(h, v)'
  <2> USE <1>OwnedUse
  <2>1. DataType /\ CallOK(t) /\ hd \in [App -> Handles \cup {Null}] /\ h # Null /\ arg \in [App -> Args]
    BY ProcTableAssumption, Zenon DEF DataInv, IInv, TypeInv, DataType
  <2>2. CASE veo_free_hmem(t)
    <3>1. PICK x \in hmem :
            /\ hmem' = hmem \ {x}
            /\ IF IS_VE(x.addr)
               THEN pc' = [pc EXCEPT ![t] = "look"] /\ arg' = [arg EXCEPT ![t] = <<x>>]
               ELSE UNCHANGED <<pc, arg>>
      BY <2>2, Zenon DEF veo_free_hmem, step
    <3>2. UNCHANGED <<mem, plain, job, hd, va>> /\ pc[t] = "idle" /\ cpc = "no"
      BY <2>2, Zenon DEF veo_free_hmem, call
    <3>3. Form(x)
      BY <3>2, Zenon DEF IInv, HmemInv
    <3>4. CASE ~IS_VE(x.addr)
      <4>1. x.owner = Null
        BY <3>3, <3>4, Zenon DEF Form, IS_VE
      <4>2. Kept(h, v)' = Kept(h, v)
        BY <2>1, <3>1, <4>1, Zenon DEF Kept
      <4>3. Carriers(h, v)' = Carriers(h, v) /\ (InJob(h, v)' <=> InJob(h, v))
        BY <3>1, <3>2, <3>4, Zenon DEF Carriers, Carries, InJob
      <4> QED
        BY <3>2, <4>2, <4>3, <1>OwnedSame, Zenon
    <3>5. CASE IS_VE(x.addr)
      <4>1. /\ pc'[t] = "look" /\ arg'[t] = <<x>>
            /\ \A u \in App : u # t => pc'[u] = pc[u] /\ arg'[u] = arg[u]
        BY <2>1, <3>1, <3>5, OwnStep, Zenon
      <4>2. ~Carries(t, h, v) /\ (Carries(t, h, v)' <=> x.owner = h /\ x.addr.va = v)
        BY <3>2, <4>1 DEF Carries
      <4>3. CASE ~(x.owner = h /\ x.addr.va = v)
        <5>1. Kept(h, v)' = Kept(h, v)
          BY <3>1, <4>3, Zenon DEF Kept
        <5> QED
          BY <3>2, <4>1, <4>2, <4>3, <5>1, <1>OwnedMove, Zenon
      <4>4. CASE x.owner = h /\ x.addr.va = v
        <5>1. x \in Kept(h, v) /\ Kept(h, v)' = Kept(h, v) \ {x}
          BY <3>1, <4>4, Zenon DEF Kept
        <5>2. Kept(h, v)' = {} /\ <<h, v>> \notin plain /\ Carriers(h, v) = {} /\ ~InJob(h, v) /\ v \in mem[h]
          BY <5>1, Zenon DEF Owned
        <5>3. Carriers(h, v)' = {t}
          <6>1. Carriers(h, v)' = Carriers(h, v) \cup {t}
            BY <3>2, <4>1, <4>2, <4>4, <1>CarriersMove, ZenonT(60)
          <6> QED
            BY <5>2, <6>1, Zenon
        <5>4. InJob(h, v)' <=> InJob(h, v)
          BY <3>2, Zenon DEF InJob
        <5> QED
          BY <3>2, <5>2, <5>3, <5>4, Zenon DEF Owned
      <4> QED
        BY <4>3, <4>4, Zenon
    <3> QED
      BY <3>4, <3>5, Zenon
  <2>3. CASE veo_hmemcpy(t)
    <3>1. PICK x \in hmem, y \in hmem :
            \/ pc' = [pc EXCEPT ![t] = "look"] /\ arg' = [arg EXCEPT ![t] = <<x, y>>]
            \/ UNCHANGED <<pc, arg>>
      BY <2>3, Zenon DEF veo_hmemcpy, step
    <3>2. UNCHANGED <<mem, hmem, plain, job, hd, va>> /\ pc[t] = "idle"
      BY <2>3, Zenon DEF veo_hmemcpy, memVars, call
    <3>3. CASE UNCHANGED <<pc, arg>>
      BY <3>2, <3>3, <1>OwnedStill, Zenon
    <3>4. CASE pc' = [pc EXCEPT ![t] = "look"] /\ arg' = [arg EXCEPT ![t] = <<x, y>>]
      <4>1. arg'[t] = <<x, y>> /\ Len(arg'[t]) = 2 /\ \A u \in App : u # t => arg'[u] = arg[u]
        BY <2>1, <3>4, Zenon
      <4>2. pc'[t] = "look" /\ \A u \in App : u # t => pc'[u] = pc[u]
        BY <3>4, OwnStep, Zenon
      <4>3. ~Carries(t, h, v) /\ ~Carries(t, h, v)'
        <5>1. Len(arg'[t]) # 1
          BY <4>1
        <5> QED
          BY <3>2, <4>2, <5>1, Zenon DEF Carries
      <4>4. Kept(h, v)' = Kept(h, v)
        BY <3>2, Zenon DEF Kept
      <4> QED
        BY <3>2, <4>1, <4>2, <4>3, <4>4, <1>OwnedMove, Zenon
    <3> QED
      BY <3>1, <3>3, <3>4, Zenon
  <2>4. CASE look(t) /\ Len(arg[t]) = 1
    <3>1. UNCHANGED <<mem, hmem, plain, job, arg>> /\ pc[t] = "look" /\ Operands(t)
      BY <2>4, Zenon DEF look, IInv, ThreadInv
    <3>2. 1 \in 1 .. Len(arg[t]) /\ IS_VE(arg[t][1].addr) /\ operand(t) = arg[t][1] /\ ~onVE(t)
      BY <2>4, <3>1 DEF Operands, operand, onVE
    <3>3. Form(arg[t][1]) /\ ResolvesIn(arg[t][1], procs, life) /\ arg[t][1] \in Hmem /\ resolve(t, arg[t][1])
      BY <2>1, <2>4, <3>1, <3>2, ArgParts, Zenon DEF Operands, look
    <3>4. /\ \A u \in App : u # t => hd'[u] = hd[u] /\ va'[u] = va[u]
          /\ hd'[t] = arg[t][1].owner /\ arg[t][1].owner \in Handles
      BY <3>1, <3>2, <3>3, LookupData, Zenon
    <3>5. pc' = [pc EXCEPT ![t] = "free"]
      BY <2>4, <3>2, <3>4, ProcTableAssumption, Zenon DEF look, step
    <3>6. pc'[t] = "free" /\ \A u \in App : u # t => pc'[u] = pc[u]
      BY <3>5, OwnStep, Zenon
    <3>7. Carries(t, h, v)' <=> Carries(t, h, v)
      BY <2>4, <3>1, <3>6, Zenon DEF Carries
    <3>8. Kept(h, v)' = Kept(h, v)
      BY <3>1, Zenon DEF Kept
    <3> QED
      BY <3>1, <3>4, <3>6, <3>7, <3>8, <1>OwnedMove, Zenon
  <2>5. CASE (look(t) /\ Len(arg[t]) # 1) \/ look2(t)
    <3>1. /\ UNCHANGED <<mem, hmem, plain, job, arg>> /\ pc[t] \in {"look", "look2"}
          /\ (pc[t] = "look" => Len(arg[t]) # 1)
      BY <2>5, Zenon DEF look, look2
    <3>2. \A u \in App : u # t => hd'[u] = hd[u] /\ va'[u] = va[u]
      BY <2>1, <2>5, Zenon DEF look, look2, resolve, DataType
    <3>3. PICK next \in {"look2", "fault", "copy", "idle"} : pc' = [pc EXCEPT ![t] = next]
      BY <2>5, Zenon DEF look, look2, step
    <3> QED
      BY <3>1, <3>2, <3>3, <1>OwnedIdle, Zenon
  <2>6. CASE copy(t) \/ _free_hmem_hook(t)
    <3>1. /\ UNCHANGED <<mem, hmem, plain, job, hd, va, arg>> /\ pc[t] \in {"copy", "freehook"}
          /\ pc' = [pc EXCEPT ![t] = "idle"]
      BY <2>6, Zenon DEF copy, _free_hmem_hook, memVars, step
    <3> QED
      BY <3>1, <1>OwnedIdle, Zenon
  <2>7. CASE freeBuff(t)
    <3>1. /\ UNCHANGED <<hmem, plain, job, hd, va, arg>> /\ pc[t] = "free"
          /\ mem' = [mem EXCEPT ![hd[t]] = @ \ {va[t]}] /\ ~stale
      BY <2>7, Zenon DEF freeBuff
    <3>2. PICK next \in {"freehook", "idle"} : pc' = [pc EXCEPT ![t] = next]
      BY <2>7, Zenon DEF freeBuff, step
    <3>3. pc'[t] = next /\ \A u \in App : u # t => pc'[u] = pc[u]
      BY <3>2, OwnStep, Zenon
    <3>4. Len(arg[t]) = 1 /\ hd[t] = arg[t][1].owner /\ va[t] = arg[t][1].addr.va /\ hd[t] \in Handles
      BY <2>1, <3>1, Zenon DEF CallOK
    <3>5. ~Carries(t, h, v)' /\ (Carries(t, h, v) <=> hd[t] = h /\ va[t] = v)
      BY <3>1, <3>3, <3>4, Zenon DEF Carries
    <3>6. Kept(h, v)' = Kept(h, v) /\ (InJob(h, v)' <=> InJob(h, v))
      BY <3>1, Zenon DEF Kept, InJob
    <3>7. CASE ~(hd[t] = h /\ va[t] = v)
      <4>1. v \in mem'[h] <=> v \in mem[h]
        BY <2>1, <3>1, <3>7, Zenon DEF DataType
      <4> QED
        BY <3>1, <3>3, <3>5, <3>6, <3>7, <4>1, <1>OwnedMove, Zenon
    <3>8. CASE hd[t] = h /\ va[t] = v
      <4>1. v \notin mem'[h]
        BY <2>1, <3>1, <3>8, Zenon DEF DataType
      <4>2. t \in Carriers(h, v) /\ Carriers(h, v)' = Carriers(h, v) \ {t}
        BY <3>1, <3>3, <3>5, <3>8, <1>CarriersMove, Zenon DEF Carriers
      <4>3. Carriers(h, v)' = {} /\ Kept(h, v) = {} /\ <<h, v>> \notin plain /\ ~InJob(h, v)
        BY <4>2, Zenon DEF Owned
      <4> QED
        BY <3>1, <3>6, <4>1, <4>3, Zenon DEF Owned
    <3> QED
      BY <3>7, <3>8, Zenon
  <2> QED
    BY <2>2, <2>3, <2>4, <2>5, <2>6, <2>7, Zenon DEF Use
  \* veo_alloc_mem_async() and veo_free_mem_async() of process p: the address
  \* goes from the application to the job, or from the VE to the job and to the
  \* application.  The cases are the steps with address w.
<1>OwnedJob.
    ASSUME DataType, NEW p \in Handles, NEW w \in VA, NEW j \in Jobs, job' = [job EXCEPT ![p] = j],
           UNCHANGED <<hmem, pc, hd, va, arg>>, NEW h \in Handles, NEW v \in VA, Owned(h, v),
           \A u \in VA : u # w => (u \in mem'[p] <=> u \in mem[p]),
           \A k \in Handles : k # p => mem'[k] = mem[k],
           \A k \in Handles, u \in VA : ~(k = p /\ u = w) => (<<k, u>> \in plain' <=> <<k, u>> \in plain),
           \A u \in VA : u # w => ~InJob(p, u) /\ ~InJob(p, u)',
           \/ /\ <<p, w>> \in plain /\ w \in mem'[p] /\ w \in mem[p] /\ InJob(p, w)' /\ <<p, w>> \notin plain'
           \/ /\ w \notin mem[p] /\ w \in mem'[p]
              /\ ((InJob(p, w)' /\ <<p, w>> \notin plain') \/ (~InJob(p, w)' /\ <<p, w>> \in plain'))
           \/ /\ InJob(p, w) /\ w \notin mem'[p] /\ ~InJob(p, w)' /\ <<p, w>> \notin plain'
           \/ /\ InJob(p, w) /\ w \in mem'[p] /\ ~InJob(p, w)' /\ <<p, w>> \in plain'
    PROVE  Owned(h, v)'
  <2> USE <1>OwnedJob
  <2>1. Kept(h, v)' = Kept(h, v) /\ Carriers(h, v)' = Carriers(h, v)
    BY Zenon DEF Kept, Carriers, Carries
  <2>2. CASE h # p
    <3>1. job'[h] = job[h]
      BY <2>2, Zenon DEF DataType
    <3>2. InJob(h, v)' <=> InJob(h, v)
      BY <3>1, Zenon DEF InJob
    <3> QED
      BY <2>1, <2>2, <3>2, <1>OwnedSame, Zenon
  <2>3. CASE h = p /\ v # w
    BY <2>1, <2>3, <1>OwnedSame, Zenon
  <2>4. CASE h = p /\ v = w
    BY <2>1, <2>4, Zenon DEF Owned
  <2> QED
    BY <2>2, <2>3, <2>4, Zenon
  \* The job of p changes, but no address changes hands.
<1>OwnedQuietJob.
    ASSUME DataType, NEW p \in Handles, NEW j \in Jobs, job' = [job EXCEPT ![p] = j],
           UNCHANGED <<hmem, pc, hd, va, arg, mem, plain>>, NEW h \in Handles, NEW v \in VA, Owned(h, v),
           \A u \in VA : ~InJob(p, u), \A u \in VA : ~InJob(p, u)'
    PROVE  Owned(h, v)'
  <2> USE <1>OwnedQuietJob
  <2>1. Kept(h, v)' = Kept(h, v) /\ Carriers(h, v)' = Carriers(h, v)
    BY Zenon DEF Kept, Carriers, Carries
  <2>2. InJob(h, v)' <=> InJob(h, v)
    <3>1. CASE h # p
      BY <3>1, Zenon DEF InJob, DataType
    <3> QED
      BY <3>1, Zenon
  <2> QED
    BY <2>1, <2>2, <1>OwnedSame, Zenon
<1>OwnedCallAsync.
    ASSUME IInv, DataInv, NEW t \in App, veo_mem_async(t), NEW h \in Handles, NEW v \in VA,
           cpc = "no", ~stale, OwnerInv, alive(h)
    PROVE  Owned(h, v)'
  <2> USE <1>OwnedCallAsync
  <2>1. DataType /\ UNCHANGED <<mem, hmem, pc, hd, va, arg>> /\ Owned(h, v)
    BY Zenon DEF veo_mem_async, threadVars, DataInv, OwnerInv
  <2>2. PICK p \in Handles :
          /\ life[p] = "running" /\ job[p] = Jobless
          /\ \/ job' = [job EXCEPT ![p] = [op |-> "alloc", va |-> Null, st |-> "queued"]] /\ plain' = plain
             \/ \E w \in VA : /\ <<p, w>> \in plain
                              /\ job' = [job EXCEPT ![p] = [op |-> "free", va |-> w, st |-> "queued"]]
                              /\ plain' = plain \ {<<p, w>>}
    BY Zenon DEF veo_mem_async
  <2>3. \A u : ~InJob(p, u)
    BY <2>2 DEF InJob, Jobless
  <2>4. CASE job' = [job EXCEPT ![p] = [op |-> "alloc", va |-> Null, st |-> "queued"]] /\ plain' = plain
    <3> DEFINE j == [op |-> "alloc", va |-> Null, st |-> "queued"]
    <3>1. j \in Jobs
      BY Zenon DEF Jobs
    <3>2. job'[p] = j
      BY <2>1, <2>4, Zenon DEF DataType
    <3>3. \A u \in VA : ~InJob(p, u)'
      BY <3>2 DEF InJob
    <3> QED
      BY <2>1, <2>3, <2>4, <3>1, <3>3, <1>OwnedQuietJob, Zenon
  <2>5. ASSUME NEW w \in VA, <<p, w>> \in plain,
               job' = [job EXCEPT ![p] = [op |-> "free", va |-> w, st |-> "queued"]],
               plain' = plain \ {<<p, w>>}
        PROVE  Owned(h, v)'
    <3> DEFINE j == [op |-> "free", va |-> w, st |-> "queued"]
    <3>1. j \in Jobs
      BY Zenon DEF Jobs
    <3>2. job'[p] = j
      BY <2>1, <2>5, Zenon DEF DataType
    <3>3. InJob(p, w)' /\ \A u \in VA : u # w => ~InJob(p, u)'
      BY <3>2 DEF InJob
    <3>4. w \in mem[p]
      BY <2>2, <2>5, Zenon DEF OwnerInv, Owned, alive
    <3>5. \A k \in Handles, u \in VA : ~(k = p /\ u = w) => (<<k, u>> \in plain' <=> <<k, u>> \in plain)
      BY <2>5, Zenon
    <3> HIDE DEF j
    <3>6. <<p, w>> \notin plain' /\ job' = [job EXCEPT ![p] = j]
      BY <2>5, Zenon DEF j
    <3> QED
      BY <2>1, <2>3, <2>5, <3>1, <3>3, <3>4, <3>5, <3>6, <1>OwnedJob, Zenon
  <2> QED
    BY <2>2, <2>4, <2>5, Zenon
<1>OwnedProgress.
    ASSUME IInv, DataInv, NEW p \in Handles, ProgressThread(p), NEW h \in Handles, NEW v \in VA,
           cpc = "no", ~stale, OwnerInv, alive(h), alive(p)
    PROVE  Owned(h, v)'
  <2> USE <1>OwnedProgress
  <2>1. /\ DataType /\ UNCHANGED <<hmem, pc, hd, va, arg>> /\ Owned(h, v) /\ JobOK(p)
        /\ job[p] \in Jobs /\ Jobless \in Jobs
        /\ \A u \in VA : Owned(p, u)
    BY Zenon DEF ProgressThread, mem_async, hmem_async_hook, threadVars, DataInv, OwnerInv,
       DataType, Jobs, Jobless
  <2>2. ASSUME job' = [job EXCEPT ![p] = Jobless]
        PROVE  \A u : ~InJob(p, u)'
    <3>1. job'[p] = Jobless
      BY <2>1, <2>2, Zenon DEF DataType
    <3> QED
      BY <3>1 DEF InJob, Jobless
  <2>3. CASE mem_async(p) /\ job[p].op = "alloc"
    <3>1. job[p].st = "queued" /\ \A u : ~InJob(p, u)
      BY <2>3, Zenon DEF mem_async, InJob
    <3>2. CASE job' = [job EXCEPT ![p] = Jobless] /\ UNCHANGED <<mem, plain>>
      BY <2>1, <2>2, <3>1, <3>2, <1>OwnedQuietJob, Zenon
    <3>3. ASSUME NEW w \in VA \ mem[p], mem' = [mem EXCEPT ![p] = @ \cup {w}]
          PROVE  /\ w \in mem'[p] /\ \A u \in VA : u # w => (u \in mem'[p] <=> u \in mem[p])
                 /\ \A k \in Handles : k # p => mem'[k] = mem[k]
                 /\ <<p, w>> \notin plain
      BY <2>1, <3>3, Zenon DEF DataType, Owned
    <3>4. ASSUME NEW w \in VA \ mem[p], mem' = [mem EXCEPT ![p] = @ \cup {w}],
                 job' = [job EXCEPT ![p].st = "hook", ![p].va = w], plain' = plain
          PROVE  Owned(h, v)'
      <4> DEFINE j == [op |-> "alloc", va |-> w, st |-> "hook"]
      <4>1. [job[p] EXCEPT !.st = "hook", !.va = w] = j
        BY <2>1, <2>3, HookJob, Zenon
      <4>2. job' = [job EXCEPT ![p] = j] /\ j \in Jobs
        BY <2>1, <3>4, <4>1, Zenon DEF DataType, Jobs
      <4>3. job'[p] = j
        BY <2>1, <4>2, Zenon DEF DataType
      <4>4. InJob(p, w)' /\ \A u \in VA : u # w => ~InJob(p, u)'
        <5>1. job'[p].op = "alloc" /\ job'[p].st = "hook" /\ job'[p].va = w
          BY <4>3
        <5> QED
          BY <5>1, Zenon DEF InJob
      <4> HIDE DEF j
      <4> QED
        BY <2>1, <3>1, <3>3, <3>4, <4>2, <4>4, <1>OwnedJob, Zenon
    <3>5. ASSUME NEW w \in VA \ mem[p], mem' = [mem EXCEPT ![p] = @ \cup {w}],
                 job' = [job EXCEPT ![p] = Jobless], plain' = plain \cup {<<p, w>>}
          PROVE  Owned(h, v)'
      <4>1. /\ <<p, w>> \in plain'
            /\ \A k \in Handles, u \in VA : ~(k = p /\ u = w) => (<<k, u>> \in plain' <=> <<k, u>> \in plain)
        BY <3>5, Zenon
      <4> QED
        BY <2>1, <2>2, <3>1, <3>3, <3>5, <4>1, <1>OwnedJob, Zenon
    <3>6. \/ job' = [job EXCEPT ![p] = Jobless] /\ UNCHANGED <<mem, plain>>
          \/ \E w \in VA \ mem[p] :
               /\ mem' = [mem EXCEPT ![p] = @ \cup {w}]
               /\ \/ job' = [job EXCEPT ![p].st = "hook", ![p].va = w] /\ plain' = plain
                  \/ job' = [job EXCEPT ![p] = Jobless] /\ plain' = plain \cup {<<p, w>>}
      BY <2>3, Zenon DEF mem_async, finish
    <3> QED
      BY <3>2, <3>4, <3>5, <3>6, Zenon
  <2>4. CASE mem_async(p) /\ job[p].op # "alloc"
    <3>1. PICK w \in VA : job[p].st = "queued" /\ job[p].op = "free" /\ job[p].va = w
      BY <2>1, <2>4, Zenon DEF mem_async, JobOK
    <3>2. InJob(p, w) /\ \A u \in VA : u # w => ~InJob(p, u)
      BY <3>1, Zenon DEF InJob
    <3>3. mem' = [mem EXCEPT ![p] = @ \ {w}] /\ plain' = plain
      BY <2>4, <3>1, Zenon DEF mem_async, finish
    <3>4. /\ w \notin mem'[p] /\ \A u \in VA : u # w => (u \in mem'[p] <=> u \in mem[p])
          /\ \A k \in Handles : k # p => mem'[k] = mem[k]
          /\ <<p, w>> \notin plain
      BY <2>1, <3>2, <3>3, SMTT(30) DEF DataType, Owned
    <3>5. PICK j \in Jobs : job' = [job EXCEPT ![p] = j] /\ (j = Jobless \/ (j.op = "free" /\ j.st = "hook"))
      <4>1. CASE job' = [job EXCEPT ![p] = Jobless]
        BY <2>1, <4>1, Zenon
      <4>2. CASE job' = [job EXCEPT ![p].st = "hook", ![p].va = w]
        <5> DEFINE j == [op |-> "free", va |-> w, st |-> "hook"]
        <5>1. [job[p] EXCEPT !.st = "hook", !.va = w] = j
          BY <2>1, <3>1, HookJob, ZenonT(60)
        <5>2. job' = [job EXCEPT ![p] = j] /\ j \in Jobs
          BY <2>1, <4>2, <5>1, Zenon DEF DataType, Jobs
        <5> QED
          BY <5>2, Zenon
      <4> QED
        BY <2>4, <3>1, <4>1, <4>2, Zenon DEF mem_async, finish
    <3>6. job'[p] = j
      BY <2>1, <3>5, Zenon DEF DataType
    <3>7. \A u : ~InJob(p, u)'
      BY <3>5, <3>6 DEF InJob, Jobless
    <3> QED
      BY <2>1, <3>2, <3>3, <3>4, <3>5, <3>7, <1>OwnedJob, Zenon
  <2>5. CASE hmem_async_hook(p) /\ job[p].op = "alloc"
    <3>1. PICK w \in VA : job[p].st = "hook" /\ job[p].va = w
      BY <2>1, <2>5, Zenon DEF hmem_async_hook, JobOK
    <3>2. InJob(p, w) /\ \A u \in VA : u # w => ~InJob(p, u)
      BY <2>5, <3>1, Zenon DEF InJob
    <3>3. mem' = mem /\ plain' = plain \cup {<<p, w>>} /\ job' = [job EXCEPT ![p] = Jobless]
      BY <2>5, <3>1, Zenon DEF hmem_async_hook, finish
    <3>4. w \in mem'[p]
      BY <2>1, <3>2, <3>3, Zenon DEF Owned
    <3>5. /\ <<p, w>> \in plain'
          /\ \A k \in Handles, u \in VA : ~(k = p /\ u = w) => (<<k, u>> \in plain' <=> <<k, u>> \in plain)
      BY <3>3, Zenon
    <3> QED
      BY <2>1, <2>2, <3>2, <3>3, <3>4, <3>5, <1>OwnedJob, Zenon
  <2>6. CASE hmem_async_hook(p) /\ job[p].op # "alloc"
    <3>1. mem' = mem /\ plain' = plain /\ job' = [job EXCEPT ![p] = Jobless]
      BY <2>6, Zenon DEF hmem_async_hook, finish
    <3>2. \A u : ~InJob(p, u)
      BY <2>6, Zenon DEF hmem_async_hook, InJob
    <3> QED
      BY <2>1, <2>2, <3>1, <3>2, <1>OwnedQuietJob, Zenon
  <2> QED
    BY <2>3, <2>4, <2>5, <2>6, Zenon DEF ProgressThread
<1> SUFFICES ASSUME cpc' = "no", ~stale', NEW h \in Handles, NEW v \in VA, alive(h)'
             PROVE  Owned(h, v)'
  BY Zenon DEF OwnerInv
<1>1. /\ cpc = "no" /\ ~stale
      /\ UNCHANGED vars \/ (\E t \in App : Thread(t)) \/ (\E p \in Handles : ProgressThread(p))
  BY StillOpen, Zenon
<1>2. CASE ~alive(h)
  <2>1. PICK t \in App : register(t) /\ hd[t] = h
    BY <1>2, AliveStep, Zenon
  <2>2. hd' = hd
    BY <2>1, Zenon DEF register
  <2>3. Owned(hd[t], v)'
    BY <2>1, <1>OwnedRegister, Zenon
  <2> QED
    BY <2>1, <2>2, <2>3, Zenon DEF Owned, Kept, Carriers, Carries, InJob
<1>3. CASE alive(h)
  <2>1. Owned(h, v)
    BY <1>1, <1>3, Zenon DEF OwnerInv
  <2>2. CASE UNCHANGED vars
    <3>1. UNCHANGED <<pc, hd, va, arg, hmem, plain, mem, job>>
      BY <2>2, Zenon DEF vars, memVars, threadVars
    <3> QED
      BY <2>1, <3>1, <1>OwnedStill, Zenon
  <2>3. ASSUME NEW t \in App, Thread(t)
        PROVE  Owned(h, v)'
    BY <1>1, <1>3, <2>1, <2>3, <1>OwnedTable, <1>OwnedAlloc, <1>OwnedUse, <1>OwnedCallAsync, Zenon
       DEF Thread
  <2>4. ASSUME NEW p \in Handles, ProgressThread(p)
        PROVE  Owned(h, v)'
    <3>1. CASE alive(p)
      BY <1>1, <1>3, <2>4, <3>1, <1>OwnedProgress, Zenon
    <3>2. CASE ~alive(p)
      <4>1. hmem_async_hook(p) /\ h # p
        BY <1>3, <2>4, <3>2, Zenon DEF ProgressThread, mem_async
      <4>2. UNCHANGED <<hmem, pc, hd, va, arg, mem>> /\ job' = [job EXCEPT ![p] = Jobless]
            /\ plain' \in {plain, plain \cup {<<p, job[p].va>>}}
        BY <4>1, Zenon DEF hmem_async_hook, finish, threadVars
      <4>3. <<h, v>> \in plain' <=> <<h, v>> \in plain
        BY <4>1, <4>2, Zenon
      <4>4. job'[h] = job[h]
        BY <4>1, <4>2, Zenon DEF DataInv, DataType
      <4>5. Carriers(h, v)' = Carriers(h, v) /\ Kept(h, v)' = Kept(h, v) /\ (InJob(h, v)' <=> InJob(h, v))
        BY <4>2, <4>4, Zenon DEF Carriers, Carries, Kept, InJob
      <4> QED
        BY <2>1, <4>2, <4>3, <4>5, <1>OwnedSame, Zenon
    <3> QED
      BY <3>1, <3>2, Zenon
  <2> QED
    BY <1>1, <2>2, <2>3, <2>4, Zenon
<1> QED
  BY <1>2, <1>3, Zenon

-----------------------------------------------------------------------------
\* Every non-empty set of slots has a first one.
LEMMA FirstSlot == FirstFound
<1> SUFFICES ASSUME NEW S \in SUBSET Nat, S # {} PROVE First(S) \in S
  BY Zenon DEF FirstFound
<1> DEFINE R == {ss \in Nat \X Nat : ss[1] < ss[2]}
<1>1. IsWellFoundedOn(R, Nat)
  BY NatLessThanWellFounded, Zenon DEF OpToRel
<1> HIDE DEF R
<1>2. PICK i \in S : \A j \in S : ~(<<j, i>> \in R)
  BY <1>1, WFMin, Zenon
<1>3. \A j \in S : i <= j
  <2> SUFFICES ASSUME NEW j \in S PROVE i <= j
    BY Zenon
  <2>1. ~(j < i) /\ i \in Nat /\ j \in Nat
    BY <1>2, Zenon DEF R
  <2> QED
    BY <2>1
<1> QED
  BY <1>3, Zenon DEF First

\* The step of the invariant, its hypothesis discharged.
LEMMA StepInv == IInv /\ [Next]_vars => IInv'
  BY FirstSlot, NextInv, Zenon

\* The invariant holds in every reachable state.
LEMMA Invariant == Spec => []IInv
  BY InitInv, StepInv, PTL DEF Spec

\* A process whose constructor has ended and whose exitProc() has not is in
\* exactly one slot of the table, every other process in none, and only the
\* holder of __procs_mtx closes a process.
THEOREM TableAlwaysExact == Spec => []TableExact
<1>1. IInv => TableExact
  <2> SUFFICES ASSUME IInv PROVE TableExact
    BY Zenon
  <2>1. ASSUME NEW h \in Handles
        PROVE  Cardinality(Slots(h)) = IF alive(h) THEN 1 ELSE 0
    <3>1. h # Null
      BY ProcTableAssumption, Zenon
    <3>2. CASE alive(h)
      <4>1. PICK i \in 1 .. Len(procs) : procs[i] = h
        BY <3>2, Zenon DEF IInv, TableInv
      <4>2. Slots(h) = {i}
        BY <3>1, <4>1, Zenon DEF Slots, IInv, TableInv
      <4> QED
        BY <3>2, <4>2, FS_Singleton, Zenon
    <3>3. CASE ~alive(h)
      <4>1. Slots(h) = {}
        BY <3>1, <3>3, Zenon DEF Slots, IInv, TableInv
      <4> QED
        BY <3>3, <4>1, FS_EmptySet, Zenon
    <3> QED
      BY <3>2, <3>3, Zenon
  <2> QED
    BY <2>1, Zenon DEF TableExact, IInv, HolderInv
<1> QED
  BY <1>1, Invariant, PTL

\* An address from veo_alloc_hmem() leads getProcHandle() to the process that
\* owns the memory for as long as that process is in the table.
THEOREM AddressesResolve == Spec => []AddressResolves
<1>1. IInv => AddressResolves
  <2> SUFFICES ASSUME IInv, cpc = "no", NEW x \in hmem, x.owner # Null, alive(x.owner)
               PROVE  /\ IS_VE(x.addr) /\ GET_PROC_IDENT(x.addr) + 1 \in DOMAIN procs
                      /\ getProcHandle(GET_PROC_IDENT(x.addr)) = x.owner
    BY Zenon DEF AddressResolves
  <2>1. Form(x) /\ ResolvesIn(x, procs, life)
    BY Zenon DEF IInv, HmemInv
  <2>2. DOMAIN procs = 1 .. Len(procs)
    BY DEF IInv, TypeInv
  <2>3. life[x.owner] # "exited"
    BY Zenon DEF alive
  <2> QED
    BY <2>1, <2>2, <2>3, Zenon DEF Form, ResolvesIn, IS_VE, GET_PROC_IDENT, getProcHandle
<1> QED
  BY <1>1, Invariant, PTL

\* veo_free_hmem() and veo_hmemcpy() reach the VE process that owns the
\* memory, unless an owner was destroyed while the call was under way.
THEOREM OwnerAlwaysReached == Spec => []OwnerReached
<1>1. IInv => OwnerReached
  BY Zenon DEF IInv, ThreadInv, OwnerReached, Reached, Gone
<1> QED
  BY <1>1, Invariant, PTL

\* The identifier veo_proc_identifier() returns for a process does not change
\* from the end of its constructor until it leaves the table.
THEOREM IdentifiersStable == Spec => IdentifierStable
<1>1. ASSUME IInv, [Next]_vars, cpc = "no", NEW h \in Handles, getProcIdentifier(h) >= 0
      PROVE  getProcIdentifier(h)' \in {getProcIdentifier(h), -1}
  <2> DEFINE S == {i \in 1 .. Len(procs') : procs'[i] = h}
  <2>1. IInv'
    BY <1>1, StepInv, Zenon
  <2>2. getProcIdentifier(h)' = IF S = {} THEN -1 ELSE First(S) - 1
    BY Zenon DEF getProcIdentifier, Slots
  <2>3. CASE S = {}
    BY <2>2, <2>3, Zenon
  <2>4. CASE S # {}
    <3>1. S \subseteq Nat
      BY <2>1, TableElems DEF IInv, TypeInv
    <3>2. First(S) \in S
      BY <2>4, <3>1, FirstSlot, Zenon DEF FirstFound
    <3>3. getProcIdentifier(h) + 1 \in 1 .. Len(procs) /\ procs[getProcIdentifier(h) + 1] = h
      BY <1>1, IdentifierIsSlot, TableElems DEF IInv, TypeInv
    <3>4. alive(h)
      BY <3>3, <1>1, ProcTableAssumption, Zenon DEF IInv, TableInv
    <3>5. First(S) \in 1 .. Len(procs) /\ procs[First(S)] = h
      BY <1>1, <3>2, <3>4, SlotKept, FirstSlot, Zenon
    <3>6. getProcIdentifier(h) = First(S) - 1
      BY <1>1, <3>5, IdentifierIsSlot, Zenon
    <3> QED
      BY <2>2, <2>4, <3>6, Zenon
  <2> QED
    BY <2>3, <2>4, Zenon
<1>2. IInv /\ [Next]_vars =>
        [cpc = "no" => \A h \in Handles : getProcIdentifier(h) >= 0 =>
           getProcIdentifier(h)' \in {getProcIdentifier(h), -1}]_vars
  BY <1>1, Zenon
<1> QED
  BY <1>2, Invariant, PTL DEF Spec, IdentifierStable

\* Every variable of the table and of the memory stays in its type, for any
\* number of processes, threads, addresses and identifiers: veo_alloc_hmem()
\* never builds an address with an identifier out of range, and no lookup
\* leaves the table.
THEOREM MemoryTypes == Spec => []TypeOK
<1>1. Init => IInv /\ DataInv
  BY InitInv, DataInit, Zenon
<1>2. IInv /\ DataInv /\ [Next]_vars => IInv' /\ DataInv'
  BY StepInv, DataNext, Zenon
<1>3. IInv /\ DataInv => TypeOK
  BY Zenon DEF IInv, TypeInv, DataInv, DataType, TypeOK, Idents, Args, Jobs
<1> QED
  BY <1>1, <1>2, <1>3, PTL DEF Spec

\* _cleanup_procs() ends with no process alive, however many processes the
\* table holds and whichever slots are empty, although it erases from the
\* vector while it iterates: everything below the iterator is empty.
THEOREM CleanupLeavesNone == Spec => []NoneLeft
<1>1. Init => IInv /\ SweepInv
  BY InitInv, Zenon DEF Init, SweepInv
<1>2. IInv /\ SweepInv /\ [Next]_vars => IInv' /\ SweepInv'
  BY StepInv, SweepNext, Zenon
<1>3. IInv /\ SweepInv => NoneLeft
  <2> SUFFICES ASSUME IInv, SweepInv, cpc = "done", NEW h \in Handles, alive(h) PROVE FALSE
    BY Zenon DEF NoneLeft
  <2>1. PICK i \in 1 .. Len(procs) : procs[i] = h
    BY Zenon DEF IInv, TableInv
  <2>2. Len(procs) \in Nat /\ it \in Nat /\ it > Len(procs)
    BY TableElems, Zenon DEF IInv, TypeInv, SweepInv
  <2>3. procs[i] = Null
    BY <2>2 DEF SweepInv
  <2> QED
    BY <2>1, <2>3, ProcTableAssumption, Zenon
<1> QED
  BY <1>1, <1>2, <1>3, PTL DEF Spec

\* No memory of a running VE process is lost: whatever is allocated there is
\* known to the application or in the hands of a call or of a job, for any
\* number of threads, processes and calls, as long as no address was used after
\* its process was destroyed.  The invariant is exact: an address is
\* allocated if and only if somebody holds it, and it has only one holder.
THEOREM MemoryAlwaysKnown == Spec => []MemoryKnown
<1>1. Init => IInv /\ DataInv /\ OwnerInv
  BY InitInv, DataInit, Zenon DEF Init, OwnerInv, alive
<1>2. IInv /\ DataInv /\ OwnerInv /\ [Next]_vars => IInv' /\ DataInv' /\ OwnerInv'
  BY StepInv, DataNext, OwnerNext, Zenon
<1>3. OwnerInv => MemoryKnown
  BY SMTT(30) DEF OwnerInv, MemoryKnown, Owned, Kept, Carriers, Carries, InJob
<1> QED
  BY <1>1, <1>2, <1>3, PTL DEF Spec

-----------------------------------------------------------------------------
(***************************************************************************)
(* What the hooks are told, from step to step.                             *)
(***************************************************************************)
Telling(t, s, h, v) == IF pc[t] = s /\ hd[t] = h /\ va[t] = v THEN 1 ELSE 0

\* Every step keeps what the hooks were told in line with what is allocated.
LEMMA BalanceNext ==
  ASSUME IInv, DataInv, OwnerInv, BalanceInv, [Next]_vars
  PROVE  BalanceInv'
  \* Only thread t moves: the threads that are still to call a hook.
<1>TellMove.
    ASSUME NEW t \in App, NEW s, NEW h \in Handles, NEW v \in VA,
           \A u \in App : u # t => pc'[u] = pc[u] /\ hd'[u] = hd[u] /\ va'[u] = va[u]
    PROVE  /\ Cardinality(ToTell(s, h, v)) \in Nat /\ Cardinality(ToTell(s, h, v)') \in Nat
           /\ Cardinality(ToTell(s, h, v)') + Telling(t, s, h, v)
                = Cardinality(ToTell(s, h, v)) + Telling(t, s, h, v)'
  <2> USE <1>TellMove
  <2> DEFINE S == ToTell(s, h, v)
             R == {u \in App : u # t /\ pc[u] = s /\ hd[u] = h /\ va[u] = v}
             T == ToTell(s, h, v)'
  <2>1. R \subseteq App /\ t \notin R
    BY Zenon
  <2>2. IsFiniteSet(R)
    BY <2>1, FS_Subset, ProcTableAssumption, Zenon
  <2>3. /\ (Telling(t, s, h, v) = 1 /\ S = R \cup {t}) \/ (Telling(t, s, h, v) = 0 /\ S = R)
        /\ (Telling(t, s, h, v)' = 1 /\ T = R \cup {t}) \/ (Telling(t, s, h, v)' = 0 /\ T = R)
    <3>1. (Telling(t, s, h, v) = 1 /\ S = R \cup {t}) \/ (Telling(t, s, h, v) = 0 /\ S = R)
      BY Zenon DEF Telling, ToTell
    <3>2. T = {u \in App : pc'[u] = s /\ hd'[u] = h /\ va'[u] = v}
      BY Zenon DEF ToTell
    <3>3. \A u : u \in T \ {t} <=> u \in R
      BY <3>2, Zenon
    <3>4. t \in T <=> pc'[t] = s /\ hd'[t] = h /\ va'[t] = v
      BY <3>2, Zenon
    <3> HIDE DEF T, R
    <3>5. (Telling(t, s, h, v)' = 1 /\ T = R \cup {t}) \/ (Telling(t, s, h, v)' = 0 /\ T = R)
      BY <2>1, <3>3, <3>4, Zenon DEF Telling
    <3> QED
      BY <3>1, <3>5, Zenon
  <2> HIDE DEF S, R, T
  <2>4. Cardinality(R) \in Nat /\ Cardinality(R \cup {t}) = Cardinality(R) + 1
    BY <2>1, <2>2, FS_AddElement, FS_CardinalityType, Zenon
  <2>5. Cardinality(S) = Cardinality(R) + Telling(t, s, h, v) /\ Telling(t, s, h, v) \in Nat
    <3>1. CASE Telling(t, s, h, v) = 1 /\ S = R \cup {t}
      BY <2>4, <3>1
    <3>2. CASE Telling(t, s, h, v) = 0 /\ S = R
      BY <2>4, <3>2
    <3> QED
      BY <2>3, <3>1, <3>2, Zenon
  <2>6. Cardinality(T) = Cardinality(R) + Telling(t, s, h, v)' /\ Telling(t, s, h, v)' \in Nat
    <3>1. CASE Telling(t, s, h, v)' = 1 /\ T = R \cup {t}
      BY <2>4, <3>1
    <3>2. CASE Telling(t, s, h, v)' = 0 /\ T = R
      BY <2>4, <3>2
    <3> QED
      BY <2>3, <3>1, <3>2, Zenon
  <2>7. /\ Cardinality(S) \in Nat /\ Cardinality(T) \in Nat
        /\ Cardinality(T) + Telling(t, s, h, v) = Cardinality(S) + Telling(t, s, h, v)'
    BY <2>4, <2>5, <2>6
  <2> QED
    BY <2>7, Zenon DEF S, T
  \* The identifier of a process does not change while it is in the table.
<1>SameIdentifier.
    ASSUME IInv, [Next]_vars, cpc = "no", NEW h \in Handles, alive(h), alive(h)'
    PROVE  getProcIdentifier(h)' = getProcIdentifier(h)
  <2> USE <1>SameIdentifier
  <2> DEFINE S == {i \in 1 .. Len(procs') : procs'[i] = h}
  <2>1. IInv'
    BY StepInv, Zenon
  <2>2. getProcIdentifier(h)' = IF S = {} THEN -1 ELSE First(S) - 1
    BY Zenon DEF getProcIdentifier, Slots
  <2>3. S # {}
    BY <2>1, Zenon DEF IInv, TableInv
  <2>4. S \subseteq Nat
    BY <2>1, TableElems DEF IInv, TypeInv
  <2>5. First(S) \in S
    BY <2>3, <2>4, FirstSlot, Zenon DEF FirstFound
  <2>6. First(S) \in 1 .. Len(procs) /\ procs[First(S)] = h
    BY <2>5, SlotKept, FirstSlot, Zenon
  <2>7. getProcIdentifier(h) = First(S) - 1
    BY <2>6, IdentifierIsSlot, Zenon
  <2> QED
    BY <2>2, <2>3, <2>7, Zenon
  \* The count goes with the balance.
<1>BalanceMove.
    ASSUME NEW h \in Handles, NEW v \in VA, Balanced(h, v), NEW d \in Int,
           getProcIdentifier(h)' = getProcIdentifier(h),
           \A i \in Idents : /\ told[<<h, i, v>>] \in Int
                             /\ told'[<<h, i, v>>] = told[<<h, i, v>>] + (IF i = getProcIdentifier(h) THEN d ELSE 0),
           Balance(h, v) \in Int, Balance(h, v)' = Balance(h, v) + d
    PROVE  Balanced(h, v)'
  <2> USE <1>BalanceMove
  <2> SUFFICES ASSUME NEW i \in Idents
               PROVE  told'[<<h, i, v>>] = IF getProcIdentifier(h)' # i THEN 0 ELSE Balance(h, v)'
    BY Zenon DEF Balanced
  <2>1. told[<<h, i, v>>] = IF getProcIdentifier(h) # i THEN 0 ELSE Balance(h, v)
    BY Zenon DEF Balanced
  <2> QED
    BY <2>1
<1>BalanceKept.
    ASSUME NEW h \in Handles, NEW v \in VA, Balanced(h, v), told' = told,
           getProcIdentifier(h)' = getProcIdentifier(h), Balance(h, v)' = Balance(h, v)
    PROVE  Balanced(h, v)'
  BY <1>BalanceKept, Zenon DEF Balanced
  \* A step of thread t changes the balance by what it does to the memory and
  \* to the hooks it is still to call.
<1>BalanceStep.
    ASSUME NEW t \in App, NEW h \in Handles, NEW v \in VA,
           \A u \in App : u # t => pc'[u] = pc[u] /\ hd'[u] = hd[u] /\ va'[u] = va[u],
           \A op \in {"alloc", "free"} : Async(op, h, v)' = Async(op, h, v)
    PROVE  /\ Balance(h, v) \in Int
           /\ Balance(h, v)' = Balance(h, v)
                + ((IF v \in mem'[h] THEN 1 ELSE 0) - (IF v \in mem[h] THEN 1 ELSE 0))
                + (Telling(t, "freehook", h, v)' - Telling(t, "freehook", h, v))
                - (Telling(t, "allochook", h, v)' - Telling(t, "allochook", h, v))
  <2> USE <1>BalanceStep
  <2>1. \A op \in {"alloc", "free"} : Async(op, h, v)' = Async(op, h, v) /\ Async(op, h, v) \in Int
    BY DEF Async
  <2>2. \A s \in {"freehook", "allochook"} : Telling(t, s, h, v) \in Int /\ Telling(t, s, h, v)' \in Int
    BY DEF Telling
  <2>3. /\ Cardinality(ToTell("freehook", h, v)) \in Nat /\ Cardinality(ToTell("freehook", h, v)') \in Nat
        /\ Cardinality(ToTell("freehook", h, v)') + Telling(t, "freehook", h, v)
             = Cardinality(ToTell("freehook", h, v)) + Telling(t, "freehook", h, v)'
    BY <1>TellMove, Zenon
  <2>4. /\ Cardinality(ToTell("allochook", h, v)) \in Nat /\ Cardinality(ToTell("allochook", h, v)') \in Nat
        /\ Cardinality(ToTell("allochook", h, v)') + Telling(t, "allochook", h, v)
             = Cardinality(ToTell("allochook", h, v)) + Telling(t, "allochook", h, v)'
    BY <1>TellMove, Zenon
  <2>5. Balance(h, v)' = (IF v \in mem'[h] THEN 1 ELSE 0) + Cardinality(ToTell("freehook", h, v)')
          + Async("free", h, v)' - Cardinality(ToTell("allochook", h, v)') - Async("alloc", h, v)'
    BY Zenon DEF Balance
  <2> QED
    BY <2>1, <2>2, <2>3, <2>4, <2>5, SMTT(30) DEF Balance
<1>HooksStay.
    ASSUME [Next]_vars
    PROVE  hooks' = hooks
  <2> USE <1>HooksStay
  <2>1. CASE UNCHANGED vars
    BY <2>1, Zenon DEF vars
  <2>2. ASSUME NEW t \in App, Create(t) \/ Destroy(t) \/ veo_mem_async(t) PROVE hooks' = hooks
    BY <2>2, Zenon DEF Create, ProcHandle, register, Destroy, veo_proc_destroy, exitProc,
       exitProcReturn, veo_mem_async
  <2>3. ASSUME NEW t \in App, Alloc(t) PROVE hooks' = hooks
    BY <2>3, Zenon DEF Alloc, veo_alloc_hmem, veo_alloc_hmem_vh, allocBuff, _alloc_hmem_hook,
       veo_alloc_hmem_ident
  <2>4. ASSUME NEW t \in App, Use(t) PROVE hooks' = hooks
    BY <2>4, Zenon DEF Use, veo_free_hmem, veo_hmemcpy, look, look2, copy, freeBuff, _free_hmem_hook
  <2>5. ASSUME NEW p \in Handles, ProgressThread(p) PROVE hooks' = hooks
    BY <2>5, Zenon DEF ProgressThread, mem_async, hmem_async_hook
  <2>6. CASE Cleanup
    BY <2>6, Zenon DEF Cleanup, cleanup_start, cleanup_loop, cleanup_closing, cleanup_erase
  <2> QED
    BY <2>1, <2>2, <2>3, <2>4, <2>5, <2>6, Zenon DEF Next, Thread
  \* Thread t moves, but neither calls a hook nor is to call one.
<1>BalancedQuiet.
    ASSUME IInv, DataType, [Next]_vars, cpc = "no", NEW t \in App, NEW h \in Handles, NEW v \in VA,
           Balanced(h, v), alive(h), alive(h)', told' = told, v \in mem'[h] <=> v \in mem[h],
           \A u \in App : u # t => pc'[u] = pc[u] /\ hd'[u] = hd[u] /\ va'[u] = va[u],
           pc[t] \notin {"allochook", "freehook"}, pc'[t] \notin {"allochook", "freehook"},
           \A op \in {"alloc", "free"} : Async(op, h, v)' = Async(op, h, v)
    PROVE  Balanced(h, v)'
  <2> USE <1>BalancedQuiet
  <2>1. \A s \in {"freehook", "allochook"} : Telling(t, s, h, v) = 0 /\ Telling(t, s, h, v)' = 0
    BY Zenon DEF Telling
  <2>2. Balance(h, v)' = Balance(h, v)
    BY <2>1, <1>BalanceStep, SMTT(30)
  <2>3. getProcIdentifier(h)' = getProcIdentifier(h)
    BY <1>SameIdentifier, Zenon
  <2> QED
    BY <2>2, <2>3, <1>BalanceKept, Zenon
  \* The steps of a call that leave the hooks alone.
<1>BalancedCalls.
    ASSUME IInv, DataInv, [Next]_vars, cpc = "no", NEW t \in App, NEW h \in Handles, NEW v \in VA,
           Balanced(h, v), alive(h), alive(h)', Thread(t),
           ~allocBuff(t), ~_alloc_hmem_hook(t), ~freeBuff(t), ~_free_hmem_hook(t)
    PROVE  Balanced(h, v)'
  <2> USE <1>BalancedCalls
  <2>1. /\ DataType /\ hd \in [App -> Handles \cup {Null}] /\ va \in [App -> VA \cup {Null}]
        /\ pc \in [App -> Pcs] /\ job \in [Handles -> Jobs] /\ mem \in [Handles -> SUBSET VA]
        /\ life \in [Handles -> Lives]
    BY Zenon DEF DataInv, DataType, IInv, TypeInv
  <2>2. ASSUME told' = told, mem'[h] = mem[h], job'[h] = job[h],
               \A u \in App : u # t => pc'[u] = pc[u] /\ hd'[u] = hd[u] /\ va'[u] = va[u],
               pc[t] \notin {"allochook", "freehook"}, pc'[t] \notin {"allochook", "freehook"}
        PROVE  Balanced(h, v)'
    <3>1. \A op \in {"alloc", "free"} : Async(op, h, v)' = Async(op, h, v)
      BY <2>2, Zenon DEF Async
    <3> QED
      BY <2>1, <2>2, <3>1, <1>BalancedQuiet, Zenon
  <2>3. CASE Create(t) \/ veo_proc_destroy(t) \/ exitProc(t)
    <3>1. UNCHANGED <<told, mem, job, va>>
      BY <2>3, Zenon DEF Create, ProcHandle, register, veo_proc_destroy, exitProc, memVars
    <3>2. /\ \A u \in App : u # t => pc'[u] = pc[u] /\ hd'[u] = hd[u]
          /\ pc[t] \notin {"allochook", "freehook"} /\ pc'[t] \notin {"allochook", "freehook"}
      BY <2>1, <2>3, Zenon DEF Create, ProcHandle, register, veo_proc_destroy, exitProc, step, call
    <3> QED
      BY <2>2, <3>1, <3>2, Zenon
  <2>4. CASE exitProcReturn(t)
    <3>1. /\ UNCHANGED <<told, hd, va>> /\ pc[t] = "closing" /\ pc' = [pc EXCEPT ![t] = "idle"]
          /\ mem' = [mem EXCEPT ![hd[t]] = {}] /\ job' = [job EXCEPT ![hd[t]] = Jobless]
          /\ life' = [life EXCEPT ![hd[t]] = "exited"]
      BY <2>4, Zenon DEF exitProcReturn, exitProcEnd, step
    <3>2. h # hd[t]
      BY <2>1, <3>1, Zenon DEF alive
    <3>3. mem'[h] = mem[h] /\ job'[h] = job[h]
      BY <2>1, <3>1, <3>2, Zenon
    <3> QED
      BY <2>1, <2>2, <3>1, <3>3, Zenon
  <2>5. CASE veo_alloc_hmem(t) \/ veo_alloc_hmem_vh(t) \/ veo_alloc_hmem_ident(t)
    <3>1. UNCHANGED <<told, mem, job, va>>
      BY <2>5, Zenon DEF veo_alloc_hmem, veo_alloc_hmem_vh, veo_alloc_hmem_ident, memVars,
         threadVars
    <3>2. /\ \A u \in App : u # t => pc'[u] = pc[u] /\ hd'[u] = hd[u]
          /\ pc[t] \notin {"allochook", "freehook"} /\ pc'[t] \notin {"allochook", "freehook"}
      BY <2>1, <2>5, Zenon DEF veo_alloc_hmem, veo_alloc_hmem_vh, veo_alloc_hmem_ident, step,
         call, threadVars
    <3> QED
      BY <2>2, <3>1, <3>2, Zenon
  <2>6. CASE veo_free_hmem(t) \/ veo_hmemcpy(t) \/ look(t) \/ look2(t) \/ copy(t)
    <3>1. UNCHANGED <<told, mem, job>>
      BY <2>6, Zenon DEF veo_free_hmem, veo_hmemcpy, look, look2, copy, memVars
    <3>2. /\ \A u \in App : u # t => pc'[u] = pc[u] /\ hd'[u] = hd[u] /\ va'[u] = va[u]
          /\ pc[t] \notin {"allochook", "freehook"} /\ pc'[t] \notin {"allochook", "freehook"}
      BY <2>1, <2>6, Zenon DEF veo_free_hmem, veo_hmemcpy, look, look2, copy, resolve, step, call
    <3> QED
      BY <2>2, <3>1, <3>2, Zenon
  <2>7. CASE veo_mem_async(t)
    <3>1. UNCHANGED <<told, mem, pc, hd, va>> /\ pc[t] = "idle"
      BY <2>7, Zenon DEF veo_mem_async, threadVars, call
    <3>2. PICK p \in Handles, j \in Jobs :
            job[p] = Jobless /\ job' = [job EXCEPT ![p] = j] /\ j.st = "queued"
      <4>1. [op |-> "alloc", va |-> Null, st |-> "queued"] \in Jobs
            /\ \A w \in VA : [op |-> "free", va |-> w, st |-> "queued"] \in Jobs
        BY Zenon DEF Jobs
      <4> QED
        BY <2>7, <4>1, Zenon DEF veo_mem_async
    <3>3. \A op \in {"alloc", "free"} : Async(op, h, v)' = Async(op, h, v)
      <4>1. CASE h # p
        <5>1. job'[h] = job[h]
          BY <2>1, <3>2, <4>1, Zenon
        <5> QED
          BY <5>1, Zenon DEF Async
      <4>2. CASE h = p
        <5>1. job[h].st = "idle" /\ job'[h].st = "queued"
          BY <2>1, <3>2, <4>2 DEF Jobless
        <5> QED
          BY <5>1, Zenon DEF Async
      <4> QED
        BY <4>1, <4>2, Zenon
    <3> QED
      BY <2>1, <3>1, <3>3, <1>BalancedQuiet, Zenon
  <2> QED
    BY <2>3, <2>4, <2>5, <2>6, <2>7, Zenon DEF Thread, Destroy, Alloc, Use
  \* allocBuff(), freeBuff() and the calls of the hooks that follow them.
<1>BalancedHooks.
    ASSUME IInv, DataInv, OwnerInv, [Next]_vars, cpc = "no", ~stale, hooks,
           NEW t \in App, NEW h \in Handles, NEW v \in VA, Balanced(h, v), alive(h), alive(h)',
           allocBuff(t) \/ _alloc_hmem_hook(t) \/ freeBuff(t) \/ _free_hmem_hook(t)
    PROVE  Balanced(h, v)'
  <2> USE <1>BalancedHooks
  <2>1. /\ DataType /\ CallOK(t) /\ va \in [App -> VA \cup {Null}] /\ mem \in [Handles -> SUBSET VA]
        /\ told \in [Handles \X Idents \X VA -> Int] /\ UNCHANGED <<hd, job>>
    BY Zenon DEF DataInv, DataType, allocBuff, _alloc_hmem_hook, freeBuff, _free_hmem_hook
  <2>2. \A op \in {"alloc", "free"} : Async(op, h, v)' = Async(op, h, v)
    BY <2>1, Zenon DEF Async
  <2>3. getProcIdentifier(h)' = getProcIdentifier(h)
    BY <1>SameIdentifier, Zenon
  <2>4. ASSUME told' = told, Balance(h, v)' = Balance(h, v)
        PROVE  Balanced(h, v)'
    BY <2>3, <2>4, <1>BalanceKept, Zenon
  <2>5. ASSUME NEW d \in {1, -1}, hd[t] \in Handles, va[t] \in VA, tell(hd[t], va[t], d),
               Balance(h, v) \in Int,
               Balance(h, v)' = Balance(h, v) + IF hd[t] = h /\ va[t] = v THEN d ELSE 0
        PROVE  Balanced(h, v)'
    <3> DEFINE e == IF hd[t] = h /\ va[t] = v THEN d ELSE 0
    <3>1. e \in Int /\ d \in Int
      OBVIOUS
    <3>2. \A i \in Idents : told'[<<h, i, v>>] = told[<<h, i, v>>] +
            (IF h = hd[t] /\ v = va[t] /\ i = getProcIdentifier(hd[t]) THEN d ELSE 0)
      BY <2>1, <2>5, <3>1, ToldStep
    <3>3. \A i \in Idents : told[<<h, i, v>>] \in Int
      BY <2>1, Zenon
    <3>4. \A i \in Idents : told'[<<h, i, v>>] = told[<<h, i, v>>] + (IF i = getProcIdentifier(h) THEN e ELSE 0)
      <4>1. CASE hd[t] = h /\ va[t] = v
        BY <3>2, <4>1, Zenon
      <4>2. CASE ~(hd[t] = h /\ va[t] = v)
        BY <3>2, <4>2, Zenon
      <4> QED
        BY <4>1, <4>2, Zenon
    <3>5. Balance(h, v)' = Balance(h, v) + e
      BY <2>5, Zenon
    <3> HIDE DEF e
    <3> QED
      BY <2>3, <2>5, <3>1, <3>3, <3>4, <3>5, <1>BalanceMove, Zenon
  <2>6. CASE allocBuff(t)
    <3>1. told' = told /\ pc[t] = "alloc"
      BY <2>6, Zenon DEF allocBuff
    <3>2. CASE pc' = [pc EXCEPT ![t] = "idle"] /\ UNCHANGED <<mem, va>>
      <4>1. pc'[t] = "idle" /\ \A u \in App : u # t => pc'[u] = pc[u]
        BY <3>2, OwnStep, Zenon
      <4> QED
        BY <2>1, <2>2, <3>1, <3>2, <4>1, <1>BalancedQuiet, Zenon
    <3>3. ASSUME NEW w \in VA \ mem[hd[t]],
                 mem' = [mem EXCEPT ![hd[t]] = @ \cup {w}], va' = [va EXCEPT ![t] = w],
                 pc' = [pc EXCEPT ![t] = "allochook"]
          PROVE  Balanced(h, v)'
      <4>1. /\ pc'[t] = "allochook" /\ va'[t] = w
            /\ \A u \in App : u # t => pc'[u] = pc[u] /\ va'[u] = va[u]
        BY <2>1, <3>3, OwnStep, Zenon
      <4>2. /\ Telling(t, "freehook", h, v) = 0 /\ Telling(t, "freehook", h, v)' = 0
            /\ Telling(t, "allochook", h, v) = 0
            /\ Telling(t, "allochook", h, v)' = IF hd[t] = h /\ w = v THEN 1 ELSE 0
        BY <2>1, <3>1, <4>1, Zenon DEF Telling
      <4>3. (IF v \in mem'[h] THEN 1 ELSE 0) - (IF v \in mem[h] THEN 1 ELSE 0)
              = IF hd[t] = h /\ w = v THEN 1 ELSE 0
        BY <2>1, <3>3
      <4>4. Balance(h, v) \in Int /\ Balance(h, v)' = Balance(h, v)
        BY <2>1, <2>2, <4>1, <4>2, <4>3, <1>BalanceStep, SMTT(30)
      <4> QED
        BY <2>4, <3>1, <4>4, Zenon
    <3> QED
      BY <2>6, <3>2, <3>3, Zenon DEF allocBuff, step
  <2>7. CASE freeBuff(t)
    <3>1. /\ told' = told /\ va' = va /\ pc[t] = "free" /\ pc' = [pc EXCEPT ![t] = "freehook"]
          /\ mem' = [mem EXCEPT ![hd[t]] = @ \ {va[t]}]
      BY <2>7, Zenon DEF freeBuff, step
    <3>2. pc'[t] = "freehook" /\ \A u \in App : u # t => pc'[u] = pc[u]
      BY <3>1, OwnStep, Zenon
    <3>3. hd[t] \in Handles /\ va[t] \in VA /\ Len(arg[t]) = 1 /\ hd[t] = arg[t][1].owner /\ va[t] = arg[t][1].addr.va
      BY <2>1, <3>1, Zenon DEF CallOK
    <3>4. hd[t] = h /\ va[t] = v => v \in mem[h]
      <4>1. Owned(h, v)
        BY Zenon DEF OwnerInv
      <4>2. hd[t] = h /\ va[t] = v => t \in Carriers(h, v)
        BY <3>1, <3>3, Zenon DEF Carriers, Carries
      <4> QED
        BY <4>1, <4>2, Zenon DEF Owned
    <3>5. /\ Telling(t, "allochook", h, v) = 0 /\ Telling(t, "allochook", h, v)' = 0
          /\ Telling(t, "freehook", h, v) = 0
          /\ Telling(t, "freehook", h, v)' = IF hd[t] = h /\ va[t] = v THEN 1 ELSE 0
      BY <2>1, <3>1, <3>2, Zenon DEF Telling
    <3>6. (IF v \in mem'[h] THEN 1 ELSE 0) - (IF v \in mem[h] THEN 1 ELSE 0)
            = IF hd[t] = h /\ va[t] = v THEN -1 ELSE 0
      BY <2>1, <3>1, <3>4
    <3>7. Balance(h, v) \in Int /\ Balance(h, v)' = Balance(h, v)
      BY <2>1, <2>2, <3>1, <3>2, <3>5, <3>6, <1>BalanceStep, SMTT(30)
    <3> QED
      BY <2>4, <3>1, <3>7, Zenon
  <2>8. CASE _alloc_hmem_hook(t)
    <3>1. /\ mem' = mem /\ va' = va /\ pc[t] = "allochook" /\ pc' = [pc EXCEPT ![t] = "ident"]
          /\ tell(hd[t], va[t], 1)
      BY <2>8, Zenon DEF _alloc_hmem_hook, step
    <3>2. pc'[t] = "ident" /\ \A u \in App : u # t => pc'[u] = pc[u]
      BY <3>1, OwnStep, Zenon
    <3>3. hd[t] \in Handles /\ va[t] \in VA
      BY <2>1, <3>1, Zenon DEF CallOK, IInv, ThreadInv
    <3>4. /\ Telling(t, "freehook", h, v) = 0 /\ Telling(t, "freehook", h, v)' = 0
          /\ Telling(t, "allochook", h, v)' = 0
          /\ Telling(t, "allochook", h, v) = IF hd[t] = h /\ va[t] = v THEN 1 ELSE 0
      BY <3>1, <3>2, Zenon DEF Telling
    <3>5. Balance(h, v) \in Int /\ Balance(h, v)' = Balance(h, v) + IF hd[t] = h /\ va[t] = v THEN 1 ELSE 0
      BY <2>1, <2>2, <3>1, <3>2, <3>4, <1>BalanceStep
    <3> QED
      BY <2>5, <3>1, <3>3, <3>5, Zenon
  <2>9. CASE _free_hmem_hook(t)
    <3>1. /\ mem' = mem /\ va' = va /\ pc[t] = "freehook" /\ pc' = [pc EXCEPT ![t] = "idle"]
          /\ tell(hd[t], va[t], -1)
      BY <2>9, Zenon DEF _free_hmem_hook, step
    <3>2. pc'[t] = "idle" /\ \A u \in App : u # t => pc'[u] = pc[u]
      BY <3>1, OwnStep, Zenon
    <3>3. hd[t] \in Handles /\ va[t] \in VA
      BY <2>1, <3>1, Zenon DEF CallOK
    <3>4. /\ Telling(t, "allochook", h, v) = 0 /\ Telling(t, "allochook", h, v)' = 0
          /\ Telling(t, "freehook", h, v)' = 0
          /\ Telling(t, "freehook", h, v) = IF hd[t] = h /\ va[t] = v THEN 1 ELSE 0
      BY <3>1, <3>2, Zenon DEF Telling
    <3>5. Balance(h, v) \in Int /\ Balance(h, v)' = Balance(h, v) + IF hd[t] = h /\ va[t] = v THEN -1 ELSE 0
      BY <2>1, <2>2, <3>1, <3>2, <3>4, <1>BalanceStep
    <3> QED
      BY <2>5, <3>1, <3>3, <3>5, Zenon
  <2> QED
    BY <2>6, <2>7, <2>8, <2>9, Zenon
  \* A step of the progress thread changes the balance by what it does to the
  \* memory and by the hook that its job is still to call.
<1>BalanceJob.
    ASSUME NEW h \in Handles, NEW v \in VA, UNCHANGED <<pc, hd, va>>
    PROVE  /\ Balance(h, v) \in Int
           /\ Balance(h, v)' = Balance(h, v)
                + ((IF v \in mem'[h] THEN 1 ELSE 0) - (IF v \in mem[h] THEN 1 ELSE 0))
                + (Async("free", h, v)' - Async("free", h, v))
                - (Async("alloc", h, v)' - Async("alloc", h, v))
  <2> USE <1>BalanceJob
  <2>1. \A op \in {"alloc", "free"} : Async(op, h, v)' \in Int /\ Async(op, h, v) \in Int
    BY DEF Async
  <2>2. \A s \in {"freehook", "allochook"} :
          ToTell(s, h, v)' = ToTell(s, h, v) /\ Cardinality(ToTell(s, h, v)) \in Nat
    <3> SUFFICES ASSUME NEW s \in {"freehook", "allochook"}
                 PROVE  ToTell(s, h, v)' = ToTell(s, h, v) /\ Cardinality(ToTell(s, h, v)) \in Nat
      BY Zenon
    <3>1. ToTell(s, h, v) \subseteq App
      BY Zenon DEF ToTell
    <3>2. IsFiniteSet(ToTell(s, h, v))
      BY <3>1, FS_Subset, ProcTableAssumption, Zenon
    <3>3. ToTell(s, h, v)' = ToTell(s, h, v)
      BY Zenon DEF ToTell
    <3> QED
      BY <3>2, <3>3, FS_CardinalityType, Zenon
  <2>3. Balance(h, v)' = (IF v \in mem'[h] THEN 1 ELSE 0) + Cardinality(ToTell("freehook", h, v)')
          + Async("free", h, v)' - Cardinality(ToTell("allochook", h, v)') - Async("alloc", h, v)'
    BY Zenon DEF Balance
  <2> QED
    BY <2>1, <2>2, <2>3, SMTT(30) DEF Balance
<1>BalancedProgress.
    ASSUME IInv, DataInv, OwnerInv, [Next]_vars, cpc = "no", ~stale, hooks,
           NEW p \in Handles, ProgressThread(p),
           NEW h \in Handles, NEW v \in VA, Balanced(h, v), alive(h), alive(h)'
    PROVE  Balanced(h, v)'
  <2> USE <1>BalancedProgress
  <2>1. /\ DataType /\ UNCHANGED <<pc, hd, va>> /\ JobOK(p) /\ job[p] \in Jobs
        /\ told \in [Handles \X Idents \X VA -> Int] /\ job \in [Handles -> Jobs]
        /\ mem \in [Handles -> SUBSET VA]
    BY Zenon DEF ProgressThread, mem_async, hmem_async_hook, threadVars, DataInv, DataType
  <2>2. getProcIdentifier(h)' = getProcIdentifier(h)
    BY <1>SameIdentifier, Zenon
  <2>3. ASSUME told' = told, Balance(h, v)' = Balance(h, v) PROVE Balanced(h, v)'
    BY <2>2, <2>3, <1>BalanceKept, Zenon
  <2>4. CASE mem_async(p)
    <3>1. told' = told /\ job[p].st = "queued"
      BY <2>4, Zenon DEF mem_async
    <3>2. h = p => Async("free", h, v) = 0 /\ Async("alloc", h, v) = 0
      BY <3>1, Zenon DEF Async
    <3>3. CASE job' = [job EXCEPT ![p] = Jobless] /\ UNCHANGED <<mem, plain>>
      <4>1. \A op \in {"alloc", "free"} : Async(op, h, v)' = Async(op, h, v) /\ Async(op, h, v) \in Int
        <5>1. CASE h = p
          <6>1. job'[h] = Jobless
            BY <2>1, <3>3, <5>1, Zenon
          <6> QED
            BY <3>2, <5>1, <6>1, SMTT(30) DEF Async, Jobless
        <5>2. CASE h # p
          <6>1. job'[h] = job[h]
            BY <2>1, <3>3, <5>2, Zenon
          <6> QED
            BY <6>1, SMTT(30) DEF Async
        <5> QED
          BY <5>1, <5>2, Zenon
      <4>2. Balance(h, v)' = Balance(h, v)
        BY <2>1, <3>3, <4>1, <1>BalanceJob
      <4> QED
        BY <2>3, <3>1, <4>2, Zenon
    <3>4. ASSUME NEW w \in VA, NEW op \in {"alloc", "free"}, job[p].op = op,
                 op = "alloc" => w \notin mem[p], op = "free" => w = job[p].va,
                 mem' = [mem EXCEPT ![p] = IF op = "alloc" THEN @ \cup {w} ELSE @ \ {w}],
                 job' = [job EXCEPT ![p].st = "hook", ![p].va = w]
          PROVE  Balanced(h, v)'
      <4>1. job'[p].st = "hook" /\ job'[p].va = w /\ job'[p].op = op
        BY <2>1, <3>4, Zenon DEF Jobs
      <4>2. \A k \in Handles : k # p => job'[k] = job[k] /\ mem'[k] = mem[k]
        BY <2>1, <3>4, Zenon
      <4>3. CASE h # p
        <5>1. Async("free", h, v)' = Async("free", h, v) /\ Async("alloc", h, v)' = Async("alloc", h, v)
          BY <4>2, <4>3, Zenon DEF Async
        <5>2. Async("free", h, v) \in Int /\ Async("alloc", h, v) \in Int
          BY DEF Async
        <5>3. Balance(h, v)' = Balance(h, v)
          BY <2>1, <4>2, <4>3, <5>1, <5>2, <1>BalanceJob, SMTT(30)
        <5> QED
          BY <2>3, <3>1, <5>3, Zenon
      <4>4. CASE h = p
        <5>1. op = "free" /\ w = v => v \in mem[h]
          <6>1. Owned(h, v)
            BY Zenon DEF OwnerInv
          <6>2. op = "free" /\ w = v => InJob(h, v)
            BY <3>1, <3>4, <4>4, Zenon DEF InJob
          <6> QED
            BY <6>1, <6>2, Zenon DEF Owned
        <5>2. (IF v \in mem'[h] THEN 1 ELSE 0) - (IF v \in mem[h] THEN 1 ELSE 0)
                = IF w = v THEN (IF op = "alloc" THEN 1 ELSE -1) ELSE 0
          BY <2>1, <3>4, <4>4, <5>1
        <5>3. /\ Async("free", h, v)' = IF op = "free" /\ w = v THEN 1 ELSE 0
              /\ Async("alloc", h, v)' = IF op = "alloc" /\ w = v THEN 1 ELSE 0
          BY <4>1, <4>4, Zenon DEF Async
        <5>4. Balance(h, v)' = Balance(h, v)
          BY <2>1, <3>2, <4>4, <5>2, <5>3, <1>BalanceJob, SMTT(30)
        <5> QED
          BY <2>3, <3>1, <5>4, Zenon
      <4> QED
        BY <4>3, <4>4, Zenon
    <3>5. job[p].op \in {"alloc", "free"} /\ (job[p].op = "free" => job[p].va \in VA)
      BY <2>1, <3>1, Zenon DEF JobOK
    <3> QED
      BY <2>4, <3>3, <3>4, <3>5, Zenon DEF mem_async
  <2>5. CASE hmem_async_hook(p)
    <3>1. PICK w \in VA, op \in {"alloc", "free"} : job[p].st = "hook" /\ job[p].va = w /\ job[p].op = op
      BY <2>1, <2>5, Zenon DEF hmem_async_hook, JobOK
    <3> DEFINE d == IF op = "alloc" THEN 1 ELSE -1
               e == IF h = p /\ v = w THEN d ELSE 0
    <3>2. tell(p, w, d) /\ mem' = mem /\ job' = [job EXCEPT ![p] = Jobless]
      BY <2>5, <3>1, Zenon DEF hmem_async_hook, finish
    <3>3. d \in Int /\ e \in Int
      OBVIOUS
    <3>4. \A i \in Idents : told'[<<h, i, v>>] = told[<<h, i, v>>] +
            (IF h = p /\ v = w /\ i = getProcIdentifier(p) THEN d ELSE 0)
      BY <2>1, <3>2, <3>3, ToldStep
    <3>5. \A i \in Idents : /\ told[<<h, i, v>>] \in Int
                            /\ told'[<<h, i, v>>] = told[<<h, i, v>>] + (IF i = getProcIdentifier(h) THEN e ELSE 0)
      BY <2>1, <3>4, SMTT(30)
    <3>6. Balance(h, v) \in Int /\ Balance(h, v)' = Balance(h, v) + e
      <4>1. CASE h # p
        <5>1. job'[h] = job[h]
          BY <2>1, <3>2, <4>1, Zenon
        <5>2. /\ Async("free", h, v)' = Async("free", h, v) /\ Async("alloc", h, v)' = Async("alloc", h, v)
              /\ Async("free", h, v) \in Int /\ Async("alloc", h, v) \in Int
          BY <5>1 DEF Async
        <5> QED
          BY <2>1, <3>2, <4>1, <5>2, <1>BalanceJob
      <4>2. CASE h = p
        <5>1. job'[h] = Jobless
          BY <2>1, <3>2, <4>2, Zenon
        <5>2. /\ Async("free", h, v)' = 0 /\ Async("alloc", h, v)' = 0
              /\ Async("free", h, v) = (IF op = "free" /\ v = w THEN 1 ELSE 0)
              /\ Async("alloc", h, v) = (IF op = "alloc" /\ v = w THEN 1 ELSE 0)
          BY <3>1, <4>2, <5>1, SMTT(30) DEF Async, Jobless
        <5> QED
          BY <2>1, <3>2, <4>2, <5>2, <1>BalanceJob
      <4> QED
        BY <4>1, <4>2, Zenon
    <3> HIDE DEF e
    <3> QED
      BY <2>2, <3>3, <3>5, <3>6, <1>BalanceMove, Zenon
  <2> QED
    BY <2>4, <2>5, Zenon DEF ProgressThread
  \* A process that has just been registered has no memory, and nothing was told.
<1>BalancedRegister.
    ASSUME IInv, DataInv, NEW t \in App, register(t), NEW h \in Handles, hd[t] = h, NEW v \in VA
    PROVE  Balanced(h, v)'
  <2> USE <1>BalancedRegister
  <2>1. cpc = "no" /\ life[h] \notin Known
    BY InCall, Zenon DEF register, IInv, ThreadInv, Known
  <2>2. UNCHANGED <<mem, told, job, va, hd>> /\ pc' = [pc EXCEPT ![t] = "idle"]
    BY Zenon DEF register, memVars, step
  <2>3. mem[h] = {} /\ job[h] = Jobless /\ \A i \in Idents : told[<<h, i, v>>] = 0
    BY <2>1, Zenon DEF DataInv, Fresh
  <2>4. pc'[t] = "idle" /\ \A u \in App : u # t => pc'[u] = pc[u]
    BY <2>2, OwnStep, Zenon
  <2>5. ASSUME NEW s \in {"freehook", "allochook"} PROVE ToTell(s, h, v)' = {}
    <3> SUFFICES ASSUME NEW u \in App, pc'[u] = s, hd'[u] = h PROVE FALSE
      BY Zenon DEF ToTell
    <3>1. u # t /\ pc[u] = s /\ hd[u] = h
      BY <2>2, <2>4, <2>5, Zenon
    <3> QED
      BY <2>1, <2>5, <3>1, Zenon DEF IInv, ThreadInv, DataInv, CallOK
  <2>6. ToTell("freehook", h, v)' = {} /\ ToTell("allochook", h, v)' = {}
    BY <2>5, Zenon
  <2>7. Async("free", h, v)' = 0 /\ Async("alloc", h, v)' = 0
    BY <2>2, <2>3, SMTT(30) DEF Async, Jobless
  <2>8. Balance(h, v)' = (IF v \in mem'[h] THEN 1 ELSE 0) + Cardinality(ToTell("freehook", h, v)')
          + Async("free", h, v)' - Cardinality(ToTell("allochook", h, v)') - Async("alloc", h, v)'
    BY Zenon DEF Balance
  <2>9. Cardinality({}) = 0 /\ v \notin mem'[h]
    BY <2>2, <2>3, FS_EmptySet, Zenon
  <2>10. Balance(h, v)' = 0 + 0 + 0 - 0 - 0
    BY <2>6, <2>7, <2>8, <2>9, Zenon
  <2>11. Balance(h, v)' = 0
    BY <2>10
  <2> QED
    BY <2>2, <2>3, <2>11, Zenon DEF Balanced
<1> SUFFICES ASSUME cpc' = "no", hooks', ~stale', NEW h \in Handles, NEW v \in VA, alive(h)'
             PROVE  Balanced(h, v)'
  BY Zenon DEF BalanceInv
<1>1. /\ cpc = "no" /\ ~stale /\ hooks
      /\ UNCHANGED vars \/ (\E t \in App : Thread(t)) \/ (\E p \in Handles : ProgressThread(p))
  BY StillOpen, <1>HooksStay, Zenon
<1>2. CASE ~alive(h)
  BY <1>2, AliveStep, <1>BalancedRegister, Zenon
<1>3. CASE alive(h)
  <2>1. Balanced(h, v)
    BY <1>1, <1>3, Zenon DEF BalanceInv
  <2>2. CASE UNCHANGED vars
    <3>1. UNCHANGED <<pc, hd, va, mem, told, job, procs>>
      BY <2>2, Zenon DEF vars, memVars, threadVars, tableVars
    <3> QED
      BY <2>1, <3>1, Zenon DEF Balanced, Balance, ToTell, Async, getProcIdentifier, Slots
  <2>3. ASSUME NEW t \in App, Thread(t)
        PROVE  Balanced(h, v)'
    BY <1>1, <1>3, <2>1, <2>3, <1>BalancedCalls, <1>BalancedHooks, Zenon
  <2>4. ASSUME NEW p \in Handles, ProgressThread(p)
        PROVE  Balanced(h, v)'
    BY <1>1, <1>3, <2>1, <2>4, <1>BalancedProgress, Zenon
  <2> QED
    BY <1>1, <2>2, <2>3, <2>4, Zenon
<1> QED
  BY <1>2, <1>3, Zenon

\* The hooks tell the upper layer of every allocation and of every free of a
\* running process once, and under the identifier of the process, for any
\* number of threads, processes and identifiers and in any order of the
\* synchronous and the asynchronous calls.
THEOREM HooksAlwaysBalance == Spec => []HookBalance
<1>1. Init => IInv /\ DataInv /\ OwnerInv /\ BalanceInv
  BY InitInv, DataInit, Zenon DEF Init, OwnerInv, BalanceInv, alive
<1>2. IInv /\ DataInv /\ OwnerInv /\ BalanceInv /\ [Next]_vars
        => IInv' /\ DataInv' /\ OwnerInv' /\ BalanceInv'
  BY StepInv, DataNext, OwnerNext, BalanceNext, Zenon
<1>3. BalanceInv => HookBalance
  BY SMTT(30) DEF BalanceInv, HookBalance, Balanced, Balance, ToTell, Async, Idents
<1> QED
  BY <1>1, <1>2, <1>3, PTL DEF Spec
=============================================================================
