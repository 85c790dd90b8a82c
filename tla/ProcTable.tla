----------------------------- MODULE ProcTable -----------------------------
(***************************************************************************)
(* The table of VE processes (ProcHandle.cpp: __procs and __procs_mtx) and *)
(* the heterogeneous memory built on it (veo_hmem.cpp, veo_hmem_macros.h,  *)
(* veo_api.cpp): the position of a process in the table is its identifier, *)
(* and veo_alloc_hmem() stores the identifier in the upper bits of a VE    *)
(* address.  Freeing and copying read it back and look the process up.     *)
(*                                                                         *)
(* Threads of the application create and destroy processes, allocate, free *)
(* and copy; the progress thread of each process runs the asynchronous     *)
(* allocations with their hooks; _cleanup_procs() runs when the program    *)
(* ends.  A section under __procs_mtx that makes no blocking call is one   *)
(* step, enabled when the mutex is free; only exitProc() holds the mutex   *)
(* across other steps.  ProcHandle objects are numbered in the order they  *)
(* are made and are never deleted.                                         *)
(***************************************************************************)
EXTENDS Integers, Sequences, FiniteSets

CONSTANTS App,                  \* threads of the application
          None,                 \* no thread
          Null,                 \* nullptr
          Destructor,           \* the thread that runs _cleanup_procs()
          NProcs,               \* number of ProcHandle objects
          VA,                   \* addresses VE malloc may return
          VEO_MAX_HMEM_PROCS,   \* 16 in the code
          MaxCalls              \* number of API calls made

Handles == 1 .. NProcs

\* 64 bits: bit 63, the identifier bits and the virtual address
Addresses == [ve : {0, 1}, ident : 0 .. VEO_MAX_HMEM_PROCS - 1, va : VA]

ASSUME ProcTableAssumption ==
  /\ NProcs \in Nat /\ VEO_MAX_HMEM_PROCS \in Nat \ {0} /\ MaxCalls \in Nat
  /\ None \notin App /\ Destructor \notin App /\ None # Destructor
  /\ Null \notin Handles \cup VA \cup Addresses /\ IsFiniteSet(App)

VARIABLES
  procs,      \* *__procs
  procs_mtx,  \* holder of __procs_mtx
  made,       \* number of ProcHandle objects constructed
  life,       \* of a ProcHandle; "exited" stands for ve_number = -1, too
  mem,        \* addresses allocated in the VE process
  hmem,       \* memory from veo_alloc_hmem(): address and, unknown to the code, owner
  plain,      \* <<process, address>> from veo_alloc_mem_async()
  hooks,      \* veo_register_hmem_hook_functions() has been called
  told,       \* calls of alloc_hook() minus calls of free_hook()
  stale,      \* an address has been looked up after its owner was destroyed
  pc, hd, va, arg,   \* per thread: step, process, VE address, hmem operands
  job,        \* per process: what its progress thread has to do
  cpc, it,    \* _cleanup_procs(): step and iterator
  ncalls

threadVars == <<pc, hd, va, arg>>
cleanVars == <<cpc, it>>
tableVars == <<procs, procs_mtx, made, life>>
memVars == <<mem, hmem, plain, told, stale>>
vars == <<tableVars, memVars, threadVars, cleanVars, hooks, job, ncalls>>

-----------------------------------------------------------------------------
(***************************************************************************)
(* Addresses: bit 63, the identifier bits and the virtual address.  The    *)
(* virtual addresses of the VE leave the upper bits clear; what is shifted *)
(* out of the identifier bits reaches bit 63, then is lost.                *)
(***************************************************************************)
Virtual(v) == [ve |-> 0, ident |-> 0, va |-> v]
SET_VE_FLAG(a) == [a EXCEPT !.ve = 1]
IS_VE(a) == a.ve = 1
VIRT_ADDR_VE(a) == a.va

SET_PROC_IDENT(a, i) ==
  [ve    |-> IF (i \div VEO_MAX_HMEM_PROCS) % 2 = 1 THEN 1 ELSE a.ve,
   ident |-> i % VEO_MAX_HMEM_PROCS,
   va    |-> a.va]

GET_PROC_IDENT(a) == a.ident

\* veo_set_proc_identifier(): Null for an identifier that does not fit
veo_set_proc_identifier(v, i) ==
  IF i < 0 \/ i >= VEO_MAX_HMEM_PROCS THEN Null
  ELSE SET_PROC_IDENT(SET_VE_FLAG(Virtual(v)), i)

(***************************************************************************)
(* The table.  The identifiers begin at 0.                                 *)
(***************************************************************************)
Slots(p) == {i \in 1 .. Len(procs) : procs[i] = p}
First(S) == CHOOSE i \in S : \A j \in S : i <= j

getProcIdentifier(p) == IF Slots(p) = {} THEN -1 ELSE First(Slots(p)) - 1

getProcHandle(i) == procs[i + 1]

\* mutant: the last of the free slots is overwritten, or else the last process
registeredOverwriting(p) ==
  IF procs = <<>> THEN <<p>> ELSE [procs EXCEPT ![Len(procs)] = p]

\* the end of the constructor: the first nullptr, or the end of the vector
registered(p) ==
  IF Slots(Null) = {} THEN Append(procs, p) ELSE [procs EXCEPT ![First(Slots(Null))] = p]

\* mutant: the slot is erased, as the code once did
removedErased(p) ==
  LET n == First(Slots(p))
  IN  IF Slots(p) = {} THEN procs
      ELSE [i \in 1 .. (Len(procs) - 1) |-> IF i < n THEN procs[i] ELSE procs[i + 1]]

removed(p) == [i \in 1 .. Len(procs) |-> IF procs[i] = p THEN Null ELSE procs[i]]

Free == procs_mtx = None
alive(p) == life[p] \in {"running", "closing"}

Jobless == [op |-> "none", va |-> Null, st |-> "idle"]

Init ==
  /\ procs = <<>> /\ procs_mtx = None /\ made = 0
  /\ life = [h \in Handles |-> "none"]
  /\ mem = [h \in Handles |-> {}] /\ hmem = {} /\ plain = {} /\ stale = FALSE
  /\ hooks \in BOOLEAN
  /\ told = [k \in Handles \X (0 .. VEO_MAX_HMEM_PROCS - 1) \X VA |-> 0]
  /\ pc = [t \in App |-> "idle"] /\ hd = [t \in App |-> Null]
  /\ va = [t \in App |-> Null] /\ arg = [t \in App |-> <<>>]
  /\ job = [h \in Handles |-> Jobless]
  /\ cpc = "no" /\ it = 1 /\ ncalls = 0

-----------------------------------------------------------------------------
\* A thread of the application makes a call; none is made once main() is left.
call(t) ==
  /\ pc[t] = "idle" /\ cpc = "no" /\ ncalls < MaxCalls
  /\ ncalls' = ncalls + 1

step(t, next) == pc' = [pc EXCEPT ![t] = next]

(***************************************************************************)
(* veo_proc_create(): the constructor.  A failure before the VE process is *)
(* ready throws; one after that throws, too, and leaves the VE process     *)
(* with nobody to close it.                                                *)
(***************************************************************************)
ProcHandle(t) ==
  /\ call(t) /\ made < NProcs /\ made' = made + 1
  /\ \E r \in {"failed", "leftover", "constructed"} :
       /\ life' = [life EXCEPT ![made + 1] = r]
       /\ IF r = "constructed"
          THEN step(t, "register") /\ hd' = [hd EXCEPT ![t] = made + 1]
          ELSE UNCHANGED <<pc, hd>>
  /\ UNCHANGED <<procs, procs_mtx, memVars, va, arg, cleanVars, hooks, job>>

register(t) ==
  /\ pc[t] = "register" /\ Free
  /\ procs' = registered(hd[t])
  /\ life' = [life EXCEPT ![hd[t]] = "running"]
  /\ step(t, "idle")
  /\ UNCHANGED <<procs_mtx, made, memVars, hd, va, arg, cleanVars, hooks, job, ncalls>>

(***************************************************************************)
(* exitProc(), by veo_proc_destroy() or by the destructor: the contexts    *)
(* are closed under the mutex, which joins the progress thread.  A process *)
(* may be destroyed twice; the second time nothing is left to close.       *)
(***************************************************************************)
exitProcBegin(t, p) ==
  /\ Free /\ procs_mtx' = t
  /\ life' = [life EXCEPT ![p] = IF @ = "running" THEN "closing" ELSE @]

\* mutant: the mutex is not released
exitProcEndLocked(t, p) ==
  /\ procs_mtx = t /\ job[p].st # "hook"
  /\ procs_mtx' = t
  /\ life' = [life EXCEPT ![p] = "exited"]
  /\ procs' = removed(p)
  /\ job' = [job EXCEPT ![p] = Jobless]
  /\ mem' = [mem EXCEPT ![p] = {}]

\* the progress thread has ended; a command it did not reach is dropped
exitProcEnd(t, p) ==
  /\ procs_mtx = t /\ job[p].st # "hook"
  /\ procs_mtx' = None
  /\ life' = [life EXCEPT ![p] = "exited"]
  /\ procs' = removed(p)
  /\ job' = [job EXCEPT ![p] = Jobless]
  /\ mem' = [mem EXCEPT ![p] = {}]

veo_proc_destroy(t) ==
  /\ call(t)
  /\ \E p \in Handles :
       /\ life[p] \in {"running", "closing", "exited"}
       /\ hd' = [hd EXCEPT ![t] = p]
  /\ step(t, "exit")
  /\ UNCHANGED <<tableVars, memVars, va, arg, cleanVars, hooks, job>>

exitProc(t) ==
  /\ pc[t] = "exit"
  /\ exitProcBegin(t, hd[t])
  /\ step(t, "closing")
  /\ UNCHANGED <<procs, made, memVars, hd, va, arg, cleanVars, hooks, job, ncalls>>

exitProcReturn(t) ==
  /\ pc[t] = "closing"
  /\ exitProcEnd(t, hd[t])
  /\ step(t, "idle")
  /\ UNCHANGED <<made, hmem, plain, told, stale, hd, va, arg, cleanVars, hooks, ncalls>>

-----------------------------------------------------------------------------
(***************************************************************************)
(* Hooks: _alloc_hmem_hook(), _free_hmem_hook() and their asynchronous     *)
(* versions look the identifier up and pass the hmem address to the upper  *)
(* layer.  The model counts what the upper layer has been told.            *)
(***************************************************************************)
tell(p, v, d) ==
  LET a == veo_set_proc_identifier(v, getProcIdentifier(p))
  IN  told' = IF a = Null THEN told ELSE [told EXCEPT ![<<p, GET_PROC_IDENT(a), v>>] = @ + d]

\* mutant: the number of processes is not checked
hmemAllowedAlways == TRUE

\* numProcs() never exceeds the number of identifiers
hmemAllowed == Len(procs) <= VEO_MAX_HMEM_PROCS

(***************************************************************************)
(* veo_alloc_hmem(): the number of processes, the allocation (allocBuff()  *)
(* waits for the VE), the hook of veo_alloc_mem(), then the identifier.    *)
(***************************************************************************)
veo_alloc_hmem(t) ==
  /\ call(t) /\ Free
  /\ \E p \in Handles :
       /\ life[p] \in {"running", "closing"}
       /\ IF hmemAllowed THEN step(t, "alloc") /\ hd' = [hd EXCEPT ![t] = p] ELSE UNCHANGED <<pc, hd>>
  /\ UNCHANGED <<tableVars, memVars, va, arg, cleanVars, hooks, job>>

\* with no process: malloc() on the host
veo_alloc_hmem_vh(t) ==
  /\ call(t)
  /\ \E v \in VA : /\ \A x \in hmem : ~(x.owner = Null /\ x.addr.va = v)
                   /\ hmem' = hmem \cup {[addr |-> Virtual(v), owner |-> Null]}
  /\ UNCHANGED <<tableVars, mem, plain, told, stale, threadVars, cleanVars, hooks, job>>

\* mutant: the result of the allocation is not checked
allocBuffUnchecked(t) ==
  /\ pc[t] = "alloc"
  /\ \E v \in (VA \ mem[hd[t]]) \cup {Null} :
       /\ mem' = [mem EXCEPT ![hd[t]] = @ \cup ({v} \ {Null})]
       /\ va' = [va EXCEPT ![t] = v]
       /\ step(t, IF hooks /\ v # Null THEN "allochook" ELSE "ident")
  /\ UNCHANGED <<tableVars, hmem, plain, told, stale, hd, arg, cleanVars, hooks, job, ncalls>>

allocBuff(t) ==
  /\ pc[t] = "alloc"
  /\ \/ \E v \in VA \ mem[hd[t]] :
          /\ alive(hd[t])
          /\ mem' = [mem EXCEPT ![hd[t]] = @ \cup {v}]
          /\ va' = [va EXCEPT ![t] = v]
          /\ step(t, IF hooks THEN "allochook" ELSE "ident")
     \/ step(t, "idle") /\ UNCHANGED <<mem, va>>
  /\ UNCHANGED <<tableVars, hmem, plain, told, stale, hd, arg, cleanVars, hooks, job, ncalls>>

_alloc_hmem_hook(t) ==
  /\ pc[t] = "allochook" /\ Free
  /\ tell(hd[t], va[t], 1)
  /\ step(t, "ident")
  /\ UNCHANGED <<tableVars, mem, hmem, plain, stale, hd, va, arg, cleanVars, hooks, job, ncalls>>

veo_alloc_hmem_ident(t) ==
  LET i == getProcIdentifier(hd[t])
  IN  /\ pc[t] = "ident" /\ Free
      /\ hmem' = IF i < 0 THEN hmem
                 ELSE hmem \cup {[addr |-> SET_PROC_IDENT(SET_VE_FLAG(Virtual(va[t])), i),
                                  owner |-> hd[t]]}
      /\ step(t, "idle")
      /\ UNCHANGED <<tableVars, mem, plain, told, stale, hd, va, arg, cleanVars, hooks, job, ncalls>>

(***************************************************************************)
(* The application begins a call on hmem addresses only while the owner is *)
(* not destroyed, and frees an address only when no call uses it.          *)
(***************************************************************************)
usable(x) == x.owner # Null => alive(x.owner)
inUse(x) == \E t \in App : pc[t] \in {"look", "look2", "copy"} /\ x \in {arg[t][i] : i \in DOMAIN arg[t]}

veo_free_hmem(t) ==
  /\ call(t)
  /\ \E x \in hmem :
       /\ usable(x) /\ ~inUse(x)
       /\ hmem' = hmem \ {x}
       /\ IF IS_VE(x.addr)
          THEN step(t, "look") /\ arg' = [arg EXCEPT ![t] = <<x>>]
          ELSE UNCHANGED <<pc, arg>>
  /\ UNCHANGED <<tableVars, mem, plain, told, stale, hd, va, cleanVars, hooks, job>>

\* veo_hmemcpy(dst, src): memcpy() if both are on the host
veo_hmemcpy(t) ==
  /\ call(t)
  /\ \E dst, src \in hmem :
       /\ usable(dst) /\ usable(src)
       /\ IF IS_VE(dst.addr) \/ IS_VE(src.addr)
          THEN step(t, "look") /\ arg' = [arg EXCEPT ![t] = <<dst, src>>]
          ELSE UNCHANGED <<pc, arg>>
  /\ UNCHANGED <<tableVars, memVars, hd, va, cleanVars, hooks, job>>

\* the operand looked up first: the destination if it is on the VE
operand(t) == IF IS_VE(arg[t][1].addr) THEN arg[t][1] ELSE arg[t][2]
onVE(t) == Len(arg[t]) = 2 /\ IS_VE(arg[t][1].addr) /\ IS_VE(arg[t][2].addr)

\* mutant: the lookup ignores the identifier
resolveFirst(t, x) ==
  /\ Free
  /\ hd' = [hd EXCEPT ![t] = getProcHandle(0)]
  /\ va' = [va EXCEPT ![t] = VIRT_ADDR_VE(x.addr)]
  /\ stale' = (stale \/ getProcHandle(GET_PROC_IDENT(x.addr)) # x.owner)

\* getProcHandle(GET_PROC_IDENT(addr)) and the address without the identifier
resolve(t, x) ==
  /\ Free
  /\ hd' = [hd EXCEPT ![t] = getProcHandle(GET_PROC_IDENT(x.addr))]
  /\ va' = [va EXCEPT ![t] = VIRT_ADDR_VE(x.addr)]
  /\ stale' = (stale \/ getProcHandle(GET_PROC_IDENT(x.addr)) # x.owner)

\* a call on nullptr ends the program with a fault
look(t) ==
  /\ pc[t] = "look" /\ resolve(t, operand(t))
  /\ step(t, IF onVE(t) THEN "look2" ELSE IF hd'[t] = Null THEN "fault"
             ELSE IF Len(arg[t]) = 1 THEN "free" ELSE "copy")
  /\ UNCHANGED <<tableVars, mem, hmem, plain, told, arg, cleanVars, hooks, job, ncalls>>

\* VE to VE: the process of the source must be the one of the destination
look2(t) ==
  /\ pc[t] = "look2" /\ resolve(t, arg[t][2])
  /\ step(t, IF hd'[t] # hd[t] THEN "idle" ELSE IF hd'[t] = Null THEN "fault" ELSE "copy")
  /\ UNCHANGED <<tableVars, mem, hmem, plain, told, arg, cleanVars, hooks, job, ncalls>>

\* writeMem(), readMem() or veMemcpy() of process hd[t]
copy(t) ==
  /\ pc[t] = "copy" /\ step(t, "idle")
  /\ UNCHANGED <<tableVars, memVars, hd, va, arg, cleanVars, hooks, job, ncalls>>

\* mutant: the VE is given the address with the identifier and frees nothing
freeBuffRaw(t) ==
  /\ pc[t] = "free"
  /\ mem' = mem
  /\ step(t, IF hooks THEN "freehook" ELSE "idle")
  /\ UNCHANGED <<tableVars, hmem, plain, told, stale, hd, va, arg, cleanVars, hooks, job, ncalls>>

freeBuff(t) ==
  /\ pc[t] = "free"
  /\ mem' = [mem EXCEPT ![hd[t]] = @ \ {va[t]}]
  /\ step(t, IF hooks THEN "freehook" ELSE "idle")
  /\ UNCHANGED <<tableVars, hmem, plain, told, stale, hd, va, arg, cleanVars, hooks, job, ncalls>>

_free_hmem_hook(t) ==
  /\ pc[t] = "freehook" /\ Free
  /\ tell(hd[t], va[t], -1)
  /\ step(t, "idle")
  /\ UNCHANGED <<tableVars, mem, hmem, plain, stale, hd, va, arg, cleanVars, hooks, job, ncalls>>

-----------------------------------------------------------------------------
(***************************************************************************)
(* veo_alloc_mem_async() and veo_free_mem_async(): the request and, if     *)
(* hooks are registered, a VH command that waits for it and calls the      *)
(* hook, both run by the progress thread of the process.  One of them at a *)
(* time per process.                                                       *)
(***************************************************************************)
veo_mem_async(t) ==
  /\ call(t)
  /\ \E p \in Handles :
       /\ life[p] = "running" /\ job[p] = Jobless
       /\ \/ job' = [job EXCEPT ![p] = [op |-> "alloc", va |-> Null, st |-> "queued"]] /\ plain' = plain
          \/ \E v \in VA : /\ <<p, v>> \in plain
                           /\ job' = [job EXCEPT ![p] = [op |-> "free", va |-> v, st |-> "queued"]]
                           /\ plain' = plain \ {<<p, v>>}
  /\ UNCHANGED <<tableVars, mem, hmem, told, stale, threadVars, cleanVars, hooks>>

\* the end of a job: the application has the result of an allocation
finish(p, v) ==
  /\ job' = [job EXCEPT ![p] = Jobless]
  /\ plain' = IF job[p].op = "alloc" THEN plain \cup {<<p, v>>} ELSE plain

mem_async(p) ==
  /\ job[p].st = "queued" /\ alive(p)
  /\ \/ \E v \in IF job[p].op = "alloc" THEN VA \ mem[p] ELSE {job[p].va} :
          /\ mem' = [mem EXCEPT ![p] = IF job[p].op = "alloc" THEN @ \cup {v} ELSE @ \ {v}]
          /\ IF hooks
             THEN job' = [job EXCEPT ![p].st = "hook", ![p].va = v] /\ plain' = plain
             ELSE finish(p, v)
     \/ job[p].op = "alloc" /\ job' = [job EXCEPT ![p] = Jobless] /\ UNCHANGED <<mem, plain>>
  /\ UNCHANGED <<tableVars, hmem, told, stale, threadVars, cleanVars, hooks, ncalls>>

\* mutant: the free hook tells of an allocation
hmem_async_hookAdds(p) ==
  /\ job[p].st = "hook" /\ Free
  /\ tell(p, job[p].va, 1)
  /\ finish(p, job[p].va)
  /\ UNCHANGED <<tableVars, mem, hmem, stale, threadVars, cleanVars, hooks, ncalls>>

\* _alloc_hmem_async_hook() and _free_hmem_async_hook()
hmem_async_hook(p) ==
  /\ job[p].st = "hook" /\ Free
  /\ tell(p, job[p].va, IF job[p].op = "alloc" THEN 1 ELSE -1)
  /\ finish(p, job[p].va)
  /\ UNCHANGED <<tableVars, mem, hmem, stale, threadVars, cleanVars, hooks, ncalls>>

(***************************************************************************)
(* _cleanup_procs(): exitProc() of every process left in the table, whose  *)
(* slot is then erased; a nullptr is skipped.                              *)
(***************************************************************************)
cleanup_start ==
  /\ cpc = "no" /\ procs # <<>> /\ \A t \in App : pc[t] = "idle"
  /\ cpc' = "loop"
  /\ UNCHANGED <<tableVars, memVars, threadVars, it, hooks, job, ncalls>>

\* mutant: the iterator is incremented after erase(), too
erasedAndNext == procs' = [i \in 1 .. (Len(procs) - 1) |-> IF i < it THEN procs[i] ELSE procs[i + 1]] /\ it' = it + 1

erased == procs' = [i \in 1 .. (Len(procs) - 1) |-> IF i < it THEN procs[i] ELSE procs[i + 1]] /\ it' = it

cleanup_loop ==
  /\ cpc = "loop"
  /\ IF it > Len(procs)
     THEN cpc' = "done" /\ UNCHANGED <<life, procs_mtx, it>>
     ELSE IF procs[it] = Null
          THEN it' = it + 1 /\ UNCHANGED <<cpc, life, procs_mtx>>
          ELSE exitProcBegin(Destructor, procs[it]) /\ cpc' = "closing" /\ it' = it
  /\ UNCHANGED <<procs, made, memVars, threadVars, hooks, job, ncalls>>

cleanup_closing ==
  /\ cpc = "closing" /\ \E p \in Handles : procs[it] = p /\ exitProcEnd(Destructor, p)
  /\ cpc' = "erase"
  /\ UNCHANGED <<made, hmem, plain, told, stale, threadVars, it, hooks, ncalls>>

cleanup_erase ==
  /\ cpc = "erase" /\ erased /\ cpc' = "loop"
  /\ UNCHANGED <<procs_mtx, made, life, memVars, threadVars, hooks, job, ncalls>>

-----------------------------------------------------------------------------
Create(t) == ProcHandle(t) \/ register(t)
Destroy(t) == veo_proc_destroy(t) \/ exitProc(t) \/ exitProcReturn(t)
Alloc(t) ==
  \/ veo_alloc_hmem(t) \/ veo_alloc_hmem_vh(t) \/ allocBuff(t)
  \/ _alloc_hmem_hook(t) \/ veo_alloc_hmem_ident(t)
Use(t) ==
  \/ veo_free_hmem(t) \/ veo_hmemcpy(t) \/ look(t) \/ look2(t) \/ copy(t)
  \/ freeBuff(t) \/ _free_hmem_hook(t)
Thread(t) == Create(t) \/ Destroy(t) \/ Alloc(t) \/ Use(t) \/ veo_mem_async(t)
ProgressThread(p) == mem_async(p) \/ hmem_async_hook(p)
Cleanup == cleanup_start \/ cleanup_loop \/ cleanup_closing \/ cleanup_erase

Next == (\E t \in App : Thread(t)) \/ (\E p \in Handles : ProgressThread(p)) \/ Cleanup

Spec == Init /\ [][Next]_vars

(***************************************************************************)
(* A thread that can go on inside a call does, and so do the progress      *)
(* threads and the destructor.  No call has to be made.                    *)
(***************************************************************************)
inCall(t) ==
  \/ register(t) \/ exitProc(t) \/ exitProcReturn(t) \/ allocBuff(t) \/ _alloc_hmem_hook(t)
  \/ veo_alloc_hmem_ident(t) \/ look(t) \/ look2(t) \/ copy(t) \/ freeBuff(t) \/ _free_hmem_hook(t)

Fairness ==
  /\ \A t \in App : WF_vars(inCall(t))
  /\ \A p \in Handles : WF_vars(ProgressThread(p))
  /\ WF_vars(cleanup_loop \/ cleanup_closing \/ cleanup_erase)

FairSpec == Spec /\ Fairness

-----------------------------------------------------------------------------
(***************************************************************************)
(* Properties.                                                             *)
(***************************************************************************)
Hmem == [addr : Addresses, owner : Handles \cup {Null}]
Pcs == {"idle", "register", "exit", "closing", "alloc", "allochook", "ident",
        "look", "look2", "copy", "free", "freehook", "fault"}
Lives == {"none", "failed", "leftover", "constructed", "running", "closing", "exited"}

\* Every variable stays in its type; in particular no identifier bit of an
\* address, no slot of the table and no operand of a call leaves its range.
TypeOK ==
  /\ procs \in Seq(Handles \cup {Null}) /\ procs_mtx \in App \cup {None, Destructor}
  /\ made \in 0 .. NProcs /\ life \in [Handles -> Lives]
  /\ mem \in [Handles -> SUBSET VA] /\ hmem \subseteq Hmem /\ plain \subseteq Handles \X VA
  /\ hooks \in BOOLEAN /\ stale \in BOOLEAN
  /\ told \in [Handles \X (0 .. VEO_MAX_HMEM_PROCS - 1) \X VA -> Int]
  /\ pc \in [App -> Pcs] /\ hd \in [App -> Handles \cup {Null}]
  /\ va \in [App -> VA \cup {Null}]
  /\ \A t \in App : arg[t] \in {<<>>} \cup {<<x>> : x \in Hmem} \cup (Hmem \X Hmem)
  /\ job \in [Handles -> [op : {"none", "alloc", "free"}, va : VA \cup {Null}, st : {"idle", "queued", "hook"}]]
  /\ cpc \in {"no", "loop", "closing", "erase", "done"} /\ it \in Nat \ {0}
  /\ ncalls \in 0 .. MaxCalls

\* exitProc() and the constructor keep the table exact: a process is in one
\* slot from the end of its constructor to the end of its exitProc(), a slot
\* is never shared, and the mutex is held exactly by a thread that closes.
TableExact ==
  /\ \A h \in Handles : Cardinality(Slots(h)) = IF alive(h) THEN 1 ELSE 0
  /\ \A h \in Handles : life[h] = "closing" =>
       \/ \E t \in App : procs_mtx = t /\ pc[t] = "closing" /\ hd[t] = h
       \/ procs_mtx = Destructor /\ cpc = "closing" /\ procs[it] = h

\* An address from veo_alloc_hmem() leads back to the process that owns the
\* memory for as long as this process is not destroyed, whichever processes
\* were created and destroyed before, after or during the call: its
\* identifier is in range and getProcHandle() finds the owner there.
AddressResolves ==
  cpc = "no" => \A x \in hmem : x.owner # Null /\ alive(x.owner) =>
    /\ IS_VE(x.addr) /\ GET_PROC_IDENT(x.addr) + 1 \in DOMAIN procs
    /\ getProcHandle(GET_PROC_IDENT(x.addr)) = x.owner

\* veo_free_hmem() and veo_hmemcpy() act on the process that owns the memory
\* when they reach the VE, after the lookup has released the mutex; another
\* process is reached only if the owner was destroyed during the call.
OwnerReached ==
  \A t \in App : pc[t] \in {"free", "copy"} =>
    \/ hd[t] = operand(t).owner /\ (onVE(t) => arg[t][2].owner = operand(t).owner)
    \/ \E i \in 1 .. Len(arg[t]) : arg[t][i].owner # Null /\ life[arg[t][i].owner] = "exited"

\* VE memory is never lost while its process runs: every address that is
\* allocated on the VE is known to the application or in the hands of a call,
\* although veo_alloc_hmem() may fail after allocBuff() has succeeded.
MemoryKnown ==
  cpc = "no" /\ ~stale => \A h \in Handles, v \in VA : v \in mem[h] /\ alive(h) =>
    \/ \E x \in hmem : x.owner = h /\ x.addr.va = v
    \/ <<h, v>> \in plain
    \/ \E t \in App : \/ pc[t] \in {"allochook", "ident"} /\ hd[t] = h /\ va[t] = v
                      \/ pc[t] \in {"look", "free"} /\ Len(arg[t]) = 1
                         /\ arg[t][1].owner = h /\ arg[t][1].addr.va = v
    \/ job[h].va = v

\* The upper layer is told of every allocation and of every free once, under
\* the address that leads to the process: for a process whose identifier fits,
\* the calls of the hooks balance the memory allocated, up to the hooks that
\* threads are still to call.
HookBalance ==
  cpc = "no" /\ hooks /\ ~stale =>
    \A h \in Handles, v \in VA, i \in 0 .. VEO_MAX_HMEM_PROCS - 1 : alive(h) =>
      LET toTell(s) == Cardinality({t \in App : pc[t] = s /\ hd[t] = h /\ va[t] = v})
          async(op) == IF job[h].st = "hook" /\ job[h].op = op /\ job[h].va = v THEN 1 ELSE 0
      IN  told[<<h, i, v>>] =
            IF getProcIdentifier(h) # i THEN 0
            ELSE (IF v \in mem[h] THEN 1 ELSE 0) + toTell("freehook") + async("free")
                 - toTell("allochook") - async("alloc")

\* When the program ends, _cleanup_procs() leaves no process behind whose
\* constructor succeeded, in spite of erasing from the vector it iterates.
NoneLeft == cpc = "done" => \A h \in Handles : ~alive(h)

\* While a process is in the table its identifier does not change; only the
\* erase() of the destructor moves processes.
IdentifierStable ==
  [][cpc = "no" => \A h \in Handles : getProcIdentifier(h) >= 0 =>
       getProcIdentifier(h)' \in {getProcIdentifier(h), -1}]_vars

\* Every call returns or faults on the nullptr of a destroyed process, and the
\* destructor comes to its end, unless a hook of the closing process waits for
\* the mutex: exitProc() holds it while it joins the thread that runs the hook.
hookWaits == \E h \in Handles : life[h] = "closing" /\ job[h].st = "hook"
CallsEnd ==
  /\ \A t \in App : pc[t] # "idle" ~> (pc[t] \in {"idle", "fault"} \/ hookWaits)
  /\ cpc = "loop" ~> (cpc = "done" \/ hookWaits)
=============================================================================
