-------------------------- MODULE ProcTableProofs ---------------------------
(***************************************************************************)
(* The table of processes, for any number of processes, threads, addresses *)
(* and identifiers: why a step keeps the table exact, the identifiers and  *)
(* the way from an address of veo_alloc_hmem() back to its owner, and the  *)
(* data of the calls well-formed.  The theorems are in ProcTableTheorems.  *)
(***************************************************************************)
EXTENDS ProcTableInv, TLAPS

\* std::find() has a first slot to return whenever a slot matches.
FirstFound == \A S \in SUBSET Nat : S # {} => First(S) \in S

\* A table is a sequence of processes and nullptr.
LEMMA TableElems ==
  ASSUME NEW tab \in Seq(Handles \cup {Null})
  PROVE  /\ Len(tab) \in Nat
         /\ \A i \in 1 .. Len(tab) : tab[i] \in Handles \cup {Null}
  OBVIOUS

\* The end of the constructor writes the process into a slot that was free or
\* new, and leaves the other slots alone.
LEMMA RegisteredSlot ==
  ASSUME FirstFound, procs \in Seq(Handles \cup {Null}), NEW p \in Handles
  PROVE  /\ registered(p) \in Seq(Handles \cup {Null})
         /\ \E n \in 1 .. Len(registered(p)) :
              /\ registered(p)[n] = p
              /\ n \in 1 .. Len(procs) => procs[n] = Null
              /\ \A i \in 1 .. Len(procs) :
                   i \in 1 .. Len(registered(p)) /\ (i # n => registered(p)[i] = procs[i])
              /\ \A i \in 1 .. Len(registered(p)) : i = n \/ i \in 1 .. Len(procs)
<1>1. CASE Slots(Null) = {}
  <2>1. registered(p) = Append(procs, p)
    BY <1>1, Zenon DEF registered
  <2>2. /\ Append(procs, p) \in Seq(Handles \cup {Null})
        /\ Len(Append(procs, p)) = Len(procs) + 1 /\ Len(procs) \in Nat
        /\ Append(procs, p)[Len(procs) + 1] = p
        /\ \A i \in 1 .. Len(procs) : Append(procs, p)[i] = procs[i]
    OBVIOUS
  <2> QED
    BY <2>1, <2>2
<1>2. CASE Slots(Null) # {}
  <2> DEFINE n == First(Slots(Null))
  <2>1. Slots(Null) \subseteq Nat
    BY DEF Slots
  <2>2. n \in Slots(Null)
    BY <1>2, <2>1, Zenon DEF FirstFound
  <2>3. n \in 1 .. Len(procs) /\ procs[n] = Null
    BY <2>2, Zenon DEF Slots
  <2> HIDE DEF n
  <2>4. registered(p) = [procs EXCEPT ![n] = p]
    BY <1>2, Zenon DEF registered, n
  <2>5. /\ [procs EXCEPT ![n] = p] \in Seq(Handles \cup {Null})
        /\ Len([procs EXCEPT ![n] = p]) = Len(procs)
        /\ \A i \in 1 .. Len(procs) : [procs EXCEPT ![n] = p][i] = IF i = n THEN p ELSE procs[i]
    BY <2>3
  <2> QED
    BY <2>3, <2>4, <2>5, Zenon
<1> QED
  BY <1>1, <1>2, Zenon

\* exitProc() replaces the process by nullptr and moves nothing.
LEMMA RemovedSlot ==
  ASSUME procs \in Seq(Handles \cup {Null}), NEW p
  PROVE  /\ removed(p) \in Seq(Handles \cup {Null})
         /\ Len(removed(p)) = Len(procs)
         /\ \A i \in 1 .. Len(procs) : removed(p)[i] = IF procs[i] = p THEN Null ELSE procs[i]
<1>1. \A i \in 1 .. Len(procs) : procs[i] \in Handles \cup {Null}
  BY TableElems, Zenon
<1>2. removed(p) \in [1 .. Len(procs) -> Handles \cup {Null}]
  BY <1>1, Zenon DEF removed
<1>3. Len(procs) \in Nat
  BY TableElems, Zenon
<1>4. removed(p) \in Seq(Handles \cup {Null}) /\ Len(removed(p)) = Len(procs)
  BY <1>2, <1>3
<1> QED
  BY <1>4, Zenon DEF removed

-----------------------------------------------------------------------------
(***************************************************************************)
(* How the table may change while the program runs, and what then stays    *)
(* true of the threads that take no step.                                  *)
(***************************************************************************)
Evolves ==
  /\ \A i \in 1 .. Len(procs) : i \in 1 .. Len(procs')
  /\ \A h \in Handles : life[h] \in Known =>
       /\ life'[h] \in Known
       /\ life[h] = "exited" => life'[h] = "exited"
  /\ \A i \in 1 .. Len(procs) : procs[i] # Null /\ life'[procs[i]] # "exited" =>
       procs'[i] = procs[i]
  /\ \A i \in 1 .. Len(procs'), h \in Handles : life[h] \in Known /\ procs'[i] = h =>
       i \in 1 .. Len(procs) /\ procs[i] = h

-----------------------------------------------------------------------------
\* Initially there is no process, no address and no call.
LEMMA InitInv == Init => IInv
<1> SUFFICES ASSUME Init PROVE IInv
  BY Zenon
<1>1. procs = <<>> /\ Len(procs) = 0 /\ procs \in Seq(Handles \cup {Null})
  BY DEF Init
<1>2. TypeInv
  BY <1>1, ProcTableAssumption DEF Init, TypeInv, Lives, Pcs
<1>3. TableInv
  BY <1>1 DEF Init, TableInv, alive
<1>4. HolderInv /\ CleanInv /\ HmemInv
  BY Zenon DEF Init, HolderInv, CleanInv, HmemInv
<1>5. ASSUME NEW t \in App PROVE ThreadInv(t)
  BY Zenon DEF Init, ThreadInv
<1> QED
  BY <1>2, <1>3, <1>4, <1>5, Zenon DEF IInv

-----------------------------------------------------------------------------
\* A thread inside a call keeps the destructor from running.
LEMMA InCall ==
  ASSUME IInv, NEW t \in App, pc[t] # "idle"
  PROVE  cpc = "no"
  BY Zenon DEF IInv, CleanInv

\* The address made of a VE address and an identifier that fits.
LEMMA Encoded ==
  ASSUME NEW v, NEW i \in 0 .. VEO_MAX_HMEM_PROCS - 1
  PROVE  SET_PROC_IDENT(SET_VE_FLAG(Virtual(v)), i) = [ve |-> 1, ident |-> i, va |-> v]
<1>1. i % VEO_MAX_HMEM_PROCS = i /\ i \div VEO_MAX_HMEM_PROCS = 0
  BY ProcTableAssumption
<1>2. SET_VE_FLAG(Virtual(v)) = [ve |-> 1, ident |-> 0, va |-> v]
  BY DEF SET_VE_FLAG, Virtual
<1> QED
  BY <1>1, <1>2 DEF SET_PROC_IDENT

\* The identifier of a process is its slot.
LEMMA IdentifierIsSlot ==
  ASSUME IInv, NEW p \in Handles
  PROVE  /\ getProcIdentifier(p) \in -1 .. (Len(procs) - 1)
         /\ getProcIdentifier(p) >= 0 => procs[getProcIdentifier(p) + 1] = p
         /\ \A i \in 1 .. Len(procs) : procs[i] = p => getProcIdentifier(p) = i - 1
<1>1. procs \in Seq(Handles \cup {Null}) /\ Len(procs) \in Nat
  BY TableElems, Zenon DEF IInv, TypeInv
<1>2. Slots(p) \subseteq Nat /\ Slots(p) \subseteq 1 .. Len(procs)
  BY <1>1 DEF Slots
<1>3. CASE Slots(p) = {}
  BY <1>1, <1>3 DEF getProcIdentifier, Slots
<1>4. CASE Slots(p) # {}
  <2> DEFINE n == First(Slots(p))
  <2>1. \A i, j \in Slots(p) : i = j
    BY ProcTableAssumption, Zenon DEF Slots, IInv, TableInv
  <2>2. n \in 1 .. Len(procs) /\ procs[n] = p
    <3>1. PICK i : i \in Slots(p)
      BY <1>4, Zenon
    <3>2. \A j \in Slots(p) : i <= j
      BY <1>2, <2>1, <3>1
    <3>3. n \in Slots(p)
      BY <3>1, <3>2, Zenon DEF First
    <3> QED
      BY <3>3, Zenon DEF Slots
  <2>4. getProcIdentifier(p) = n - 1
    BY <1>4, Zenon DEF getProcIdentifier
  <2> HIDE DEF n
  <2>3. \A i \in 1 .. Len(procs) : procs[i] = p => i = n
    BY <2>2, ProcTableAssumption, Zenon DEF IInv, TableInv
  <2> QED
    BY <1>1, <2>2, <2>3, <2>4
<1> QED
  BY <1>3, <1>4, Zenon

-----------------------------------------------------------------------------
(***************************************************************************)
(* The lookups of veo_free_hmem() and veo_hmemcpy().                       *)
(***************************************************************************)

\* A lookup finds the owner, unless it has been destroyed.
LEMMA LookupFinds ==
  ASSUME IInv, NEW x, Form(x), IS_VE(x.addr), ResolvesIn(x, procs, life)
  PROVE  /\ getProcHandle(GET_PROC_IDENT(x.addr)) = x.owner \/ Gone(x, life)
         /\ getProcHandle(GET_PROC_IDENT(x.addr)) \in Handles \cup {Null}
         /\ x.owner \in Handles
<1>1. x.owner \in Handles /\ x.owner # Null
  BY ProcTableAssumption DEF Form, IS_VE
<1>2. getProcHandle(GET_PROC_IDENT(x.addr)) = x.owner \/ Gone(x, life)
  BY <1>1, Zenon DEF ResolvesIn, getProcHandle, GET_PROC_IDENT, Gone
<1>3. x.addr.ident + 1 \in 1 .. Len(procs)
  BY <1>1, Zenon DEF ResolvesIn
<1>4. getProcHandle(GET_PROC_IDENT(x.addr)) \in Handles \cup {Null}
  BY <1>3, TableElems, Zenon DEF getProcHandle, GET_PROC_IDENT, IInv, TypeInv
<1> QED
  BY <1>1, <1>2, <1>4, Zenon

\* The operand looked up first is one of the arguments of the call.
LEMMA OperandIsArgument ==
  ASSUME NEW t \in App, Operands(t)
  PROVE  /\ \E i \in 1 .. Len(arg[t]) : operand(t) = arg[t][i] /\ (onVE(t) => i = 1)
         /\ onVE(t) => 1 \in 1 .. Len(arg[t]) /\ 2 \in 1 .. Len(arg[t]) /\ operand(t) = arg[t][1]
<1>1. Len(arg[t]) \in {1, 2} /\ (Len(arg[t]) = 1 => IS_VE(arg[t][1].addr))
  BY Zenon DEF Operands
<1>2. onVE(t) => Len(arg[t]) = 2 /\ IS_VE(arg[t][1].addr)
  BY Zenon DEF onVE
<1>3. CASE IS_VE(arg[t][1].addr)
  <2>1. operand(t) = arg[t][1] /\ 1 \in 1 .. Len(arg[t])
    BY <1>1, <1>3 DEF operand
  <2>2. onVE(t) => 2 \in 1 .. Len(arg[t])
    BY <1>2, SMTT(30)
  <2> QED
    BY <2>1, <2>2, Zenon
<1>4. CASE ~IS_VE(arg[t][1].addr)
  <2>1. operand(t) = arg[t][2] /\ 2 \in 1 .. Len(arg[t]) /\ ~onVE(t)
    BY <1>1, <1>2, <1>4, SMTT(30) DEF operand
  <2> QED
    BY <2>1, Zenon
<1> QED
  BY <1>3, <1>4, Zenon

-----------------------------------------------------------------------------
(***************************************************************************)
(* The invariant, from step to step.                                       *)
(***************************************************************************)
\* Every step keeps the invariant.
LEMMA NextInv ==
  ASSUME FirstFound, IInv, [Next]_vars
  PROVE  IInv'
  \* A step that leaves the table alone is a change of this kind.
<1>QuietEvolves.
    ASSUME UNCHANGED <<procs, life>>
    PROVE  Evolves
    BY <1>QuietEvolves, Zenon DEF Evolves
  \* An address that leads to its owner goes on doing so.
<1>ResolvesKept.
    ASSUME Evolves, NEW x, Form(x), ResolvesIn(x, procs, life)
    PROVE  ResolvesIn(x, procs', life')
  <2> USE <1>ResolvesKept
  <2>1. CASE x.owner = Null
    BY <2>1, Zenon DEF ResolvesIn
  <2>2. CASE x.owner # Null
    <3>1. x.owner \in Handles /\ life[x.owner] \in Known
      BY <2>2, Zenon DEF Form, ResolvesIn
    <3>2. life'[x.owner] \in Known /\ (life'[x.owner] # "exited" => life[x.owner] # "exited")
      BY <3>1, Zenon DEF Evolves
    <3>3. x.addr.ident + 1 \in 1 .. Len(procs) /\ x.addr.ident + 1 \in 1 .. Len(procs')
      BY <2>2, Zenon DEF ResolvesIn, Evolves
    <3>4. ASSUME life'[x.owner] # "exited" PROVE procs'[x.addr.ident + 1] = x.owner
      <4>1. procs[x.addr.ident + 1] = x.owner
        BY <2>2, <3>2, <3>4, Zenon DEF ResolvesIn
      <4> QED
        BY <2>2, <3>3, <3>4, <4>1, Zenon DEF Evolves
    <3> QED
      BY <3>2, <3>3, <3>4, Zenon DEF ResolvesIn
  <2> QED
    BY <2>1, <2>2, Zenon
  \* A thread that takes no step keeps its part of the invariant.
<1>ThreadKept.
    ASSUME Evolves, NEW u \in App, ThreadInv(u),
           pc'[u] = pc[u], hd'[u] = hd[u], arg'[u] = arg[u],
           pc[u] = "register" => life'[hd[u]] = life[hd[u]]
    PROVE  ThreadInv(u)'
  <2> USE <1>ThreadKept
  <2>1. (pc[u] = "register" => hd[u] \in Handles /\ life[hd[u]] = "constructed")'
    BY Zenon DEF ThreadInv
  <2>2. ASSUME pc[u] \in {"exit", "closing", "alloc", "allochook", "ident"}
        PROVE  hd[u] \in Handles /\ life[hd[u]] \in Known /\ life'[hd[u]] \in Known
    BY <2>2, Zenon DEF ThreadInv, Evolves
  <2>3. ASSUME pc[u] \in {"alloc", "allochook", "ident"}
        PROVE  Fits(hd[u], procs')
    <3>1. hd[u] \in Handles /\ life[hd[u]] \in Known /\ Fits(hd[u], procs)
      BY <2>3, Zenon DEF ThreadInv
    <3> QED
      BY <3>1, Zenon DEF Fits, Evolves
  <2>4. ASSUME pc[u] \in {"look", "look2", "free", "copy"}
        PROVE  Operands(u)'
    <3>1. Operands(u)
      BY <2>4, Zenon DEF ThreadInv
    <3>2. \A i \in 1 .. Len(arg[u]) : ResolvesIn(arg[u][i], procs', life')
      BY <3>1, <1>ResolvesKept, Zenon DEF Operands
    <3> QED
      BY <3>1, <3>2, Zenon DEF Operands, operand
  <2>5. ASSUME NEW i \in 1 .. Len(arg[u]), Operands(u), Gone(arg[u][i], life)
        PROVE  Gone(arg[u][i], life')
    <3>1. arg[u][i].owner \in Handles /\ life[arg[u][i].owner] = "exited"
      BY <2>5, Zenon DEF Operands, Form, Gone
    <3> QED
      BY <2>5, <3>1, Zenon DEF Gone, Evolves, Known
  <2>6. ASSUME pc[u] = "look2"
        PROVE  (onVE(u) /\ (hd[u] = arg[u][1].owner \/ Gone(arg[u][1], life)))'
    <3>1. Operands(u) /\ onVE(u) /\ (hd[u] = arg[u][1].owner \/ Gone(arg[u][1], life))
      BY <2>6, Zenon DEF ThreadInv
    <3>2. 1 \in 1 .. Len(arg[u])
      BY <3>1 DEF Operands
    <3> QED
      BY <2>5, <3>1, <3>2, Zenon DEF onVE
  <2>7. ASSUME pc[u] \in {"free", "copy"}
        PROVE  Reached(u)'
    <3>1. Operands(u) /\ Reached(u)
      BY <2>7, Zenon DEF ThreadInv
    <3> QED
      BY <2>5, <3>1, Zenon DEF Reached, onVE, operand
  <2> QED
    BY <2>1, <2>2, <2>3, <2>4, <2>6, <2>7, Zenon DEF ThreadInv
  \* The addresses the application holds keep leading to their owners.
<1>HmemKept.
    ASSUME HmemInv, Evolves, cpc = "no", hmem' \subseteq hmem
    PROVE  HmemInv'
    BY <1>HmemKept, <1>ResolvesKept, Zenon DEF HmemInv
  \* A step inside a call that leaves the table and the mutex alone.
<1>QuietStep.
    ASSUME IInv, cpc = "no", NEW t \in App, NEW next \in Pcs \ {"register", "closing"},
           UNCHANGED <<procs, procs_mtx, made, life, cpc, it>>,
           pc[t] # "closing", pc' = [pc EXCEPT ![t] = next],
           hd' \in [App -> Handles \cup {Null}], arg' = [u \in App |-> arg'[u]],
           \A u \in App \ {t} : hd'[u] = hd[u] /\ arg'[u] = arg[u],
           ThreadInv(t)', HmemInv'
    PROVE  IInv'
  <2> USE <1>QuietStep
  <2>1. pc'[t] = next /\ pc' \in [App -> Pcs] /\ \A u \in App \ {t} : pc'[u] = pc[u]
    BY Zenon DEF IInv, TypeInv
  <2>2. TypeInv'
    BY <2>1, Zenon DEF IInv, TypeInv
  <2>3. TableInv' /\ CleanInv'
    BY DEF IInv, TableInv, CleanInv, alive
  <2>4. HolderInv'
    <3>1. \A u \in App : pc'[u] \in {"register", "closing"} => u # t /\ pc[u] = pc'[u] /\ hd[u] = hd'[u]
      BY <2>1, Zenon
    <3>2. (\A u, w \in App : pc[u] = "register" /\ pc[w] = "register" /\ hd[u] = hd[w] => u = w)'
      BY <3>1 DEF IInv, HolderInv
    <3>3. (\A u \in App : pc[u] = "closing" => procs_mtx = u /\ life[hd[u]] # "running")'
      BY <3>1 DEF IInv, HolderInv
    <3>4. ASSUME NEW h \in Handles, life'[h] = "closing"
          PROVE  (\E u \in App : procs_mtx = u /\ pc[u] = "closing" /\ hd[u] = h)'
      <4>1. PICK u \in App : procs_mtx = u /\ pc[u] = "closing" /\ hd[u] = h
        BY <3>4, Zenon DEF IInv, HolderInv
      <4> QED
        BY <2>1, <4>1, Zenon
    <3> QED
      BY <3>2, <3>3, <3>4, Zenon DEF HolderInv
  <2>5. ASSUME NEW u \in App \ {t} PROVE ThreadInv(u)'
    BY <2>1, <1>QuietEvolves, <1>ThreadKept, Zenon DEF IInv
  <2> QED
    BY <2>2, <2>3, <2>4, <2>5, Zenon DEF IInv
  \* A step that concerns neither the table nor a call.
<1>OtherStep.
    ASSUME IInv, UNCHANGED <<procs, procs_mtx, made, life, cpc, it, pc, hd, arg>>, HmemInv'
    PROVE  IInv'
  <2> USE <1>OtherStep
  <2>1. TypeInv' /\ TableInv' /\ CleanInv' /\ HolderInv'
    BY SMTT(30) DEF IInv, TypeInv, TableInv, CleanInv, HolderInv, alive
  <2>2. ASSUME NEW u \in App PROVE ThreadInv(u)'
    BY <1>QuietEvolves, <1>ThreadKept, Zenon DEF IInv
  <2> QED
    BY <2>1, <2>2, Zenon DEF IInv
  \* A step that gives out no address.
<1>QuietHmem.
    ASSUME IInv, UNCHANGED <<procs, life, cpc>>, hmem' \subseteq hmem
    PROVE  HmemInv'
  <2> USE <1>QuietHmem
  <2>1. CASE cpc = "no"
    BY <2>1, <1>QuietEvolves, <1>HmemKept, Zenon DEF IInv
  <2>2. CASE cpc # "no"
    BY <2>2, Zenon DEF HmemInv
  <2> QED
    BY <2>1, <2>2, Zenon
  \* The variables of threads other than t.
<1>Others.
    ASSUME IInv, NEW t \in App, NEW p \in Handles \cup {Null}
    PROVE  /\ [hd EXCEPT ![t] = p] \in [App -> Handles \cup {Null}]
           /\ [hd EXCEPT ![t] = p][t] = p
           /\ \A u \in App \ {t} : [hd EXCEPT ![t] = p][u] = hd[u]
           /\ hd \in [App -> Handles \cup {Null}] /\ arg = [u \in App |-> arg[u]]
           /\ \A next : [pc EXCEPT ![t] = next][t] = next
    BY <1>Others, Zenon DEF IInv, TypeInv
  \* The check of the number of processes makes the identifier fit.
<1>AllocBegins.
    ASSUME IInv, NEW t \in App, veo_alloc_hmem(t)
    PROVE  IInv'
  <2> USE <1>AllocBegins
  <2>1. cpc = "no" /\ pc[t] = "idle" /\ UNCHANGED <<procs, procs_mtx, made, life, cpc, it, arg, hmem>>
    BY Zenon DEF veo_alloc_hmem, call, tableVars, cleanVars, memVars
  <2>2. HmemInv'
    BY <2>1, <1>QuietHmem, Zenon
  <2>3. CASE ~hmemAllowed
    BY <2>1, <2>2, <2>3, <1>OtherStep, Zenon DEF veo_alloc_hmem
  <2>4. CASE hmemAllowed
    <3>1. PICK p \in Handles : /\ life[p] \in {"running", "closing"} /\ hd' = [hd EXCEPT ![t] = p]
                               /\ pc' = [pc EXCEPT ![t] = "alloc"]
      BY <2>4, Zenon DEF veo_alloc_hmem, step
    <3>2. hd' \in [App -> Handles \cup {Null}] /\ hd'[t] = p /\ pc'[t] = "alloc"
          /\ \A u \in App \ {t} : hd'[u] = hd[u]
      BY <3>1, <1>Others, Zenon
    <3>3. Fits(p, procs)
      BY <2>4, TableElems, ProcTableAssumption DEF hmemAllowed, Fits, IInv, TypeInv
    <3>4. ThreadInv(t)'
      BY <2>1, <3>1, <3>2, <3>3, Zenon DEF ThreadInv, Known
    <3>5. arg' = [u \in App |-> arg'[u]] /\ \A u \in App \ {t} : arg'[u] = arg[u]
      BY <2>1, <1>Others, Zenon
    <3>6. "alloc" \in Pcs \ {"register", "closing"}
      BY Zenon DEF Pcs
    <3> QED
      BY <2>1, <2>2, <3>1, <3>2, <3>4, <3>5, <3>6, <1>QuietStep, Zenon
  <2> QED
    BY <2>3, <2>4, Zenon
  \* malloc() on the host.
<1>AllocHost.
    ASSUME IInv, NEW t \in App, veo_alloc_hmem_vh(t)
    PROVE  IInv'
  <2> USE <1>AllocHost
  <2>1. UNCHANGED <<procs, procs_mtx, made, life, cpc, it, pc, hd, arg>>
    BY Zenon DEF veo_alloc_hmem_vh, tableVars, cleanVars, threadVars
  <2>2. PICK v \in VA : hmem' = hmem \cup {[addr |-> Virtual(v), owner |-> Null]}
    BY Zenon DEF veo_alloc_hmem_vh
  <2>3. Form([addr |-> Virtual(v), owner |-> Null])
        /\ ResolvesIn([addr |-> Virtual(v), owner |-> Null], procs, life)
    BY Zenon DEF Form, ResolvesIn, Virtual
  <2>4. HmemInv'
    BY <2>1, <2>2, <2>3, Zenon DEF HmemInv, IInv
  <2> QED
    BY <2>1, <2>4, <1>OtherStep, Zenon
  \* The allocation on the VE, and the hook.
<1>AllocMiddle.
    ASSUME IInv, NEW t \in App, allocBuff(t) \/ _alloc_hmem_hook(t)
    PROVE  IInv'
  <2> USE <1>AllocMiddle
  <2>1. /\ UNCHANGED <<procs, procs_mtx, made, life, cpc, it, hd, arg, hmem>>
        /\ pc[t] \in {"alloc", "allochook"}
    BY Zenon DEF allocBuff, _alloc_hmem_hook, tableVars, cleanVars, memVars
  <2>2. PICK next \in {"idle", "allochook", "ident"} : pc' = [pc EXCEPT ![t] = next]
    BY Zenon DEF allocBuff, _alloc_hmem_hook, step
  <2>3. cpc = "no" /\ HmemInv'
    BY <2>1, <1>QuietHmem, InCall, Zenon
  <2>4. /\ hd' \in [App -> Handles \cup {Null}] /\ arg' = [u \in App |-> arg'[u]]
        /\ \A u \in App \ {t} : hd'[u] = hd[u] /\ arg'[u] = arg[u]
        /\ pc'[t] = next
    BY <2>1, <2>2, <1>Others, Zenon
  <2>5. ThreadInv(t)'
    BY <2>1, <2>4, Zenon DEF ThreadInv, IInv
  <2>6. next \in Pcs \ {"register", "closing"} /\ pc[t] # "closing"
    BY <2>1, Zenon DEF Pcs
  <2> QED
    BY <2>1, <2>2, <2>3, <2>4, <2>5, <2>6, <1>QuietStep, Zenon
  \* The identifier is stored in the address, which leads to the process.
<1>AllocEnds.
    ASSUME IInv, NEW t \in App, veo_alloc_hmem_ident(t)
    PROVE  IInv'
  <2> USE <1>AllocEnds
  <2> DEFINE i == getProcIdentifier(hd[t])
             a == [addr |-> SET_PROC_IDENT(SET_VE_FLAG(Virtual(va[t])), i), owner |-> hd[t]]
  <2>1. /\ UNCHANGED <<procs, procs_mtx, made, life, cpc, it, hd, arg>>
        /\ pc[t] = "ident" /\ pc' = [pc EXCEPT ![t] = "idle"]
        /\ hmem' = IF i < 0 THEN hmem ELSE hmem \cup {a}
    BY Zenon DEF veo_alloc_hmem_ident, tableVars, cleanVars, step
  <2>2. cpc = "no" /\ hd[t] \in Handles /\ life[hd[t]] \in Known /\ Fits(hd[t], procs)
    BY <2>1, InCall, Zenon DEF IInv, ThreadInv
  <2>3. ASSUME i >= 0
        PROVE  Form(a) /\ ResolvesIn(a, procs, life)
    <3>1. i \in -1 .. (Len(procs) - 1) /\ procs[i + 1] = hd[t]
      BY <2>2, <2>3, IdentifierIsSlot, Zenon
    <3>2. Len(procs) \in Nat /\ VEO_MAX_HMEM_PROCS \in Nat
      BY TableElems, ProcTableAssumption, Zenon DEF IInv, TypeInv
    <3>3. i + 1 \in 1 .. Len(procs) /\ i \in 0 .. VEO_MAX_HMEM_PROCS - 1
      BY <2>2, <2>3, <3>1, <3>2 DEF Fits
    <3> HIDE DEF i
    <3>4. a = [addr |-> [ve |-> 1, ident |-> i, va |-> va[t]], owner |-> hd[t]]
      BY <3>3, Encoded, Zenon
    <3> HIDE DEF a
    <3>5. a.owner = hd[t] /\ a.addr.ve = 1 /\ a.addr.ident = i /\ i \in Nat
      BY <3>3, <3>4
    <3> QED
      BY <2>2, <3>1, <3>3, <3>5, ProcTableAssumption, Zenon DEF Form, ResolvesIn
  <2>4. i \in Int
    BY <2>2, IdentifierIsSlot
  <2> HIDE DEF i, a
  <2>5. HmemInv'
    BY <2>1, <2>2, <2>3, <2>4 DEF HmemInv, IInv
  <2>6. /\ hd' \in [App -> Handles \cup {Null}] /\ arg' = [u \in App |-> arg'[u]]
        /\ \A u \in App \ {t} : hd'[u] = hd[u] /\ arg'[u] = arg[u]
        /\ pc'[t] = "idle"
    BY <2>1, <1>Others, Zenon
  <2>7. ThreadInv(t)'
    BY <2>6, Zenon DEF ThreadInv
  <2>8. "idle" \in Pcs \ {"register", "closing"} /\ pc[t] # "closing"
    BY <2>1, Zenon DEF Pcs
  <2> QED
    BY <2>1, <2>2, <2>5, <2>6, <2>7, <2>8, <1>QuietStep, Zenon
  \* The call begins with addresses that lead to their owners.
<1>UseBegins.
    ASSUME IInv, NEW t \in App, veo_free_hmem(t) \/ veo_hmemcpy(t)
    PROVE  IInv'
  <2> USE <1>UseBegins
  <2>1. /\ UNCHANGED <<procs, procs_mtx, made, life, cpc, it, hd>>
        /\ pc[t] = "idle" /\ cpc = "no" /\ hmem' \subseteq hmem
    BY Zenon DEF veo_free_hmem, veo_hmemcpy, call, tableVars, cleanVars, memVars
  <2>2. HmemInv'
    BY <2>1, <1>QuietHmem, Zenon
  <2>3. CASE UNCHANGED <<pc, arg>>
    BY <2>1, <2>2, <2>3, <1>OtherStep, Zenon
  <2>4. CASE ~UNCHANGED <<pc, arg>>
    <3>1. PICK b : /\ arg' = [arg EXCEPT ![t] = b] /\ pc' = [pc EXCEPT ![t] = "look"]
                   /\ \/ \E x \in hmem : b = <<x>> /\ IS_VE(x.addr)
                      \/ \E x, y \in hmem : b = <<x, y>> /\ (IS_VE(x.addr) \/ IS_VE(y.addr))
      BY <2>4, Zenon DEF veo_free_hmem, veo_hmemcpy, step
    <3>2. /\ arg' = [u \in App |-> arg'[u]] /\ arg'[t] = b /\ pc'[t] = "look"
          /\ \A u \in App \ {t} : arg'[u] = arg[u]
      BY <3>1, Zenon DEF IInv, TypeInv
    <3>3. \A x \in hmem : Form(x) /\ ResolvesIn(x, procs, life)
      BY <2>1, Zenon DEF IInv, HmemInv
    <3>4. /\ Len(b) \in {1, 2} /\ \A i \in 1 .. Len(b) : b[i] \in hmem
          /\ IS_VE((IF IS_VE(b[1].addr) THEN b[1] ELSE b[2]).addr)
          /\ Len(b) = 1 => IS_VE(b[1].addr)
      BY <3>1, SMTT(30)
    <3>5. Operands(t)'
      BY <2>1, <3>2, <3>3, <3>4, Zenon DEF Operands, operand
    <3>6. ThreadInv(t)'
      BY <3>2, <3>5, Zenon DEF ThreadInv
    <3>7. hd' \in [App -> Handles \cup {Null}] /\ \A u \in App \ {t} : hd'[u] = hd[u]
      BY <2>1, <1>Others, Zenon
    <3>8. "look" \in Pcs \ {"register", "closing"}
      BY Zenon DEF Pcs
    <3> QED
      BY <2>1, <2>2, <3>1, <3>2, <3>6, <3>7, <3>8, <1>QuietStep, Zenon
  <2> QED
    BY <2>3, <2>4, Zenon
  \* The first lookup.
<1>FirstLookup.
    ASSUME IInv, NEW t \in App, look(t)
    PROVE  IInv'
  <2> USE <1>FirstLookup
  <2> DEFINE next == IF onVE(t) THEN "look2" ELSE IF hd'[t] = Null THEN "fault"
                     ELSE IF Len(arg[t]) = 1 THEN "free" ELSE "copy"
  <2>1. /\ UNCHANGED <<procs, procs_mtx, made, life, cpc, it, arg, hmem>>
        /\ pc[t] = "look" /\ pc' = [pc EXCEPT ![t] = next]
        /\ hd' = [hd EXCEPT ![t] = getProcHandle(GET_PROC_IDENT(operand(t).addr))]
    BY Zenon DEF look, resolve, step, tableVars, cleanVars
  <2>2. Operands(t) /\ cpc = "no" /\ HmemInv'
    BY <2>1, InCall, <1>QuietHmem, Zenon DEF IInv, ThreadInv
  <2>3. /\ hd'[t] = getProcHandle(GET_PROC_IDENT(operand(t).addr))
        /\ \A u \in App \ {t} : hd'[u] = hd[u] /\ arg'[u] = arg[u]
        /\ arg' = [u \in App |-> arg'[u]] /\ pc'[t] = next
    BY <2>1, Zenon DEF IInv, TypeInv
  <2>4. PICK i \in 1 .. Len(arg[t]) : operand(t) = arg[t][i] /\ (onVE(t) => i = 1)
    BY <2>2, OperandIsArgument, Zenon
  <2>5. /\ hd'[t] = operand(t).owner \/ Gone(operand(t), life)
        /\ operand(t).owner \in Handles /\ hd'[t] \in Handles \cup {Null}
    BY <2>2, <2>3, <2>4, LookupFinds, Zenon DEF Operands
  <2>6. hd' \in [App -> Handles \cup {Null}]
    BY <2>1, <2>3, <2>5, <1>Others, Zenon
  <2>7. Operands(t)' /\ operand(t)' = operand(t) /\ (onVE(t)' <=> onVE(t))
    BY <2>1, <2>2, Zenon DEF Operands, operand, onVE
  <2>8. next \in {"look2", "fault", "free", "copy"} /\ (next = "look2" <=> onVE(t))
    BY Zenon
  <2> HIDE DEF next
  <2>9. next = "look2" => (onVE(t) /\ (hd[t] = arg[t][1].owner \/ Gone(arg[t][1], life)))'
    BY <2>1, <2>4, <2>5, <2>7, <2>8, Zenon
  <2>10. next \in {"free", "copy"} => Reached(t)'
    BY <2>1, <2>4, <2>5, <2>7, <2>8, Zenon DEF Reached
  <2>11. ThreadInv(t)'
    BY <2>3, <2>7, <2>8, <2>9, <2>10, Zenon DEF ThreadInv
  <2>12. next \in Pcs \ {"register", "closing"} /\ pc[t] # "closing"
    BY <2>1, <2>8, Zenon DEF Pcs
  <2> QED
    BY <2>1, <2>2, <2>3, <2>11, <2>12, <2>6, <1>QuietStep, Zenon
  \* The second lookup, for a copy on the VE: of two processes none is used.
<1>SecondLookup.
    ASSUME IInv, NEW t \in App, look2(t)
    PROVE  IInv'
  <2> USE <1>SecondLookup
  <2> DEFINE next == IF hd'[t] # hd[t] THEN "idle" ELSE IF hd'[t] = Null THEN "fault" ELSE "copy"
  <2>1. /\ UNCHANGED <<procs, procs_mtx, made, life, cpc, it, arg, hmem>>
        /\ pc[t] = "look2" /\ pc' = [pc EXCEPT ![t] = next]
        /\ hd' = [hd EXCEPT ![t] = getProcHandle(GET_PROC_IDENT(arg[t][2].addr))]
    BY Zenon DEF look2, resolve, step, tableVars, cleanVars
  <2>2. /\ Operands(t) /\ onVE(t) /\ cpc = "no" /\ HmemInv'
        /\ hd[t] = arg[t][1].owner \/ Gone(arg[t][1], life)
    BY <2>1, InCall, <1>QuietHmem, Zenon DEF IInv, ThreadInv
  <2>3. /\ hd'[t] = getProcHandle(GET_PROC_IDENT(arg[t][2].addr))
        /\ \A u \in App \ {t} : hd'[u] = hd[u] /\ arg'[u] = arg[u]
        /\ arg' = [u \in App |-> arg'[u]] /\ pc'[t] = next
    BY <2>1, Zenon DEF IInv, TypeInv
  <2>4. 1 \in 1 .. Len(arg[t]) /\ 2 \in 1 .. Len(arg[t]) /\ operand(t) = arg[t][1]
    BY <2>2, OperandIsArgument, Zenon
  <2>5. /\ hd'[t] = arg[t][2].owner \/ Gone(arg[t][2], life)
        /\ hd'[t] \in Handles \cup {Null}
    BY <2>2, <2>3, <2>4, LookupFinds, Zenon DEF Operands, onVE
  <2>6. hd' \in [App -> Handles \cup {Null}]
    BY <2>1, <2>3, <2>5, <1>Others, Zenon
  <2>7. Operands(t)' /\ operand(t)' = operand(t) /\ (onVE(t)' <=> onVE(t))
    BY <2>1, <2>2, Zenon DEF Operands, operand, onVE
  <2>8. next \in {"idle", "fault", "copy"} /\ (next = "copy" => hd'[t] = hd[t])
    BY Zenon
  <2> HIDE DEF next
  <2>9. next = "copy" => Reached(t)'
    BY <2>1, <2>2, <2>4, <2>5, <2>7, <2>8, Zenon DEF Reached
  <2>10. ThreadInv(t)'
    BY <2>3, <2>7, <2>8, <2>9, Zenon DEF ThreadInv
  <2>11. next \in Pcs \ {"register", "closing"} /\ pc[t] # "closing"
    BY <2>1, <2>8, Zenon DEF Pcs
  <2> QED
    BY <2>1, <2>2, <2>3, <2>10, <2>11, <2>6, <1>QuietStep, Zenon
  \* What is done on the VE, and the hook.
<1>UseEnds.
    ASSUME IInv, NEW t \in App, copy(t) \/ freeBuff(t) \/ _free_hmem_hook(t)
    PROVE  IInv'
  <2> USE <1>UseEnds
  <2>1. /\ UNCHANGED <<procs, procs_mtx, made, life, cpc, it, hd, arg, hmem>>
        /\ pc[t] \in {"copy", "free", "freehook"}
    BY Zenon DEF copy, freeBuff, _free_hmem_hook, tableVars, cleanVars, memVars
  <2>2. PICK next \in {"idle", "freehook"} : pc' = [pc EXCEPT ![t] = next]
    BY Zenon DEF copy, freeBuff, _free_hmem_hook, step
  <2>3. cpc = "no" /\ HmemInv'
    BY <2>1, InCall, <1>QuietHmem, Zenon
  <2>4. /\ hd' \in [App -> Handles \cup {Null}] /\ arg' = [u \in App |-> arg'[u]]
        /\ \A u \in App \ {t} : hd'[u] = hd[u] /\ arg'[u] = arg[u]
        /\ pc'[t] = next
    BY <2>1, <2>2, <1>Others, Zenon
  <2>5. ThreadInv(t)'
    BY <2>4, Zenon DEF ThreadInv
  <2>6. next \in Pcs \ {"register", "closing"} /\ pc[t] # "closing"
    BY <2>1, Zenon DEF Pcs
  <2> QED
    BY <2>1, <2>2, <2>3, <2>4, <2>5, <2>6, <1>QuietStep, Zenon
  \* An object that has been made is in no slot before its constructor ends.
<1>Constructed.
    ASSUME IInv, NEW t \in App, ProcHandle(t)
    PROVE  IInv'
  <2> USE <1>Constructed
  <2> DEFINE n == made + 1
  <2>1. /\ UNCHANGED <<procs, procs_mtx, arg, cpc, it, hmem>> /\ pc[t] = "idle" /\ cpc = "no"
        /\ made < NProcs /\ made' = n
    BY Zenon DEF ProcHandle, call, memVars, cleanVars
  <2>2. PICK r \in {"failed", "leftover", "constructed"} :
           /\ life' = [life EXCEPT ![n] = r]
           /\ IF r = "constructed"
              THEN pc' = [pc EXCEPT ![t] = "register"] /\ hd' = [hd EXCEPT ![t] = n]
              ELSE UNCHANGED <<pc, hd>>
    BY Zenon DEF ProcHandle, step
  <2>3. n \in Handles /\ made \in Nat /\ NProcs \in Nat
    BY <2>1, ProcTableAssumption DEF Handles, IInv, TypeInv
  <2>4. life[n] = "none" /\ life'[n] = r /\ \A h \in Handles \ {n} : life'[h] = life[h]
    BY <2>2, <2>3 DEF IInv, TypeInv, TableInv, Handles
  <2>5. life' \in [Handles -> Lives]
    BY <2>2, <2>3, Zenon DEF IInv, TypeInv, Lives
  <2>6. \A h \in Handles : alive(h)' <=> alive(h)
    BY <2>4, Zenon DEF alive
  <2>7. Evolves
    BY <2>1, <2>4, Zenon DEF Evolves, Known
  <2>8. \A u \in App \ {t} : pc'[u] = pc[u] /\ hd'[u] = hd[u] /\ arg'[u] = arg[u]
    BY <2>1, <2>2, Zenon DEF IInv, TypeInv
  <2>9. pc'[t] = "idle" \/ (pc'[t] = "register" /\ hd'[t] = n /\ life'[n] = "constructed")
    BY <2>1, <2>2, <2>4, Zenon DEF IInv, TypeInv
  <2>10. TypeInv'
    <3>1. pc' \in [App -> Pcs] /\ hd' \in [App -> Handles \cup {Null}]
      BY <2>2, <2>3, Zenon DEF IInv, TypeInv, Pcs
    <3>2. made' \in 0 .. NProcs
      BY <2>1, <2>3
    <3> QED
      BY <2>1, <2>5, <3>1, <3>2, Zenon DEF IInv, TypeInv
  <2>11. TableInv'
    <3>1. \A i \in 1 .. Len(procs) : procs[i] \in Handles \cup {Null}
      BY TableElems, Zenon DEF IInv, TypeInv
    <3>2. (\A i \in 1 .. Len(procs) : procs[i] # Null => alive(procs[i]))'
      BY <2>1, <2>6, <3>1, Zenon DEF IInv, TableInv, alive
    <3>3. (\A h \in Handles : h > made => life[h] = "none")'
      BY <2>1, <2>3, <2>4 DEF IInv, TableInv, Handles
    <3> QED
      BY <2>1, <2>6, <3>2, <3>3, Zenon DEF IInv, TableInv
  <2>12. ASSUME NEW u \in App, pc[u] = "register" PROVE hd[u] # n /\ hd[u] \in Handles
    BY <2>4, <2>12, Zenon DEF IInv, ThreadInv
  <2>13. ASSUME NEW u \in App, pc[u] = "closing" PROVE hd[u] # n /\ hd[u] \in Handles
    BY <2>4, <2>13, Zenon DEF IInv, ThreadInv, Known
  <2>14. HolderInv'
    <3>1. (\A u, w \in App : pc[u] = "register" /\ pc[w] = "register" /\ hd[u] = hd[w] => u = w)'
      BY <2>8, <2>9, <2>12 DEF IInv, HolderInv
    <3>2. (\A u \in App : pc[u] = "closing" => procs_mtx = u /\ life[hd[u]] # "running")'
      BY <2>1, <2>4, <2>8, <2>9, <2>13 DEF IInv, HolderInv
    <3>3. ASSUME NEW h \in Handles, life'[h] = "closing"
          PROVE  (\E u \in App : procs_mtx = u /\ pc[u] = "closing" /\ hd[u] = h)'
      <4>1. life[h] = "closing"
        BY <2>4, <3>3, Zenon
      <4>2. PICK u \in App : procs_mtx = u /\ pc[u] = "closing" /\ hd[u] = h
        BY <2>1, <4>1, Zenon DEF IInv, HolderInv
      <4> QED
        BY <2>1, <2>8, <4>2, Zenon
    <3> QED
      BY <3>1, <3>2, <3>3, Zenon DEF HolderInv
  <2>15. CleanInv'
    BY <2>1, Zenon DEF CleanInv
  <2>16. HmemInv'
    BY <2>1, <2>7, <1>HmemKept, Zenon DEF IInv
  <2>17. ASSUME NEW u \in App PROVE ThreadInv(u)'
    <3>1. CASE u = t
      BY <2>3, <2>9, <3>1, Zenon DEF ThreadInv
    <3>2. CASE u # t
      <4>1. pc[u] = "register" => life'[hd[u]] = life[hd[u]]
        BY <2>4, <2>12, Zenon
      <4> QED
        BY <2>7, <2>8, <3>2, <4>1, <1>ThreadKept, Zenon DEF IInv
    <3> QED
      BY <3>1, <3>2, Zenon
  <2> QED
    BY <2>10, <2>11, <2>14, <2>15, <2>16, <2>17, Zenon DEF IInv
  \* The constructor enters the process into the table.
<1>Registered.
    ASSUME IInv, NEW t \in App, register(t)
    PROVE  IInv'
  <2> USE <1>Registered
  <2> DEFINE p == hd[t]
  <2>1. /\ UNCHANGED <<procs_mtx, made, hd, arg, cpc, it, hmem>> /\ pc[t] = "register"
        /\ procs_mtx = None /\ procs' = registered(p) /\ life' = [life EXCEPT ![p] = "running"]
        /\ pc' = [pc EXCEPT ![t] = "idle"]
    BY Zenon DEF register, step, Free, memVars, cleanVars
  <2>2. p \in Handles /\ life[p] = "constructed" /\ cpc = "no" /\ p # Null
    BY <2>1, InCall, ProcTableAssumption, Zenon DEF IInv, ThreadInv
  <2> HIDE DEF p
  <2>3. life'[p] = "running" /\ (\A h \in Handles \ {p} : life'[h] = life[h]) /\ life' \in [Handles -> Lives]
    BY <2>1, <2>2, Zenon DEF IInv, TypeInv, Lives
  <2>4. procs \in Seq(Handles \cup {Null}) /\ procs' \in Seq(Handles \cup {Null})
    BY <2>1, <2>2, RegisteredSlot, Zenon DEF IInv, TypeInv
  <2>5. PICK n \in 1 .. Len(procs') :
          /\ procs'[n] = p
          /\ n \in 1 .. Len(procs) => procs[n] = Null
          /\ \A i \in 1 .. Len(procs) : i \in 1 .. Len(procs') /\ (i # n => procs'[i] = procs[i])
          /\ \A i \in 1 .. Len(procs') : i = n \/ i \in 1 .. Len(procs)
    <3>1. procs' = registered(p)
      BY <2>1, Zenon
    <3> QED
      BY ONLY <2>2, <2>4, <3>1, RegisteredSlot, FirstFound, Zenon
  <2>6. \A i \in 1 .. Len(procs) : procs[i] # Null => procs[i] \in Handles \ {p}
    BY <2>2, <2>4, TableElems, Zenon DEF IInv, TableInv, alive
  <2>7. Evolves
    <3>1. \A h \in Handles : life[h] \in Known => h # p /\ life'[h] = life[h]
      BY <2>2, <2>3, Zenon DEF Known
    <3>2. \A i \in 1 .. Len(procs) : procs[i] # Null => procs'[i] = procs[i]
      BY <2>5, Zenon
    <3>3. \A i \in 1 .. Len(procs'), h \in Handles : h # p /\ procs'[i] = h =>
            i \in 1 .. Len(procs) /\ procs[i] = h
      BY <2>5, Zenon
    <3> QED
      BY <2>5, <3>1, <3>2, <3>3, Zenon DEF Evolves
  <2>8. pc'[t] = "idle" /\ pc' \in [App -> Pcs] /\ \A u \in App \ {t} : pc'[u] = pc[u]
    BY <2>1, Zenon DEF IInv, TypeInv, Pcs
  <2>9. TypeInv'
    BY <2>1, <2>3, <2>4, <2>8, Zenon DEF IInv, TypeInv
  <2>10. TableInv'
    <3>1. ASSUME NEW i \in 1 .. Len(procs'), NEW j \in 1 .. Len(procs'),
                 procs'[i] = procs'[j], procs'[i] # Null
          PROVE  i = j
      <4>1. CASE i = n /\ j # n
        BY <2>5, <2>6, <3>1, <4>1, Zenon
      <4>2. CASE j = n /\ i # n
        BY <2>5, <2>6, <3>1, <4>2, Zenon
      <4>3. CASE i # n /\ j # n
        BY <2>5, <3>1, <4>3, Zenon DEF IInv, TableInv
      <4> QED
        BY <4>1, <4>2, <4>3, Zenon
    <3>2. ASSUME NEW i \in 1 .. Len(procs'), procs'[i] # Null
          PROVE  life'[procs'[i]] \in {"running", "closing"}
      <4>1. CASE i = n
        BY <2>3, <2>5, <4>1, Zenon
      <4>2. CASE i # n
        BY <2>3, <2>5, <2>6, <3>2, <4>2 DEF IInv, TableInv, alive
      <4> QED
        BY <4>1, <4>2, Zenon
    <3>3. ASSUME NEW h \in Handles, life'[h] \in {"running", "closing"}
          PROVE  \E i \in 1 .. Len(procs') : procs'[i] = h
      <4>1. CASE h = p
        BY <2>5, <4>1, Zenon
      <4>2. CASE h # p
        <5>1. PICK i \in 1 .. Len(procs) : procs[i] = h
          BY <2>3, <3>3, <4>2, Zenon DEF IInv, TableInv, alive
        <5>2. h # Null
          BY ProcTableAssumption, Zenon
        <5> QED
          BY <2>5, <5>1, <5>2, Zenon
      <4> QED
        BY <4>1, <4>2, Zenon
    <3>4. (\A h \in Handles : h > made => life[h] = "none")'
      BY <2>1, <2>2, <2>3, Zenon DEF IInv, TableInv
    <3> QED
      BY <3>1, <3>2, <3>3, <3>4, Zenon DEF TableInv, alive
  <2>11. HolderInv'
    <3>1. \A u \in App : pc'[u] \in {"register", "closing"} => u # t /\ pc[u] = pc'[u]
      BY <2>8, Zenon
    <3>2. ~\E u \in App : pc[u] = "closing"
      BY <2>1, ProcTableAssumption, Zenon DEF IInv, HolderInv
    <3>3. \A h \in Handles : life'[h] # "closing"
      BY <2>1, <2>2, <2>3, <3>2, Zenon DEF IInv, HolderInv
    <3>4. (\A u, w \in App : pc[u] = "register" /\ pc[w] = "register" /\ hd[u] = hd[w] => u = w)'
      <4>1. \A u, w \in App : pc[u] = "register" /\ pc[w] = "register" /\ hd[u] = hd[w] => u = w
        BY Zenon DEF IInv, HolderInv
      <4>2. hd' = hd
        BY <2>1, Zenon
      <4> QED
        BY <3>1, <4>1, <4>2, Zenon
    <3> QED
      BY <3>1, <3>2, <3>3, <3>4, Zenon DEF HolderInv
  <2>12. CleanInv' /\ HmemInv'
    BY <2>1, <2>2, <2>7, <1>HmemKept, Zenon DEF IInv, CleanInv
  <2>13. ASSUME NEW u \in App PROVE ThreadInv(u)'
    <3>1. CASE u = t
      BY <2>8, <3>1, Zenon DEF ThreadInv
    <3>2. CASE u # t
      <4>1. pc[u] = "register" => hd[u] \in Handles \ {p}
        BY <2>1, <3>2, Zenon DEF IInv, HolderInv, ThreadInv, p
      <4>2. pc[u] = "register" => life'[hd[u]] = life[hd[u]]
        BY <2>3, <4>1, Zenon
      <4> QED
        BY <2>1, <2>7, <2>8, <3>2, <4>2, <1>ThreadKept, Zenon DEF IInv
    <3> QED
      BY <3>1, <3>2, Zenon
  <2> QED
    BY <2>9, <2>10, <2>11, <2>12, <2>13, Zenon DEF IInv
  \* The call of exitProc().
<1>DestroyCalled.
    ASSUME IInv, NEW t \in App, veo_proc_destroy(t)
    PROVE  IInv'
  <2> USE <1>DestroyCalled
  <2>1. PICK p \in Handles : life[p] \in Known /\ hd' = [hd EXCEPT ![t] = p]
    BY Zenon DEF veo_proc_destroy, Known
  <2>2. /\ UNCHANGED <<procs, procs_mtx, made, life, cpc, it, arg, hmem>> /\ cpc = "no" /\ pc[t] = "idle"
        /\ pc' = [pc EXCEPT ![t] = "exit"]
    BY Zenon DEF veo_proc_destroy, call, step, tableVars, memVars, cleanVars
  <2>3. hd' \in [App -> Handles \cup {Null}] /\ hd'[t] = p /\ \A u \in App \ {t} : hd'[u] = hd[u]
    BY <2>1, Zenon DEF IInv, TypeInv
  <2>4. pc'[t] = "exit"
    BY <2>2, Zenon DEF IInv, TypeInv
  <2>5. ThreadInv(t)'
    BY <2>1, <2>2, <2>3, <2>4, Zenon DEF ThreadInv
  <2>6. HmemInv'
    BY <2>2, <1>QuietHmem, Zenon
  <2>7. arg' = [u \in App |-> arg'[u]]
    BY <2>2, Zenon DEF IInv, TypeInv
  <2>8. "exit" \in Pcs \ {"register", "closing"} /\ pc[t] # "closing"
    BY <2>2, Zenon DEF Pcs
  <2> QED
    BY <2>2, <2>3, <2>5, <2>6, <2>7, <2>8, <1>QuietStep, Zenon
  \* exitProc() takes the mutex: nobody else closes a process, and the process
  \* stays in its slot.
<1>ExitBegins.
    ASSUME IInv, NEW t \in App, exitProc(t)
    PROVE  IInv'
  <2> USE <1>ExitBegins
  <2> DEFINE p == hd[t]
  <2>1. /\ UNCHANGED <<procs, made, hd, arg, cpc, it, hmem>> /\ pc[t] = "exit"
        /\ procs_mtx = None /\ procs_mtx' = t
        /\ life' = [life EXCEPT ![p] = IF @ = "running" THEN "closing" ELSE @]
        /\ pc' = [pc EXCEPT ![t] = "closing"]
    BY Zenon DEF exitProc, exitProcBegin, step, Free, memVars, cleanVars
  <2>2. p \in Handles /\ life[p] \in Known /\ cpc = "no"
    BY <2>1, InCall, Zenon DEF IInv, ThreadInv
  <2>3. hd'[t] = p
    BY <2>1, Zenon
  <2> HIDE DEF p
  <2>4. /\ life'[p] = (IF life[p] = "running" THEN "closing" ELSE life[p])
        /\ \A h \in Handles \ {p} : life'[h] = life[h]
    BY <2>1, <2>2, Zenon DEF IInv, TypeInv
  <2>5. life' \in [Handles -> Lives]
    BY <2>1, <2>2, Zenon DEF IInv, TypeInv, Lives, Known
  <2>6. \A h \in Handles : /\ alive(h)' <=> alive(h)
                           /\ life[h] \in Known => life'[h] \in Known
                           /\ life'[h] = "exited" <=> life[h] = "exited"
                           /\ life'[h] = "none" <=> life[h] = "none"
                           /\ life[h] = "constructed" => life'[h] = "constructed"
    BY <2>4, <2>2, Zenon DEF alive, Known
  <2>7. Evolves
    BY <2>1, <2>6, Zenon DEF Evolves, Known
  <2>8. pc'[t] = "closing" /\ pc' \in [App -> Pcs] /\ \A u \in App \ {t} : pc'[u] = pc[u]
    BY <2>1, Zenon DEF IInv, TypeInv, Pcs
  <2>9. TypeInv'
    BY <2>1, <2>5, <2>8, Zenon DEF IInv, TypeInv
  <2>10. TableInv'
    <3>1. \A i \in 1 .. Len(procs) : procs[i] \in Handles \cup {Null}
      BY TableElems, Zenon DEF IInv, TypeInv
    <3>2. (\A i \in 1 .. Len(procs) : procs[i] # Null => alive(procs[i]))'
      BY <2>1, <2>6, <3>1, Zenon DEF IInv, TableInv, alive
    <3> QED
      BY <2>1, <2>6, <3>2, Zenon DEF IInv, TableInv
  <2>11. HolderInv'
    <3>1. ~\E u \in App : pc[u] = "closing"
      BY <2>1, ProcTableAssumption, Zenon DEF IInv, HolderInv
    <3>2. \A h \in Handles : life[h] # "closing"
      BY <2>1, <2>2, <3>1, Zenon DEF IInv, HolderInv
    <3>3. \A u \in App : pc'[u] = "closing" => u = t
      BY <2>8, <3>1, Zenon
    <3>4. \A h \in Handles : life'[h] = "closing" => h = p
      BY <2>4, <3>2, Zenon
    <3>5. (\A u, w \in App : pc[u] = "register" /\ pc[w] = "register" /\ hd[u] = hd[w] => u = w)'
      BY <2>1, <2>8 DEF IInv, HolderInv
    <3>6. life'[p] # "running"
      BY <2>4, Zenon
    <3> QED
      BY <2>1, <2>3, <2>8, <3>3, <3>4, <3>5, <3>6, Zenon DEF HolderInv
  <2>12. CleanInv' /\ HmemInv'
    BY <2>1, <2>2, <2>7, <1>HmemKept, Zenon DEF IInv, CleanInv
  <2>13. ASSUME NEW u \in App PROVE ThreadInv(u)'
    <3>1. CASE u = t
      BY <2>2, <2>3, <2>6, <2>8, <3>1, Zenon DEF ThreadInv
    <3>2. CASE u # t
      <4>1. pc[u] = "register" => life'[hd[u]] = life[hd[u]]
        BY <2>6, Zenon DEF IInv, ThreadInv
      <4> QED
        BY <2>1, <2>7, <2>8, <3>2, <4>1, <1>ThreadKept, Zenon DEF IInv
    <3> QED
      BY <3>1, <3>2, Zenon
  <2> QED
    BY <2>9, <2>10, <2>11, <2>12, <2>13, Zenon DEF IInv
  \* exitProc() ends: the slot of the process becomes nullptr.
<1>ExitEnds.
    ASSUME IInv, NEW t \in App, exitProcReturn(t)
    PROVE  IInv'
  <2> USE <1>ExitEnds
  <2> DEFINE p == hd[t]
  <2>1. /\ UNCHANGED <<made, hd, arg, cpc, it, hmem>> /\ pc[t] = "closing"
        /\ procs_mtx = t /\ procs_mtx' = None
        /\ life' = [life EXCEPT ![p] = "exited"] /\ procs' = removed(p)
        /\ pc' = [pc EXCEPT ![t] = "idle"]
    BY Zenon DEF exitProcReturn, exitProcEnd, step, cleanVars
  <2>2. p \in Handles /\ life[p] \in Known /\ cpc = "no" /\ p # Null
    BY <2>1, InCall, ProcTableAssumption, Zenon DEF IInv, ThreadInv
  <2>3. \A h \in Handles : life[h] = "closing" => h = p
    BY <2>1, <2>2, Zenon DEF IInv, HolderInv
  <2>4. \A u \in App \ {t} : pc[u] # "closing"
    BY <2>1, Zenon DEF IInv, HolderInv
  <2> HIDE DEF p
  <2>5. life'[p] = "exited" /\ (\A h \in Handles \ {p} : life'[h] = life[h]) /\ life' \in [Handles -> Lives]
    BY <2>1, <2>2, Zenon DEF IInv, TypeInv, Lives
  <2>6. /\ procs' \in Seq(Handles \cup {Null}) /\ Len(procs') = Len(procs)
        /\ \A i \in 1 .. Len(procs) : procs'[i] = IF procs[i] = p THEN Null ELSE procs[i]
    BY <2>1, RemovedSlot, Zenon DEF IInv, TypeInv
  <2>7. \A i \in 1 .. Len(procs) : procs[i] \in Handles \cup {Null}
    BY TableElems, Zenon DEF IInv, TypeInv
  <2>8. Evolves
    <3>1. \A h \in Handles : life[h] \in Known =>
            life'[h] \in Known /\ (life[h] = "exited" => life'[h] = "exited")
      BY <2>5, Zenon DEF Known
    <3>2. \A i \in 1 .. Len(procs) : procs[i] # Null /\ life'[procs[i]] # "exited" => procs'[i] = procs[i]
      BY <2>5, <2>6, Zenon
    <3>3. \A i \in 1 .. Len(procs'), h \in Handles : procs'[i] = h =>
            i \in 1 .. Len(procs) /\ procs[i] = h
      BY <2>6, ProcTableAssumption, Zenon
    <3> QED
      BY <2>6, <3>1, <3>2, <3>3, Zenon DEF Evolves
  <2>9. pc'[t] = "idle" /\ pc' \in [App -> Pcs] /\ \A u \in App \ {t} : pc'[u] = pc[u]
    BY <2>1, Zenon DEF IInv, TypeInv, Pcs
  <2>10. TypeInv'
    BY <2>1, <2>5, <2>6, <2>9, Zenon DEF IInv, TypeInv
  <2>11. TableInv'
    <3>1. (\A i, j \in 1 .. Len(procs) : procs[i] = procs[j] /\ procs[i] # Null => i = j)'
      BY <2>6, Zenon DEF IInv, TableInv
    <3>2. (\A i \in 1 .. Len(procs) : procs[i] # Null => alive(procs[i]))'
      BY <2>5, <2>6, <2>7 DEF IInv, TableInv, alive
    <3>3. ASSUME NEW h \in Handles, alive(h)'
          PROVE  \E i \in 1 .. Len(procs') : procs'[i] = h
      <4>1. h # p /\ alive(h)
        BY <2>5, <3>3, Zenon DEF alive
      <4>2. PICK i \in 1 .. Len(procs) : procs[i] = h
        BY <4>1, Zenon DEF IInv, TableInv
      <4> QED
        BY <2>6, <4>1, <4>2, Zenon
    <3>4. (\A h \in Handles : h > made => life[h] = "none")'
      BY <2>1, <2>2, <2>5, Zenon DEF IInv, TableInv, Known
    <3> QED
      BY <3>1, <3>2, <3>3, <3>4, Zenon DEF TableInv
  <2>12. HolderInv'
    <3>1. \A u \in App : pc'[u] # "closing"
      BY <2>4, <2>9, Zenon
    <3>2. \A h \in Handles : life'[h] # "closing"
      BY <2>3, <2>5, Zenon
    <3>3. (\A u, w \in App : pc[u] = "register" /\ pc[w] = "register" /\ hd[u] = hd[w] => u = w)'
      BY <2>1, <2>9, Zenon DEF IInv, HolderInv
    <3> QED
      BY <3>1, <3>2, <3>3, Zenon DEF HolderInv
  <2>13. CleanInv' /\ HmemInv'
    BY <2>1, <2>2, <2>8, <1>HmemKept, Zenon DEF IInv, CleanInv
  <2>14. ASSUME NEW u \in App PROVE ThreadInv(u)'
    <3>1. CASE u = t
      BY <2>9, <3>1, Zenon DEF ThreadInv
    <3>2. CASE u # t
      <4>1. pc[u] = "register" => life'[hd[u]] = life[hd[u]]
        BY <2>2, <2>5, Zenon DEF IInv, ThreadInv, Known
      <4> QED
        BY <2>1, <2>8, <2>9, <3>2, <4>1, <1>ThreadKept, Zenon DEF IInv
    <3> QED
      BY <3>1, <3>2, Zenon
  <2> QED
    BY <2>10, <2>11, <2>12, <2>13, <2>14, Zenon DEF IInv
  \* Asynchronous allocations and their hooks touch neither table nor calls.
<1>AsyncStep.
    ASSUME IInv, (\E t \in App : veo_mem_async(t)) \/ (\E p \in Handles : ProgressThread(p))
    PROVE  IInv'
  <2> USE <1>AsyncStep
  <2>1. UNCHANGED <<tableVars, hmem, threadVars, cleanVars>>
    BY Zenon DEF veo_mem_async, ProgressThread, mem_async, hmem_async_hook
  <2>2. UNCHANGED <<procs, procs_mtx, made, life, cpc, it, pc, hd, arg, hmem>>
    BY <2>1, Zenon DEF tableVars, threadVars, cleanVars
  <2>3. HmemInv'
    BY <2>2, <1>QuietHmem, Zenon
  <2> QED
    BY <2>2, <2>3, <1>OtherStep, Zenon
  \* Once the destructor runs, the threads are idle and no address is used.
<1>CleanStep.
    ASSUME IInv, cpc # "no" \/ \A t \in App : pc[t] = "idle", cpc' # "no",
           UNCHANGED <<pc, hd, arg>>,
           TypeInv', TableInv',
           (\A h \in Handles : life[h] = "closing" =>
              procs_mtx = Destructor /\ cpc = "closing" /\ procs[it] = h)',
           (cpc \in {"closing", "erase"} => it \in 1 .. Len(procs))',
           (cpc = "closing" => /\ procs[it] \in Handles /\ life[procs[it]] = "closing"
                               /\ procs_mtx = Destructor)',
           (cpc = "erase" => procs[it] = Null)'
    PROVE  IInv'
  <2> USE <1>CleanStep
  <2>1. \A t \in App : pc[t] = "idle" /\ pc'[t] = "idle"
    BY Zenon DEF IInv, CleanInv
  <2>2. HolderInv'
    BY <2>1, Zenon DEF HolderInv
  <2>3. CleanInv'
    BY <2>1, Zenon DEF CleanInv
  <2>4. HmemInv' /\ \A t \in App : ThreadInv(t)'
    BY <2>1, Zenon DEF HmemInv, ThreadInv
  <2> QED
    BY <2>2, <2>3, <2>4, Zenon DEF IInv
  \* While the destructor is not inside exitProc(), no process is half closed.
<1>NoneClosing.
    ASSUME IInv, cpc # "closing", \A t \in App : pc[t] # "closing"
    PROVE  \A h \in Handles : life[h] # "closing"
    BY <1>NoneClosing, Zenon DEF IInv, HolderInv
  \* The destructor starts.
<1>CleanupStarts.
    ASSUME IInv, cleanup_start
    PROVE  IInv'
  <2> USE <1>CleanupStarts
  <2>1. /\ UNCHANGED <<procs, procs_mtx, made, life, pc, hd, arg, it>>
        /\ cpc = "no" /\ cpc' = "loop" /\ \A t \in App : pc[t] = "idle"
    BY Zenon DEF cleanup_start, tableVars, threadVars
  <2>2. TypeInv' /\ TableInv'
    BY <2>1 DEF IInv, TypeInv, TableInv, alive
  <2>3. \A h \in Handles : life[h] # "closing"
    BY <2>1, <1>NoneClosing, Zenon
  <2>4. (\A h \in Handles : life[h] = "closing" =>
           procs_mtx = Destructor /\ cpc = "closing" /\ procs[it] = h)'
    BY <2>1, <2>3, Zenon
  <2> QED
    BY <2>1, <2>2, <2>4, <1>CleanStep, Zenon
  \* The loop of the destructor: the end, a nullptr, or the begin of exitProc().
<1>CleanupLoops.
    ASSUME IInv, cleanup_loop
    PROVE  IInv'
  <2> USE <1>CleanupLoops
  <2>1. UNCHANGED <<procs, made, pc, hd, arg>> /\ cpc = "loop"
    BY Zenon DEF cleanup_loop, threadVars
  <2>2. (\A t \in App : pc[t] = "idle") /\ \A h \in Handles : life[h] # "closing"
    BY <2>1, <1>NoneClosing, Zenon DEF IInv, CleanInv
  <2>3. CASE UNCHANGED <<life, procs_mtx>> /\ cpc' \in {"loop", "done"} /\ it' \in {it, it + 1}
    <3>1. TypeInv' /\ TableInv'
      <4>1. it' \in Nat \ {0}
        BY <2>3 DEF IInv, TypeInv
      <4>2. TypeInv'
        BY <2>1, <2>3, <4>1, Zenon DEF IInv, TypeInv
      <4>3. TableInv'
        BY <2>1, <2>3, Zenon DEF IInv, TableInv, alive
      <4> QED
        BY <4>2, <4>3, Zenon
    <3>2. (\A h \in Handles : life[h] = "closing" =>
             procs_mtx = Destructor /\ cpc = "closing" /\ procs[it] = h)'
      BY <2>2, <2>3, Zenon
    <3> QED
      BY <2>1, <2>2, <2>3, <3>1, <3>2, <1>CleanStep, Zenon
  <2>4. CASE ~(it > Len(procs)) /\ procs[it] # Null
    <3> DEFINE p == procs[it]
    <3>1. /\ procs_mtx' = Destructor /\ it' = it /\ cpc' = "closing"
          /\ life' = [life EXCEPT ![p] = IF @ = "running" THEN "closing" ELSE @]
      BY <2>4, Zenon DEF cleanup_loop, exitProcBegin
    <3>2. it \in 1 .. Len(procs)
      BY <2>4, TableElems DEF IInv, TypeInv
    <3>3. p \in Handles /\ alive(p)
      BY <2>4, <3>2, TableElems, Zenon DEF IInv, TypeInv, TableInv
    <3>4. procs'[it'] = p
      BY <2>1, <3>1, Zenon
    <3> HIDE DEF p
    <3>5. life[p] = "running"
      BY <2>2, <3>3, Zenon DEF alive
    <3>6. life'[p] = "closing" /\ (\A h \in Handles \ {p} : life'[h] = life[h]) /\ life' \in [Handles -> Lives]
      BY <3>1, <3>3, <3>5, Zenon DEF IInv, TypeInv, Lives
    <3>7. \A h \in Handles : (alive(h)' <=> alive(h)) /\ (life[h] = "none" => life'[h] = "none")
      BY <3>5, <3>6, Zenon DEF alive
    <3>8. TypeInv'
      BY <2>1, <3>1, <3>6, Zenon DEF IInv, TypeInv
    <3>9. TableInv'
      <4>1. \A i \in 1 .. Len(procs) : procs[i] \in Handles \cup {Null}
        BY TableElems, Zenon DEF IInv, TypeInv
      <4>2. (\A i \in 1 .. Len(procs) : procs[i] # Null => alive(procs[i]))'
        BY <2>1, <3>7, <4>1, Zenon DEF IInv, TableInv, alive
      <4> QED
        BY <2>1, <3>7, <4>2, Zenon DEF IInv, TableInv
    <3>10. (\A h \in Handles : life[h] = "closing" =>
              procs_mtx = Destructor /\ cpc = "closing" /\ procs[it] = h)'
      BY <2>2, <3>1, <3>4, <3>6, Zenon
    <3>11. it' \in 1 .. Len(procs') /\ procs'[it'] \in Handles /\ life'[procs'[it']] = "closing"
      BY <2>1, <3>1, <3>2, <3>3, <3>4, <3>6, Zenon
    <3> QED
      BY <2>1, <2>2, <3>1, <3>8, <3>9, <3>10, <3>11, <1>CleanStep, Zenon
  <2> QED
    BY <2>3, <2>4, Zenon DEF cleanup_loop
  \* exitProc() of the destructor ends.
<1>CleanupCloses.
    ASSUME IInv, cleanup_closing
    PROVE  IInv'
  <2> USE <1>CleanupCloses
  <2>1. PICK p \in Handles : procs[it] = p /\ exitProcEnd(Destructor, p)
    BY Zenon DEF cleanup_closing
  <2>2. /\ UNCHANGED <<made, pc, hd, arg, it>> /\ cpc = "closing" /\ cpc' = "erase"
        /\ procs_mtx' = None /\ life' = [life EXCEPT ![p] = "exited"] /\ procs' = removed(p)
    BY <2>1, Zenon DEF cleanup_closing, exitProcEnd, threadVars
  <2>3. \A h \in Handles : life[h] = "closing" => h = p
    BY <2>1, <2>2, Zenon DEF IInv, HolderInv, CleanInv
  <2>4. life'[p] = "exited" /\ (\A h \in Handles \ {p} : life'[h] = life[h]) /\ life' \in [Handles -> Lives]
    BY <2>2, Zenon DEF IInv, TypeInv, Lives
  <2>5. /\ procs' \in Seq(Handles \cup {Null}) /\ Len(procs') = Len(procs)
        /\ \A i \in 1 .. Len(procs) : procs'[i] = IF procs[i] = p THEN Null ELSE procs[i]
    BY <2>2, RemovedSlot, Zenon DEF IInv, TypeInv
  <2>6. \A i \in 1 .. Len(procs) : procs[i] \in Handles \cup {Null}
    BY TableElems, Zenon DEF IInv, TypeInv
  <2>7. it \in 1 .. Len(procs) /\ life[p] = "closing"
    BY <2>1, <2>2, Zenon DEF IInv, CleanInv
  <2>8. TypeInv'
    BY <2>2, <2>4, <2>5, Zenon DEF IInv, TypeInv
  <2>9. TableInv'
    <3>1. (\A i, j \in 1 .. Len(procs) : procs[i] = procs[j] /\ procs[i] # Null => i = j)'
      BY <2>5, Zenon DEF IInv, TableInv
    <3>2. (\A i \in 1 .. Len(procs) : procs[i] # Null => alive(procs[i]))'
      BY <2>4, <2>5, <2>6 DEF IInv, TableInv, alive
    <3>3. ASSUME NEW h \in Handles, alive(h)'
          PROVE  \E i \in 1 .. Len(procs') : procs'[i] = h
      <4>1. h # p /\ alive(h)
        BY <2>4, <3>3, Zenon DEF alive
      <4>2. PICK i \in 1 .. Len(procs) : procs[i] = h
        BY <4>1, Zenon DEF IInv, TableInv
      <4> QED
        BY <2>5, <4>1, <4>2, Zenon
    <3>4. (\A h \in Handles : h > made => life[h] = "none")'
      BY <2>2, <2>4, <2>7, Zenon DEF IInv, TableInv
    <3> QED
      BY <3>1, <3>2, <3>3, <3>4, Zenon DEF TableInv
  <2>10. \A h \in Handles : life'[h] # "closing"
    BY <2>3, <2>4, Zenon
  <2>11. it' \in 1 .. Len(procs') /\ procs'[it'] = Null
    BY <2>1, <2>2, <2>5, <2>7, Zenon
  <2> QED
    BY <2>2, <2>8, <2>9, <2>10, <2>11, <1>CleanStep, Zenon
  \* The erase() of the slot of an ended process moves the others together.
<1>CleanupErases.
    ASSUME IInv, cleanup_erase
    PROVE  IInv'
  <2> USE <1>CleanupErases
  <2>1. /\ UNCHANGED <<procs_mtx, made, life, pc, hd, arg, it>> /\ cpc = "erase" /\ cpc' = "loop"
        /\ procs' = [i \in 1 .. (Len(procs) - 1) |-> IF i < it THEN procs[i] ELSE procs[i + 1]]
    BY Zenon DEF cleanup_erase, erased, threadVars
  <2>2. it \in 1 .. Len(procs) /\ procs[it] = Null /\ \A t \in App : pc[t] = "idle"
    BY <2>1, Zenon DEF IInv, CleanInv
  <2>3. Len(procs) \in Nat \ {0} /\ \A i \in 1 .. Len(procs) : procs[i] \in Handles \cup {Null}
    BY <2>2, TableElems DEF IInv, TypeInv
  <2>4. \A i \in 1 .. (Len(procs) - 1) : i \in 1 .. Len(procs) /\ i + 1 \in 1 .. Len(procs)
    BY <2>3
  <2>5. procs' \in [1 .. (Len(procs) - 1) -> Handles \cup {Null}]
    BY <2>1, <2>3, <2>4, Zenon
  <2>6. procs' \in Seq(Handles \cup {Null}) /\ Len(procs') = Len(procs) - 1
    BY <2>3, <2>5
  <2>7. \A i \in 1 .. Len(procs') : procs'[i] = IF i < it THEN procs[i] ELSE procs[i + 1]
    BY <2>1, <2>6, Zenon
  <2>8. TypeInv'
    BY <2>1, <2>6, Zenon DEF IInv, TypeInv
  <2>9. TableInv'
    <3>1. ASSUME NEW i \in 1 .. Len(procs'), NEW j \in 1 .. Len(procs'),
                 procs'[i] = procs'[j], procs'[i] # Null
          PROVE  i = j
      <4> DEFINE m == IF i < it THEN i ELSE i + 1
                 n == IF j < it THEN j ELSE j + 1
      <4>1. m \in 1 .. Len(procs) /\ n \in 1 .. Len(procs)
        BY <2>4, <2>6, Zenon
      <4>2. procs[m] = procs'[i] /\ procs[n] = procs'[j]
        BY <2>7, Zenon
      <4>3. m = n
        BY <3>1, <4>1, <4>2, Zenon DEF IInv, TableInv
      <4> QED
        BY <2>2, <4>3
    <3>2. \A i \in 1 .. Len(procs') : procs'[i] # Null => alive(procs'[i])
      BY <2>4, <2>6, <2>7, Zenon DEF IInv, TableInv
    <3>3. ASSUME NEW h \in Handles, alive(h)
          PROVE  \E i \in 1 .. Len(procs') : procs'[i] = h
      <4>1. PICK i \in 1 .. Len(procs) : procs[i] = h
        BY <3>3, Zenon DEF IInv, TableInv
      <4>2. i # it
        BY <2>2, <4>1, ProcTableAssumption, Zenon
      <4> DEFINE m == IF i < it THEN i ELSE i - 1
      <4>3. m \in 1 .. Len(procs') /\ (IF m < it THEN m ELSE m + 1) = i
        BY <2>2, <2>3, <2>6, <4>2
      <4>4. procs'[m] = h
        BY <2>7, <4>1, <4>3, Zenon
      <4> QED
        BY <4>3, <4>4, Zenon
    <3>4. (\A h \in Handles : h > made => life[h] = "none")'
      BY <2>1, Zenon DEF IInv, TableInv
    <3>5. \A h : alive(h)' <=> alive(h)
      BY <2>1, Zenon DEF alive
    <3>6. (\A i \in 1 .. Len(procs) : procs[i] # Null => alive(procs[i]))'
      BY <2>1, <3>2, Zenon DEF alive
    <3> QED
      BY <3>1, <3>3, <3>4, <3>5, <3>6, Zenon DEF TableInv
  <2>10. \A h \in Handles : life'[h] # "closing"
    BY <2>1, <2>2, <1>NoneClosing, Zenon
  <2> QED
    BY <2>1, <2>2, <2>8, <2>9, <2>10, <1>CleanStep, Zenon
<1>1. CASE UNCHANGED vars
  <2>1. UNCHANGED <<procs, procs_mtx, made, life, cpc, it, pc, hd, arg, hmem>>
    BY <1>1, Zenon DEF vars, tableVars, memVars, threadVars, cleanVars
  <2> QED
    BY <2>1, <1>QuietHmem, <1>OtherStep, Zenon
<1>2. ASSUME NEW t \in App, Thread(t) PROVE IInv'
  <2>1. CASE Create(t)
    BY <2>1, <1>Constructed, <1>Registered, Zenon DEF Create
  <2>2. CASE Destroy(t)
    BY <2>2, <1>DestroyCalled, <1>ExitBegins, <1>ExitEnds, Zenon DEF Destroy
  <2>3. CASE Alloc(t)
    BY <2>3, <1>AllocBegins, <1>AllocHost, <1>AllocMiddle, <1>AllocEnds, Zenon DEF Alloc
  <2>4. CASE Use(t)
    BY <2>4, <1>UseBegins, <1>FirstLookup, <1>SecondLookup, <1>UseEnds, Zenon DEF Use
  <2>5. CASE veo_mem_async(t)
    BY <2>5, <1>AsyncStep, Zenon
  <2> QED
    BY <1>2, <2>1, <2>2, <2>3, <2>4, <2>5, Zenon DEF Thread
<1>3. ASSUME NEW p \in Handles, ProgressThread(p) PROVE IInv'
  BY <1>3, <1>AsyncStep, Zenon
<1>4. CASE Cleanup
  BY <1>4, <1>CleanupStarts, <1>CleanupLoops, <1>CleanupCloses, <1>CleanupErases, Zenon DEF Cleanup
<1> QED
  BY <1>1, <1>2, <1>3, <1>4, Zenon DEF Next

\* While the program runs, no step moves a process to another slot.
LEMMA SlotKept ==
  ASSUME FirstFound, IInv, cpc = "no", [Next]_vars, NEW h \in Handles, alive(h),
         NEW i \in 1 .. Len(procs'), procs'[i] = h
  PROVE  i \in 1 .. Len(procs) /\ procs[i] = h
<1>1. ASSUME NEW t \in App, register(t)
      PROVE  i \in 1 .. Len(procs) /\ procs[i] = h
  <2>1. procs' = registered(hd[t]) /\ hd[t] \in Handles /\ life[hd[t]] = "constructed"
    BY <1>1, Zenon DEF register, IInv, ThreadInv
  <2>2. procs \in Seq(Handles \cup {Null}) /\ hd[t] # h
    BY <2>1, Zenon DEF IInv, TypeInv, alive
  <2> QED
    BY ONLY <2>1, <2>2, RegisteredSlot, FirstFound, procs'[i] = h, i \in 1 .. Len(procs')
<1>2. ASSUME NEW p, procs' = removed(p)
      PROVE  i \in 1 .. Len(procs) /\ procs[i] = h
  <2>1. procs \in Seq(Handles \cup {Null}) /\ h # Null
    BY ProcTableAssumption, Zenon DEF IInv, TypeInv
  <2> QED
    BY <1>2, <2>1, RemovedSlot, Zenon
<1>3. \/ procs' = procs
      \/ \E t \in App : register(t) \/ exitProcReturn(t)
  <2>1. CASE UNCHANGED vars
    BY <2>1, Zenon DEF vars, tableVars
  <2>2. ASSUME NEW t \in App, Create(t) \/ Destroy(t)
        PROVE  procs' = procs \/ register(t) \/ exitProcReturn(t)
    BY <2>2, Zenon DEF Create, Destroy, ProcHandle, veo_proc_destroy, exitProc, tableVars
  <2>3. ASSUME NEW t \in App, Alloc(t) \/ veo_mem_async(t) PROVE procs' = procs
    BY <2>3, Zenon DEF Alloc, veo_alloc_hmem, veo_alloc_hmem_vh, allocBuff, _alloc_hmem_hook,
                veo_alloc_hmem_ident, veo_mem_async, tableVars
  <2>4. ASSUME NEW t \in App, Use(t) PROVE procs' = procs
    BY <2>4, Zenon DEF Use, veo_free_hmem, veo_hmemcpy, look, look2, copy, freeBuff,
                _free_hmem_hook, tableVars
  <2>5. ASSUME NEW p \in Handles, ProgressThread(p) PROVE procs' = procs
    BY <2>5, Zenon DEF ProgressThread, mem_async, hmem_async_hook, tableVars
  <2>6. CASE Cleanup
    BY <2>6, Zenon DEF Cleanup, cleanup_start, cleanup_loop, cleanup_closing, cleanup_erase, tableVars
  <2> QED
    BY <2>1, <2>2, <2>3, <2>4, <2>5, <2>6, Zenon DEF Next, Thread
<1>4. ASSUME NEW t \in App, exitProcReturn(t) PROVE procs' = removed(hd[t])
  BY <1>4, Zenon DEF exitProcReturn, exitProcEnd
<1> QED
  BY <1>1, <1>2, <1>3, <1>4, Zenon

-----------------------------------------------------------------------------
\* How the life of a process may change.
LEMMA LifeStep ==
  ASSUME IInv, [Next]_vars, NEW h \in Handles
  PROVE  \/ life'[h] = life[h]
         \/ life[h] \notin Known /\ life'[h] \notin Known
         \/ life'[h] = "running" /\ \E t \in App : register(t) /\ hd[t] = h
         \/ life[h] = "running" /\ life'[h] = "closing"
         \/ life[h] \in Known /\ life'[h] = "exited"
<1>1. life \in [Handles -> Lives] /\ made \in 0 .. NProcs
  BY Zenon DEF IInv, TypeInv
<1>2. ASSUME NEW t \in App, ProcHandle(t)
      PROVE  life'[h] = life[h] \/ (life[h] \notin Known /\ life'[h] \notin Known)
  <2>1. PICK r \in {"failed", "leftover", "constructed"} : life' = [life EXCEPT ![made + 1] = r]
    BY <1>2, Zenon DEF ProcHandle
  <2>2. CASE h = made + 1
    <3>1. life[h] = "none"
      BY <1>1, <2>2 DEF IInv, TableInv
    <3> QED
      BY <1>1, <2>1, <2>2, <3>1, Zenon DEF Known
  <2>3. CASE h # made + 1
    BY <1>1, <2>1, <2>3, Zenon
  <2> QED
    BY <2>2, <2>3, Zenon
<1>3. ASSUME NEW t \in App, register(t)
      PROVE  life'[h] = life[h] \/ (life'[h] = "running" /\ hd[t] = h)
  BY <1>1, <1>3, Zenon DEF register
<1>4. ASSUME NEW t, NEW p, exitProcBegin(t, p)
      PROVE  life'[h] = life[h] \/ (life[h] = "running" /\ life'[h] = "closing")
  BY <1>1, <1>4, Zenon DEF exitProcBegin
<1>5. ASSUME NEW t, NEW p \in Handles, exitProcEnd(t, p), life[p] \in Known
      PROVE  life'[h] = life[h] \/ (life[h] \in Known /\ life'[h] = "exited")
  BY <1>1, <1>5, Zenon DEF exitProcEnd
<1>6. ASSUME NEW t \in App, Destroy(t)
      PROVE  \/ life'[h] = life[h]
             \/ life[h] = "running" /\ life'[h] = "closing"
             \/ life[h] \in Known /\ life'[h] = "exited"
  <2>1. CASE exitProcReturn(t)
    BY <1>5, <2>1, Zenon DEF exitProcReturn, IInv, ThreadInv
  <2> QED
    BY <1>4, <1>6, <2>1, Zenon DEF Destroy, veo_proc_destroy, exitProc, tableVars
<1>7. CASE Cleanup
  <2>1. CASE cleanup_closing
    <3>1. PICK p \in Handles : procs[it] = p /\ exitProcEnd(Destructor, p)
      BY <2>1, Zenon DEF cleanup_closing
    <3>2. life[p] \in Known
      BY <2>1, <3>1, Zenon DEF cleanup_closing, IInv, CleanInv, Known
    <3> QED
      BY <1>5, <3>1, <3>2, Zenon
  <2> QED
    BY <1>4, <1>7, <2>1, Zenon DEF Cleanup, cleanup_start, cleanup_loop, cleanup_erase, tableVars
<1>8. ASSUME NEW t \in App, Alloc(t) \/ Use(t) \/ veo_mem_async(t)
      PROVE  life' = life
  BY <1>8, Zenon DEF Alloc, veo_alloc_hmem, veo_alloc_hmem_vh, allocBuff, _alloc_hmem_hook,
     veo_alloc_hmem_ident, Use, veo_free_hmem, veo_hmemcpy, look, look2, copy, freeBuff,
     _free_hmem_hook, veo_mem_async, tableVars
<1>9. ASSUME (\E p \in Handles : ProgressThread(p)) \/ UNCHANGED vars
      PROVE  life' = life
  BY <1>9, Zenon DEF ProgressThread, mem_async, hmem_async_hook, vars, tableVars
<1> QED
  BY <1>2, <1>3, <1>6, <1>7, <1>8, <1>9, Zenon DEF Next, Thread, Create

\* The operands of a call are hmem addresses.
LEMMA ArgParts ==
  ASSUME NEW a \in Args, NEW i \in 1 .. Len(a)
  PROVE  a[i] \in Hmem
<1>1. CASE a = <<>>
  BY <1>1
<1>2. ASSUME NEW x \in Hmem, a = <<x>>
      PROVE  a[i] \in Hmem
  BY <1>2
<1>3. ASSUME NEW x \in Hmem, NEW y \in Hmem, a = <<x, y>>
      PROVE  a[i] \in Hmem
  BY <1>3
<1> QED
  BY <1>1, <1>2, <1>3 DEF Args

\* What a hook does to the counts.
LEMMA ToldStep ==
  ASSUME IInv, DataType, NEW p \in Handles, NEW v \in VA, NEW d \in Int, tell(p, v, d)
  PROVE  /\ told' \in [Handles \X Idents \X VA -> Int]
         /\ \A h \in Handles, i \in Idents, w \in VA :
              told'[<<h, i, w>>] = told[<<h, i, w>>] +
                (IF h = p /\ w = v /\ i = getProcIdentifier(p) THEN d ELSE 0)
<1> DEFINE n == getProcIdentifier(p)
           a == veo_set_proc_identifier(v, n)
<1>1. n \in Int /\ told \in [Handles \X Idents \X VA -> Int] /\ VEO_MAX_HMEM_PROCS \in Nat
  BY IdentifierIsSlot, TableElems, ProcTableAssumption DEF IInv, TypeInv, DataType
<1>2. told' = IF a = Null THEN told ELSE [told EXCEPT ![<<p, GET_PROC_IDENT(a), v>>] = @ + d]
  BY Zenon DEF tell
<1>3. CASE n \notin Idents
  <2>1. a = Null
    BY <1>1, <1>3 DEF veo_set_proc_identifier, Idents
  <2> HIDE DEF a, n
  <2>2. told' = told
    BY <1>2, <2>1, Zenon
  <2>3. \A h \in Handles, i \in Idents, w \in VA : told[<<h, i, w>>] \in Int
    BY <1>1, Zenon
  <2> QED
    BY <1>1, <1>3, <2>2, <2>3 DEF n
<1>4. CASE n \in Idents
  <2>1. a = [ve |-> 1, ident |-> n, va |-> v]
    BY <1>1, <1>4, Encoded DEF veo_set_proc_identifier, Idents
  <2>2. a # Null /\ GET_PROC_IDENT(a) = n
    BY <1>4, <2>1, ProcTableAssumption DEF Addresses, Idents, GET_PROC_IDENT
  <2> HIDE DEF a, n
  <2>3. told' = [told EXCEPT ![<<p, n, v>>] = @ + d]
    BY <1>2, <2>2, Zenon
  <2>4. <<p, n, v>> \in Handles \X Idents \X VA
    BY <1>4, Zenon
  <2>5. told' \in [Handles \X Idents \X VA -> Int]
    BY <1>1, <2>3, <2>4
  <2>6. ASSUME NEW h \in Handles, NEW i \in Idents, NEW w \in VA
        PROVE  told'[<<h, i, w>>] = told[<<h, i, w>>] + (IF h = p /\ w = v /\ i = n THEN d ELSE 0)
    <3>1. <<h, i, w>> \in Handles \X Idents \X VA /\ told[<<h, i, w>>] \in Int
      BY <1>1, Zenon
    <3>2. CASE h = p /\ w = v /\ i = n
      BY <1>1, <2>3, <3>1, <3>2, Zenon
    <3>3. CASE ~(h = p /\ w = v /\ i = n)
      BY <1>1, <2>3, <3>1, <3>3
    <3> QED
      BY <3>2, <3>3, Zenon
  <2> QED
    BY <2>5, <2>6, Zenon DEF n
<1> QED
  BY <1>3, <1>4, Zenon

\* The job of a progress thread that is to call the hook for address w.
LEMMA HookJob ==
  ASSUME NEW r \in Jobs, NEW w
  PROVE  [r EXCEPT !.st = "hook", !.va = w] = [op |-> r.op, va |-> w, st |-> "hook"]
<1>1. PICK o \in {"none", "alloc", "free"}, a \in VA \cup {Null}, c \in {"idle", "queued", "hook"} :
        r = [op |-> o, va |-> a, st |-> c]
  BY Zenon DEF Jobs
<1>2. [r EXCEPT !.st = "hook"] = [op |-> o, va |-> a, st |-> "hook"]
  BY <1>1
<1>3. [[op |-> o, va |-> a, st |-> "hook"] EXCEPT !.va = w] = [op |-> o, va |-> w, st |-> "hook"]
  OBVIOUS
<1>4. [r EXCEPT !.st = "hook", !.va = w] = [[r EXCEPT !.st = "hook"] EXCEPT !.va = w]
  BY Zenon
<1>5. r.op = o
  BY <1>1, Zenon
<1> QED
  BY <1>2, <1>3, <1>4, <1>5, Zenon

-----------------------------------------------------------------------------
(***************************************************************************)
(* Types.                                                                  *)
(***************************************************************************)

\* A step of thread t that goes on with its own call only.
LEMMA OwnStep ==
  ASSUME IInv, NEW t \in App, NEW next, pc' = [pc EXCEPT ![t] = next]
  PROVE  pc'[t] = next /\ \A u \in App : u # t => pc'[u] = pc[u]
  BY Zenon DEF IInv, TypeInv

\* Looking an operand up.
LEMMA LookupData ==
  ASSUME IInv, DataInv, NEW t \in App, Operands(t), NEW x, Form(x), IS_VE(x.addr), x \in Hmem,
         ResolvesIn(x, procs, life), resolve(t, x)
  PROVE  /\ hd'[t] \in Handles \cup {Null} /\ (hd'[t] \in Handles => life[hd'[t]] \in Known)
         /\ \A u \in App : u # t => hd'[u] = hd[u] /\ va'[u] = va[u]
         /\ va' \in [App -> VA \cup {Null}] /\ va'[t] = x.addr.va /\ va'[t] \in VA
         /\ stale' \in BOOLEAN /\ (stale => stale') /\ (~stale' => hd'[t] = x.owner)
         /\ x.owner \in Handles
<1>1. hd \in [App -> Handles \cup {Null}] /\ va \in [App -> VA \cup {Null}] /\ stale \in BOOLEAN
  BY Zenon DEF IInv, TypeInv, DataInv, DataType
<1>2. /\ hd' = [hd EXCEPT ![t] = getProcHandle(GET_PROC_IDENT(x.addr))]
      /\ va' = [va EXCEPT ![t] = x.addr.va]
      /\ stale' = (stale \/ getProcHandle(GET_PROC_IDENT(x.addr)) # x.owner)
  BY Zenon DEF resolve, VIRT_ADDR_VE
<1>3. getProcHandle(GET_PROC_IDENT(x.addr)) \in Handles \cup {Null} /\ x.owner \in Handles
  BY LookupFinds, Zenon
<1>4. x.addr.va \in VA
  BY Zenon DEF Hmem, Addresses
<1>5. ASSUME getProcHandle(GET_PROC_IDENT(x.addr)) \in Handles
      PROVE  life[getProcHandle(GET_PROC_IDENT(x.addr))] \in Known
  <2>1. x.addr.ident + 1 \in 1 .. Len(procs)
    BY <1>3, ProcTableAssumption, Zenon DEF ResolvesIn
  <2>2. alive(procs[x.addr.ident + 1])
    BY <1>5, <2>1, ProcTableAssumption, Zenon DEF IInv, TableInv, getProcHandle, GET_PROC_IDENT
  <2> QED
    BY <2>2, Zenon DEF alive, Known, getProcHandle, GET_PROC_IDENT
<1>6. hd'[t] = getProcHandle(GET_PROC_IDENT(x.addr)) /\ va'[t] = x.addr.va
  BY <1>1, <1>2, Zenon
<1>7. va' \in [App -> VA \cup {Null}] /\ \A u \in App : u # t => hd'[u] = hd[u] /\ va'[u] = va[u]
  BY <1>1, <1>2, <1>4, Zenon
<1>8. stale' \in BOOLEAN /\ (stale => stale') /\ (~stale' => hd'[t] = x.owner)
  BY <1>1, <1>2, <1>6, Zenon
<1> QED
  BY <1>3, <1>4, <1>5, <1>6, <1>7, <1>8, Zenon

\* The data of the calls and jobs stay well-formed in every step.
LEMMA DataNext ==
  ASSUME IInv, DataInv, [Next]_vars
  PROVE  DataInv'
  \* What a step has to show: its own call, and the process it works on.
<1>DataStep.
    ASSUME IInv, DataInv, [Next]_vars, DataType', stale => stale',
           \A u \in App :
             \/ CallOK(u)'
             \/ pc'[u] = pc[u] /\ hd'[u] = hd[u] /\ va'[u] = va[u] /\ arg'[u] = arg[u],
           \A h \in Handles :
             \/ life[h] \in Known /\ JobOK(h)'
             \/ /\ job'[h] = job[h] /\ mem'[h] = mem[h]
                /\ \A v \in VA : <<h, v>> \in plain' => <<h, v>> \in plain
                /\ \A i \in Idents, v \in VA : told'[<<h, i, v>>] = told[<<h, i, v>>]
    PROVE  DataInv'
  <2> USE <1>DataStep
  <2>1. \A h \in Handles : life[h] \in Known => life'[h] \in Known
    BY LifeStep, Zenon DEF Known
  <2>2. ASSUME NEW u \in App PROVE CallOK(u)'
    <3>1. CASE pc'[u] = pc[u] /\ hd'[u] = hd[u] /\ va'[u] = va[u] /\ arg'[u] = arg[u]
      <4>1. CallOK(u)
        BY Zenon DEF DataInv
      <4> QED
        BY <2>1, <3>1, <4>1, Zenon DEF CallOK
    <3> QED
      BY <3>1, Zenon
  <2>3. ASSUME NEW h \in Handles PROVE JobOK(h)' /\ Fresh(h)'
    <3>1. CASE life[h] \in Known /\ JobOK(h)'
      BY <2>1, <3>1, Zenon DEF Fresh
    <3>2. CASE /\ job'[h] = job[h] /\ mem'[h] = mem[h]
               /\ \A v \in VA : <<h, v>> \in plain' => <<h, v>> \in plain
               /\ \A i \in Idents, v \in VA : told'[<<h, i, v>>] = told[<<h, i, v>>]
      <4>1. JobOK(h) /\ Fresh(h)
        BY Zenon DEF DataInv
      <4>2. JobOK(h)'
        BY <3>2, <4>1, Zenon DEF JobOK, Jobless
      <4>3. Fresh(h)'
        BY <2>1, <3>2, <4>1 DEF Fresh, Jobless
      <4> QED
        BY <4>2, <4>3, Zenon
    <3> QED
      BY <3>1, <3>2, Zenon
  <2> QED
    BY <2>2, <2>3, Zenon DEF DataInv
  \* Steps that touch no memory.
<1>DataTable.
    ASSUME IInv, DataInv, [Next]_vars, UNCHANGED <<mem, hmem, plain, told, stale, va, arg, hooks, job>>,
           ncalls' \in {ncalls} \cup 0 .. MaxCalls,
           \A u \in App :
             \/ pc'[u] \notin {"allochook", "ident", "free", "freehook"}
             \/ pc'[u] = pc[u] /\ hd'[u] = hd[u]
    PROVE  DataInv'
  <2> USE <1>DataTable
  <2>1. DataType'
    BY Zenon DEF DataInv, DataType
  <2>2. \A u \in App : CallOK(u)' \/ (pc'[u] = pc[u] /\ hd'[u] = hd[u])
    BY Zenon DEF CallOK
  <2> QED
    BY <2>1, <2>2, <1>DataStep, Zenon
<1>CallCounts.
    ASSUME DataType, NEW t \in App, call(t)
    PROVE  ncalls' \in 0 .. MaxCalls /\ pc[t] = "idle" /\ cpc = "no"
    BY <1>CallCounts, ProcTableAssumption DEF DataType, call
  \* Creating and destroying processes, up to the end of exitProc().
<1>DataCreate.
    ASSUME IInv, DataInv, [Next]_vars, NEW t \in App,
           Create(t) \/ veo_proc_destroy(t) \/ exitProc(t)
    PROVE  DataInv'
  <2> USE <1>DataCreate
  <2>1. UNCHANGED <<mem, hmem, plain, told, stale, va, arg, hooks, job>>
    BY Zenon DEF Create, ProcHandle, register, veo_proc_destroy, exitProc, memVars
  <2>2. ncalls' \in {ncalls} \cup 0 .. MaxCalls
    BY <1>CallCounts, Zenon DEF Create, ProcHandle, register, veo_proc_destroy, exitProc, DataInv
  <2>3. PICK next \in {"register", "idle", "exit", "closing"} :
          pc' = [pc EXCEPT ![t] = next] \/ UNCHANGED <<pc, hd>>
    BY Zenon DEF Create, ProcHandle, register, veo_proc_destroy, exitProc, step
  <2>4. \A u \in App : u # t => hd'[u] = hd[u]
    BY Zenon DEF Create, ProcHandle, register, veo_proc_destroy, exitProc, IInv, TypeInv
  <2>5. \A u \in App : \/ pc'[u] \notin {"allochook", "ident", "free", "freehook"}
                       \/ pc'[u] = pc[u] /\ hd'[u] = hd[u]
    BY <2>3, <2>4, Zenon DEF IInv, TypeInv
  <2> QED
    BY <2>1, <2>2, <2>5, <1>DataTable, Zenon
  \* The end of exitProc() empties the process.
<1>DataEmptied.
    ASSUME IInv, DataInv, [Next]_vars, NEW p \in Handles, life[p] \in Known,
           mem' = [mem EXCEPT ![p] = {}], job' = [job EXCEPT ![p] = Jobless],
           UNCHANGED <<hmem, plain, told, stale, va, arg, hooks, ncalls, hd>>,
           \A u \in App : pc'[u] = "idle" \/ pc'[u] = pc[u]
    PROVE  DataInv'
  <2> USE <1>DataEmptied
  <2>1. DataType'
    <3>1. Jobless \in Jobs
      BY Zenon DEF Jobless, Jobs
    <3> QED
      BY <3>1, Zenon DEF DataInv, DataType
  <2>2. \A u \in App : CallOK(u)' \/ pc'[u] = pc[u]
    BY Zenon DEF CallOK
  <2>3. mem \in [Handles -> SUBSET VA] /\ job \in [Handles -> Jobs]
    BY Zenon DEF DataInv, DataType
  <2>4. JobOK(p)'
    BY <2>3, Zenon DEF JobOK, Jobless
  <2>5. \A h \in Handles : h # p => job'[h] = job[h] /\ mem'[h] = mem[h]
    BY <2>3, Zenon
  <2> QED
    BY <2>1, <2>2, <2>4, <2>5, <1>DataStep, Zenon
<1>DataExit.
    ASSUME IInv, DataInv, [Next]_vars, NEW t \in App, exitProcReturn(t)
    PROVE  DataInv'
  <2> USE <1>DataExit
  <2>1. hd[t] \in Handles /\ life[hd[t]] \in Known
    BY Zenon DEF exitProcReturn, IInv, ThreadInv
  <2>2. /\ mem' = [mem EXCEPT ![hd[t]] = {}] /\ job' = [job EXCEPT ![hd[t]] = Jobless]
        /\ UNCHANGED <<hmem, plain, told, stale, va, arg, hooks, ncalls, hd>>
    BY Zenon DEF exitProcReturn, exitProcEnd
  <2>3. \A u \in App : pc'[u] = "idle" \/ pc'[u] = pc[u]
    BY Zenon DEF exitProcReturn, step, IInv, TypeInv
  <2> QED
    BY <2>1, <2>2, <2>3, <1>DataEmptied, Zenon
  \* The destructor.
<1>DataCleanup.
    ASSUME IInv, DataInv, [Next]_vars, Cleanup
    PROVE  DataInv'
  <2> USE <1>DataCleanup
  <2>1. CASE cleanup_closing
    <3>1. PICK p \in Handles : procs[it] = p /\ exitProcEnd(Destructor, p)
      BY <2>1, Zenon DEF cleanup_closing
    <3>2. life[p] \in Known
      BY <2>1, <3>1, Zenon DEF cleanup_closing, IInv, CleanInv, Known
    <3>3. /\ mem' = [mem EXCEPT ![p] = {}] /\ job' = [job EXCEPT ![p] = Jobless]
          /\ UNCHANGED <<hmem, plain, told, stale, va, arg, hooks, ncalls, hd, pc>>
      BY <2>1, <3>1, Zenon DEF cleanup_closing, exitProcEnd, threadVars
    <3> QED
      BY <3>2, <3>3, <1>DataEmptied, Zenon
  <2>2. CASE ~cleanup_closing
    <3>1. UNCHANGED <<mem, hmem, plain, told, stale, va, arg, hooks, job, ncalls, pc, hd>>
      BY <2>2, Zenon DEF Cleanup, cleanup_start, cleanup_loop, cleanup_erase, memVars, threadVars
    <3> QED
      BY <3>1, <1>DataTable, Zenon
  <2> QED
    BY <2>1, <2>2, Zenon
  \* veo_alloc_hmem().
<1>DataAlloc.
    ASSUME IInv, DataInv, [Next]_vars, NEW t \in App, Alloc(t)
    PROVE  DataInv'
  <2> USE <1>DataAlloc
  <2>1. DataType /\ CallOK(t) /\ hd \in [App -> Handles \cup {Null}]
    BY Zenon DEF DataInv, IInv, TypeInv
  <2>2. CASE veo_alloc_hmem(t)
    <3>1. UNCHANGED <<mem, hmem, plain, told, stale, va, arg, hooks, job>> /\ call(t)
      BY <2>2, Zenon DEF veo_alloc_hmem, memVars
    <3>2. \/ pc' = [pc EXCEPT ![t] = "alloc"] /\ \A u \in App : u # t => hd'[u] = hd[u]
          \/ UNCHANGED <<pc, hd>>
      BY <2>1, <2>2, Zenon DEF veo_alloc_hmem, step
    <3>3. \A u \in App : \/ pc'[u] \notin {"allochook", "ident", "free", "freehook"}
                         \/ pc'[u] = pc[u] /\ hd'[u] = hd[u]
      BY <3>2, OwnStep
    <3> QED
      BY <2>1, <3>1, <3>3, <1>CallCounts, <1>DataTable, Zenon
  <2>3. CASE veo_alloc_hmem_vh(t)
    <3>1. UNCHANGED <<mem, plain, told, stale, pc, hd, va, arg, hooks, job>> /\ call(t)
      BY <2>3, Zenon DEF veo_alloc_hmem_vh, threadVars
    <3>2. PICK v \in VA : hmem' = hmem \cup {[addr |-> Virtual(v), owner |-> Null]}
      BY <2>3, Zenon DEF veo_alloc_hmem_vh
    <3>3. [addr |-> Virtual(v), owner |-> Null] \in Hmem
      BY ProcTableAssumption DEF Virtual, Hmem, Addresses
    <3>4. DataType'
      BY <2>1, <3>1, <3>2, <3>3, <1>CallCounts, Zenon DEF DataType
    <3> QED
      BY <3>1, <3>4, <1>DataStep, Zenon
  <2>4. CASE allocBuff(t)
    <3>1. /\ UNCHANGED <<hmem, plain, told, stale, hd, arg, hooks, job, ncalls>>
          /\ hd[t] \in Handles /\ life[hd[t]] \in Known
      BY <2>4, Zenon DEF allocBuff, IInv, ThreadInv
    <3>2. CASE pc' = [pc EXCEPT ![t] = "idle"] /\ UNCHANGED <<mem, va>>
      <4>1. \A u \in App : \/ pc'[u] \notin {"allochook", "ident", "free", "freehook"}
                           \/ pc'[u] = pc[u] /\ hd'[u] = hd[u]
        BY <3>1, <3>2, OwnStep, Zenon
      <4> QED
        BY <3>1, <3>2, <4>1, <1>DataTable, Zenon
    <3>3. ASSUME NEW v \in VA, NEW next \in {"allochook", "ident"},
                 mem' = [mem EXCEPT ![hd[t]] = @ \cup {v}], va' = [va EXCEPT ![t] = v],
                 pc' = [pc EXCEPT ![t] = next]
          PROVE  DataInv'
      <4>1. DataType'
        BY <2>1, <3>1, <3>3, Zenon DEF DataType
      <4>2. va'[t] = v /\ \A u \in App : u # t => va'[u] = va[u]
        BY <2>1, <3>3, Zenon DEF DataType
      <4>3. CallOK(t)'
        BY <3>3, <4>2, OwnStep, Zenon DEF CallOK
      <4>4. \A h \in Handles : h # hd[t] => mem'[h] = mem[h]
        BY <2>1, <3>3, Zenon DEF DataType
      <4>5. JobOK(hd[t])'
        BY <3>1, Zenon DEF DataInv, JobOK, Jobless
      <4> QED
        BY <3>1, <3>3, <4>1, <4>2, <4>3, <4>4, <4>5, OwnStep, <1>DataStep, Zenon
    <3> QED
      BY <2>4, <3>2, <3>3, Zenon DEF allocBuff, step
  <2>5. CASE _alloc_hmem_hook(t)
    <3>1. /\ UNCHANGED <<mem, hmem, plain, stale, hd, va, arg, hooks, job, ncalls>>
          /\ hd[t] \in Handles /\ life[hd[t]] \in Known /\ va[t] \in VA
          /\ tell(hd[t], va[t], 1) /\ pc' = [pc EXCEPT ![t] = "ident"]
      BY <2>1, <2>5, Zenon DEF _alloc_hmem_hook, step, IInv, ThreadInv, CallOK
    <3>2. /\ told' \in [Handles \X Idents \X VA -> Int]
          /\ \A h \in Handles, i \in Idents, w \in VA :
               h # hd[t] => told'[<<h, i, w>>] = told[<<h, i, w>>]
      BY <2>1, <3>1, ToldStep DEF DataType
    <3>3. DataType'
      BY <2>1, <3>1, <3>2, Zenon DEF DataType
    <3>4. CallOK(t)'
      <4>1. pc'[t] = "ident"
        BY <3>1, OwnStep, Zenon
      <4> QED
        BY <3>1, <4>1, Zenon DEF CallOK
    <3>5. JobOK(hd[t])'
      BY <3>1, Zenon DEF DataInv, JobOK, Jobless
    <3> QED
      BY <3>1, <3>2, <3>3, <3>4, <3>5, OwnStep, <1>DataStep, SMTT(30)
  <2>6. CASE veo_alloc_hmem_ident(t)
    <3> DEFINE i == getProcIdentifier(hd[t])
    <3>1. /\ UNCHANGED <<mem, plain, told, stale, hd, va, arg, hooks, job, ncalls>>
          /\ hd[t] \in Handles /\ va[t] \in VA /\ Fits(hd[t], procs)
          /\ pc' = [pc EXCEPT ![t] = "idle"]
      BY <2>1, <2>6, Zenon DEF veo_alloc_hmem_ident, step, IInv, ThreadInv, CallOK
    <3>2. hmem' = IF i < 0 THEN hmem
                  ELSE hmem \cup {[addr |-> SET_PROC_IDENT(SET_VE_FLAG(Virtual(va[t])), i),
                                   owner |-> hd[t]]}
      BY <2>6, Zenon DEF veo_alloc_hmem_ident
    <3>3. i \in -1 .. (Len(procs) - 1) /\ (i >= 0 => procs[i + 1] = hd[t]) /\ Len(procs) \in Nat
      BY <3>1, IdentifierIsSlot, TableElems, Zenon DEF IInv, TypeInv
    <3>4. i >= 0 => i \in Idents
      BY <3>1, <3>3, ProcTableAssumption, SMTT(30) DEF Fits, Idents
    <3>5. hmem' \subseteq Hmem
      <4>1. CASE i < 0
        BY <2>1, <3>2, <4>1, Zenon DEF DataType
      <4>2. CASE i >= 0
        <5>1. SET_PROC_IDENT(SET_VE_FLAG(Virtual(va[t])), i) = [ve |-> 1, ident |-> i, va |-> va[t]]
          BY <3>4, <4>2, Encoded, Zenon DEF Idents
        <5>2. hmem' = hmem \cup {[addr |-> [ve |-> 1, ident |-> i, va |-> va[t]], owner |-> hd[t]]}
          BY <3>2, <3>3, <4>2, <5>1
        <5> QED
          BY <2>1, <3>1, <3>4, <4>2, <5>2 DEF DataType, Hmem, Addresses, Idents
      <4> QED
        BY <3>3, <4>1, <4>2
    <3>6. DataType'
      BY <2>1, <3>1, <3>5, Zenon DEF DataType
    <3>7. CallOK(t)'
      <4>1. pc'[t] = "idle"
        BY <3>1, OwnStep, Zenon
      <4> QED
        BY <4>1, Zenon DEF CallOK
    <3> QED
      BY <3>1, <3>6, <3>7, OwnStep, <1>DataStep, Zenon
  <2> QED
    BY <2>2, <2>3, <2>4, <2>5, <2>6, Zenon DEF Alloc
<1>DataLook.
    ASSUME IInv, DataInv, [Next]_vars, NEW t \in App, look(t) \/ look2(t)
    PROVE  DataInv'
  <2> USE <1>DataLook
  <2>1. DataType /\ Operands(t) /\ arg[t] \in Args
    BY Zenon DEF look, look2, IInv, ThreadInv, DataInv, DataType
  <2>2. UNCHANGED <<mem, hmem, plain, told, arg, hooks, job, ncalls>>
    BY Zenon DEF look, look2
  <2>3. PICK j \in 1 .. Len(arg[t]) :
          /\ IS_VE(arg[t][j].addr) /\ resolve(t, arg[t][j])
          /\ look2(t) \/ arg[t][j] = operand(t)
    <3>1. CASE look(t)
      BY <2>1, <3>1, OperandIsArgument, Zenon DEF look, Operands
    <3>2. CASE look2(t)
      <4>1. onVE(t)
        BY <3>2, Zenon DEF look2, IInv, ThreadInv
      <4> QED
        BY <2>1, <3>2, <4>1, OperandIsArgument, Zenon DEF look2, onVE
    <3> QED
      BY <3>1, <3>2, Zenon
  <2>4. /\ hd'[t] \in Handles \cup {Null} /\ (hd'[t] \in Handles => life[hd'[t]] \in Known)
        /\ \A u \in App : u # t => hd'[u] = hd[u] /\ va'[u] = va[u]
        /\ va' \in [App -> VA \cup {Null}] /\ va'[t] = arg[t][j].addr.va /\ va'[t] \in VA
        /\ stale' \in BOOLEAN /\ (stale => stale') /\ (~stale' => hd'[t] = arg[t][j].owner)
    BY <2>1, <2>3, ArgParts, LookupData, Zenon DEF Operands
  <2>5. DataType'
    BY <2>1, <2>2, <2>4, Zenon DEF DataType
  <2>6. PICK next \in {"idle", "look2", "fault", "copy", "free"} :
          /\ pc' = [pc EXCEPT ![t] = next]
          /\ next = "free" => hd'[t] # Null /\ Len(arg[t]) = 1 /\ look(t)
    BY Zenon DEF look, look2, step
  <2>7. CallOK(t)'
    <3>1. pc'[t] = next
      BY <2>6, OwnStep, Zenon
    <3>2. CASE next = "free"
      <4>1. Len(arg[t]) = 1 /\ hd'[t] \in Handles /\ j = 1
        BY <2>4, <2>6, <3>2
      <4>2. life'[hd'[t]] \in Known
        BY <2>4, <4>1, LifeStep, Zenon DEF Known
      <4> QED
        BY <2>2, <2>4, <3>1, <3>2, <4>1, <4>2, Zenon DEF CallOK
    <3>3. CASE next # "free"
      BY <2>6, <3>1, <3>3, Zenon DEF CallOK
    <3> QED
      BY <3>2, <3>3, Zenon
  <2>8. \A u \in App : u # t => pc'[u] = pc[u]
    BY <2>6, OwnStep, Zenon
  <2> QED
    BY <2>2, <2>4, <2>5, <2>7, <2>8, <1>DataStep, Zenon
  \* veo_free_hmem() and veo_hmemcpy() begin and end.
<1>DataUse.
    ASSUME IInv, DataInv, [Next]_vars, NEW t \in App, Use(t)
    PROVE  DataInv'
  <2> USE <1>DataUse
  <2>1. DataType /\ CallOK(t) /\ arg \in [App -> Args]
    BY Zenon DEF DataInv, DataType
  <2>2. ASSUME NEW a \in Args, call(t), hmem' \subseteq hmem,
               UNCHANGED <<mem, plain, told, stale, hd, va, hooks, job>>,
               \/ pc' = [pc EXCEPT ![t] = "look"] /\ arg' = [arg EXCEPT ![t] = a]
               \/ UNCHANGED <<pc, arg>>
        PROVE  DataInv'
    <3>1. DataType'
      BY <2>1, <2>2, <1>CallCounts, Zenon DEF DataType
    <3>2. CASE UNCHANGED <<pc, arg>>
      BY <2>2, <3>1, <3>2, <1>DataStep, Zenon
    <3>3. CASE pc' = [pc EXCEPT ![t] = "look"] /\ arg' = [arg EXCEPT ![t] = a]
      <4>1. pc'[t] = "look" /\ \A u \in App : u # t => pc'[u] = pc[u] /\ arg'[u] = arg[u]
        BY <2>1, <3>3, OwnStep, Zenon
      <4>2. CallOK(t)'
        BY <4>1, Zenon DEF CallOK
      <4> QED
        BY <2>2, <3>1, <4>1, <4>2, <1>DataStep, Zenon
    <3> QED
      BY <2>2, <3>2, <3>3, Zenon
  <2>3. CASE veo_free_hmem(t)
    <3>1. PICK x \in hmem :
            /\ hmem' = hmem \ {x}
            /\ \/ pc' = [pc EXCEPT ![t] = "look"] /\ arg' = [arg EXCEPT ![t] = <<x>>]
               \/ UNCHANGED <<pc, arg>>
      BY <2>3, Zenon DEF veo_free_hmem, step
    <3>2. <<x>> \in Args
      BY <2>1, Zenon DEF DataType, Args
    <3>3. call(t) /\ UNCHANGED <<mem, plain, told, stale, hd, va, hooks, job>>
      BY <2>3, Zenon DEF veo_free_hmem
    <3> QED
      BY <2>2, <3>1, <3>2, <3>3, Zenon
  <2>4. CASE veo_hmemcpy(t)
    <3>1. PICK x \in hmem, y \in hmem :
            \/ pc' = [pc EXCEPT ![t] = "look"] /\ arg' = [arg EXCEPT ![t] = <<x, y>>]
            \/ UNCHANGED <<pc, arg>>
      BY <2>4, Zenon DEF veo_hmemcpy, step
    <3>2. <<x, y>> \in Args
      BY <2>1, Zenon DEF DataType, Args
    <3>3. call(t) /\ UNCHANGED <<mem, hmem, plain, told, stale, hd, va, hooks, job>>
      BY <2>4, Zenon DEF veo_hmemcpy, memVars
    <3> QED
      BY <2>2, <3>1, <3>2, <3>3, Zenon
  <2>5. CASE copy(t)
    <3>1. UNCHANGED <<mem, hmem, plain, told, stale, hd, va, arg, hooks, job, ncalls>>
      BY <2>5, Zenon DEF copy, memVars
    <3>2. pc'[t] = "idle" /\ \A u \in App : u # t => pc'[u] = pc[u]
      BY <2>5, OwnStep, Zenon DEF copy, step
    <3> QED
      BY <3>1, <3>2, <1>DataTable, Zenon
  <2>6. CASE freeBuff(t)
    <3>1. /\ UNCHANGED <<hmem, plain, told, stale, hd, va, arg, hooks, job, ncalls>>
          /\ hd[t] \in Handles /\ life[hd[t]] \in Known /\ va[t] \in VA
          /\ mem' = [mem EXCEPT ![hd[t]] = @ \ {va[t]}]
      BY <2>1, <2>6, Zenon DEF freeBuff, CallOK
    <3>2. PICK next \in {"freehook", "idle"} : pc' = [pc EXCEPT ![t] = next]
      BY <2>6, Zenon DEF freeBuff, step
    <3>3. pc'[t] = next /\ \A u \in App : u # t => pc'[u] = pc[u]
      BY <3>2, OwnStep, Zenon
    <3>4. DataType' /\ \A h \in Handles : h # hd[t] => mem'[h] = mem[h]
      BY <2>1, <3>1, Zenon DEF DataType
    <3>5. life'[hd[t]] \in Known
      BY <3>1, LifeStep, Zenon DEF Known
    <3>6. CallOK(t)'
      BY <3>1, <3>2, <3>3, <3>5, Zenon DEF CallOK
    <3>7. JobOK(hd[t])'
      BY <3>1, Zenon DEF DataInv, JobOK, Jobless
    <3> QED
      BY <3>1, <3>3, <3>4, <3>6, <3>7, <1>DataStep, Zenon
  <2>7. CASE _free_hmem_hook(t)
    <3>1. /\ UNCHANGED <<mem, hmem, plain, stale, hd, va, arg, hooks, job, ncalls>>
          /\ hd[t] \in Handles /\ life[hd[t]] \in Known /\ va[t] \in VA
          /\ tell(hd[t], va[t], -1)
      BY <2>1, <2>7, Zenon DEF _free_hmem_hook, CallOK
    <3>2. pc'[t] = "idle" /\ \A u \in App : u # t => pc'[u] = pc[u]
      BY <2>7, OwnStep, Zenon DEF _free_hmem_hook, step
    <3>3. /\ told' \in [Handles \X Idents \X VA -> Int]
          /\ \A h \in Handles, i \in Idents, w \in VA :
               h # hd[t] => told'[<<h, i, w>>] = told[<<h, i, w>>]
      BY <2>1, <3>1, ToldStep, SMTT(30) DEF DataType
    <3>4. DataType'
      BY <2>1, <3>1, <3>3, Zenon DEF DataType
    <3>5. CallOK(t)'
      BY <3>2, Zenon DEF CallOK
    <3>6. JobOK(hd[t])'
      BY <3>1, Zenon DEF DataInv, JobOK, Jobless
    <3> QED
      BY <3>1, <3>2, <3>3, <3>4, <3>5, <3>6, <1>DataStep, Zenon
  <2> QED
    BY <2>3, <2>4, <2>5, <2>6, <2>7, <1>DataLook, Zenon DEF Use
  \* The asynchronous calls: what a step does to the job of its process.
<1>DataJob.
    ASSUME IInv, DataInv, [Next]_vars, NEW p \in Handles, life[p] \in Known, DataType', JobOK(p)',
           UNCHANGED <<hmem, stale, pc, hd, va, arg>>,
           \A h \in Handles : h # p => job'[h] = job[h] /\ mem'[h] = mem[h],
           \A h \in Handles, v \in VA : h # p => (<<h, v>> \in plain' => <<h, v>> \in plain),
           \A h \in Handles, i \in Idents, v \in VA : h # p =>
             told'[<<h, i, v>>] = told[<<h, i, v>>]
    PROVE  DataInv'
    BY <1>DataJob, <1>DataStep, Zenon
  \* A process with a job is registered.
<1>JobKnown.
    ASSUME DataInv, NEW p \in Handles, job[p].st # "idle"
    PROVE  life[p] \in Known
    BY <1>JobKnown, SMTT(30) DEF DataInv, Fresh, Jobless
<1>DataCallAsync.
    ASSUME IInv, DataInv, [Next]_vars, NEW t \in App, veo_mem_async(t)
    PROVE  DataInv'
  <2> USE <1>DataCallAsync
  <2>1. /\ UNCHANGED <<mem, hmem, told, stale, pc, hd, va, arg, hooks>> /\ DataType
        /\ ncalls' \in 0 .. MaxCalls
    BY <1>CallCounts, Zenon DEF veo_mem_async, threadVars, DataInv
  <2>2. PICK p \in Handles, j \in Jobs :
          /\ life[p] = "running" /\ job' = [job EXCEPT ![p] = j]
          /\ j.st = "queued" /\ plain' \subseteq plain
          /\ (j.op = "alloc" /\ j.va = Null) \/ (j.op = "free" /\ j.va \in VA)
    <3>1. PICK p \in Handles :
            /\ life[p] = "running"
            /\ \/ job' = [job EXCEPT ![p] = [op |-> "alloc", va |-> Null, st |-> "queued"]] /\ plain' = plain
               \/ \E v \in VA : /\ job' = [job EXCEPT ![p] = [op |-> "free", va |-> v, st |-> "queued"]]
                                /\ plain' = plain \ {<<p, v>>}
      BY Zenon DEF veo_mem_async
    <3>2. [op |-> "alloc", va |-> Null, st |-> "queued"] \in Jobs
          /\ \A v \in VA : [op |-> "free", va |-> v, st |-> "queued"] \in Jobs
      BY Zenon DEF Jobs
    <3> QED
      BY <3>1, <3>2, Zenon
  <2>3. DataType'
    BY <2>1, <2>2, Zenon DEF DataType
  <2>4. job'[p] = j /\ \A h \in Handles : h # p => job'[h] = job[h]
    BY <2>1, <2>2, Zenon DEF DataType
  <2>5. JobOK(p)'
    BY <2>2, <2>4, Zenon DEF JobOK
  <2> QED
    BY <2>1, <2>2, <2>3, <2>4, <2>5, <1>DataJob, Zenon DEF Known
<1>DataProgress.
    ASSUME IInv, DataInv, [Next]_vars, NEW p \in Handles, ProgressThread(p)
    PROVE  DataInv'
  <2> USE <1>DataProgress
  <2>1. /\ UNCHANGED <<hmem, stale, pc, hd, va, arg, hooks, ncalls>> /\ DataType
        /\ job[p].st # "idle" /\ JobOK(p) /\ job[p] \in Jobs
    BY Zenon DEF ProgressThread, mem_async, hmem_async_hook, threadVars, DataInv, DataType
  <2>2. life[p] \in Known
    BY <2>1, <1>JobKnown, Zenon
  <2>3. job[p].op \in {"alloc", "free"} /\ (job[p].op = "free" \/ job[p].st = "hook" => job[p].va \in VA)
    BY <2>1, Zenon DEF JobOK, Jobs, ProgressThread, mem_async, hmem_async_hook
  <2>4. ASSUME NEW j \in Jobs, j = Jobless \/ (j.st = "hook" /\ j.op \in {"alloc", "free"} /\ j.va \in VA),
               job' = [job EXCEPT ![p] = j]
        PROVE  JobOK(p)' /\ job' \in [Handles -> Jobs] /\ \A h \in Handles : h # p => job'[h] = job[h]
    <3>1. job'[p] = j /\ job' \in [Handles -> Jobs] /\ \A h \in Handles : h # p => job'[h] = job[h]
      BY <2>1, <2>4, Zenon DEF DataType
    <3> QED
      BY <2>4, <3>1 DEF JobOK, Jobless
  <2>5. Jobless \in Jobs
    BY Zenon DEF Jobless, Jobs
  <2>6. ASSUME NEW v \in VA, finish(p, v)
        PROVE  /\ job' = [job EXCEPT ![p] = Jobless] /\ plain' \subseteq Handles \X VA
               /\ \A h \in Handles, w \in VA : h # p => (<<h, w>> \in plain' => <<h, w>> \in plain)
    BY <2>1, <2>6 DEF finish, DataType
  <2>7. CASE hmem_async_hook(p)
    <3>1. PICK d \in Int : tell(p, job[p].va, d)
      BY <2>7, SMTT(30) DEF hmem_async_hook
    <3>2. job[p].va \in VA /\ finish(p, job[p].va) /\ mem' = mem
      BY <2>3, <2>7, Zenon DEF hmem_async_hook
    <3>3. /\ told' \in [Handles \X Idents \X VA -> Int]
          /\ \A h \in Handles, i \in Idents, w \in VA :
               h # p => told'[<<h, i, w>>] = told[<<h, i, w>>]
      BY <2>1, <3>1, <3>2, ToldStep DEF DataType
    <3>4. job' \in [Handles -> Jobs] /\ JobOK(p)' /\ \A h \in Handles : h # p => job'[h] = job[h]
      BY <2>4, <2>5, <2>6, <3>2, Zenon
    <3>5. DataType'
      BY <2>1, <2>6, <3>2, <3>3, <3>4, Zenon DEF DataType
    <3> QED
      BY <2>1, <2>2, <2>6, <3>2, <3>3, <3>4, <3>5, <1>DataJob, Zenon
  <2>8. CASE mem_async(p)
    <3>1. told' = told
      BY <2>8, Zenon DEF mem_async
    <3>2. CASE job' = [job EXCEPT ![p] = Jobless] /\ UNCHANGED <<mem, plain>>
      <4>1. job' \in [Handles -> Jobs] /\ JobOK(p)' /\ \A h \in Handles : h # p => job'[h] = job[h]
        BY <2>4, <2>5, <3>2, Zenon
      <4>2. DataType'
        BY <2>1, <3>1, <3>2, <4>1, Zenon DEF DataType
      <4> QED
        BY <2>1, <2>2, <3>1, <3>2, <4>1, <4>2, <1>DataJob, Zenon
    <3>3. ASSUME NEW v \in VA,
                 mem' = [mem EXCEPT ![p] = IF job[p].op = "alloc" THEN @ \cup {v} ELSE @ \ {v}],
                 \/ job' = [job EXCEPT ![p].st = "hook", ![p].va = v] /\ plain' = plain
                 \/ finish(p, v)
          PROVE  DataInv'
      <4>1. mem' \in [Handles -> SUBSET VA] /\ \A h \in Handles : h # p => mem'[h] = mem[h]
        BY <2>1, <3>3, Zenon DEF DataType
      <4>2. /\ plain' \subseteq Handles \X VA
            /\ \A h \in Handles, w \in VA : h # p => (<<h, w>> \in plain' => <<h, w>> \in plain)
        BY <2>1, <2>6, <3>3, Zenon DEF DataType
      <4>3. PICK j \in Jobs :
              /\ j = Jobless \/ (j.st = "hook" /\ j.op \in {"alloc", "free"} /\ j.va \in VA)
              /\ job' = [job EXCEPT ![p] = j]
        <5>1. CASE finish(p, v)
          BY <2>5, <2>6, <5>1, Zenon
        <5>2. CASE job' = [job EXCEPT ![p].st = "hook", ![p].va = v]
          <6> DEFINE j == [op |-> job[p].op, va |-> v, st |-> "hook"]
          <6>1. j \in Jobs /\ j.st = "hook" /\ j.op \in {"alloc", "free"} /\ j.va \in VA
            BY <2>3, Zenon DEF Jobs
          <6>2. [job[p] EXCEPT !.st = "hook", !.va = v] = j
            BY <2>1, HookJob, Zenon
          <6>3. [job EXCEPT ![p].st = "hook", ![p].va = v]
                  = [job EXCEPT ![p] = [job[p] EXCEPT !.st = "hook", !.va = v]]
            BY <2>1, Zenon DEF DataType
          <6> QED
            BY <5>2, <6>1, <6>2, <6>3, Zenon
        <5> QED
          BY <3>3, <5>1, <5>2, Zenon
      <4>4. job' \in [Handles -> Jobs] /\ JobOK(p)' /\ \A h \in Handles : h # p => job'[h] = job[h]
        BY <2>4, <4>3, Zenon
      <4>5. DataType'
        BY <2>1, <3>1, <4>1, <4>2, <4>4, Zenon DEF DataType
      <4> QED
        BY <2>1, <2>2, <3>1, <4>1, <4>2, <4>4, <4>5, <1>DataJob, Zenon
    <3>4. \/ job' = [job EXCEPT ![p] = Jobless] /\ UNCHANGED <<mem, plain>>
          \/ \E v \in VA :
               /\ mem' = [mem EXCEPT ![p] = IF job[p].op = "alloc" THEN @ \cup {v} ELSE @ \ {v}]
               /\ \/ job' = [job EXCEPT ![p].st = "hook", ![p].va = v] /\ plain' = plain
                  \/ finish(p, v)
      BY <2>3, <2>8, Zenon DEF mem_async
    <3> QED
      BY <3>2, <3>3, <3>4, Zenon
  <2> QED
    BY <2>7, <2>8, Zenon DEF ProgressThread
<1>1. CASE UNCHANGED vars
  <2>1. UNCHANGED <<mem, hmem, plain, told, stale, va, arg, hooks, job, ncalls, pc, hd>>
    BY <1>1, Zenon DEF vars, memVars, threadVars
  <2> QED
    BY <2>1, <1>DataTable, Zenon
<1>2. ASSUME NEW t \in App, Thread(t)
      PROVE  DataInv'
  BY <1>2, <1>DataCreate, <1>DataExit, <1>DataAlloc, <1>DataUse, <1>DataCallAsync, Zenon DEF Thread,
     Destroy
<1> QED
  BY <1>1, <1>2, <1>DataProgress, <1>DataCleanup, Zenon DEF Next

\* They are initially.
LEMMA DataInit ==
  ASSUME Init
  PROVE  DataInv
<1>1. DataType
  <2>1. Jobless \in Jobs /\ <<>> \in Args
    BY Zenon DEF Jobless, Jobs, Args
  <2>2. mem \in [Handles -> SUBSET VA] /\ hmem \subseteq Hmem /\ plain \subseteq Handles \X VA
        /\ hooks \in BOOLEAN /\ stale \in BOOLEAN /\ va \in [App -> VA \cup {Null}]
    BY Zenon DEF Init
  <2>3. arg \in [App -> Args] /\ job \in [Handles -> Jobs]
    BY <2>1, Zenon DEF Init
  <2>4. told \in [Handles \X Idents \X VA -> Int]
    BY DEF Init, Idents
  <2>5. ncalls \in 0 .. MaxCalls
    BY ProcTableAssumption DEF Init
  <2> QED
    BY <2>2, <2>3, <2>4, <2>5, Zenon DEF DataType
<1>2. \A t \in App : CallOK(t)
  BY Zenon DEF Init, CallOK
<1>3. \A h \in Handles : JobOK(h) /\ Fresh(h)
  BY Zenon DEF Init, JobOK, Fresh, Jobless, Idents
<1> QED
  BY <1>1, <1>2, <1>3, Zenon DEF DataInv
=============================================================================
