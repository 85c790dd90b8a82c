---------------------------- MODULE ProcTableInv ----------------------------
(***************************************************************************)
(* The inductive invariants behind the theorems about ProcTable: the table *)
(* of processes and what a call knows of it (IInv), the data of the calls  *)
(* (DataInv), the progress of the destructor (SweepInv), who holds an      *)
(* address (OwnerInv) and what the hooks have been told (BalanceInv).      *)
(***************************************************************************)
EXTENDS ProcTable

Known == {"running", "closing", "exited"}

\* What an hmem address says of itself, and where it leads.
Form(x) ==
  IF x.owner = Null THEN x.addr.ve = 0
  ELSE x.owner \in Handles /\ x.addr.ve = 1 /\ x.addr.ident \in Nat

ResolvesIn(x, tab, lf) ==
  x.owner # Null =>
    /\ lf[x.owner] \in Known /\ x.addr.ident + 1 \in 1 .. Len(tab)
    /\ lf[x.owner] # "exited" => tab[x.addr.ident + 1] = x.owner

Fits(p, tab) == \A i \in 1 .. Len(tab) : tab[i] = p => i <= VEO_MAX_HMEM_PROCS

TypeInv ==
  /\ procs \in Seq(Handles \cup {Null}) /\ procs_mtx \in App \cup {None, Destructor}
  /\ made \in 0 .. NProcs /\ life \in [Handles -> Lives]
  /\ pc \in [App -> Pcs] /\ hd \in [App -> Handles \cup {Null}]
  /\ arg = [t \in App |-> arg[t]]
  /\ cpc \in {"no", "loop", "closing", "erase", "done"} /\ it \in Nat \ {0}

\* A process is in one slot exactly while it runs; objects not made are new.
TableInv ==
  /\ \A i, j \in 1 .. Len(procs) : procs[i] = procs[j] /\ procs[i] # Null => i = j
  /\ \A i \in 1 .. Len(procs) : procs[i] # Null => alive(procs[i])
  /\ \A h \in Handles : alive(h) => \E i \in 1 .. Len(procs) : procs[i] = h
  /\ \A h \in Handles : h > made => life[h] = "none"

\* A thread that registers has an object of its own; only one thread closes.
HolderInv ==
  /\ \A t, u \in App : pc[t] = "register" /\ pc[u] = "register" /\ hd[t] = hd[u] => t = u
  /\ \A t \in App : pc[t] = "closing" => procs_mtx = t /\ life[hd[t]] # "running"
  /\ \A h \in Handles : life[h] = "closing" =>
       \/ \E t \in App : procs_mtx = t /\ pc[t] = "closing" /\ hd[t] = h
       \/ procs_mtx = Destructor /\ cpc = "closing" /\ procs[it] = h

CleanInv ==
  /\ cpc # "no" => \A t \in App : pc[t] = "idle"
  /\ cpc \in {"closing", "erase"} => it \in 1 .. Len(procs)
  /\ cpc = "closing" => /\ procs[it] \in Handles /\ life[procs[it]] = "closing"
                        /\ procs_mtx = Destructor
  /\ cpc = "erase" => procs[it] = Null

\* The operands of a call on hmem addresses, and the process it has found.
Operands(t) ==
  /\ Len(arg[t]) \in {1, 2}
  /\ \A i \in 1 .. Len(arg[t]) : Form(arg[t][i]) /\ ResolvesIn(arg[t][i], procs, life)
  /\ IS_VE(operand(t).addr) /\ (Len(arg[t]) = 1 => IS_VE(arg[t][1].addr))

Gone(x, lf) == x.owner # Null /\ lf[x.owner] = "exited"

Reached(t) ==
  \/ hd[t] = operand(t).owner /\ (onVE(t) => arg[t][2].owner = operand(t).owner)
  \/ \E i \in 1 .. Len(arg[t]) : Gone(arg[t][i], life)

ThreadInv(t) ==
  /\ pc[t] = "register" => hd[t] \in Handles /\ life[hd[t]] = "constructed"
  /\ pc[t] \in {"exit", "closing", "alloc", "allochook", "ident"} =>
       hd[t] \in Handles /\ life[hd[t]] \in Known
  /\ pc[t] \in {"alloc", "allochook", "ident"} => Fits(hd[t], procs)
  /\ pc[t] \in {"look", "look2", "free", "copy"} => Operands(t)
  /\ pc[t] = "look2" => onVE(t) /\ (hd[t] = arg[t][1].owner \/ Gone(arg[t][1], life))
  /\ pc[t] \in {"free", "copy"} => Reached(t)

HmemInv == cpc = "no" => \A x \in hmem : Form(x) /\ ResolvesIn(x, procs, life)

IInv ==
  /\ TypeInv /\ TableInv /\ HolderInv /\ CleanInv /\ HmemInv
  /\ \A t \in App : ThreadInv(t)

-----------------------------------------------------------------------------
Idents == 0 .. VEO_MAX_HMEM_PROCS - 1
Args == {<<>>} \cup {<<x>> : x \in Hmem} \cup (Hmem \X Hmem)
Jobs == [op : {"none", "alloc", "free"}, va : VA \cup {Null}, st : {"idle", "queued", "hook"}]

\* The part of TypeOK that is not about the table.
DataType ==
  /\ mem \in [Handles -> SUBSET VA] /\ hmem \subseteq Hmem /\ plain \subseteq Handles \X VA
  /\ hooks \in BOOLEAN /\ stale \in BOOLEAN
  /\ told \in [Handles \X Idents \X VA -> Int]
  /\ va \in [App -> VA \cup {Null}] /\ arg \in [App -> Args]
  /\ job \in [Handles -> Jobs]
  /\ ncalls \in 0 .. MaxCalls

\* What a call that has an address of the VE, or is to free one, has in hand.
CallOK(t) ==
  /\ pc[t] \in {"allochook", "ident", "free", "freehook"} => va[t] \in VA
  /\ pc[t] \in {"free", "freehook"} => hd[t] \in Handles /\ life[hd[t]] \in Known
  /\ pc[t] = "free" => /\ Len(arg[t]) = 1 /\ va[t] = arg[t][1].addr.va
                       /\ ~stale => hd[t] = arg[t][1].owner

JobOK(p) ==
  /\ job[p].st = "idle" => job[p] = Jobless
  /\ job[p].st = "queued" =>
       \/ job[p].op = "alloc" /\ job[p].va = Null
       \/ job[p].op = "free" /\ job[p].va \in VA
  /\ job[p].st = "hook" => job[p].op \in {"alloc", "free"} /\ job[p].va \in VA

\* Nothing is known of a process that has not been registered.
Fresh(h) ==
  life[h] \notin Known =>
    /\ mem[h] = {} /\ job[h] = Jobless
    /\ \A v \in VA : <<h, v>> \notin plain
    /\ \A i \in Idents, v \in VA : told[<<h, i, v>>] = 0

DataInv ==
  /\ DataType
  /\ \A t \in App : CallOK(t)
  /\ \A h \in Handles : JobOK(h) /\ Fresh(h)

\* The destructor has passed the slots below its iterator.
SweepInv ==
  /\ cpc = "no" => it = 1
  /\ cpc # "no" => \A i \in 1 .. Len(procs) : i < it => procs[i] = Null
  /\ cpc = "done" => it > Len(procs)

-----------------------------------------------------------------------------
(***************************************************************************)
(* Who holds the address v of process h: the application, a call of thread *)
(* t, or the asynchronous job of the process.                              *)
(***************************************************************************)
Kept(h, v) == {x \in hmem : x.owner = h /\ x.addr.va = v}

Carries(t, h, v) ==
  \/ pc[t] \in {"allochook", "ident"} /\ hd[t] = h /\ va[t] = v
  \/ /\ pc[t] \in {"look", "free"} /\ Len(arg[t]) = 1
     /\ arg[t][1].owner = h /\ arg[t][1].addr.va = v
Carriers(h, v) == {t \in App : Carries(t, h, v)}

InJob(h, v) ==
  /\ job[h].va = v
  /\ \/ job[h].op = "alloc" /\ job[h].st = "hook"
     \/ job[h].op = "free" /\ job[h].st = "queued"

\* An address is allocated exactly if somebody holds it, and nobody else does.
Owned(h, v) ==
  /\ v \in mem[h] <=>
       Kept(h, v) # {} \/ <<h, v>> \in plain \/ Carriers(h, v) # {} \/ InJob(h, v)
  /\ \A x, y \in Kept(h, v) : x = y
  /\ \A t, u \in Carriers(h, v) : t = u
  /\ Kept(h, v) # {} => <<h, v>> \notin plain /\ Carriers(h, v) = {} /\ ~InJob(h, v)
  /\ <<h, v>> \in plain => Carriers(h, v) = {} /\ ~InJob(h, v)
  /\ Carriers(h, v) # {} => ~InJob(h, v)

OwnerInv ==
  cpc = "no" /\ ~stale => \A h \in Handles, v \in VA : alive(h) => Owned(h, v)

-----------------------------------------------------------------------------
\* What the hooks have been told of address v of process h.
ToTell(s, h, v) == {t \in App : pc[t] = s /\ hd[t] = h /\ va[t] = v}
Async(op, h, v) == IF job[h].st = "hook" /\ job[h].op = op /\ job[h].va = v THEN 1 ELSE 0
Balance(h, v) ==
  (IF v \in mem[h] THEN 1 ELSE 0) + Cardinality(ToTell("freehook", h, v)) + Async("free", h, v)
    - Cardinality(ToTell("allochook", h, v)) - Async("alloc", h, v)
Balanced(h, v) ==
  \A i \in Idents : told[<<h, i, v>>] = IF getProcIdentifier(h) # i THEN 0 ELSE Balance(h, v)

BalanceInv ==
  cpc = "no" /\ hooks /\ ~stale => \A h \in Handles, v \in VA : alive(h) => Balanced(h, v)
=============================================================================
