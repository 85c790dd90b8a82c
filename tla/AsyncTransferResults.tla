------------------------ MODULE AsyncTransferResults ------------------------
(***************************************************************************)
(* Who takes which result.  A fragment takes the result of its predecessor *)
(* in the chain, the VH command of a large call those of the three parts   *)
(* of the call, and the waiting thread the result of the last command      *)
(* (ResultInv).  No result is taken twice or before it is there, none is   *)
(* left over, and the stack image goes last.  The second part is about the *)
(* bytes: what VE memory and the buffer of a request hold once a command   *)
(* of its chain has succeeded (DataInv).                                   *)
(***************************************************************************)
EXTENDS AsyncTransferProofs

\* Results of other commands that are to be taken belong to their threads.
LEMMA Kept ==
  ASSUME TransferInv, QueueInv, ChainInv
  PROVE  /\ \A c \in Issued : cmd[c].t \in App /\ c \in Of(cmd[c].t)
         /\ \A t \in App : \A c \in Of(t) : cmd[c].t = t /\ c \in Issued /\ c \in Int /\ c \in Ids
         /\ Pending \subseteq Issued
         /\ INVALID \notin Issued
<1>1. Elems(request) \cup inflight \subseteq Issued
  BY Zenon DEF QueueInv
<1>2. Issued \subseteq Int /\ INVALID \notin Issued /\ Issued \subseteq Ids
  BY QueueFacts, Zenon
<1> QED
  BY <1>1, <1>2, Zenon DEF Of, ChainInv, Pending

\* A command has at most one successor, and the last of a chain has none.
LEMMA OneSuccessor ==
  ASSUME TransferInv, QueueInv, ChainInv, NEW c \in Issued, cmd[c].prev # INVALID
  PROVE  /\ cmd[c].prev \in Of(cmd[c].t) /\ cmd[c].prev < c /\ cmd[c].op \in Fragments
         /\ cmd[c].prev \in Chain(cmd[c].t, cmd[c].op) /\ c \in Chain(cmd[c].t, cmd[c].op)
         /\ \A d \in Issued : cmd[d].prev = cmd[c].prev => d = c
         /\ \A t \in App : \A o : ~Top(t, o, cmd[c].prev)
         /\ \A t \in App : ~(\A d \in Of(t) : d <= cmd[c].prev) \/ cmd[c].prev \notin Of(t)
<1>1. \A d \in Issued : cmd[d].t \in App /\ d \in Of(cmd[d].t) /\ d \in Int
  BY Kept, Numbers, Zenon
<1>2. ASSUME NEW d \in Issued, cmd[d].prev # INVALID
      PROVE  /\ cmd[d].op \in Fragments /\ cmd[d].prev \in Chain(cmd[d].t, cmd[d].op)
             /\ cmd[d].prev < d
             /\ \A e \in Chain(cmd[d].t, cmd[d].op) : e < d => e <= cmd[d].prev
             /\ d \in Chain(cmd[d].t, cmd[d].op)
  <2>1. CommandInv(d, cmd[d].t)
    BY <1>1, Zenon DEF ChainInv
  <2> QED
    BY <1>1, <1>2, <2>1, Zenon DEF CommandInv, Chain
<1>3. PICK p : p = cmd[c].prev
  BY Zenon
<1>4. p \in Chain(cmd[c].t, cmd[c].op) /\ p < c /\ p \in Int /\ c \in Int
  BY <1>1, <1>2, <1>3, Numbers, Zenon
<1>5. p \in Of(cmd[c].t) /\ cmd[p].t = cmd[c].t /\ cmd[p].op = cmd[c].op
  BY <1>4, Zenon DEF Chain, Of
<1>6. ASSUME NEW d \in Issued, cmd[d].prev = p PROVE d = c
  <2>1. p \in Chain(cmd[d].t, cmd[d].op) /\ p < d /\ d \in Int
    BY <1>1, <1>2, <1>3, <1>6, Zenon
  <2>2. cmd[d].t = cmd[c].t /\ cmd[d].op = cmd[c].op
    BY <1>5, <2>1, Zenon DEF Chain, Of
  <2>3. d < c => d <= p
    BY <1>2, <1>3, <1>6, <2>2, Zenon
  <2>4. c < d => c <= p
    BY <1>2, <1>3, <1>6, <2>2, Zenon
  <2> QED
    BY <1>4, <2>1, <2>3, <2>4
<1>7. ASSUME NEW t \in App, NEW o, Top(t, o, p) PROVE FALSE
  <2>1. cmd[p].t = t /\ cmd[p].op = o
    BY <1>7, Zenon DEF Top, Chain, Of
  <2>2. c \in Chain(t, o)
    BY <1>2, <1>3, <1>5, <2>1, Zenon
  <2> QED
    BY <1>4, <1>7, <2>2 DEF Top
<1>8. ASSUME NEW t \in App, \A d \in Of(t) : d <= p, p \in Of(t) PROVE FALSE
  <2>1. cmd[p].t = t
    BY <1>8, Zenon DEF Of
  <2>2. c \in Of(t)
    BY <1>1, <1>5, <2>1, Zenon
  <2> QED
    BY <1>4, <1>8, <2>2
<1> QED
  BY <1>2, <1>3, <1>4, <1>5, <1>6, <1>7, <1>8, Zenon

\* The VH command of a large call comes after all of its other commands.
LEMMA FinishLast ==
  ASSUME TransferInv, QueueInv, ChainInv, NEW c \in Issued, cmd[c].op = "finish"
  PROVE  /\ \A d \in Of(cmd[c].t) : d <= c
         /\ isLarge(cmd[c].t) /\ pc[cmd[c].t] \in {"wait", "done"} /\ prev[cmd[c].t] = INVALID
         /\ c \in Of(cmd[c].t)
<1>1. PICK t \in App : t = cmd[c].t /\ c \in Of(t)
  BY Kept, Zenon
<1>2. ASSUME NEW d \in Of(t), ~(d <= c) PROVE FALSE
  <2>1. CommandInv(d, t) /\ d \in Int /\ c \in Int
    BY Numbers, Zenon DEF ChainInv
  <2>2. "finish" \in Earlier(cmd[d].op)
    BY <1>1, <1>2, <2>1 DEF CommandInv
  <2> QED
    BY <2>2, Zenon DEF Earlier
<1>3. isLarge(t)
  <2>1. CommandInv(c, t)
    BY <1>1, Zenon DEF ChainInv
  <2> QED
    BY <2>1, Zenon DEF CommandInv, Suits
<1>4. pc[t] \in {"wait", "done"} /\ prev[t] = INVALID
  <2>1. PlaceInv(t) /\ FragInv(t) /\ pc[t] \in Pcs
    BY Zenon DEF ChainInv, ThreadInv, TransferInv, TypeOK
  <2>2. "finish" \in OpsAt(pc[t])
    BY <1>1, <2>1, Zenon DEF PlaceInv
  <2> QED
    BY <2>1, <2>2, Zenon DEF OpsAt, Pcs, FragInv
<1> QED
  BY <1>1, <1>2, <1>3, <1>4, Zenon

\* The parts of a thread are its own, and are no VH commands.
LEMMA PartsOwn ==
  ASSUME TransferInv, QueueInv, ChainInv, NEW t \in App, NEW p \in PartSet(t)
  PROVE  /\ p \in Of(t) /\ cmd[p].op \in {"send", "call", "recv"} /\ p \in Ids
         /\ \A c \in Issued : cmd[c].prev # p
<1>1. PartsInv(t)
  BY Zenon DEF ChainInv, ThreadInv
<1>2. \/ p \in Chain(t, "call") \/ Top(t, "send", p) \/ Top(t, "recv", p)
  BY <1>1, Zenon DEF PartsInv, PartSet
<1>3. p \in Of(t) /\ cmd[p].op \in {"send", "call", "recv"}
  BY <1>2, Zenon DEF Chain, Top
<1>4. p \in Ids /\ p # INVALID
  BY <1>3, Kept, Zenon
<1>5. ASSUME NEW c \in Issued, cmd[c].prev = p PROVE FALSE
  <2>1. /\ p \in Chain(cmd[c].t, cmd[c].op) /\ cmd[c].op \in Fragments
        /\ \A o : ~Top(t, o, p)
    BY <1>4, <1>5, OneSuccessor, Zenon
  <2>2. cmd[p].op = "call"
    BY <1>2, <2>1, Zenon DEF Chain
  <2> QED
    BY <2>1, <2>2, Zenon DEF Chain, Fragments
<1> QED
  BY <1>3, <1>4, <1>5, Zenon

-----------------------------------------------------------------------------
\* The oldest command finds the results it takes.
LEMMA Ready ==
  ASSUME TransferInv, QueueInv, ChainInv, DoneInv, TakeInv, DeleteInv
  PROVE  ResultsReady
<1>1. /\ rem_reqid = Pending \cup completion /\ Issued \subseteq Int /\ Ids \subseteq Int
      /\ request \in Seq(Ids) /\ Pending \subseteq Issued
  BY QueueFacts, Kept, Zenon DEF DoneInv
<1>2. ASSUME rep # <<>>, cmd[Head(rep).id].prev # INVALID
      PROVE  cmd[Head(rep).id].prev \in completion \cap rem_reqid
  <2>1. PICK c : c = Head(rep).id
    BY Zenon
  <2>2. PICK r : r = Tail(rep)
    BY Zenon
  <2>3. c \in RepIds /\ \A i \in RepIds : c <= i
    <3>1. rep \in Seq(Reply) /\ Len(rep) \in Nat \ {0} /\ DOMAIN rep = 1 .. Len(rep) /\ Head(rep) = rep[1]
      BY <1>2, QueueFacts
    <3>2. \A n \in DOMAIN rep : rep[n].id \in Int
      BY <3>1, QueueFacts, Zenon DEF Reply
    <3>3. \A n \in DOMAIN rep : rep[1].id <= rep[n].id
      <4> SUFFICES ASSUME NEW n \in DOMAIN rep PROVE rep[1].id <= rep[n].id
        BY Zenon
      <4>1. n = 1 \/ 1 < n
        BY <3>1
      <4>2. 1 \in DOMAIN rep /\ rep[1].id \in Int /\ rep[n].id \in Int
        BY <3>1, <3>2
      <4>3. 1 < n => rep[1].id < rep[n].id
        BY <4>2, Zenon DEF QueueInv
      <4> QED
        BY <4>1, <4>2, <4>3
    <3> QED
      BY <2>1, <3>1, <3>3 DEF RepIds
  <2>4. state # "EXIT" /\ inflight = Elems(chan) \cup RepIds
    BY <1>2, Zenon DEF QueueInv, Over
  <2>5. c \in Pending /\ c \in Issued /\ c \in Int
    BY <1>1, <2>3, <2>4, Zenon DEF Pending
  <2>6. \A i \in Pending : c <= i
    <3>1. \A i \in Elems(chan) \cup Elems(request) : c < i
      BY <2>3, Zenon DEF QueueInv
    <3> QED
      BY <1>1, <2>3, <2>4, <2>5, <3>1 DEF Pending
  <2>7. PICK p : p = cmd[c].prev
    BY Zenon
  <2>8. p \in rem_reqid /\ p < c /\ p \in Int
    BY <1>1, <1>2, <2>1, <2>5, <2>7, OneSuccessor, Kept, Zenon DEF TakeInv
  <2> QED
    BY <1>1, <2>1, <2>5, <2>6, <2>7, <2>8
<1>3. ASSUME NEW c \in Elems(request), c = Head(request), cmd[c].op = "finish", vhReady
      PROVE  Elems(partsInOrder(cmd[c].t)) \ {INVALID} \subseteq completion \cap rem_reqid
  <2>1. c \in Pending /\ c \in Issued /\ c \in Int /\ Pending = Elems(request)
    BY <1>1, <1>3, Zenon DEF Pending, vhReady, emptyInFlight
  <2>2. PICK t \in App : t = cmd[c].t
    BY <2>1, Kept, Zenon
  <2>3. (\A d \in Of(t) : d <= c) /\ isLarge(t) /\ c \in Of(t)
    BY <1>3, <2>1, <2>2, FinishLast, Zenon
  <2>4. \A i \in Pending : c <= i
    <3>1. request # <<>>
      BY DEF Elems
    <3> QED
      BY <1>1, <1>3, <2>1, <3>1, TailIncreasing DEF QueueInv
  <2>5. PartSet(t) \subseteq rem_reqid
    <3>1. deletes[t] = 0
      BY <2>1, <2>3, Zenon DEF DeleteInv
    <3> QED
      BY <2>3, <3>1, Zenon DEF TakeInv
  <2>6. ASSUME NEW p \in PartSet(t) PROVE p \in completion
    <3>1. p \in Of(t) /\ cmd[p].op \in {"send", "call", "recv"} /\ p \in Int
      BY <1>1, PartsOwn, Zenon
    <3>2. p < c
      BY <1>3, <2>1, <2>3, <3>1
    <3> QED
      BY <1>1, <2>1, <2>4, <2>5, <3>1, <3>2
  <2>7. Elems(partsInOrder(t)) \ {INVALID} = PartSet(t)
    BY DEF Elems, partsInOrder, PartSet
  <2> QED
    BY <2>2, <2>5, <2>6, <2>7, Zenon
<1> QED
  BY <1>2, <1>3, Zenon DEF ResultsReady

-----------------------------------------------------------------------------
\* A step of thread t that adds the commands K, one or none.
Grows(t, K) ==
  /\ K \subseteq Ids /\ (\A i \in Issued, k \in K : i < k)
  /\ Issued' = Issued \cup K /\ Pending' = Pending \cup K
  /\ Elems(request)' = Elems(request) \cup K /\ rem_reqid' = rem_reqid \cup K
  /\ Of(t)' = Of(t) \cup K /\ \A u \in App \ {t} : Of(u)' = Of(u)
  /\ \A i \in Issued : cmd'[i] = cmd[i]
  /\ \A k \in K : cmd'[k].prev \in {INVALID, prev[t]}
  /\ UNCHANGED <<completion, status, deletes, outcome, req, chan, rep, child>>
  /\ UNCHANGED <<onVE, ran, buffer, outArgs>>
  /\ OthersSame(t)
  /\ prev'[t] \in {INVALID} \cup K /\ PartSet(t)' \subseteq PartSet(t) \cup K
  /\ pc'[t] = "wait" => ret'[t] \in K
  /\ pc'[t] # "done" /\ pc[t] \notin {"wait", "done", "failed"}

-----------------------------------------------------------------------------

\* A thread that submits keeps the first layers.
LEMMA SubmitsStep ==
  ASSUME TransferInv, QueueInv, ChainInv, ResultInv
  PROVE  \A t \in App : Submits(t) => QueueInv' /\ ChainInv' /\ ResultInv' /\ \E K : Grows(t, K)
<1>ResultThread.
    ASSUME TransferInv, QueueInv, ChainInv, ResultInv, NEW t \in App, NEW K, Grows(t, K)
    PROVE  ResultInv'
  <2> USE <1>ResultThread
  <2> USE DEF Grows
  <2>1. /\ \A c \in Issued : cmd[c].t \in App /\ c \in Of(cmd[c].t)
        /\ \A u \in App : \A c \in Of(u) : cmd[c].t = u /\ c \in Issued /\ c \in Int /\ c \in Ids
        /\ Pending \subseteq Issued /\ Issued \subseteq Ids
    BY Kept, Numbers, Zenon
  <2>2. \A u \in App : isLarge(u)' <=> isLarge(u)
    BY SameTotals, Zenon
  <2>3. \A u \in App : u # t => /\ pc'[u] = pc[u] /\ prev'[u] = prev[u] /\ PartSet(u)' = PartSet(u)
                                /\ ret'[u] = ret[u]
    BY Zenon DEF OthersSame, PartSet
  <2>4. deletes[t] = 0 /\ \A c \in Of(t) : cmd[c].op # "finish"
    <3>1. PlaceInv(t) /\ pc[t] \in Pcs
      BY Zenon DEF ChainInv, ThreadInv, TransferInv, TypeOK
    <3> QED
      BY <3>1, Zenon DEF ResultInv, DeleteInv, PlaceInv, OpsAt, Pcs
  <2>9. /\ \A c \in K : status[c] = "UNFINISHED" /\ c \notin Issued /\ c \in Int
        /\ \A u \in App : Of(u)' \subseteq Of(u) \cup K
    <3>1. \A c \in K : c \notin Issued /\ c \in Ids /\ c \in Int
      BY <2>1, QueueFacts
    <3> QED
      BY <3>1, Zenon DEF ResultInv, DoneInv
  <2>5. DoneInv'
    BY <2>1, <2>9, Zenon DEF ResultInv, DoneInv
  <2>6. TakeInv'
    <3>1. ASSUME NEW c \in Pending', cmd'[c].prev # INVALID PROVE cmd'[c].prev \in rem_reqid'
      BY <2>1, <3>1, Zenon DEF ResultInv, TakeInv
    <3>2. ASSUME NEW u \in App
          PROVE  /\ prev'[u] # INVALID => prev'[u] \in rem_reqid'
                 /\ isLarge(u)' /\ deletes'[u] = 0 => PartSet(u)' \subseteq rem_reqid'
                 /\ pc'[u] = "wait" => ret'[u] \in rem_reqid'
                 /\ pc'[u] = "done" => ret'[u] \notin rem_reqid' /\ outcome'[u] = status'[ret'[u]]
      <4>1. CASE u = t
        BY <2>2, <2>4, <4>1, Zenon DEF ResultInv, TakeInv
      <4>2. CASE u # t
        <5>1. pc[u] = "done" => ret[u] \in Issued
          BY <2>1, Zenon DEF ChainInv, ThreadInv, RetInv
        <5>2. pc[u] = "done" => ret[u] \notin rem_reqid' /\ outcome'[u] = status'[ret'[u]]
          BY <2>3, <2>9, <4>2, <5>1, Zenon DEF ResultInv, TakeInv
        <5> QED
          BY <2>2, <2>3, <4>2, <5>2, Zenon DEF ResultInv, TakeInv
      <4> QED
        BY <4>1, <4>2, Zenon
    <3> QED
      BY <3>1, <3>2, Zenon DEF TakeInv
  <2>7. DeleteInv'
    <3>1. ASSUME NEW u \in App, deletes'[u] # 0
          PROVE  deletes'[u] = 1 /\ pc'[u] \in {"wait", "done"} /\ Of(u)' \cap Pending' = {}
      <4>1. u # t /\ deletes[u] = 1 /\ pc[u] \in {"wait", "done"} /\ Of(u) \cap Pending = {}
        BY <2>4, <3>1, Zenon DEF ResultInv, DeleteInv
      <4>2. Of(u) \cap K = {}
        BY <2>1
      <4> QED
        BY <2>3, <4>1, <4>2, Zenon
    <3>2. ASSUME NEW u \in App, NEW c \in Of(u)', Deletes(c)', status'[c] = "OK"
          PROVE  deletes'[u] = 1
      <4>1. c \in Issued /\ c \in Of(u)
        BY <2>1, <2>9, <3>2, Zenon
      <4>2. Deletes(c)
        BY <2>1, <2>2, <3>2, <4>1, Zenon DEF Deletes, simpleCall
      <4> QED
        BY <3>2, <4>1, <4>2, Zenon DEF ResultInv, DeleteInv
    <3> QED
      BY <3>1, <3>2, Zenon DEF DeleteInv
  <2>8. GoodInv'
    <3> SUFFICES ASSUME NEW u \in App, NEW c \in Of(u)', NEW d \in Of(u)', status[c] = "OK",
                        \/ cmd'[c].op \in Fragments /\ cmd'[d].op = cmd'[c].op /\ d < c
                        \/ cmd'[c].op = "finish" /\ d \in PartSet(u)'
                 PROVE  d \notin rem_reqid' /\ status[d] = "OK"
      BY Zenon DEF GoodInv
    <3>1. c \in Of(u) /\ c \in Issued /\ cmd'[c] = cmd[c] /\ c \in Int
      BY <2>1, <2>9, Zenon
    <3>2. CASE cmd'[c].op \in Fragments /\ cmd'[d].op = cmd'[c].op /\ d < c
      <4>1. d \notin K
        BY <2>9, <3>1, <3>2
      <4>2. d \in Of(u) /\ cmd'[d] = cmd[d]
        BY <2>1, <2>9, <4>1, Zenon
      <4> QED
        BY <3>1, <3>2, <4>1, <4>2 DEF ResultInv, GoodInv
    <3>3. CASE cmd'[c].op = "finish" /\ d \in PartSet(u)'
      <4>1. u # t /\ d \in PartSet(u)
        BY <2>3, <2>4, <3>1, <3>3, Zenon
      <4>2. d \in Of(u) /\ d \in Issued
        BY <2>1, <4>1, PartsOwn, Zenon
      <4> QED
        BY <2>9, <3>1, <3>3, <4>1, <4>2 DEF ResultInv, GoodInv
    <3> QED
      BY <3>2, <3>3, Zenon
  <2> QED
    BY <2>5, <2>6, <2>7, <2>8, Zenon DEF ResultInv
  \* One command is appended.
<1>OneAdded.
    ASSUME TransferInv, QueueInv, NEW t \in App, NEW r, r.t = t, seq_no < NReq,
           submit(r), UNCHANGED inflight, NEW k, k = seq_no
    PROVE  /\ {k} \subseteq Ids /\ (\A i \in Issued, j \in {k} : i < j)
           /\ Issued' = Issued \cup {k} /\ Pending' = Pending \cup {k}
           /\ Elems(request)' = Elems(request) \cup {k}
           /\ rem_reqid' = rem_reqid \cup {k}
           /\ Of(t)' = Of(t) \cup {k} /\ \A u \in App \ {t} : Of(u)' = Of(u)
           /\ \A i \in Issued : cmd'[i] = cmd[i]
           /\ cmd'[k] = r
  <2> USE <1>OneAdded
  <2>1. k \in Nat /\ NReq \in Nat /\ k \in Ids /\ request \in Seq(Ids) /\ cmd \in [Ids -> CmdType]
    BY NReqAssumption DEF TransferInv, TypeOK, Ids, CommQueueType
  <2>2. Issued' = Issued \cup {k} /\ \A i \in Issued : i < k /\ i # k
    BY <2>1 DEF submit, Issued
  <2>3. rem_reqid' = rem_reqid \cup {k} /\ cmd' = [cmd EXCEPT ![k] = r] /\ request' = Append(request, k)
    BY Zenon DEF submit, pushRequest
  <2>4. Elems(request)' = Elems(request) \cup {k} /\ Pending' = Pending \cup {k}
    BY <2>1, <2>3, ElemsAppend DEF Pending
  <2>5. cmd'[k] = r /\ \A i \in Issued : cmd'[i] = cmd[i]
    BY <2>1, <2>2, <2>3, QueueFacts, Zenon
  <2>6. Added(k, r)
    BY <2>1, <2>2, <2>5, Zenon DEF Added
  <2>7. \A u \in App : Of(u)' = IF u = t THEN Of(u) \cup {k} ELSE Of(u)
    BY <2>6, OfAdded, Zenon
  <2> QED
    BY <2>1, <2>2, <2>3, <2>4, <2>5, <2>7, Zenon
<1>NoneAdded.
    ASSUME UNCHANGED <<seq_no, cmd, request, inflight, rem_reqid>>, NEW t \in App
    PROVE  /\ {} \subseteq Ids /\ (\A i \in Issued, j \in {} : i < j)
           /\ Issued' = Issued \cup {} /\ Pending' = Pending \cup {}
           /\ Elems(request)' = Elems(request) \cup {}
           /\ rem_reqid' = rem_reqid \cup {}
           /\ Of(t)' = Of(t) \cup {} /\ \A u \in App \ {t} : Of(u)' = Of(u)
           /\ \A i \in Issued : cmd'[i] = cmd[i]
    BY <1>NoneAdded, Zenon DEF Issued, Pending, Elems, Of
  \* The steps of a thread before it waits.
<1>StartGrows.
    ASSUME TransferInv, QueueInv, ChainInv, NEW t \in App, Start(t)
    PROVE  \E K : Grows(t, K)
  <2> USE <1>StartGrows
  <2>1. /\ pc[t] = "idle"
        /\ UNCHANGED <<driver, chan, rep, child, req, outcome, onVE, ran, buffer, outArgs, deletes>>
    BY Zenon DEF Start, veVars, dataVars
  <2>2. prev[t] = INVALID
    BY <2>1, Untouched, Zenon
  <2>3. /\ pc \in [App -> Pcs] /\ ret \in [App -> Ids \cup {INVALID}] /\ rsize \in [App -> Nat]
        /\ req \in [App -> RequestType] /\ submit_mtx \in App \cup {None}
    BY Zenon DEF TransferInv, TypeOK
  <2>4. CASE ~is_alive
    <3>1. /\ UNCHANGED <<request, inflight, completion, status, state, seq_no, rem_reqid, submit_mtx,
                         cmd, rsize, prev, parts, ret>>
          /\ pc' = [pc EXCEPT ![t] = "failed"]
      BY <2>4, Zenon DEF Start, comqVars, ctxVars, loopVars
    <3>2. pc'[t] = "failed" /\ OthersSame(t)
      BY <2>3, <3>1, Zenon DEF OthersSame
    <3>3. Grows(t, {})
      BY <2>1, <2>2, <3>1, <3>2, <1>NoneAdded, Zenon DEF Grows, PartSet
    <3> QED
      BY <3>3, Zenon
  <2>5. CASE is_alive /\ req[t].op # "call" /\ req[t].size = 0
    <3>1. PICK k : k = seq_no
      BY Zenon
    <3>2. PICK r : r = command("empty", t, 0, 0, INVALID)
      BY Zenon
    <3>3. /\ seq_no < NReq /\ submit(r)
          /\ UNCHANGED <<inflight, completion, status, submit_mtx, rsize, prev, parts>>
          /\ ret' = [ret EXCEPT ![t] = k] /\ pc' = [pc EXCEPT ![t] = "wait"]
      BY <2>5, <3>1, <3>2, Zenon DEF Start, canSubmit, loopVars
    <3>4. r.t = t /\ r.prev = INVALID
      BY <3>2, Zenon DEF command
    <3>5. pc'[t] = "wait" /\ ret'[t] = k /\ OthersSame(t)
      BY <2>3, <3>3, Zenon DEF OthersSame
    <3>6. Grows(t, {k})
      BY <2>1, <2>2, <3>1, <3>3, <3>4, <3>5, <1>OneAdded, SMTT(30) DEF Grows, PartSet
    <3> QED
      BY <3>6, Zenon
  <2>6. CASE is_alive /\ ~(req[t].op # "call" /\ req[t].size = 0)
    <3>1. /\ UNCHANGED <<request, inflight, completion, status, seq_no, rem_reqid, cmd, prev, parts, ret>>
          /\ submit_mtx' = IF isLarge(t) THEN t ELSE submit_mtx
          /\ isLarge(t) => submit_mtx = None
          /\ rsize' = rsize \/ rsize' = [rsize EXCEPT ![t] = total(t)]
      BY <2>6, Zenon DEF Start, comqVars
    <3>2. PICK l \in {"write", "read", "call"} : pc' = [pc EXCEPT ![t] = l]
      <4>1. req[t].op \in {"write", "read", "call"}
        BY <2>3, Zenon DEF RequestType
      <4> QED
        BY <2>6, <4>1, Zenon DEF Start
    <3>3. pc'[t] \in {"write", "read", "call"} /\ OthersSame(t)
      BY <2>3, <3>1, <3>2, TransferAssumption, Zenon DEF OthersSame
    <3>4. Grows(t, {})
      BY <2>1, <2>2, <3>1, <3>3, <1>NoneAdded, Zenon DEF Grows, PartSet
    <3> QED
      BY <3>4, Zenon
  <2> QED
    BY <2>4, <2>5, <2>6, Zenon
  \* Giving up or ending a chain of fragments.
<1>EndGrows.
    ASSUME TransferInv, NEW t \in App, pc[t] \in {"write", "read"}, NEW id \in Ids \cup {INVALID},
           EndChain(t, id), UNCHANGED submit_mtx
    PROVE  /\ OthersSame(t) /\ prev'[t] = INVALID
           /\ PartSet(t)' \subseteq PartSet(t) \cup ({id} \ {INVALID})
           /\ pc'[t] \in {"call", "finish", "failed", "wait"}
           /\ pc'[t] = "wait" => id # INVALID /\ ret'[t] = id
  <2> USE <1>EndGrows
  <2>1. /\ pc \in [App -> Pcs] /\ ret \in [App -> Ids \cup {INVALID}] /\ rsize \in [App -> Nat]
        /\ prev \in [App -> Ids \cup {INVALID}] /\ parts \in [App -> PartIds]
    BY Zenon DEF TransferInv, TypeOK
  <2>2. /\ prev' = [prev EXCEPT ![t] = INVALID] /\ rsize' = [rsize EXCEPT ![t] = total(t)]
        /\ parts' = IF pc[t] = "write" THEN [parts EXCEPT ![t].write = id]
                                       ELSE [parts EXCEPT ![t].read = id]
        /\ ret' = IF req[t].op = "call" THEN ret ELSE [ret EXCEPT ![t] = id]
        /\ pc' = [pc EXCEPT ![t] =
                    IF req[t].op = "call" THEN IF pc[t] = "write" THEN "call" ELSE "finish"
                    ELSE IF id = INVALID THEN "failed" ELSE "wait"]
    BY <2>1, Zenon DEF EndChain
  <2>3. OthersSame(t)
    BY <2>1, <2>2, Zenon DEF OthersSame
  <2>4. /\ parts'[t].write \in {parts[t].write, id} /\ parts'[t].call = parts[t].call
        /\ parts'[t].read \in {parts[t].read, id}
    BY <2>1, <2>2, Zenon DEF PartIds
  <2>5. PartSet(t)' \subseteq PartSet(t) \cup ({id} \ {INVALID})
    BY <2>4, Zenon DEF PartSet
  <2> QED
    BY <2>1, <2>2, <2>3, <2>5, Zenon
<1>FragmentGrows.
    ASSUME TransferInv, QueueInv, ChainInv, NEW t \in App, Fragment(t)
    PROVE  \E K : Grows(t, K)
  <2> USE <1>FragmentGrows
  <2>1. PICK k : k = seq_no
    BY Zenon
  <2>2. PICK r : r.t = t /\ r.prev = prev[t] /\ submit(r)
    BY Zenon DEF Fragment, chainedTo, command
  <2>3. PICK n : \/ EndChain(t, k)
                 \/ /\ rsize' = [rsize EXCEPT ![t] = n] /\ prev' = [prev EXCEPT ![t] = k]
                    /\ UNCHANGED <<pc, parts, ret>>
    BY <2>1, Zenon DEF Fragment
  <2>4. /\ pc[t] \in {"write", "read"} /\ seq_no < NReq
        /\ UNCHANGED <<inflight, completion, status, submit_mtx, chan, rep, child, req, outcome>>
        /\ UNCHANGED <<onVE, ran, buffer, outArgs, deletes>>
    BY Zenon DEF Fragment, canSubmit, veVars, dataVars
  <2>5. k \in Ids
    BY <2>1, <2>2, <2>4, <1>OneAdded, Zenon
  <2>6. /\ OthersSame(t) /\ prev'[t] \in {INVALID, k} /\ PartSet(t)' \subseteq PartSet(t) \cup {k}
        /\ pc'[t] # "done" /\ (pc'[t] = "wait" => ret'[t] = k)
    <3>1. CASE EndChain(t, k)
      BY <2>4, <2>5, <3>1, <1>EndGrows, Zenon
    <3>2. CASE /\ rsize' = [rsize EXCEPT ![t] = n] /\ prev' = [prev EXCEPT ![t] = k]
               /\ UNCHANGED <<pc, parts, ret>>
      <4>1. rsize \in [App -> Nat] /\ prev \in [App -> Ids \cup {INVALID}]
        BY Zenon DEF TransferInv, TypeOK
      <4> QED
        BY <2>4, <3>2, <4>1, Zenon DEF OthersSame, PartSet
    <3> QED
      BY <2>3, <3>1, <3>2, Zenon
  <2>7. Grows(t, {k})
    <3>1. /\ {k} \subseteq Ids /\ (\A i \in Issued, j \in {k} : i < j)
          /\ Issued' = Issued \cup {k} /\ Pending' = Pending \cup {k}
          /\ Elems(request)' = Elems(request) \cup {k}
          /\ rem_reqid' = rem_reqid \cup {k}
          /\ Of(t)' = Of(t) \cup {k} /\ \A u \in App \ {t} : Of(u)' = Of(u)
          /\ \A i \in Issued : cmd'[i] = cmd[i]
          /\ cmd'[k] = r
      BY <2>1, <2>2, <2>4, <1>OneAdded, SMTT(30)
    <3> QED
      BY <2>2, <2>4, <2>6, <3>1, Zenon DEF Grows
  <2> QED
    BY <2>7, Zenon
<1>ChainFailsGrows.
    ASSUME TransferInv, QueueInv, ChainInv, NEW t \in App, ChainFails(t)
    PROVE  \E K : Grows(t, K)
  <2> USE <1>ChainFailsGrows
  <2>1. /\ pc[t] \in {"write", "read"} /\ EndChain(t, INVALID)
        /\ UNCHANGED <<request, inflight, completion, status, seq_no, rem_reqid, submit_mtx, cmd>>
        /\ UNCHANGED <<chan, rep, child, req, outcome, onVE, ran, buffer, outArgs, deletes>>
    BY Zenon DEF ChainFails, comqVars, ctxVars, veVars, dataVars
  <2>2. Grows(t, {})
    BY <2>1, <1>NoneAdded, <1>EndGrows, Zenon DEF Grows
  <2> QED
    BY <2>2, Zenon
<1>CallGrows.
    ASSUME TransferInv, QueueInv, ChainInv, NEW t \in App, CallStep(t)
    PROVE  \E K : Grows(t, K)
  <2> USE <1>CallGrows
  <2>1. PICK k : k = IF is_alive THEN seq_no ELSE INVALID
    BY Zenon
  <2>2. PICK r : /\ r.t = t /\ r.prev = INVALID
                 /\ is_alive => seq_no < NReq /\ submit(r)
    BY DEF CallStep, command, canSubmit
  <2>3. /\ pc[t] = "call" /\ parts' = [parts EXCEPT ![t].call = k]
        /\ ret' = IF isLarge(t) THEN ret ELSE [ret EXCEPT ![t] = k]
        /\ pc' = [pc EXCEPT ![t] = IF ~isLarge(t)
                                   THEN IF k = INVALID THEN "failed" ELSE "wait"
                                   ELSE IF req[t].out THEN "read" ELSE "finish"]
        /\ UNCHANGED <<inflight, completion, status, submit_mtx, chan, rep, child, req, rsize, prev>>
        /\ UNCHANGED <<outcome, onVE, ran, buffer, outArgs, deletes>>
        /\ ~is_alive => UNCHANGED <<seq_no, rem_reqid, cmd, request>>
    BY <2>1, Zenon DEF CallStep, veVars, dataVars
  <2>4. /\ pc \in [App -> Pcs] /\ ret \in [App -> Ids \cup {INVALID}] /\ parts \in [App -> PartIds]
    BY Zenon DEF TransferInv, TypeOK
  <2>5. prev[t] = INVALID
    <3>1. FragInv(t)
      BY Zenon DEF ChainInv, ThreadInv
    <3> QED
      BY <2>3, <3>1, Zenon DEF FragInv
  <2>6. /\ pc'[t] # "done" /\ (pc'[t] = "wait" => k # INVALID /\ ret'[t] = k) /\ OthersSame(t)
    BY <2>3, <2>4, Zenon DEF OthersSame
  <2>7. PartSet(t)' \subseteq PartSet(t) \cup ({k} \ {INVALID})
    <3>1. /\ parts'[t].write = parts[t].write /\ parts'[t].call = k
          /\ parts'[t].read = parts[t].read
      BY <2>3, <2>4, Zenon DEF PartIds
    <3> QED
      BY <3>1, Zenon DEF PartSet
  <2>8. CASE is_alive
    <3>1. Grows(t, {k})
      BY <2>1, <2>2, <2>3, <2>5, <2>6, <2>7, <2>8, <1>OneAdded DEF Grows
    <3> QED
      BY <3>1, Zenon
  <2>9. CASE ~is_alive
    <3>1. Grows(t, {})
      BY <2>1, <2>3, <2>5, <2>6, <2>7, <2>9, <1>NoneAdded, Zenon DEF Grows
    <3> QED
      BY <3>1, Zenon
  <2> QED
    BY <2>8, <2>9, Zenon
<1>FinishGrows.
    ASSUME TransferInv, QueueInv, ChainInv, NEW t \in App, Finish(t)
    PROVE  \E K : Grows(t, K)
  <2> USE <1>FinishGrows
  <2>1. PICK k : k = seq_no
    BY Zenon
  <2>2. PICK r : r.t = t /\ r.prev = INVALID /\ submit(r)
    BY Zenon DEF Finish, command
  <2>3. /\ pc[t] = "finish" /\ seq_no < NReq /\ submit_mtx \in {t, None}
        /\ submit_mtx' = None /\ ret' = [ret EXCEPT ![t] = k] /\ pc' = [pc EXCEPT ![t] = "wait"]
        /\ UNCHANGED <<inflight, completion, status, chan, rep, child, req, rsize, prev, parts>>
        /\ UNCHANGED <<outcome, onVE, ran, buffer, outArgs, deletes>>
    BY <2>1, Zenon DEF Finish, canSubmit, veVars, loopVars, dataVars
  <2>4. /\ pc \in [App -> Pcs] /\ ret \in [App -> Ids \cup {INVALID}] /\ None \notin App
    BY TransferAssumption, Zenon DEF TransferInv, TypeOK
  <2>5. prev[t] = INVALID
    <3>1. FragInv(t)
      BY Zenon DEF ChainInv, ThreadInv
    <3> QED
      BY <2>3, <3>1, Zenon DEF FragInv
  <2>6. pc'[t] = "wait" /\ ret'[t] = k /\ OthersSame(t)
    BY <2>3, <2>4, Zenon DEF OthersSame
  <2>7. Grows(t, {k})
    BY <2>1, <2>2, <2>3, <2>5, <2>6, <1>OneAdded, SMTT(30) DEF Grows, PartSet
  <2> QED
    BY <2>7, Zenon
<1> SUFFICES ASSUME NEW t \in App, Submits(t)
             PROVE  QueueInv' /\ ChainInv' /\ ResultInv' /\ \E K : Grows(t, K)
  BY Zenon
<1>1. QueueInv' /\ ChainInv'
  BY ChainSubmits, Zenon
<1>2. \E K : Grows(t, K)
  BY <1>StartGrows, <1>FragmentGrows, <1>ChainFailsGrows, <1>CallGrows, <1>FinishGrows, Zenon DEF Submits
<1> QED
  BY <1>1, <1>2, <1>ResultThread, Zenon

-----------------------------------------------------------------------------
\* A step that gives the pending commands S their results and takes the
\* results of T.
Settles(S, T) ==
  /\ S \subseteq Pending /\ Pending' = Pending \ S
  /\ T \subseteq completion /\ completion' = (completion \ T) \cup S /\ rem_reqid' = rem_reqid \ T
  /\ \A i \in Ids \ S : status'[i] = status[i]
  /\ \A i \in S : status'[i] # "UNFINISHED"
  /\ UNCHANGED <<req, seq_no, cmd, prev, parts, ret>>

\* Nobody else is to take the results of T.
Unused(T) ==
  /\ \A d \in Pending' : cmd[d].prev \notin T
  /\ \A u \in App : /\ prev[u] \notin T
                    /\ isLarge(u) /\ deletes'[u] = 0 => PartSet(u) \cap T = {}
                    /\ pc'[u] = "wait" => ret[u] \notin T

\* What a command's predecessor, a thread's last fragment, a part and the
\* returned ID are for each other.
LEMMA Owners ==
  ASSUME TransferInv, QueueInv, ChainInv, NEW u \in App
  PROVE  /\ prev[u] # INVALID => /\ prev[u] \in Of(u) /\ \E o : Top(u, o, prev[u])
                                 /\ pc[u] \in {"write", "read"}
         /\ pc[u] \in {"wait", "done"} =>
              /\ ret[u] \in Of(u) /\ (\A d \in Of(u) : d <= ret[u])
              /\ isLarge(u) => cmd[ret[u]].op = "finish"
         /\ \A v \in App : v # u => Of(u) \cap Of(v) = {}
         /\ INVALID \notin Of(u)
<1>1. FragInv(u) /\ RetInv(u)
  BY Zenon DEF ChainInv, ThreadInv
<1>2. prev[u] # INVALID => pc[u] \in {"write", "read"} /\ Top(u, Dir(u), prev[u])
  BY <1>1, Zenon DEF FragInv
<1>3. prev[u] # INVALID => prev[u] \in Of(u)
  BY <1>2, Zenon DEF Top, Chain
<1> QED
  BY <1>1, <1>2, <1>3, Kept, SMTT(30) DEF RetInv

\* A simple call is one command.
LEMMA SimpleAlone ==
  ASSUME TransferInv, QueueInv, ChainInv, NEW t \in App, NEW c \in Of(t), simpleCall(c)
  PROVE  Of(t) = {c} /\ pc[t] \in {"wait", "done"}
<1>1. cmd[c].op = "call" /\ ~isLarge(t) /\ cmd[c].t = t /\ c \in Int
  BY Kept, Zenon DEF simpleCall
<1>2. \A d \in Of(t) : CommandInv(d, t) /\ cmd[d].op \in Ops /\ d \in Int
  BY Kept, Zenon DEF ChainInv, TransferInv, TypeOK, CmdType
<1>3. req[t].op = "call"
  BY <1>1, <1>2, Zenon DEF CommandInv, Suits
<1>4. ASSUME NEW d \in Of(t) PROVE cmd[d].op = "call"
  <2>1. Suits(cmd[d], t)
    BY <1>2, Zenon DEF CommandInv
  <2> QED
    BY <1>1, <1>2, <1>3, <2>1, Zenon DEF Suits, Ops
<1>5. ASSUME NEW d \in Of(t), d # c PROVE FALSE
  <2>1. d < c => cmd[d].op \in Earlier("call")
    BY <1>1, <1>2, Zenon DEF CommandInv
  <2>2. c < d => cmd[c].op \in Earlier("call")
    BY <1>2, <1>4, Zenon DEF CommandInv
  <2>3. d < c \/ c < d
    BY <1>1, <1>2, <1>5
  <2> QED
    BY <1>4, <2>1, <2>2, <2>3, Zenon DEF Earlier
<1>6. pc[t] \in {"wait", "done"}
  <2>1. PlaceInv(t) /\ pc[t] \in Pcs
    BY Zenon DEF ChainInv, ThreadInv, TransferInv, TypeOK
  <2>2. "call" \in OpsAt(pc[t])
    BY <1>1, <2>1, Zenon DEF PlaceInv
  <2> QED
    BY <1>1, <1>3, <2>1, <2>2, Zenon DEF PlaceInv, OpsAt, Pcs
<1> QED
  BY <1>5, <1>6, Zenon

\* What the VH command of a large call reports if all results are there.
LEMMA Collected ==
  ASSUME TransferInv, NEW t \in App,
         \A p \in PartSet(t) : p \in completion /\ p \in rem_reqid /\ status[p] # "UNFINISHED"
  PROVE  /\ collected(t) # "UNFINISHED"
         /\ collected(t) = "OK" => \A p \in PartSet(t) : status[p] = "OK"
<1>1. PICK p : p = partsInOrder(t)
  BY Zenon
<1>2. /\ DOMAIN p = 1 .. 3 /\ p[1] = parts[t].write /\ p[2] = parts[t].call /\ p[3] = parts[t].read
  BY <1>1 DEF partsInOrder
<1>3. \A n \in DOMAIN p : p[n] = INVALID \/ p[n] \in PartSet(t)
  BY <1>2 DEF PartSet
<1>4. \A n \in DOMAIN p : peek(p[n]) = IF p[n] = INVALID THEN "OK" ELSE status[p[n]]
  BY <1>3, Zenon DEF peek
<1>5. PICK bad : bad = {n \in DOMAIN p : peek(p[n]) # "OK"}
  BY Zenon
<1>6. collected(t) = IF bad = {} THEN "OK" ELSE peek(p[CHOOSE n \in bad : \A m \in bad : n <= m])
  BY <1>1, <1>5 DEF collected
<1>7. ASSUME bad # {}
      PROVE  \E n \in bad : collected(t) = peek(p[n])
  <2>1. bad \subseteq 1 .. 3
    BY <1>2, <1>5, Zenon
  <2>2. \E n \in bad : \A m \in bad : n <= m
    <3>1. CASE 1 \in bad
      BY <2>1, <3>1
    <3>2. CASE 1 \notin bad /\ 2 \in bad
      BY <2>1, <3>2
    <3>3. CASE 1 \notin bad /\ 2 \notin bad
      <4>1. \A n \in bad : n = 3
        BY <2>1, <3>3
      <4>2. 3 \in bad
        BY <1>7, <4>1, Zenon
      <4> QED
        BY <4>1, <4>2
    <3> QED
      BY <3>1, <3>2, <3>3, Zenon
  <2>3. (CHOOSE n \in bad : \A m \in bad : n <= m) \in bad
    BY <2>2, Zenon
  <2> QED
    BY <1>6, <1>7, <2>3, Zenon
<1>8. ASSUME NEW n \in bad PROVE peek(p[n]) # "OK" /\ peek(p[n]) # "UNFINISHED"
  BY <1>3, <1>4, <1>5, Zenon
<1>9. CASE bad = {}
  <2>1. \A n \in DOMAIN p : peek(p[n]) = "OK"
    BY <1>5, <1>9, Zenon
  <2>2. ASSUME NEW q \in PartSet(t) PROVE status[q] = "OK"
    <3>1. q # INVALID /\ \E n \in DOMAIN p : p[n] = q
      BY <1>2 DEF PartSet
    <3> QED
      BY <1>4, <2>1, <3>1, Zenon
  <2> QED
    BY <1>6, <1>9, <2>2, Zenon
<1>10. CASE bad # {}
  BY <1>7, <1>8, <1>10, Zenon
<1> QED
  BY <1>9, <1>10, Zenon

-----------------------------------------------------------------------------
\* The first three layers are inductive.
ChainsInv == TransferInv /\ QueueInv /\ ChainInv /\ ResultInv

\* No command has been issued initially.
LEMMA ChainsInit == Init => ChainsInv
<1> SUFFICES ASSUME Init PROVE ChainsInv
  BY Zenon
<1>1. /\ request = <<>> /\ inflight = {} /\ completion = {} /\ chan = <<>> /\ rep = <<>>
      /\ status = [i \in Ids |-> "UNFINISHED"]
      /\ state = "RUNNING" /\ seq_no = 0 /\ rem_reqid = {} /\ submit_mtx = None /\ driver = "running"
      /\ pc = [t \in App |-> "idle"] /\ prev = [t \in App |-> INVALID]
      /\ parts = [t \in App |-> NoParts] /\ deletes = [t \in App |-> 0]
  BY Zenon DEF Init, CommQueueInit
<1>2. Issued = {} /\ Elems(request) = {} /\ Elems(chan) = {} /\ RepIds = {} /\ Pending = {}
  BY <1>1 DEF Issued, Elems, RepIds, Pending
<1>3. QueueInv
  BY <1>1, <1>2 DEF QueueInv, Increasing, Over
<1>4. \A t \in App : Of(t) = {} /\ PartSet(t) = {}
  BY <1>1, <1>2, Zenon DEF Of, PartSet, NoParts
<1>5. \A t \in App : ThreadInv(t) /\ Contiguous(t)
  BY <1>1, <1>2, <1>4, TransferAssumption, Zenon DEF ThreadInv, PlaceInv, FragInv, PartsInv, RetInv, Contiguous, NoParts
<1>6. ChainInv
  BY <1>2, <1>4, <1>5, Zenon DEF ChainInv
<1>7. DoneInv /\ TakeInv /\ DeleteInv /\ GoodInv
  BY <1>1, <1>2, <1>4, Zenon DEF DoneInv, TakeInv, DeleteInv, GoodInv
<1> QED
  BY <1>3, <1>6, <1>7, TransferInit, Zenon DEF ChainsInv, ResultInv

\* The queues, the chains and the results to take stay right in every step.
LEMMA ChainsNext == ChainsInv /\ [Next]_vars => ChainsInv'
<1>Steady.
    ASSUME UNCHANGED <<req, seq_no, cmd, prev, parts, ret>>
    PROVE  /\ Issued' = Issued
           /\ \A u \in App : /\ Of(u)' = Of(u) /\ PartSet(u)' = PartSet(u)
                             /\ (isLarge(u)' <=> isLarge(u))
           /\ \A c : Deletes(c)' <=> Deletes(c)
    BY <1>Steady, Zenon DEF Issued, Of, PartSet, isLarge, Deletes, simpleCall
<1>DoneSettled.
    ASSUME TransferInv, QueueInv, ChainInv, DoneInv, NEW S, NEW T, Settles(S, T)
    PROVE  DoneInv' /\ S \cap T = {} /\ S \subseteq Issued /\ S \subseteq Ids
           /\ \A c \in Ids : c \notin rem_reqid /\ status[c] # "UNFINISHED" => status'[c] = status[c]
  <2> USE <1>DoneSettled
  <2>1. /\ S \subseteq Pending /\ Pending' = Pending \ S
        /\ T \subseteq completion /\ completion' = (completion \ T) \cup S /\ rem_reqid' = rem_reqid \ T
        /\ \A i \in Ids \ S : status'[i] = status[i]
        /\ \A i \in S : status'[i] # "UNFINISHED"
        /\ Issued' = Issued /\ Pending \subseteq Issued /\ Issued \subseteq Ids
    BY <1>Steady, Kept, Numbers, Zenon DEF Settles
  <2>2. /\ rem_reqid = Pending \cup completion /\ Pending \cap completion = {}
        /\ completion \subseteq Issued
        /\ \A c \in Ids : status[c] = "UNFINISHED" <=> c \in Pending \/ c \notin Issued
    BY Zenon DEF DoneInv
  <2>3. /\ rem_reqid' = Pending' \cup completion' /\ Pending' \cap completion' = {}
        /\ completion' \subseteq Issued'
    BY <2>1, <2>2, Zenon
  <2>4. \A c \in Ids : status'[c] = "UNFINISHED" <=> c \in Pending' \/ c \notin Issued'
    BY <2>1, <2>2, Zenon
  <2>5. DoneInv'
    BY <2>3, <2>4, Zenon DEF DoneInv
  <2> QED
    BY <2>1, <2>2, <2>5, Zenon
<1>TakeSettled.
    ASSUME TransferInv, QueueInv, ChainInv, DoneInv, TakeInv, NEW S, NEW T, Settles(S, T), Unused(T),
           \A u \in App : /\ deletes'[u] = 0 => deletes[u] = 0
                          /\ pc'[u] = "wait" => pc[u] = "wait"
                          /\ pc'[u] = "done" =>
                               \/ pc[u] = "done" /\ outcome'[u] = outcome[u]
                               \/ ret[u] \notin rem_reqid' /\ outcome'[u] = status'[ret[u]]
    PROVE  TakeInv'
  <2> USE <1>TakeSettled
  <2>1. /\ rem_reqid' = rem_reqid \ T /\ Pending' \subseteq Pending
        /\ UNCHANGED <<cmd, prev, ret>>
        /\ \A u \in App : PartSet(u)' = PartSet(u) /\ (isLarge(u)' <=> isLarge(u))
    BY <1>Steady, Zenon DEF Settles
  <2>2. /\ \A d \in Pending' : cmd[d].prev \notin T
        /\ \A u \in App : /\ prev[u] \notin T
                          /\ isLarge(u) /\ deletes'[u] = 0 => PartSet(u) \cap T = {}
                          /\ pc'[u] = "wait" => ret[u] \notin T
    BY Zenon DEF Unused
  <2>3. \A c \in Pending' : cmd'[c].prev # INVALID => cmd'[c].prev \in rem_reqid'
    BY <2>1, <2>2, Zenon DEF TakeInv
  <2>4. ASSUME NEW u \in App
        PROVE  /\ prev'[u] # INVALID => prev'[u] \in rem_reqid'
               /\ isLarge(u)' /\ deletes'[u] = 0 => PartSet(u)' \subseteq rem_reqid'
               /\ pc'[u] = "wait" => ret'[u] \in rem_reqid'
    BY <2>1, <2>2, SMTT(30) DEF TakeInv
  <2>5. ASSUME NEW u \in App, pc'[u] = "done"
        PROVE  ret'[u] \notin rem_reqid' /\ outcome'[u] = status'[ret'[u]]
    <3>1. CASE pc[u] = "done" /\ outcome'[u] = outcome[u]
      <4>1. ret[u] \notin rem_reqid /\ outcome[u] = status[ret[u]]
        BY <3>1, Zenon DEF TakeInv
      <4>2. ret[u] \in Issued /\ ret[u] \in Ids
        BY <3>1, Kept, Zenon DEF ChainInv, ThreadInv, RetInv
      <4>3. status'[ret[u]] = status[ret[u]]
        <5>1. status[ret[u]] # "UNFINISHED"
          BY <4>1, <4>2, Zenon DEF DoneInv
        <5> QED
          BY <4>1, <4>2, <5>1, <1>DoneSettled, Zenon
      <4> QED
        BY <2>1, <3>1, <4>1, <4>3, Zenon
    <3>2. CASE ret[u] \notin rem_reqid' /\ outcome'[u] = status'[ret[u]]
      BY <2>1, <3>2, Zenon
    <3> QED
      BY <2>5, <3>1, <3>2, Zenon
  <2> QED
    BY <2>3, <2>4, <2>5, Zenon DEF TakeInv
<1>DeleteSettled.
    ASSUME TransferInv, QueueInv, ChainInv, DoneInv, DeleteInv, NEW S, NEW T, Settles(S, T),
           \A u \in App : pc[u] \in {"wait", "done"} => pc'[u] \in {"wait", "done"},
           \A u \in App : \/ deletes'[u] = deletes[u]
                          \/ /\ deletes[u] = 0 /\ deletes'[u] = 1 /\ pc'[u] \in {"wait", "done"}
                             /\ Of(u) \cap Pending' = {},
           \A u \in App : \A c \in Of(u) \cap S : Deletes(c) /\ status'[c] = "OK" => deletes'[u] = 1
    PROVE  DeleteInv'
  <2> USE <1>DeleteSettled
  <2>1. /\ Pending' \subseteq Pending /\ \A i \in Ids \ S : status'[i] = status[i]
        /\ \A u \in App : Of(u)' = Of(u)
        /\ \A c : Deletes(c)' <=> Deletes(c)
        /\ \A u \in App : Of(u) \subseteq Ids
    BY <1>Steady, Kept, Zenon DEF Settles
  <2>2. ASSUME NEW u \in App, deletes'[u] # 0
        PROVE  deletes'[u] = 1 /\ pc'[u] \in {"wait", "done"} /\ Of(u)' \cap Pending' = {}
    BY <2>1, <2>2, Zenon DEF DeleteInv
  <2>3. ASSUME NEW u \in App, NEW c \in Of(u), Deletes(c), status'[c] = "OK" PROVE deletes'[u] = 1
    <3>1. CASE c \in S
      BY <2>3, <3>1, Zenon
    <3>2. CASE c \notin S
      BY <2>1, <2>3, <3>2, Zenon DEF DeleteInv
    <3> QED
      BY <3>1, <3>2, Zenon
  <2> QED
    BY <2>1, <2>2, <2>3, Zenon DEF DeleteInv
<1>GoodSettled.
    ASSUME TransferInv, QueueInv, ChainInv, DoneInv, GoodInv, NEW S, NEW T, Settles(S, T),
           \A u \in App : \A c \in Of(u) \cap S, d \in Of(u) : status'[c] = "OK" =>
             /\ cmd[c].op \in Fragments /\ cmd[d].op = cmd[c].op /\ d < c =>
                  d \notin rem_reqid' /\ status'[d] = "OK"
             /\ cmd[c].op = "finish" /\ d \in PartSet(u) => d \notin rem_reqid' /\ status'[d] = "OK"
    PROVE  GoodInv'
  <2> USE <1>GoodSettled
  <2>1. /\ rem_reqid' \subseteq rem_reqid /\ \A i \in Ids \ S : status'[i] = status[i]
        /\ \A u \in App : Of(u)' = Of(u) /\ PartSet(u)' = PartSet(u)
        /\ cmd' = cmd
        /\ \A u \in App : Of(u) \subseteq Ids
    BY <1>Steady, Kept, Zenon DEF Settles
  <2>2. \A d \in Ids : d \notin rem_reqid /\ status[d] = "OK" => d \notin rem_reqid' /\ status'[d] = "OK"
    BY <2>1, <1>DoneSettled, Zenon
  <2>3. ASSUME NEW u \in App, NEW c \in Of(u), NEW d \in Of(u), status'[c] = "OK"
        PROVE  /\ cmd[c].op \in Fragments /\ cmd[d].op = cmd[c].op /\ d < c =>
                    d \notin rem_reqid' /\ status'[d] = "OK"
               /\ cmd[c].op = "finish" /\ d \in PartSet(u) => d \notin rem_reqid' /\ status'[d] = "OK"
    <3>1. CASE c \in S
      BY <2>3, <3>1, Zenon
    <3>2. CASE c \notin S
      <4>1. status[c] = "OK" /\ d \in Ids
        BY <2>1, <2>3, <3>2, Zenon
      <4> QED
        BY <2>2, <4>1, Zenon DEF GoodInv
    <3> QED
      BY <3>1, <3>2, Zenon
  <2> QED
    BY <2>1, <2>3 DEF GoodInv
  \* callWaitResult() takes a result nobody else is to take.
<1>ResultWait.
    ASSUME TransferInv, QueueInv, ChainInv, ResultInv, NEW t \in App, Wait(t)
    PROVE  ResultInv'
  <2> USE <1>ResultWait
  <2>1. /\ pc[t] = "wait" /\ ret[t] \in completion /\ completion' = completion \ {ret[t]}
        /\ rem_reqid' = rem_reqid \ {ret[t]} /\ outcome' = [outcome EXCEPT ![t] = status[ret[t]]]
        /\ pc' = [pc EXCEPT ![t] = "done"]
        /\ UNCHANGED <<request, inflight, status, seq_no, cmd, req, prev, parts, ret, deletes>>
    BY Zenon DEF Wait, takeCompletion, loopVars, dataVars
  <2>2. /\ pc'[t] = "done" /\ outcome'[t] = status[ret[t]]
        /\ \A u \in App : u # t => pc'[u] = pc[u] /\ outcome'[u] = outcome[u]
    BY <2>1, Zenon DEF TransferInv, TypeOK
  <2>3. Pending' = Pending
    BY <2>1, Zenon DEF Pending, Elems
  <2>4. DoneInv /\ TakeInv /\ DeleteInv /\ GoodInv
    BY Zenon DEF ResultInv
  <2>5. Settles({}, {ret[t]})
    BY <2>1, <2>3, Zenon DEF Settles
  <2>6. /\ ret[t] \in Of(t) /\ (\A d \in Of(t) : d <= ret[t])
        /\ isLarge(t) => cmd[ret[t]].op = "finish"
        /\ ret[t] # INVALID /\ prev[t] = INVALID
    BY <2>1, Owners, Zenon
  <2>7. Unused({ret[t]})
    <3>1. ASSUME NEW d \in Pending', cmd[d].prev = ret[t] PROVE FALSE
      <4>1. d \in Issued
        BY <2>3, Kept, Zenon
      <4> QED
        BY <2>6, <3>1, <4>1, OneSuccessor, Zenon
    <3>2. ASSUME NEW u \in App, isLarge(u), ret[t] \in PartSet(u) PROVE FALSE
      <4>1. ret[t] \in Of(u) /\ cmd[ret[t]].op \in {"send", "call", "recv"}
        BY <3>2, PartsOwn, Zenon
      <4> QED
        BY <2>6, <3>2, <4>1, Owners, Zenon
    <3>3. ASSUME NEW u \in App PROVE prev[u] # ret[t] /\ (pc'[u] = "wait" => ret[u] # ret[t])
      BY <2>2, <2>6, Owners, Zenon
    <3> QED
      BY <3>1, <3>2, <3>3, Zenon DEF Unused
  <2>8. TakeInv'
    <3>1. \A u \in App : /\ deletes'[u] = 0 => deletes[u] = 0
                         /\ pc'[u] = "wait" => pc[u] = "wait"
                         /\ pc'[u] = "done" =>
                              \/ pc[u] = "done" /\ outcome'[u] = outcome[u]
                              \/ ret[u] \notin rem_reqid' /\ outcome'[u] = status'[ret[u]]
      BY <2>1, <2>2, Zenon
    <3> QED
      BY <2>4, <2>5, <2>7, <3>1, <1>TakeSettled, Zenon
  <2>9. DoneInv' /\ DeleteInv' /\ GoodInv'
    <3>1. \A u \in App : pc[u] \in {"wait", "done"} => pc'[u] \in {"wait", "done"}
      BY <2>2, Zenon
    <3> QED
      BY <2>1, <2>4, <2>5, <3>1, <1>DoneSettled, <1>DeleteSettled, <1>GoodSettled, Zenon
  <2> QED
    BY <2>8, <2>9, Zenon DEF ResultInv
  \* The result function of a fragment takes the result of the one before it,
  \* that of a simple call deletes the stack image.
<1>ResultRecv.
    ASSUME TransferInv, QueueInv, ChainInv, ResultInv, Recv
    PROVE  ResultInv'
  <2> USE <1>ResultRecv
  <2>1. PICK c : c = Head(rep).id
    BY Zenon
  <2>2. PICK exc : exc = Head(rep).exc
    BY Zenon
  <2>3. PICK p : p = cmd[c].prev
    BY Zenon
  <2>4. PICK T : T = IF peeks(c, exc) THEN claimed({p}) ELSE {}
    BY Zenon
  <2>5. /\ rep # <<>> /\ status' = [status EXCEPT ![c] = resultStatus(c, exc)]
        /\ completion' = (completion \ T) \cup {c} /\ rem_reqid' = rem_reqid \ T
        /\ deletes' = IF simpleCall(c) THEN [deletes EXCEPT ![cmd[c].t] = deletes[cmd[c].t] + 1] ELSE deletes
        /\ UNCHANGED <<seq_no, cmd, req, pc, prev, parts, ret, outcome>>
    BY <2>1, <2>2, <2>3, <2>4, Zenon DEF Recv, setResult, loopVars, retVars, TransferInv, TypeOK
  <2>6. DoneInv /\ TakeInv /\ DeleteInv /\ GoodInv
    BY Zenon DEF ResultInv
  <2>7. c \in Issued /\ c \in Pending /\ Pending' = Pending \ {c} /\ c \in Ids /\ c \in Int
    <3>1. c \in Issued /\ c \in inflight /\ Pending' = Pending \ {c}
      BY <2>1, QueueRecv, Zenon
    <3> QED
      BY <3>1, Numbers, Zenon DEF Pending
  <2>8. PICK t \in App : t = cmd[c].t /\ c \in Of(t)
    BY <2>7, Kept, Zenon
  <2>9. p # INVALID => p \in completion /\ p \in rem_reqid /\ p \in Ids /\ status[p] # "UNFINISHED"
    <3>1. p # INVALID => p \in completion /\ p \in rem_reqid
      BY <2>1, <2>3, <2>5, <2>6, Ready, Zenon DEF ResultsReady
    <3> QED
      BY <2>6, <3>1, Numbers, Zenon DEF DoneInv
  <2>10. T = IF p # INVALID /\ peeks(c, exc) THEN {p} ELSE {}
    <3>1. INVALID \notin completion
      BY <2>6, Kept, Zenon DEF DoneInv
    <3> QED
      BY <2>4, <2>9, <3>1, Zenon DEF claimed
  <2>11. /\ status'[c] = IF exc THEN "EXCEPTION" ELSE IF p = INVALID THEN "OK" ELSE status[p]
         /\ \A i \in Ids \ {c} : status'[i] = status[i]
    <3>1. status \in [Ids -> Statuses]
      BY Zenon DEF TransferInv, TypeOK, CommQueueType
    <3> QED
      BY <2>3, <2>5, <2>7, <2>9, <3>1, Zenon DEF resultStatus, peek
  <2>12. Settles({c}, T)
    BY <2>5, <2>7, <2>9, <2>10, <2>11 DEF Settles
  <2>13. /\ deletes \in [App -> Nat]
         /\ \A u \in App : deletes'[u] = IF u = t /\ simpleCall(c) THEN deletes[u] + 1 ELSE deletes[u]
    BY <2>5, <2>8, Zenon DEF TransferInv, TypeOK
  <2>14. Unused(T)
    <3>1. CASE T = {}
      BY <3>1, Zenon DEF Unused
    <3>2. CASE T # {}
      <4>1. p # INVALID /\ T = {p}
        BY <2>10, <3>2, Zenon
      <4>2. /\ \A d \in Issued : cmd[d].prev = p => d = c
            /\ \A u \in App : \A o : ~Top(u, o, p)
            /\ \A u \in App : ~(\A d \in Of(u) : d <= p) \/ p \notin Of(u)
        BY <2>3, <2>7, <4>1, OneSuccessor, Zenon
      <4>3. \A d \in Pending' : cmd[d].prev # p
        BY <2>7, <4>2, Kept, Zenon
      <4>4. \A u \in App : p \notin PartSet(u)
        BY <2>3, <2>7, PartsOwn, Zenon
      <4>5. \A u \in App : prev[u] # p /\ (pc[u] = "wait" => ret[u] # p)
        BY <4>1, <4>2, Owners
      <4> QED
        BY <2>5, <4>1, <4>3, <4>4, <4>5, Zenon DEF Unused
    <3> QED
      BY <3>1, <3>2, Zenon
  <2>15. TakeInv'
    <3>1. \A u \in App : deletes'[u] = 0 => deletes[u] = 0
      BY <2>13
    <3> QED
      BY <2>5, <2>6, <2>12, <2>14, <3>1, <1>TakeSettled, Zenon
  <2>16. DeleteInv'
    <3>1. ASSUME simpleCall(c)
          PROVE  /\ deletes[t] = 0 /\ pc'[t] \in {"wait", "done"} /\ Of(t) \cap Pending' = {}
      BY <2>5, <2>6, <2>7, <2>8, <3>1, SimpleAlone, Zenon DEF DeleteInv
    <3>2. ~simpleCall(c) => ~Deletes(c)
      <4>1. c \in inflight /\ inflight = Elems(chan) \cup RepIds
        BY <2>1, <2>5, QueueRecv, Zenon DEF QueueInv, Over
      <4> QED
        BY <4>1, Zenon DEF QueueInv, Deletes
    <3>3. \A u \in App : \/ deletes'[u] = deletes[u]
                         \/ /\ deletes[u] = 0 /\ deletes'[u] = 1 /\ pc'[u] \in {"wait", "done"}
                            /\ Of(u) \cap Pending' = {}
      BY <2>13, <3>1
    <3>4. \A u \in App : \A d \in Of(u) \cap {c} : Deletes(d) /\ status'[d] = "OK" => deletes'[u] = 1
      <4>1. \A u \in App : c \in Of(u) => u = t
        BY <2>8, Owners, Zenon
      <4> QED
        BY <2>13, <3>1, <3>2, <4>1
    <3> QED
      BY <2>5, <2>6, <2>12, <3>3, <3>4, <1>DeleteSettled, Zenon
  <2>17. GoodInv'
    <3>1. ASSUME NEW u \in App, c \in Of(u), NEW d \in Of(u), status'[c] = "OK",
                 cmd[c].op \in Fragments, cmd[d].op = cmd[c].op, d < c
          PROVE  d \notin rem_reqid' /\ status'[d] = "OK"
      <4>1. u = t /\ d \in Ids /\ d \in Int /\ d # c /\ c \in Int /\ d \in Chain(t, cmd[c].op)
        BY <2>8, <3>1, Owners, Kept, SMTT(30) DEF Chain
      <4>2. CommandInv(c, t)
        BY <2>8, Zenon DEF ChainInv
      <4>3. p # INVALID /\ d <= p /\ p \in Chain(t, cmd[c].op)
        BY <2>3, <3>1, <4>1, <4>2, SMTT(30) DEF CommandInv
      <4>4. ~exc /\ status[p] = "OK" /\ T = {p} /\ p \in Of(t) /\ cmd[p].op = cmd[c].op /\ p \in Int
        BY <2>10, <2>11, <3>1, <4>3, Numbers, Zenon DEF peeks, Fragments, Chain
      <4>5. CASE d = p
        BY <2>5, <2>11, <4>1, <4>4, <4>5, Zenon
      <4>6. CASE d # p
        <5>1. d < p
          BY <4>1, <4>3, <4>4, <4>6
        <5>2. d \notin rem_reqid /\ status[d] = "OK"
          BY <2>6, <3>1, <4>1, <4>4, <5>1, Zenon DEF GoodInv
        <5> QED
          BY <2>5, <2>11, <4>1, <5>2, Zenon
      <4> QED
        BY <4>5, <4>6, Zenon
    <3>2. cmd[c].op # "finish"
      <4>1. c \in inflight /\ inflight = Elems(chan) \cup RepIds
        BY <2>1, <2>5, QueueRecv, Zenon DEF QueueInv, Over
      <4> QED
        BY <4>1, Zenon DEF QueueInv
    <3> QED
      BY <2>6, <2>12, <3>1, <3>2, <1>GoodSettled
  <2>18. DoneInv'
    BY <2>6, <2>12, <1>DoneSettled, Zenon
  <2> QED
    BY <2>15, <2>16, <2>17, <2>18, Zenon DEF ResultInv
  \* The VH commands: an empty transfer, and the end of a large call, which
  \* takes the results of its parts and deletes the stack image.
<1>ResultSubmitVH.
    ASSUME TransferInv, QueueInv, ChainInv, ResultInv, SubmitVH
    PROVE  ResultInv'
  <2> USE <1>ResultSubmitVH
  <2>1. PICK c : c = Head(request)
    BY Zenon
  <2>2. PICK last : last = (cmd[c].op = "finish")
    BY Zenon
  <2>3. PICK T : T = IF last THEN claimed(Elems(partsInOrder(cmd[c].t))) ELSE {}
    BY Zenon
  <2>4. PICK s : s = IF last THEN collected(cmd[c].t) ELSE "OK"
    BY Zenon
  <2>5. /\ vhReady /\ request # <<>> /\ isVH(c) /\ status' = [status EXCEPT ![c] = s]
        /\ completion' = (completion \ T) \cup {c} /\ rem_reqid' = rem_reqid \ T
        /\ deletes' = IF last THEN [deletes EXCEPT ![cmd[c].t] = deletes[cmd[c].t] + 1] ELSE deletes
        /\ UNCHANGED <<seq_no, cmd, req, pc, prev, parts, ret, outcome>>
    BY <2>1, <2>2, <2>3, <2>4, Zenon DEF SubmitVH, setResult, loopVars, retVars, TransferInv, TypeOK
  <2>6. DoneInv /\ TakeInv /\ DeleteInv /\ GoodInv
    BY Zenon DEF ResultInv
  <2>7. /\ c \in Issued /\ c \in Elems(request) /\ c \in Pending /\ Pending' = Pending \ {c}
        /\ c \in Ids /\ c \in Int /\ \A d \in Pending' : c < d
    <3>1. /\ c \in Issued /\ c \in Elems(request) /\ Pending' = Pending \ {c}
          /\ Pending = Elems(request) /\ \A d \in Pending' : c < d
      BY <2>1, QueueSubmitVH, Zenon
    <3> QED
      BY <3>1, Numbers, Zenon
  <2>8. PICK t \in App : t = cmd[c].t /\ c \in Of(t)
    BY <2>7, Kept, Zenon
  <2>9. ASSUME last
        PROVE  /\ T = PartSet(t) /\ \A p \in T : p \in completion /\ p \in rem_reqid /\ p \in Ids
               /\ s # "UNFINISHED" /\ (s = "OK" => \A p \in T : status[p] = "OK")
    <3>1. Elems(partsInOrder(t)) \ {INVALID} \subseteq completion \cap rem_reqid
      BY <2>1, <2>2, <2>5, <2>6, <2>7, <2>8, <2>9, Ready, Zenon DEF ResultsReady
    <3>2. Elems(partsInOrder(t)) \ {INVALID} = PartSet(t)
      BY DEF Elems, partsInOrder, PartSet
    <3>3. INVALID \notin completion /\ completion \subseteq Ids
      BY <2>6, Kept, Numbers, Zenon DEF DoneInv
    <3>4. T = PartSet(t)
      BY <2>3, <2>8, <2>9, <3>1, <3>2, <3>3, Zenon DEF claimed
    <3>5. \A p \in T : p \in completion /\ p \in rem_reqid /\ p \in Ids /\ status[p] # "UNFINISHED"
      BY <2>6, <3>1, <3>2, <3>3, <3>4, Zenon DEF DoneInv
    <3>6. s = collected(t)
      BY <2>4, <2>8, <2>9, Zenon
    <3> QED
      BY <3>4, <3>5, <3>6, Collected, Zenon
  <2>10. /\ status'[c] = s /\ s # "UNFINISHED"
         /\ \A i \in Ids \ {c} : status'[i] = status[i]
    <3>1. status \in [Ids -> Statuses]
      BY Zenon DEF TransferInv, TypeOK, CommQueueType
    <3>2. s # "UNFINISHED"
      BY <2>4, <2>9, Zenon
    <3> QED
      BY <2>5, <2>7, <3>1, <3>2, Zenon
  <2>11. Settles({c}, T)
    <3>1. T \subseteq completion
      BY <2>3, <2>9, Zenon
    <3> QED
      BY <2>5, <2>7, <2>10, <3>1, Zenon DEF Settles
  <2>12. /\ deletes \in [App -> Nat]
         /\ \A u \in App : deletes'[u] = IF u = t /\ last THEN deletes[u] + 1 ELSE deletes[u]
    BY <2>5, <2>8, Zenon DEF TransferInv, TypeOK
  <2>13. ASSUME last
         PROVE  /\ \A d \in Of(t) : d <= c
                /\ isLarge(t) /\ pc[t] \in {"wait", "done"} /\ prev[t] = INVALID
                /\ Of(t) \cap Pending' = {} /\ deletes[t] = 0
    <3>1. /\ \A d \in Of(t) : d <= c
          /\ isLarge(t) /\ pc[t] \in {"wait", "done"} /\ prev[t] = INVALID
      BY <2>2, <2>7, <2>8, <2>13, FinishLast, Zenon
    <3>2. deletes[t] = 0
      BY <2>6, <2>7, <2>8, Zenon DEF DeleteInv
    <3>3. \A d \in Of(t) : d \notin Pending'
      <4>1. \A d \in Of(t) : d \in Int
        BY Numbers, Zenon
      <4> QED
        BY <2>7, <3>1, <4>1
    <3> QED
      BY <3>1, <3>2, <3>3, Zenon
  <2>14. Unused(T)
    <3>1. CASE ~last
      BY <2>3, <3>1, Zenon DEF Unused
    <3>2. CASE last
      <4>1. T = PartSet(t)
        BY <2>9, <3>2, Zenon
      <4>2. \A p \in T : /\ p \in Of(t) /\ cmd[p].op \in {"send", "call", "recv"}
                         /\ \A d \in Issued : cmd[d].prev # p
        BY <4>1, PartsOwn, Zenon
      <4>3. \A d \in Pending' : cmd[d].prev \notin T
        BY <2>7, <4>2, Kept, Zenon
      <4>4. ASSUME NEW u \in App PROVE isLarge(u) /\ deletes'[u] = 0 => PartSet(u) \cap T = {}
        <5>1. CASE u = t
          BY <2>12, <2>13, <3>2, <5>1, SMTT(30)
        <5>2. CASE u # t
          BY <4>2, <5>2, PartsOwn, Owners, Zenon
        <5> QED
          BY <5>1, <5>2, Zenon
      <4>5. ASSUME NEW u \in App PROVE prev[u] \notin T /\ (pc'[u] = "wait" => ret[u] \notin T)
        <5>1. CASE u = t
          <6>1. pc[t] = "wait" => cmd[ret[t]].op = "finish"
            BY <2>13, <3>2, Owners, Zenon
          <6>2. INVALID \notin T
            BY <4>1, Zenon DEF PartSet
          <6> QED
            BY <2>5, <2>13, <3>2, <4>2, <5>1, <6>1, <6>2, Zenon
        <5>2. CASE u # t
          <6>1. INVALID \notin T
            BY <4>1, Zenon DEF PartSet
          <6> QED
            BY <2>5, <4>2, <5>2, <6>1, Owners, Zenon
        <5> QED
          BY <5>1, <5>2, Zenon
      <4> QED
        BY <4>3, <4>4, <4>5, Zenon DEF Unused
    <3> QED
      BY <3>1, <3>2, Zenon
  <2>15. TakeInv'
    <3>1. \A u \in App : deletes'[u] = 0 => deletes[u] = 0
      BY <2>12
    <3> QED
      BY <2>5, <2>6, <2>11, <2>14, <3>1, <1>TakeSettled, Zenon
  <2>16. \A u \in App : c \in Of(u) => u = t
    BY <2>8, Owners, Zenon
  <2>17. DeleteInv'
    <3>1. \A u \in App : \/ deletes'[u] = deletes[u]
                         \/ /\ deletes[u] = 0 /\ deletes'[u] = 1 /\ pc'[u] \in {"wait", "done"}
                            /\ Of(u) \cap Pending' = {}
      BY <2>5, <2>12, <2>13, SMTT(30)
    <3>2. ~last => ~Deletes(c)
      BY <2>2, <2>5, Zenon DEF isVH, Deletes, simpleCall
    <3>3. \A u \in App : \A d \in Of(u) \cap {c} : Deletes(d) /\ status'[d] = "OK" => deletes'[u] = 1
      BY <2>12, <2>13, <2>16, <3>2, SMTT(30)
    <3> QED
      BY <2>5, <2>6, <2>11, <3>1, <3>3, <1>DeleteSettled, Zenon
  <2>18. GoodInv'
    <3>1. ASSUME NEW u \in App, c \in Of(u), NEW d \in PartSet(u), status'[c] = "OK", last
          PROVE  d \notin rem_reqid' /\ status'[d] = "OK"
      <4>1. u = t /\ d \in T /\ d \in Ids /\ status[d] = "OK"
        BY <2>9, <2>10, <2>16, <3>1, Zenon
      <4>2. d # c
        <5>1. cmd[d].op \in {"send", "call", "recv"}
          BY <3>1, PartsOwn, Zenon
        <5> QED
          BY <2>2, <3>1, <5>1, Zenon
      <4> QED
        BY <2>5, <2>10, <4>1, <4>2, Zenon
    <3>2. cmd[c].op \notin Fragments
      BY <2>5, Zenon DEF isVH, Fragments
    <3>3. \A u \in App : \A e \in Of(u) \cap {c}, d \in Of(u) : status'[e] = "OK" =>
            /\ cmd[e].op \in Fragments /\ cmd[d].op = cmd[e].op /\ d < e =>
                 d \notin rem_reqid' /\ status'[d] = "OK"
            /\ cmd[e].op = "finish" /\ d \in PartSet(u) => d \notin rem_reqid' /\ status'[d] = "OK"
      BY <2>2, <3>1, <3>2, Zenon
    <3> QED
      BY <2>6, <2>11, <3>3, <1>GoodSettled, Zenon
  <2>19. DoneInv'
    BY <2>6, <2>11, <1>DoneSettled, Zenon
  <2> QED
    BY <2>15, <2>17, <2>18, <2>19, Zenon DEF ResultInv
  \* Commands that end with an error, and steps that settle nothing.
<1>ResultFailed.
    ASSUME TransferInv, QueueInv, ChainInv, ResultInv, NEW S, S \subseteq Pending, Pending' = Pending \ S,
           completion' = completion \cup S, \A i \in S : status'[i] = "ERROR",
           \A i \in Ids \ S : status'[i] = status[i],
           UNCHANGED <<rem_reqid, req, seq_no, cmd, pc, prev, parts, ret, outcome, deletes>>
    PROVE  ResultInv'
  <2> USE <1>ResultFailed
  <2>1. DoneInv /\ TakeInv /\ DeleteInv /\ GoodInv
    BY Zenon DEF ResultInv
  <2>2. Settles(S, {})
    BY Zenon DEF Settles
  <2>3. Unused({})
    BY Zenon DEF Unused
  <2>4. TakeInv'
    BY <2>1, <2>2, <2>3, <1>TakeSettled, Zenon
  <2>5. DoneInv' /\ DeleteInv' /\ GoodInv'
    BY <2>1, <2>2, <1>DoneSettled, <1>DeleteSettled, <1>GoodSettled, Zenon
  <2> QED
    BY <2>4, <2>5, Zenon DEF ResultInv
<1>ResultDriver.
    ASSUME TransferInv, QueueInv, ChainInv, ResultInv, Drive \/ VEHandle \/ VEException \/ VEKilled
    PROVE  QueueInv' /\ ChainInv' /\ ResultInv'
  <2> USE <1>ResultDriver
  <2>1. UNCHANGED <<req, seq_no, cmd, pc, prev, parts, ret, rsize, submit_mtx, outcome>>
    BY Zenon DEF Drive, SubmitVE, SubmitVH, Recv, CancelAll, IdleRound, ProgressExit, VEHandle, VEException,
       VEKilled, ctxVars, loopVars, retVars
  <2>2. ChainInv'
    BY <2>1, ChainSame, Zenon
  <2>3. QueueInv'
    BY QueueSubmitVE, QueueSubmitVH, QueueRecv, QueueCancelAll, QueueDriver, QueueVE, QueueKilled, Zenon DEF Drive
  <2>4. CASE SubmitVE
    <3>1. PICK c : c = Head(request)
      BY Zenon
    <3>2. UNCHANGED <<rem_reqid, deletes>>
      BY <2>4, Zenon DEF SubmitVE, ctxVars, dataVars
    <3>3. c \in Pending /\ c \in Ids
      BY <2>4, <3>1, QueueSubmitVE, QueueFacts, Zenon DEF Pending
    <3>4. status \in [Ids -> Statuses]
      BY Zenon DEF TransferInv, TypeOK, CommQueueType
    <3>5. CASE Pending' = Pending /\ UNCHANGED <<completion, status>>
      <4>1. PICK S : S = {}
        BY Zenon
      <4>2. /\ S \subseteq Pending /\ Pending' = Pending \ S /\ completion' = completion \cup S
            /\ \A i \in S : status'[i] = "ERROR"
            /\ \A i \in Ids \ S : status'[i] = status[i]
        BY <3>5, <4>1, Zenon
      <4> QED
        BY <2>1, <2>2, <2>3, <3>2, <4>2, <1>ResultFailed, Zenon
    <3>6. CASE /\ Pending' = Pending \ {c} /\ completion' = completion \cup {c}
               /\ status' = [status EXCEPT ![c] = "ERROR"]
      <4>1. PICK S : S = {c}
        BY Zenon
      <4>2. /\ S \subseteq Pending /\ Pending' = Pending \ S /\ completion' = completion \cup S
            /\ \A i \in S : status'[i] = "ERROR"
            /\ \A i \in Ids \ S : status'[i] = status[i]
        BY <3>3, <3>4, <3>6, <4>1, Zenon
      <4> QED
        BY <2>1, <2>2, <2>3, <3>2, <4>2, <1>ResultFailed, Zenon
    <3> QED
      BY <2>4, <3>1, <3>5, <3>6, QueueSubmitVE, Zenon
  <2>5. CASE CancelAll
    <3>1. /\ completion' = completion \cup Pending /\ UNCHANGED <<rem_reqid, deletes>>
          /\ status' = [i \in Ids |-> IF i \in Pending THEN "ERROR" ELSE status[i]]
      BY <2>5, Zenon DEF CancelAll, ctxVars, dataVars, Pending
    <3>2. Pending' = Pending \ Pending /\ Pending \subseteq Ids
      BY <2>5, QueueCancelAll, Kept, Numbers, Zenon
    <3>3. (\A i \in Pending : status'[i] = "ERROR") /\ \A i \in Ids \ Pending : status'[i] = status[i]
      BY <3>1, <3>2, Zenon
    <3> QED
      BY <2>1, <2>2, <2>3, <3>1, <3>2, <3>3, <1>ResultFailed, Zenon
  <2>6. CASE IdleRound \/ ProgressExit \/ VEHandle \/ VEException \/ VEKilled
    <3>1. UNCHANGED <<completion, status, rem_reqid, deletes>>
      BY <2>6, Zenon DEF IdleRound, ProgressExit, VEHandle, VEException, VEKilled, comqVars, ctxVars, dataVars
    <3>2. Pending' = Pending
      BY <2>6, QueueDriver, QueueVE, QueueKilled, Zenon
    <3>3. PICK S : S = {}
      BY Zenon
    <3>4. /\ S \subseteq Pending /\ Pending' = Pending \ S /\ completion' = completion \cup S
          /\ \A i \in S : status'[i] = "ERROR"
          /\ \A i \in Ids \ S : status'[i] = status[i]
      BY <3>1, <3>2, <3>3, Zenon
    <3> QED
      BY <2>1, <2>2, <2>3, <3>1, <3>4, <1>ResultFailed, Zenon
  <2> QED
    BY <2>2, <2>3, <2>4, <2>5, <2>6, <1>ResultRecv, <1>ResultSubmitVH, Zenon DEF Drive
<1> SUFFICES ASSUME ChainsInv, [Next]_vars PROVE ChainsInv'
  BY Zenon
<1>1. TransferInv /\ QueueInv /\ ChainInv /\ ResultInv
  BY Zenon DEF ChainsInv
<1>2. TransferInv'
  BY <1>1, TransferNext, Zenon
<1>3. ASSUME NEW t \in App, RequestStep(t) PROVE QueueInv' /\ ChainInv' /\ ResultInv'
  <2>1. CASE Submits(t)
    BY <1>1, <2>1, SubmitsStep, Zenon
  <2>2. CASE Wait(t)
    BY <1>1, <2>2, ChainWait, <1>ResultWait, Zenon
  <2> QED
    BY <1>3, <2>1, <2>2, Zenon DEF RequestStep, Submits
<1>4. ASSUME Drive \/ VEHandle \/ VEException \/ VEKilled
      PROVE  QueueInv' /\ ChainInv' /\ ResultInv'
  BY <1>1, <1>4, <1>ResultDriver, Zenon
<1>5. ASSUME UNCHANGED vars PROVE QueueInv' /\ ChainInv' /\ ResultInv'
  <2>1. /\ UNCHANGED <<request, inflight, completion, status, state, seq_no, rem_reqid, submit_mtx>>
        /\ UNCHANGED <<driver, cmd, chan, rep, child, req, pc, rsize, prev, parts, ret, outcome>>
        /\ UNCHANGED deletes
    BY <1>5, Zenon DEF vars, comqVars, ctxVars, veVars, loopVars, retVars, dataVars
  <2>2. QueueInv' /\ ChainInv' /\ Pending' = Pending
    BY <1>1, <2>1, QueueSame, ChainSame, Zenon
  <2>3. PICK S : S = {}
    BY Zenon
  <2>4. /\ S \subseteq Pending /\ Pending' = Pending \ S /\ completion' = completion \cup S
        /\ \A i \in S : status'[i] = "ERROR"
        /\ \A i \in Ids \ S : status'[i] = status[i]
    BY <2>1, <2>2, <2>3, Zenon
  <2> QED
    BY <1>1, <2>1, <2>2, <2>4, <1>ResultFailed, Zenon
<1> QED
  BY <1>2, <1>3, <1>4, <1>5, Zenon DEF Next, ChainsInv

\* ResultsReady: a fragment's result function and the VH command of a large
\* call find the results they take finished and outstanding.
THEOREM ResultsAlwaysReady == Spec => []ResultsReady
<1>1. ChainsInv => ResultsReady
  BY Ready, Zenon DEF ChainsInv, ResultInv
<1> QED
  BY <1>1, ChainsInit, ChainsNext, PTL DEF Spec

\* StackDeletedLast: the stack image of a call is deleted once, after the last
\* command that uses it.
THEOREM StackAlwaysDeletedLast == Spec => []StackDeletedLast
<1>1. ChainsInv => StackDeletedLast
  <2> SUFFICES ASSUME ChainsInv, NEW t \in App, deletes[t] > 0
               PROVE  deletes[t] = 1 /\ UsesStack(t) = {}
    BY Zenon DEF StackDeletedLast
  <2>1. deletes[t] \in Nat /\ deletes[t] # 0
    BY DEF ChainsInv, TransferInv, TypeOK
  <2>2. deletes[t] = 1 /\ Of(t) \cap Pending = {} /\ Pending \subseteq Issued
    BY <2>1, Kept, Zenon DEF ChainsInv, ResultInv, DeleteInv
  <2>3. UsesStack(t) \subseteq Of(t) \cap Pending
    BY <2>2, Zenon DEF UsesStack, Of, Pending
  <2> QED
    BY <2>2, <2>3, Zenon
<1> QED
  BY <1>1, ChainsInit, ChainsNext, PTL DEF Spec

\* If a request all of whose parts were submitted succeeds, all of its commands
\* did, and their results have been taken.
LEMMA AllGood ==
  ASSUME ChainsInv, NEW t \in App, Succeeded(t), Submitted(t)
  PROVE  /\ \A c \in Of(t) : c \notin rem_reqid /\ status[c] = "OK"
         /\ req[t].op = "call" => deletes[t] = 1
<1>1. TransferInv /\ QueueInv /\ ChainInv /\ DoneInv /\ TakeInv /\ DeleteInv /\ GoodInv
  BY Zenon DEF ChainsInv, ResultInv
<1>2. PICK r : r = ret[t]
  BY Zenon
<1>3. /\ pc[t] = "done" /\ r \notin rem_reqid /\ status[r] = "OK" /\ r \in Of(t)
      /\ \A d \in Of(t) : d <= r
      /\ IF isLarge(t) THEN cmd[r].op = "finish"
         ELSE IF req[t].op = "call" THEN cmd[r].op = "call"
         ELSE cmd[r].op \in Fragments \cup {"empty"}
  BY <1>1, <1>2, Zenon DEF Succeeded, TakeInv, ChainInv, ThreadInv, RetInv
<1>4. /\ \A c \in Of(t) : /\ CommandInv(c, t) /\ cmd[c].op \in Ops /\ c \in Int /\ c \in Issued
                          /\ cmd[c].t = t
      /\ req[t].op \in {"write", "read", "call"}
  BY <1>1, Kept, Zenon DEF ChainInv, TransferInv, TypeOK, CmdType, RequestType
<1>5. \A c \in Of(t) : c < r => cmd[c].op \in Earlier(cmd[r].op)
  BY <1>3, <1>4, Zenon DEF CommandInv
<1>6. \A c \in Of(t) : Suits(cmd[c], t)
  BY <1>4, Zenon DEF CommandInv
<1>7. CASE isLarge(t)
  <2>1. ASSUME NEW p \in PartSet(t) PROVE p \in Of(t) /\ p \notin rem_reqid /\ status[p] = "OK"
    BY <1>1, <1>3, <1>7, <2>1, PartsOwn, Zenon DEF GoodInv
  <2>2. ASSUME NEW p \in PartSet(t), NEW c \in Of(t), c <= p, cmd[p].op = cmd[c].op,
               cmd[p].op \in Fragments
        PROVE  c \notin rem_reqid /\ status[c] = "OK"
    <3>1. CASE c = p
      BY <2>1, <3>1, Zenon
    <3>2. CASE c < p
      BY <1>1, <2>1, <2>2, <3>2, Zenon DEF GoodInv
    <3>3. p \in Int /\ c \in Int
      BY <1>4, <2>1, Zenon
    <3> QED
      BY <2>2, <3>1, <3>2, <3>3
  <2>3. PartsInv(t)
    BY <1>1, Zenon DEF ChainInv, ThreadInv
  <2>4. ASSUME NEW c \in Of(t), cmd[c].op = "send" PROVE c \notin rem_reqid /\ status[c] = "OK"
    <3>1. parts[t].write # INVALID
      BY <1>6, <1>7, <2>4, Zenon DEF Suits, Submitted, isLarge
    <3>2. Top(t, "send", parts[t].write) /\ parts[t].write \in PartSet(t)
      BY <2>3, <3>1, Zenon DEF PartsInv, PartSet
    <3>3. c \in Chain(t, "send") /\ cmd[parts[t].write].op = "send"
      BY <2>4, <3>2, Zenon DEF Chain, Top
    <3>4. c <= parts[t].write
      BY <3>2, <3>3, Zenon DEF Top
    <3> QED
      BY <2>2, <2>4, <3>2, <3>3, <3>4, Zenon DEF Fragments
  <2>5. ASSUME NEW c \in Of(t), cmd[c].op = "recv" PROVE c \notin rem_reqid /\ status[c] = "OK"
    <3>1. parts[t].read # INVALID
      BY <1>6, <1>7, <2>5, Zenon DEF Suits, Submitted, isLarge
    <3>2. Top(t, "recv", parts[t].read) /\ parts[t].read \in PartSet(t)
      BY <2>3, <3>1, Zenon DEF PartsInv, PartSet
    <3>3. c \in Chain(t, "recv") /\ cmd[parts[t].read].op = "recv"
      BY <2>5, <3>2, Zenon DEF Chain, Top
    <3>4. c <= parts[t].read
      BY <3>2, <3>3, Zenon DEF Top
    <3> QED
      BY <2>2, <2>5, <3>2, <3>3, <3>4, Zenon DEF Fragments
  <2>6. ASSUME NEW c \in Of(t), cmd[c].op = "call" PROVE c \notin rem_reqid /\ status[c] = "OK"
    <3>1. PICK p : p = parts[t].call
      BY Zenon
    <3>2. p \in PartSet(t) /\ p \in Of(t) /\ cmd[p].op = "call" /\ p \in Int /\ c \in Int
      BY <1>4, <1>7, <2>3, <3>1, Zenon DEF Submitted, PartSet, PartsInv, Chain
    <3>3. c < p => cmd[c].op \in Earlier("call")
      BY <1>4, <3>2, Zenon DEF CommandInv
    <3>4. p < c => cmd[p].op \in Earlier("call")
      BY <1>4, <2>6, <3>2, Zenon DEF CommandInv
    <3>5. c = p
      BY <2>6, <3>2, <3>3, <3>4 DEF Earlier
    <3> QED
      BY <2>1, <3>2, <3>5, Zenon
  <2>7. ASSUME NEW c \in Of(t) PROVE c \notin rem_reqid /\ status[c] = "OK"
    <3>1. c = r \/ c < r
      BY <1>3, <1>4
    <3>2. c < r => cmd[c].op \in {"send", "call", "recv"}
      BY <1>3, <1>5, <1>7, Zenon DEF Earlier
    <3> QED
      BY <1>3, <2>4, <2>5, <2>6, <3>1, <3>2, Zenon
  <2>8. deletes[t] = 1
    BY <1>1, <1>3, <1>7, Zenon DEF DeleteInv, Deletes
  <2> QED
    BY <2>7, <2>8, Zenon
<1>8. CASE ~isLarge(t) /\ req[t].op = "call"
  <2>1. simpleCall(r)
    BY <1>3, <1>4, <1>8, Zenon DEF simpleCall
  <2>2. Of(t) = {r}
    BY <1>1, <1>3, <2>1, SimpleAlone, Zenon
  <2>3. deletes[t] = 1
    BY <1>1, <1>3, <2>1, Zenon DEF DeleteInv, Deletes
  <2> QED
    BY <1>3, <2>2, <2>3, Zenon
<1>9. CASE ~isLarge(t) /\ req[t].op # "call"
  <2> SUFFICES ASSUME NEW c \in Of(t), c # r PROVE c \notin rem_reqid /\ status[c] = "OK"
    BY <1>3, <1>9, Zenon
  <2>1. c < r /\ cmd[c].op \in Earlier(cmd[r].op)
    BY <1>3, <1>4, <1>5, SMTT(30)
  <2>2. cmd[r].op \in Fragments
    BY <1>3, <1>9, <2>1, Zenon DEF Earlier
  <2>3. cmd[c].op = cmd[r].op
    BY <1>3, <1>6, <1>9, <2>1, <2>2, Zenon DEF Suits, Earlier, Fragments
  <2> QED
    BY <1>1, <1>3, <2>1, <2>2, <2>3, Zenon DEF GoodInv
<1> QED
  BY <1>7, <1>8, <1>9, Zenon

\* NothingLeft: once all requests have succeeded, no ID, result or command is
\* left in the context and every stack image has been deleted.
THEOREM NothingEverLeft == Spec => []NothingLeft
<1>1. ChainsInv => NothingLeft
  <2> SUFFICES ASSUME ChainsInv, \A t \in App : Succeeded(t) /\ Submitted(t)
               PROVE  /\ rem_reqid = {} /\ completion = {} /\ ~isActive
                      /\ \A t \in App : req[t].op = "call" => deletes[t] = 1
    BY Zenon DEF NothingLeft
  <2>1. /\ rem_reqid = Pending \cup completion /\ Pending \subseteq Issued /\ completion \subseteq Issued
        /\ \A c \in Issued : cmd[c].t \in App /\ c \in Of(cmd[c].t)
    BY Kept, Zenon DEF ChainsInv, ResultInv, DoneInv
  <2>2. \A c \in Issued : c \notin rem_reqid
    BY <2>1, AllGood, Zenon
  <2>3. rem_reqid = {} /\ completion = {} /\ Pending = {}
    BY <2>1, <2>2, Zenon
  <2>4. request = <<>> /\ inflight = {}
    <3>1. request \in Seq(Ids)
      BY Zenon DEF ChainsInv, TransferInv, TypeOK, CommQueueType
    <3>2. \A i \in DOMAIN request : request[i] \in Pending
      BY Zenon DEF Pending, Elems
    <3> QED
      BY <2>3, <3>1, <3>2 DEF Pending
  <2> QED
    BY <2>3, <2>4, AllGood, Zenon DEF isActive
<1> QED
  BY <1>1, ChainsInit, ChainsNext, PTL DEF Spec

-----------------------------------------------------------------------------
\* The bytes of a command that goes to the VE belong to its request.
LEMMA BytesInside ==
  ASSUME TransferInv, QueueInv, ChainInv, NEW t \in App, NEW c \in Of(t),
         cmd[c].op \notin {"empty", "finish"}
  PROVE  /\ BytesOf(c) \subseteq Bytes(0, req[t].size)
         /\ cmd[c].lo \in Nat /\ cmd[c].hi \in Nat /\ cmd[c].hi <= req[t].size
<1>1. /\ CommandInv(c, t) /\ cmd[c].op \in Ops /\ cmd[c].lo \in Nat /\ cmd[c].hi \in Nat
      /\ req[t].size \in Nat /\ MaxStack \in Nat
  <2>1. CommandInv(c, t) /\ c \in Ids
    BY Kept, Zenon DEF ChainInv
  <2>2. cmd[c] \in CmdType /\ req[t] \in RequestType
    BY <2>1, Zenon DEF TransferInv, TypeOK
  <2> QED
    BY <2>1, <2>2, TransferAssumption, Zenon DEF CmdType, RequestType
<1>2. base(t) \in Nat
  BY Totals, Zenon DEF TransferInv
<1>3. cmd[c].hi <= req[t].size
  <2>1. CASE cmd[c].op \in Fragments
    BY <1>1, <2>1, Zenon DEF CommandInv
  <2>2. CASE cmd[c].op = "call"
    <3>1. cmd[c].hi = IF isLarge(t) THEN MaxStack ELSE req[t].size
      BY <1>1, <2>2, Zenon DEF CommandInv, Suits
    <3>2. isLarge(t) => MaxStack <= req[t].size
      BY <1>1 DEF isLarge
    <3> QED
      BY <1>1, <3>1, <3>2, SMTT(30)
  <2> QED
    BY <1>1, <2>1, <2>2, Zenon DEF Ops, Fragments
<1> QED
  BY <1>1, <1>3, SMTT(30) DEF BytesOf, Bytes

\* Of the commands known before, everything is as it was.
LEMMA BytesSame ==
  ASSUME NEW c, cmd'[c] = cmd[c]
  PROVE  BytesOf(c)' = BytesOf(c)
  BY Zenon DEF BytesOf, Bytes

\* Replies are to commands that were issued and go to the VE.
LEMMA Replied ==
  ASSUME TransferInv, QueueInv, ChainInv, NEW n \in DOMAIN rep
  PROVE  /\ rep[n].id \in Issued /\ rep[n].id \in Ids /\ rep[n].id \in RepIds
         /\ cmd[rep[n].id].op \notin {"empty", "finish"}
         /\ cmd[rep[n].id].t \in App /\ rep[n].id \in Of(cmd[rep[n].id].t)
<1>1. rep[n].id \in RepIds
  BY Zenon DEF RepIds
<1> QED
  BY <1>1, QueueFacts, Kept, Zenon DEF QueueInv

-----------------------------------------------------------------------------
DataInv == RangeInv /\ StoreInv

-----------------------------------------------------------------------------
\* What the handlers on the VE do with memory and reply.
LEMMA Handled ==
  ASSUME TransferInv, QueueInv, ChainInv, VEHandle, NEW c, c = Head(chan), NEW t, t = cmd[c].t
  PROVE  /\ t \in App /\ c \in Of(t) /\ c \in Issued /\ cmd[c].op \in {"send", "recv", "call"}
         /\ cmd[c].op = "send" => onVE' = stored(t, BytesOf(c))
         /\ cmd[c].op = "call" => onVE' = called(t)
         /\ cmd[c].op = "recv" => onVE' = onVE
         /\ cmd[c].op # "call" => ran' = ran
         /\ cmd[c].op = "call" =>
              ran' = [ran EXCEPT ![t] =
                        IF req[t].in /\ stored(t, BytesOf(c))[t] # Bytes(0, req[t].size)
                        THEN "partial" ELSE "full"]
         /\ rep' = Append(rep, [id |-> c, exc |-> FALSE, data |-> replyData(c)])
         /\ replyData(c) \subseteq BytesOf(c)
         /\ cmd[c].op = "recv" => replyData(c) = IF req[t].op = "call" THEN BytesOf(c) \cap onVE[t] ELSE BytesOf(c)
         /\ cmd[c].op = "call" => replyData(c) = IF req[t].out THEN BytesOf(c) ELSE {}
         /\ UNCHANGED <<status, completion, rem_reqid, cmd, seq_no, req, pc, parts, buffer, outArgs, deletes>>
<1>1. c \in Issued /\ c \in Elems(chan)
  BY QueueVE, Zenon
<1>2. t \in App /\ c \in Of(t) /\ cmd[c].op \in {"send", "recv", "call"}
  <2>1. cmd[c].op \in Ops
    BY <1>1, Numbers, Zenon DEF TransferInv, TypeOK, CmdType
  <2>2. cmd[c].op \notin {"empty", "finish"}
    BY <1>1, Zenon DEF QueueInv
  <2> QED
    BY <1>1, <2>1, <2>2, Kept, Zenon DEF Ops
<1>3. /\ rep' = Append(rep, [id |-> c, exc |-> FALSE, data |-> replyData(c)])
      /\ UNCHANGED <<status, completion, rem_reqid, cmd, seq_no, req, pc, parts, buffer, outArgs, deletes>>
  BY Zenon DEF VEHandle, comqVars, ctxVars, loopVars
<1>4. /\ cmd[c].op = "send" => onVE' = stored(t, BytesOf(c))
      /\ cmd[c].op = "call" => onVE' = called(t)
      /\ cmd[c].op = "recv" => onVE' = onVE
  BY <1>2, Zenon DEF VEHandle, BytesOf
<1>5. /\ cmd[c].op # "call" => ran' = ran
      /\ cmd[c].op = "call" =>
           ran' = [ran EXCEPT ![t] =
                     IF req[t].in /\ stored(t, BytesOf(c))[t] # Bytes(0, req[t].size)
                     THEN "partial" ELSE "full"]
  BY Zenon DEF VEHandle, BytesOf
<1>6. /\ cmd[c].op = "recv" => replyData(c) = IF req[t].op = "call" THEN BytesOf(c) \cap onVE[t] ELSE BytesOf(c)
      /\ cmd[c].op = "call" => replyData(c) = IF req[t].out THEN BytesOf(c) ELSE {}
      /\ cmd[c].op = "send" => replyData(c) = {}
  BY Zenon DEF replyData, BytesOf
<1>7. replyData(c) \subseteq BytesOf(c)
  BY <1>2, <1>6, Zenon
<1> QED
  BY <1>1, <1>2, <1>3, <1>4, <1>5, <1>6, <1>7, Zenon

\* What the result function of the first reply sees.
LEMMA Received ==
  ASSUME TransferInv, QueueInv, ChainInv, ResultInv, Recv, NEW c, c = Head(rep).id
  PROVE  /\ c \in Issued /\ c \in Ids /\ c \in Of(cmd[c].t) /\ cmd[c].t \in App
         /\ cmd[c].op \in {"send", "recv", "call"} /\ c \in RepIds
         /\ 1 \in DOMAIN rep /\ rep[1] = Head(rep)
         /\ \A n \in DOMAIN rep' : n + 1 \in DOMAIN rep /\ rep'[n] = rep[n + 1] /\ rep'[n].id # c
         /\ \A i \in Ids \ {c} : status'[i] = status[i]
         /\ status'[c] = "OK" =>
              /\ ~Head(rep).exc
              /\ cmd[c].prev # INVALID => status[cmd[c].prev] = "OK"
         /\ UNCHANGED <<cmd, seq_no, req, pc, parts, onVE, ran, chan>>
         /\ ~Head(rep).exc => \A u \in App : buffer'[u] =
              IF u = cmd[c].t /\ ~simpleCall(c) THEN buffer[u] \cup Head(rep).data ELSE buffer[u]
         /\ ~Head(rep).exc => \A u \in App : outArgs'[u] =
              IF u = cmd[c].t /\ simpleCall(c) THEN Head(rep).data ELSE outArgs[u]
         /\ Head(rep).exc => UNCHANGED <<buffer, outArgs>>
<1>1. /\ rep # <<>> /\ rep' = Tail(rep) /\ status' = [status EXCEPT ![c] = resultStatus(c, Head(rep).exc)]
      /\ UNCHANGED <<cmd, seq_no, req, pc, parts, onVE, ran, chan>>
      /\ buffer' = IF Head(rep).exc \/ simpleCall(c) THEN buffer
                   ELSE [buffer EXCEPT ![cmd[c].t] = buffer[cmd[c].t] \cup Head(rep).data]
      /\ outArgs' = IF Head(rep).exc \/ ~simpleCall(c) THEN outArgs
                    ELSE [outArgs EXCEPT ![cmd[c].t] = Head(rep).data]
  BY Zenon DEF Recv, setResult, loopVars, TransferInv, TypeOK
<1>2. c \in Issued /\ c \in RepIds /\ c \in Ids
  BY QueueRecv, Numbers, Zenon
<1>3. cmd[c].t \in App /\ c \in Of(cmd[c].t) /\ cmd[c].op \in {"send", "recv", "call"}
  <2>1. cmd[c].op \in Ops /\ cmd[c].op \notin {"empty", "finish"}
    BY <1>2, Zenon DEF TransferInv, TypeOK, CmdType, QueueInv
  <2> QED
    BY <1>2, <2>1, Kept, Zenon DEF Ops
<1>4. 1 \in DOMAIN rep /\ rep[1] = Head(rep)
  BY <1>1, RepTail, Zenon DEF TransferInv
<1>5. ASSUME NEW n \in DOMAIN rep' PROVE n + 1 \in DOMAIN rep /\ rep'[n] = rep[n + 1] /\ rep'[n].id # c
  <2>1. n + 1 \in DOMAIN rep /\ rep'[n] = rep[n + 1] /\ c < rep'[n].id
    BY <1>1, RepTail, Zenon DEF TransferInv
  <2> QED
    BY <1>2, <2>1, QueueFacts, SMTT(30)
<1>6. status \in [Ids -> Statuses] /\ buffer \in [App -> SUBSET Nat] /\ outArgs \in [App -> SUBSET Nat]
  BY Zenon DEF TransferInv, TypeOK, CommQueueType
<1>7. ASSUME status'[c] = "OK"
      PROVE  ~Head(rep).exc /\ (cmd[c].prev # INVALID => status[cmd[c].prev] = "OK")
  <2>1. resultStatus(c, Head(rep).exc) = "OK"
    BY <1>1, <1>2, <1>6, <1>7, Zenon
  <2> QED
    BY <2>1, Zenon DEF resultStatus, peek
<1>8. \A i \in Ids \ {c} : status'[i] = status[i]
  BY <1>1, <1>6, Zenon
<1>9. /\ ~Head(rep).exc => \A u \in App : buffer'[u] =
           IF u = cmd[c].t /\ ~simpleCall(c) THEN buffer[u] \cup Head(rep).data ELSE buffer[u]
      /\ ~Head(rep).exc => \A u \in App : outArgs'[u] =
           IF u = cmd[c].t /\ simpleCall(c) THEN Head(rep).data ELSE outArgs[u]
      /\ Head(rep).exc => UNCHANGED <<buffer, outArgs>>
  BY <1>1, <1>3, <1>6, Zenon
<1> QED
  BY <1>1, <1>2, <1>3, <1>4, <1>5, <1>7, <1>8, <1>9, Zenon

\* Where the result function of the first reply puts the reply's bytes.
LEMMA ReceivedData ==
  ASSUME TransferInv, QueueInv, ChainInv, ResultInv, Recv, NEW c, c = Head(rep).id, NEW t, t = cmd[c].t,
         ~Head(rep).exc, NEW u \in App
  PROVE  /\ buffer'[u] = IF u = t /\ ~simpleCall(c) THEN buffer[u] \cup Head(rep).data ELSE buffer[u]
         /\ outArgs'[u] = IF u = t /\ simpleCall(c) THEN Head(rep).data ELSE outArgs[u]
<1>1. /\ buffer' = IF simpleCall(c) THEN buffer
                   ELSE [buffer EXCEPT ![t] = buffer[t] \cup Head(rep).data]
      /\ outArgs' = IF ~simpleCall(c) THEN outArgs ELSE [outArgs EXCEPT ![t] = Head(rep).data]
  BY Zenon DEF Recv, setResult
<1>2. buffer \in [App -> SUBSET Nat] /\ outArgs \in [App -> SUBSET Nat]
  BY Zenon DEF TransferInv, TypeOK
<1>3. CASE simpleCall(c)
  BY <1>1, <1>2, <1>3, Zenon
<1>4. CASE ~simpleCall(c)
  BY <1>1, <1>2, <1>4, Zenon
<1> QED
  BY <1>3, <1>4, Zenon

\* A fragment that succeeds continues its predecessor's bytes.
LEMMA Continues ==
  ASSUME TransferInv, QueueInv, ChainInv, NEW t \in App, NEW c \in Of(t), cmd[c].op \in Fragments,
         NEW B, BytesOf(c) \subseteq B, NEW b, b = base(t),
         cmd[c].prev # INVALID => Bytes(b, cmd[cmd[c].prev].hi) \subseteq B
  PROVE  Bytes(b, cmd[c].hi) \subseteq B
<1>1. CommandInv(c, t) /\ cmd[c].lo \in Nat /\ cmd[c].hi \in Nat /\ b \in Nat
  BY Kept, Totals, Zenon DEF ChainInv, TransferInv, TypeOK, CmdType
<1>2. CASE cmd[c].prev = INVALID
  BY <1>1, <1>2, Zenon DEF CommandInv, BytesOf
<1>3. CASE cmd[c].prev # INVALID
  <2>1. cmd[cmd[c].prev].hi = cmd[c].lo
    BY <1>1, <1>3, Zenon DEF CommandInv
  <2>2. Bytes(b, cmd[c].hi) \subseteq Bytes(b, cmd[c].lo) \cup BytesOf(c)
    BY <1>1 DEF Bytes, BytesOf
  <2> QED
    BY <1>3, <2>1, <2>2, Zenon
<1> QED
  BY <1>2, <1>3, Zenon

\* No byte has been transferred initially.
LEMMA DataInit == Init => DataInv
<1> SUFFICES ASSUME Init PROVE DataInv
  BY Zenon
<1>1. rep = <<>> /\ onVE = [t \in App |-> {}] /\ buffer = [t \in App |-> {}] /\ seq_no = 0
  BY Zenon DEF Init
<1>2. Issued = {} /\ \A t \in App : Of(t) = {}
  BY <1>1 DEF Issued, Of
<1> QED
  BY <1>1, <1>2, Zenon DEF DataInv, RangeInv, StoreInv

\* What VE memory and the buffers hold stays right in every step.
LEMMA DataNext == ChainsInv /\ DataInv /\ [Next]_vars => DataInv'
  \* A step that moves no bytes, adds the commands K, and lets no fragment
  \* succeed.
<1>DataQuiet.
    ASSUME TransferInv, QueueInv, ChainInv, DataInv, UNCHANGED <<rep, onVE, buffer, req>>,
           NEW K, \A u \in App : Of(u)' \subseteq Of(u) \cup K,
           \A i \in Issued : cmd'[i] = cmd[i], K \cap Issued = {}, \A k \in K : status'[k] # "OK",
           \A c \in Issued : cmd[c].op \in Fragments /\ status'[c] = "OK" => status[c] = "OK"
    PROVE  DataInv'
  <2> USE <1>DataQuiet
  <2>1. \A n \in DOMAIN rep : rep[n].id \in Issued
    BY Replied, Zenon
  <2>2. \A c \in Issued : BytesOf(c)' = BytesOf(c)
    BY BytesSame, Zenon
  <2>3. RangeInv'
    <3>1. ASSUME NEW c \in Issued', NEW n \in DOMAIN rep, rep[n].id = c
          PROVE  rep[n].data \subseteq BytesOf(c)'
      BY <2>1, <2>2, <3>1, SMTT(30) DEF DataInv, RangeInv
    <3> QED
      BY <3>1, Zenon DEF DataInv, RangeInv
  <2>4. ASSUME NEW t \in App, NEW c \in Of(t)'
        PROVE  /\ cmd'[c].op = "send" /\ req'[t].op = "write" =>
                    /\ \A n \in DOMAIN rep : rep[n].id = c /\ ~rep[n].exc => BytesOf(c)' \subseteq onVE'[t]
                    /\ status'[c] = "OK" => Bytes(0, cmd'[c].hi) \subseteq onVE'[t]
               /\ cmd'[c].op = "recv" /\ req'[t].op = "read" =>
                    /\ \A n \in DOMAIN rep : rep[n].id = c /\ ~rep[n].exc => rep[n].data = BytesOf(c)'
                    /\ status'[c] = "OK" => Bytes(0, cmd'[c].hi) \subseteq buffer'[t]
    <3>1. CASE c \in K
      BY <2>1, <3>1, Zenon
    <3>2. CASE c \in Of(t)
      <4>1. c \in Issued /\ cmd'[c] = cmd[c] /\ BytesOf(c)' = BytesOf(c)
        BY <2>2, <3>2, Kept, Zenon
      <4> QED
        BY <3>2, <4>1, ZenonT(60) DEF DataInv, StoreInv, Fragments
    <3> QED
      BY <2>4, <3>1, <3>2, Zenon
  <2>5. StoreInv'
    BY <2>4, ZenonT(60) DEF StoreInv
  <2> QED
    BY <2>3, <2>5, Zenon DEF DataInv
<1>DataSubmits.
    ASSUME TransferInv, QueueInv, ChainInv, ResultInv, DataInv, NEW t \in App, NEW K, Grows(t, K)
    PROVE  DataInv'
  <2> USE <1>DataSubmits
  <2>1. /\ UNCHANGED <<rep, onVE, buffer, req, status>> /\ (\A i \in Issued : cmd'[i] = cmd[i])
        /\ K \subseteq Ids /\ \A i \in Issued, k \in K : i < k
    BY Zenon DEF Grows
  <2>2. \A u \in App : Of(u)' \subseteq Of(u) \cup K
    BY Zenon DEF Grows
  <2>3. K \cap Issued = {} /\ \A k \in K : status'[k] # "OK"
    <3>1. \A k \in K : k \notin Issued
      BY <2>1, QueueFacts, SMTT(30)
    <3>2. \A k \in K : status[k] = "UNFINISHED"
      BY <2>1, <3>1, Zenon DEF ResultInv, DoneInv
    <3> QED
      BY <2>1, <3>1, <3>2, Zenon
  <2> QED
    BY <2>1, <2>2, <2>3, <1>DataQuiet, Zenon
  \* Steps that settle commands without a reply, or none.
<1>DataStill.
    ASSUME TransferInv, QueueInv, ChainInv, DataInv, UNCHANGED <<rep, onVE, buffer, req, cmd, seq_no>>,
           \A c \in Issued : cmd[c].op \in Fragments /\ status'[c] = "OK" => status[c] = "OK"
    PROVE  DataInv'
  <2> USE <1>DataStill
  <2>1. PICK K : K = {}
    BY Zenon
  <2>2. \A u \in App : Of(u)' \subseteq Of(u) \cup K
    BY Zenon DEF Of, Issued
  <2> QED
    BY <2>1, <2>2, <1>DataQuiet
<1>DataWaits.
    ASSUME TransferInv, QueueInv, ChainInv, DataInv,
           \/ \E t \in App : Wait(t)
           \/ SubmitVE \/ SubmitVH \/ CancelAll \/ IdleRound \/ ProgressExit \/ VEKilled
           \/ UNCHANGED vars
    PROVE  DataInv'
  <2> USE <1>DataWaits
  <2>1. UNCHANGED <<rep, onVE, buffer, req, cmd, seq_no>>
    BY Zenon DEF Wait, SubmitVE, SubmitVH, CancelAll, IdleRound, ProgressExit, VEKilled, vars, ctxVars,
       veVars, dataVars
  <2>2. ASSUME NEW c \in Issued, cmd[c].op \in Fragments, status'[c] = "OK" PROVE status[c] = "OK"
    <3>1. c \in Ids /\ status \in [Ids -> Statuses]
      BY Numbers, Zenon DEF TransferInv, TypeOK, CommQueueType
    <3>2. CASE UNCHANGED status
      BY <2>2, <3>2, Zenon
    <3>3. CASE SubmitVE
      <4>1. UNCHANGED status \/ status' = [status EXCEPT ![Head(request)] = "ERROR"]
        BY <3>3, Zenon DEF SubmitVE, setResult
      <4> QED
        BY <2>2, <3>1, <4>1, Zenon
    <3>4. CASE SubmitVH
      <4>1. PICK s : status' = [status EXCEPT ![Head(request)] = s] /\ isVH(Head(request))
        BY <3>4, Zenon DEF SubmitVH, setResult
      <4>2. c # Head(request)
        BY <2>2, <4>1, Zenon DEF isVH, Fragments
      <4> QED
        BY <2>2, <3>1, <4>1, <4>2, Zenon
    <3>5. CASE CancelAll
      <4>1. \E gone : status' = [i \in Ids |-> IF i \in gone THEN "ERROR" ELSE status[i]]
        BY <3>5, Zenon DEF CancelAll
      <4> QED
        BY <2>2, <3>1, <4>1, Zenon
    <3>6. CASE (\E t \in App : Wait(t)) \/ IdleRound \/ ProgressExit \/ VEKilled \/ UNCHANGED vars
      BY <3>2, <3>6, Zenon DEF Wait, IdleRound, ProgressExit, VEKilled, vars, comqVars
    <3> QED
      BY <3>3, <3>4, <3>5, <3>6, Zenon
  <2> QED
    BY <2>1, <2>2, <1>DataStill, Zenon
  \* VE memory stays within the requests, and nobody else writes to the target
  \* of a transfer.
<1>VEMemory.
    ASSUME TransferInv, QueueInv, ChainInv, RangeInv, VEHandle, NEW u \in App
    PROVE  /\ onVE'[u] \subseteq Bytes(0, req[u].size)
           /\ req[u].op # "call" => onVE[u] \subseteq onVE'[u]
  <2> USE <1>VEMemory
  <2>1. PICK c : c = Head(chan)
    BY Zenon
  <2>2. PICK t : t = cmd[c].t
    BY Zenon
  <2>3. /\ t \in App /\ c \in Of(t) /\ cmd[c].op \in {"send", "recv", "call"}
        /\ cmd[c].op = "send" => onVE' = stored(t, BytesOf(c))
        /\ cmd[c].op = "call" => onVE' = called(t)
        /\ cmd[c].op = "recv" => onVE' = onVE
    BY <2>1, <2>2, Handled, Zenon
  <2>4. BytesOf(c) \subseteq Bytes(0, req[t].size)
    BY <2>3, BytesInside, Zenon
  <2>5. onVE[u] \subseteq Bytes(0, req[u].size)
    BY Zenon DEF RangeInv
  <2>6. cmd[c].op = "call" => req[t].op = "call"
    BY <2>3, Zenon DEF ChainInv, CommandInv, Suits
  <2>7. CASE cmd[c].op = "send"
    BY <2>3, <2>4, <2>5, <2>7, Zenon DEF stored, sameStack
  <2>8. CASE cmd[c].op = "call"
    BY <2>3, <2>5, <2>6, <2>8, Zenon DEF called, sameStack
  <2>9. CASE cmd[c].op = "recv"
    BY <2>3, <2>5, <2>9, Zenon
  <2> QED
    BY <2>3, <2>7, <2>8, <2>9, Zenon
<1>DataHandle.
    ASSUME TransferInv, QueueInv, ChainInv, DataInv, VEHandle
    PROVE  DataInv'
  <2> USE <1>DataHandle
  <2>1. PICK c : c = Head(chan)
    BY Zenon
  <2>2. PICK t : t = cmd[c].t
    BY Zenon
  <2>3. PICK r : r = [id |-> c, exc |-> FALSE, data |-> replyData(c)]
    BY Zenon
  <2>4. /\ t \in App /\ c \in Of(t) /\ c \in Issued /\ cmd[c].op \in {"send", "recv", "call"}
        /\ cmd[c].op = "send" => onVE' = stored(t, BytesOf(c))
        /\ rep' = Append(rep, r) /\ replyData(c) \subseteq BytesOf(c)
        /\ cmd[c].op = "recv" => replyData(c) = IF req[t].op = "call" THEN BytesOf(c) \cap onVE[t] ELSE BytesOf(c)
        /\ UNCHANGED <<status, cmd, seq_no, req, buffer>>
    BY <2>1, <2>2, <2>3, Handled, Zenon
  <2>5. \A u \in App : /\ onVE'[u] \subseteq Bytes(0, req[u].size)
                       /\ req[u].op # "call" => onVE[u] \subseteq onVE'[u]
    BY <1>VEMemory, Zenon DEF DataInv
  <2>6. r \in Reply
    <3>1. BytesOf(c) \subseteq Nat /\ c \in Ids
      BY <2>4, BytesInside, Kept, SMTT(30) DEF BytesOf, Bytes
    <3> QED
      BY <2>3, <2>4, <3>1, Zenon DEF Reply
  <2>7. /\ \A n \in DOMAIN rep' : \/ n \in DOMAIN rep /\ rep'[n] = rep[n]
                                  \/ rep'[n] = r
    BY <2>4, <2>6, RepAppend, Zenon DEF TransferInv
  <2>8. Issued' = Issued /\ (\A u \in App : Of(u)' = Of(u)) /\ \A d : BytesOf(d)' = BytesOf(d)
    BY <2>4, Zenon DEF Issued, Of, BytesOf
  <2>9. RangeInv'
    <3>1. ASSUME NEW d \in Issued', NEW n \in DOMAIN rep', rep'[n].id = d
          PROVE  rep'[n].data \subseteq BytesOf(d)'
      BY <2>3, <2>4, <2>7, <2>8, <3>1, SMTT(30) DEF DataInv, RangeInv
    <3> QED
      BY <2>4, <2>5, <3>1, Zenon DEF DataInv, RangeInv
  <2>10. ASSUME NEW u \in App, NEW d \in Of(u)
         PROVE  /\ cmd[d].op = "send" /\ req[u].op = "write" =>
                     /\ \A n \in DOMAIN rep' : rep'[n].id = d /\ ~rep'[n].exc => BytesOf(d) \subseteq onVE'[u]
                     /\ status[d] = "OK" => Bytes(0, cmd[d].hi) \subseteq onVE'[u]
                /\ cmd[d].op = "recv" /\ req[u].op = "read" =>
                     /\ \A n \in DOMAIN rep' : rep'[n].id = d /\ ~rep'[n].exc => rep'[n].data = BytesOf(d)
                     /\ status[d] = "OK" => Bytes(0, cmd[d].hi) \subseteq buffer[u]
    <3>1. ASSUME cmd[d].op = "send", req[u].op = "write"
          PROVE  /\ \A n \in DOMAIN rep' : rep'[n].id = d /\ ~rep'[n].exc => BytesOf(d) \subseteq onVE'[u]
                 /\ status[d] = "OK" => Bytes(0, cmd[d].hi) \subseteq onVE'[u]
      <4>1. d = c => BytesOf(d) \subseteq onVE'[u]
        <5>1. d = c => u = t
          BY <2>2, <2>4, Kept, Zenon
        <5> QED
          BY <2>4, <3>1, <5>1, Zenon DEF stored
      <4>2. onVE[u] \subseteq onVE'[u]
        BY <2>5, <3>1, Zenon
      <4> QED
        BY <2>3, <2>7, <3>1, <4>1, <4>2, SMTT(30) DEF DataInv, StoreInv
    <3>2. ASSUME cmd[d].op = "recv", req[u].op = "read"
          PROVE  /\ \A n \in DOMAIN rep' : rep'[n].id = d /\ ~rep'[n].exc => rep'[n].data = BytesOf(d)
                 /\ status[d] = "OK" => Bytes(0, cmd[d].hi) \subseteq buffer[u]
      <4>1. d = c => replyData(c) = BytesOf(d)
        <5>1. d = c => u = t
          BY <2>2, <2>4, Kept, Zenon
        <5> QED
          BY <2>4, <3>2, <5>1, Zenon
      <4> QED
        BY <2>3, <2>7, <3>2, <4>1, SMTT(30) DEF DataInv, StoreInv
    <3> QED
      BY <3>1, <3>2, Zenon
  <2>11. StoreInv'
    BY <2>4, <2>8, <2>10, SMTT(30) DEF StoreInv
  <2> QED
    BY <2>9, <2>11, Zenon DEF DataInv
<1>DataException.
    ASSUME TransferInv, QueueInv, ChainInv, DataInv, VEException
    PROVE  DataInv'
  <2> USE <1>DataException
  <2>1. PICK r : r = [id |-> Head(chan), exc |-> TRUE, data |-> {}]
    BY Zenon
  <2>2. rep' = Append(rep, r) /\ UNCHANGED <<status, cmd, seq_no, req, onVE, buffer>>
    BY <2>1, Zenon DEF VEException, comqVars, ctxVars, dataVars
  <2>3. r \in Reply
    <3>1. Head(chan) \in Ids
      BY QueueVE, Numbers, Zenon
    <3> QED
      BY <2>1, <3>1, Zenon DEF Reply
  <2>4. \A n \in DOMAIN rep' : (n \in DOMAIN rep /\ rep'[n] = rep[n]) \/ rep'[n] = r
    BY <2>2, <2>3, RepAppend, Zenon DEF TransferInv
  <2>5. Issued' = Issued /\ (\A u \in App : Of(u)' = Of(u)) /\ \A d : BytesOf(d)' = BytesOf(d)
    BY <2>2, Zenon DEF Issued, Of, BytesOf
  <2>6. RangeInv'
    <3>1. ASSUME NEW d \in Issued', NEW n \in DOMAIN rep', rep'[n].id = d
          PROVE  rep'[n].data \subseteq BytesOf(d)'
      <4>1. CASE n \in DOMAIN rep /\ rep'[n] = rep[n]
        BY <2>5, <3>1, <4>1, Zenon DEF DataInv, RangeInv
      <4>2. CASE rep'[n] = r
        <5>1. r.data = {}
          BY <2>1, Zenon
        <5> QED
          BY <4>2, <5>1
      <4> QED
        BY <2>4, <4>1, <4>2, Zenon
    <3> QED
      BY <2>2, <3>1, Zenon DEF DataInv, RangeInv
  <2>7. ASSUME NEW u \in App, NEW d \in Of(u)
        PROVE  /\ cmd[d].op = "send" /\ req[u].op = "write" =>
                    /\ \A n \in DOMAIN rep' : rep'[n].id = d /\ ~rep'[n].exc => BytesOf(d) \subseteq onVE[u]
                    /\ status[d] = "OK" => Bytes(0, cmd[d].hi) \subseteq onVE[u]
               /\ cmd[d].op = "recv" /\ req[u].op = "read" =>
                    /\ \A n \in DOMAIN rep' : rep'[n].id = d /\ ~rep'[n].exc => rep'[n].data = BytesOf(d)
                    /\ status[d] = "OK" => Bytes(0, cmd[d].hi) \subseteq buffer[u]
    BY <2>1, <2>4, SMTT(30) DEF DataInv, StoreInv
  <2>8. StoreInv'
    BY <2>2, <2>5, <2>7, ZenonT(60) DEF StoreInv
  <2> QED
    BY <2>6, <2>8, Zenon DEF DataInv
<1>DataRecv.
    ASSUME TransferInv, QueueInv, ChainInv, ResultInv, DataInv, Recv
    PROVE  DataInv'
  <2> USE <1>DataRecv
  <2>1. PICK c : c = Head(rep).id
    BY Zenon
  <2>2. PICK t : t = cmd[c].t
    BY Zenon
  <2>3. /\ c \in Issued /\ c \in Ids /\ c \in Of(t) /\ t \in App
        /\ cmd[c].op \in {"send", "recv", "call"}
        /\ 1 \in DOMAIN rep /\ rep[1] = Head(rep)
        /\ \A n \in DOMAIN rep' : n + 1 \in DOMAIN rep /\ rep'[n] = rep[n + 1]
        /\ \A i \in Ids \ {c} : status'[i] = status[i]
        /\ status'[c] = "OK" =>
             /\ ~Head(rep).exc
             /\ cmd[c].prev # INVALID => status[cmd[c].prev] = "OK"
        /\ UNCHANGED <<cmd, seq_no, req, onVE>>
    BY <2>1, <2>2, Received, Zenon
  <2>4. \A u \in App : \/ buffer'[u] = buffer[u]
                       \/ u = t /\ buffer'[u] = buffer[u] \cup Head(rep).data
    <3>1. CASE Head(rep).exc
      BY <2>1, <3>1, Received, Zenon
    <3>2. CASE ~Head(rep).exc
      <4>1. \A u \in App : buffer'[u] =
              IF u = t /\ ~simpleCall(c) THEN buffer[u] \cup Head(rep).data ELSE buffer[u]
        BY <2>1, <2>2, <3>2, ReceivedData, Zenon
      <4> QED
        BY <4>1, Zenon
    <3> QED
      BY <3>1, <3>2, Zenon
  <2>5. ~Head(rep).exc /\ ~simpleCall(c) => buffer'[t] = buffer[t] \cup Head(rep).data
    BY <2>1, <2>2, <2>3, Received, Zenon
  <2>6. Issued' = Issued /\ (\A u \in App : Of(u)' = Of(u)) /\ \A d : BytesOf(d)' = BytesOf(d)
    BY <2>3, Zenon DEF Issued, Of, BytesOf
  <2>7. RangeInv'
    <3>1. Head(rep).data \subseteq Bytes(0, req[t].size)
      <4>1. BytesOf(c) \subseteq Bytes(0, req[t].size)
        BY <2>3, BytesInside, Zenon
      <4> QED
        BY <2>1, <2>3, <4>1, Zenon DEF DataInv, RangeInv
    <3>2. ASSUME NEW d \in Issued', NEW n \in DOMAIN rep', rep'[n].id = d
          PROVE  rep'[n].data \subseteq BytesOf(d)'
      BY <2>3, <2>6, <3>2, Zenon DEF DataInv, RangeInv
    <3>3. \A u \in App : onVE'[u] \cup buffer'[u] \subseteq Bytes(0, req'[u].size)
      <4> SUFFICES ASSUME NEW u \in App
                   PROVE  onVE[u] \cup buffer'[u] \subseteq Bytes(0, req[u].size)
        BY <2>3, Zenon
      <4>1. onVE[u] \cup buffer[u] \subseteq Bytes(0, req[u].size)
        BY Zenon DEF DataInv, RangeInv
      <4>2. buffer'[u] \subseteq buffer[u] \/ (u = t /\ buffer'[u] \subseteq buffer[u] \cup Head(rep).data)
        BY <2>4, Zenon
      <4> QED
        BY <3>1, <4>1, <4>2, Zenon
    <3> QED
      BY <3>2, <3>3, Zenon DEF RangeInv
  <2>8. \A u \in App : c \in Of(u) => u = t
    BY <2>2, Kept, Zenon
  <2>9. ASSUME NEW u \in App, NEW d \in Of(u), status'[d] = "OK"
        PROVE  /\ cmd[d].op = "send" /\ req[u].op = "write" => Bytes(0, cmd[d].hi) \subseteq onVE[u]
               /\ cmd[d].op = "recv" /\ req[u].op = "read" => Bytes(0, cmd[d].hi) \subseteq buffer'[u]
    <3>1. CASE d # c
      <4>1. status[d] = "OK"
        BY <2>3, <2>9, <3>1, Kept, Zenon
      <4> QED
        BY <2>4, <4>1, Zenon DEF DataInv, StoreInv
    <3>2. CASE d = c
      <4>1. u = t /\ ~Head(rep).exc
        BY <2>3, <2>8, <2>9, <3>2, Zenon
      <4>2. PICK p : p = cmd[c].prev
        BY Zenon
      <4>3. /\ cmd[c].op \in Fragments /\ p # INVALID =>
                 p \in Of(t) /\ cmd[p].op = cmd[c].op /\ status[p] = "OK"
        <5>1. CommandInv(c, t)
          BY <2>3, Zenon DEF ChainInv
        <5> QED
          BY <2>3, <2>9, <3>2, <4>2, <5>1, Zenon DEF CommandInv, Chain
      <4>4. req[t].op # "call" => 0 = base(t)
        BY Zenon DEF base
      <4>5. ASSUME cmd[c].op = "send", req[t].op = "write"
            PROVE  Bytes(0, cmd[c].hi) \subseteq onVE[t]
        <5>1. BytesOf(c) \subseteq onVE[t]
          BY <2>1, <2>3, <4>1, <4>5, SMTT(30) DEF DataInv, StoreInv
        <5>2. p # INVALID => Bytes(0, cmd[p].hi) \subseteq onVE[t]
          <6>1. p # INVALID => p \in Of(t) /\ cmd[p].op = "send" /\ status[p] = "OK"
            BY <4>3, <4>5, Zenon DEF Fragments
          <6> QED
            BY <2>3, <4>5, <6>1, Zenon DEF DataInv, StoreInv
        <5> QED
          BY <2>3, <4>2, <4>4, <4>5, <5>1, <5>2, Continues, Zenon DEF Fragments
      <4>6. ASSUME cmd[c].op = "recv", req[t].op = "read"
            PROVE  Bytes(0, cmd[c].hi) \subseteq buffer'[t]
        <5>1. buffer'[t] = buffer[t] \cup BytesOf(c)
          <6>1. Head(rep).data = BytesOf(c)
            BY <2>1, <2>3, <4>1, <4>6, SMTT(30) DEF DataInv, StoreInv
          <6> QED
            BY <2>5, <4>1, <4>6, <6>1, Zenon DEF simpleCall
        <5>2. p # INVALID => Bytes(0, cmd[p].hi) \subseteq buffer'[t]
          <6>1. p # INVALID => p \in Of(t) /\ cmd[p].op = "recv" /\ status[p] = "OK"
            BY <4>3, <4>6, Zenon DEF Fragments
          <6> QED
            BY <2>3, <4>6, <5>1, <6>1, Zenon DEF DataInv, StoreInv
        <5>3. PICK B : B = buffer'[t]
          BY Zenon
        <5>4. BytesOf(c) \subseteq B
          BY <5>1, <5>3, Zenon
        <5> QED
          BY <2>3, <4>2, <4>4, <4>6, <5>2, <5>3, <5>4, Continues, Zenon DEF Fragments
      <4> QED
        BY <3>2, <4>1, <4>5, <4>6, Zenon
    <3> QED
      BY <3>1, <3>2, Zenon
  <2>10. ASSUME NEW u \in App, NEW d \in Of(u), NEW n \in DOMAIN rep', rep'[n].id = d, ~rep'[n].exc
         PROVE  /\ cmd[d].op = "send" /\ req[u].op = "write" => BytesOf(d) \subseteq onVE[u]
                /\ cmd[d].op = "recv" /\ req[u].op = "read" => rep'[n].data = BytesOf(d)
    BY <2>3, <2>10, ZenonT(60) DEF DataInv, StoreInv
  <2>11. StoreInv'
    BY <2>3, <2>6, <2>9, <2>10, ZenonT(60) DEF StoreInv
  <2> QED
    BY <2>7, <2>11, Zenon DEF DataInv
<1> SUFFICES ASSUME ChainsInv, DataInv, [Next]_vars PROVE DataInv'
  BY Zenon
<1>1. TransferInv /\ QueueInv /\ ChainInv /\ ResultInv
  BY Zenon DEF ChainsInv
<1>2. ASSUME NEW t \in App, Submits(t) PROVE DataInv'
  BY <1>1, <1>2, SubmitsStep, <1>DataSubmits, Zenon
<1>3. CASE \/ \E t \in App : Wait(t)
           \/ SubmitVE \/ SubmitVH \/ CancelAll \/ IdleRound \/ ProgressExit \/ VEKilled
           \/ UNCHANGED vars
  BY <1>1, <1>3, <1>DataWaits, Zenon
<1>4. CASE Recv \/ VEHandle \/ VEException
  BY <1>1, <1>4, <1>DataRecv, <1>DataHandle, <1>DataException, Zenon
<1> QED
  BY <1>2, <1>3, <1>4, Zenon DEF Next, RequestStep, Submits, Drive

\* TransferComplete: a transfer whose wait returned OK has moved every byte.
THEOREM TransfersAlwaysComplete == Spec => []TransferComplete
<1>1. ChainsInv /\ DataInv => TransferComplete
  <2> SUFFICES ASSUME ChainsInv, DataInv, NEW t \in App, Succeeded(t)
               PROVE  /\ req[t].op = "write" => onVE[t] = Bytes(0, req[t].size)
                      /\ req[t].op = "read" => buffer[t] = Bytes(0, req[t].size)
    BY Zenon DEF TransferComplete
  <2>1. TransferInv /\ QueueInv /\ ChainInv /\ TakeInv
    BY Zenon DEF ChainsInv, ResultInv
  <2>2. PICK r : r = ret[t]
    BY Zenon
  <2>3. /\ status[r] = "OK" /\ r \in Of(t)
        /\ ~isLarge(t) /\ req[t].op # "call" => cmd[r].op \in Fragments \cup {"empty"} /\ cmd[r].hi = req[t].size
    BY <2>1, <2>2, Zenon DEF Succeeded, TakeInv, ChainInv, ThreadInv, RetInv
  <2>4. /\ Suits(cmd[r], t)
    BY <2>1, <2>3, Zenon DEF ChainInv, CommandInv
  <2>5. onVE[t] \cup buffer[t] \subseteq Bytes(0, req[t].size)
    BY Zenon DEF DataInv, RangeInv
  <2>6. isLarge(t) => req[t].op = "call"
    BY Zenon DEF isLarge
  <2>7. cmd[r].op = "empty" => Bytes(0, req[t].size) = {}
    BY <2>4, SMTT(30) DEF Suits, Bytes
  <2>8. ASSUME req[t].op = "write" PROVE onVE[t] = Bytes(0, req[t].size)
    <3>1. cmd[r].op \in {"send", "empty"} /\ cmd[r].hi = req[t].size
      BY <2>3, <2>4, <2>6, <2>8, Zenon DEF Suits, Fragments
    <3>2. cmd[r].op = "send" => Bytes(0, req[t].size) \subseteq onVE[t]
      BY <2>3, <2>8, <3>1, Zenon DEF DataInv, StoreInv
    <3> QED
      BY <2>5, <2>7, <3>1, <3>2, Zenon
  <2>9. ASSUME req[t].op = "read" PROVE buffer[t] = Bytes(0, req[t].size)
    <3>1. cmd[r].op \in {"recv", "empty"} /\ cmd[r].hi = req[t].size
      BY <2>3, <2>4, <2>6, <2>9, Zenon DEF Suits, Fragments
    <3>2. cmd[r].op = "recv" => Bytes(0, req[t].size) \subseteq buffer[t]
      BY <2>3, <2>9, <3>1, Zenon DEF DataInv, StoreInv
    <3> QED
      BY <2>5, <2>7, <3>1, <3>2, Zenon
  <2> QED
    BY <2>8, <2>9, Zenon
<1>2. Init => ChainsInv /\ DataInv
  BY ChainsInit, DataInit, Zenon
<1>3. ChainsInv /\ DataInv /\ [Next]_vars => (ChainsInv /\ DataInv)'
  BY ChainsNext, DataNext, Zenon
<1> QED
  BY <1>1, <1>2, <1>3, PTL DEF Spec
=============================================================================
