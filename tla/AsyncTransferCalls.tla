------------------------- MODULE AsyncTransferCalls -------------------------
(***************************************************************************)
(* The call with a large stack image, made of the commands that write the  *)
(* image, call the function and read the image back: if every part of it   *)
(* succeeded, the function ran on the whole image and the caller has the   *)
(* whole image it left (CallInv).                                          *)
(***************************************************************************)
EXTENDS AsyncTransferResults

\* The call layer, without what the threads' own steps add to it.
CallOf(t) == BeforeInv(t) /\ RanInv(t) /\ CalledInv(t) /\ ImageInv(t)

\* A thread that submits commands of its request preserves CallInv.
LEMMA CallSubmits ==
  ASSUME TransferInv, QueueInv, ChainInv, ResultInv, CallInv, TransferInv', ChainInv'
  PROVE  \A t \in App : Submits(t) => \A K : Grows(t, K) => CallInv'
  \* Where a thread goes on, what it submits there and when it keeps the ID of
  \* the fragments it wrote.
<1>Continuing.
    ASSUME TransferInv, QueueInv, NEW t \in App, Submits(t)
    PROVE  /\ pc[t] # "write" => parts'[t].write = parts[t].write
           /\ pc'[t] = "read" /\ req[t].op = "call" => pc[t] \in {"read", "call"}
           /\ \A k \in Issued' \ Issued : cmd'[k].op = "recv" => pc[t] = "read"
  <2> USE <1>Continuing
  <2>1. /\ pc \in [App -> Pcs] /\ parts \in [App -> PartIds] /\ cmd \in [Ids -> CmdType]
        /\ req[t].op \in {"write", "read", "call"} /\ seq_no \in Nat
    BY QueueFacts, Zenon DEF TransferInv, TypeOK, RequestType
  <2>2. ASSUME NEW o, NEW r, submit(r), r.op = o, o = "recv" => pc[t] = "read", seq_no < NReq
        PROVE  \A k \in Issued' \ Issued : cmd'[k].op = "recv" => pc[t] = "read"
    <3>1. PICK k : k = seq_no
      BY Zenon
    <3>2. k \in Ids /\ seq_no' = k + 1 /\ cmd' = [cmd EXCEPT ![k] = r] /\ k \in Nat
      BY <2>1, <2>2, <3>1, NReqAssumption DEF submit, Ids
    <3>3. \A i \in Issued' \ Issued : i = k
      BY <3>1, <3>2 DEF Issued
    <3> QED
      BY <2>1, <2>2, <3>2, <3>3, Zenon
  <2>3. UNCHANGED seq_no => Issued' \ Issued = {}
    BY Zenon DEF Issued
  <2>4. CASE Start(t)
    <3>1. pc[t] = "idle" /\ parts' = parts
      BY <2>4, Zenon DEF Start, loopVars
    <3>2. pc'[t] = "read" => req[t].op # "call"
      BY <2>1, <2>4, Zenon DEF Start
    <3>3. \A k \in Issued' \ Issued : cmd'[k].op = "recv" => pc[t] = "read"
      <4>1. UNCHANGED seq_no \/ \E r : submit(r) /\ r.op = "empty" /\ seq_no < NReq
        BY <2>4, Zenon DEF Start, ctxVars, command, canSubmit
      <4> QED
        BY <2>2, <2>3, <4>1, Zenon
    <3> QED
      BY <3>1, <3>2, <3>3, Zenon
  <2>5. CASE Fragment(t)
    <3>1. \E r : submit(r) /\ (r.op = "recv" => pc[t] = "read") /\ seq_no < NReq
      BY <2>5, Zenon DEF Fragment, command, canSubmit
    <3>2. \A k \in Issued' \ Issued : cmd'[k].op = "recv" => pc[t] = "read"
      BY <2>2, <3>1, Zenon
    <3>3. pc[t] \in {"write", "read"} /\ (UNCHANGED <<pc, parts>> \/ EndChain(t, seq_no))
      BY <2>5, Zenon DEF Fragment
    <3> QED
      BY <2>1, <3>2, <3>3 DEF EndChain, PartIds
  <2>6. CASE ChainFails(t)
    BY <2>1, <2>3, <2>6, Zenon DEF ChainFails, EndChain, PartIds, ctxVars
  <2>7. CASE CallStep(t)
    <3>1. pc[t] = "call" /\ \E i : parts' = [parts EXCEPT ![t].call = i]
      BY <2>7, Zenon DEF CallStep
    <3>2. UNCHANGED seq_no \/ \E r : submit(r) /\ r.op = "call" /\ seq_no < NReq
      BY <2>7, Zenon DEF CallStep, command, canSubmit
    <3>3. \A k \in Issued' \ Issued : cmd'[k].op = "recv" => pc[t] = "read"
      BY <2>2, <2>3, <3>2, Zenon
    <3> QED
      BY <2>1, <3>1, <3>3, Zenon DEF PartIds
  <2>8. CASE Finish(t)
    <3>1. pc[t] = "finish" /\ parts' = parts /\ pc' = [pc EXCEPT ![t] = "wait"]
      BY <2>8, Zenon DEF Finish, loopVars
    <3>2. \E r : submit(r) /\ r.op = "finish" /\ seq_no < NReq
      BY <2>8, Zenon DEF Finish, command, canSubmit
    <3> QED
      BY <2>1, <2>2, <3>1, <3>2, Zenon
  <2> QED
    BY <2>4, <2>5, <2>6, <2>7, <2>8, Zenon DEF Submits
  \* What a thread that submits leaves as it is.
<1>GrownChains.
    ASSUME TransferInv, QueueInv, ChainInv, ResultInv, NEW t \in App, NEW K, Grows(t, K)
    PROVE  /\ Unseen' = Unseen \cup K /\ Unseen \subseteq Issued /\ K \cap Issued = {}
           /\ \A k \in K : status'[k] = "UNFINISHED" /\ \A n \in DOMAIN rep : rep[n].id # k
           /\ \A u \in App : \A o : /\ Chain(u, o) \subseteq Chain(u, o)'
                                    /\ Chain(u, o)' \subseteq Chain(u, o) \cup K
                                    /\ u # t => Chain(u, o)' = Chain(u, o)
           /\ \A i \in Issued : BytesOf(i)' = BytesOf(i) /\ (Failed(i)' <=> Failed(i)) /\ cmd'[i] = cmd[i]
           /\ \A u \in App : /\ base(u)' = base(u) /\ (isLarge(u)' <=> isLarge(u))
                             /\ Chain(u, "call") \cup Chain(u, "send") \cup Chain(u, "recv") \cup Chain(u, "finish") \subseteq Issued
  <2> USE <1>GrownChains
  <2>1. /\ Elems(request)' = Elems(request) \cup K /\ (\A i \in Issued : cmd'[i] = cmd[i])
        /\ UNCHANGED <<status, rep, chan, req>> /\ K \subseteq Ids /\ (\A i \in Issued, k \in K : i < k)
        /\ Of(t)' = Of(t) \cup K /\ \A u \in App \ {t} : Of(u)' = Of(u)
    BY Zenon DEF Grows
  <2>2. Elems(chan)' = Elems(chan) /\ Unseen' = Unseen \cup K
    BY <2>1, Zenon DEF Unseen, Elems
  <2>3. Unseen \subseteq Issued
    BY Zenon DEF QueueInv, Unseen
  <2>4. \A k \in K : k \notin Issued /\ k \in Ids
    BY <2>1, QueueFacts
  <2>5. \A k \in K : status'[k] = "UNFINISHED"
    BY <2>1, <2>4, Zenon DEF ResultInv, DoneInv
  <2>6. \A n \in DOMAIN rep : rep[n].id \in Issued
    BY Replied, Zenon
  <2>7. \A u \in App : /\ Of(u) \subseteq Issued /\ Of(u) \subseteq Of(u)' /\ Of(u)' \subseteq Of(u) \cup K
                       /\ u # t => Of(u)' = Of(u)
    BY <2>1, Numbers, Zenon
  <2>8. ASSUME NEW u \in App, NEW o
        PROVE  /\ Chain(u, o) \subseteq Chain(u, o)' /\ Chain(u, o)' \subseteq Chain(u, o) \cup K
               /\ u # t => Chain(u, o)' = Chain(u, o)
               /\ Chain(u, o) \subseteq Issued
    BY <2>1, <2>4, <2>7, Zenon DEF Chain
  <2>9. \A i \in Issued : BytesOf(i)' = BytesOf(i) /\ (Failed(i)' <=> Failed(i)) /\ cmd'[i] = cmd[i]
    BY <2>1, BytesSame, Zenon DEF Failed
  <2>10. \A u \in App : base(u)' = base(u) /\ (isLarge(u)' <=> isLarge(u))
    BY <2>1, Zenon DEF base, isLarge
  <2> QED
    BY <2>2, <2>3, <2>4, <2>5, <2>6, <2>8, <2>9, <2>10, Zenon
<1>CoverSubmits.
    ASSUME TransferInv, QueueInv, ChainInv, ResultInv, CoverInv, TransferInv', ChainInv',
           NEW t \in App, NEW K, Grows(t, K)
    PROVE  CoverInv'
  <2> USE <1>CoverSubmits
  <2> SUFFICES ASSUME NEW u \in App, NEW c \in Of(u)', NEW o, o = cmd'[c].op, o \in Fragments,
                      NEW x \in Bytes(base(u)', cmd'[c].hi)
               PROVE  \E d \in Chain(u, o)' : d <= c /\ x \in BytesOf(d)'
    BY DEF CoverInv, Chain
  <2>1. o = cmd'[c].op
    BY Zenon
  <2>2. /\ Chain(u, o) \subseteq Chain(u, o)' /\ Chain(u, o) \subseteq Issued /\ base(u)' = base(u)
        /\ \A i \in Issued : BytesOf(i)' = BytesOf(i) /\ cmd'[i] = cmd[i]
        /\ K \cap Issued = {}
    BY <2>1, <1>GrownChains, Numbers
  <2>3. c \in Of(u) \/ (u = t /\ c \in K)
    BY Zenon DEF Grows
  <2>4. ASSUME NEW p \in Of(u), cmd[p].op = o, NEW y \in Bytes(base(u), cmd[p].hi), p <= c, c \in Int
        PROVE  \E d \in Chain(u, o)' : d <= c /\ y \in BytesOf(d)'
    <3>1. PICK d \in Chain(u, o) : d <= p /\ y \in BytesOf(d)
      BY <2>1, <2>4, Zenon DEF CoverInv
    <3>2. d \in Int /\ p \in Int /\ d \in Issued
      BY <2>2, Numbers, Zenon
    <3> QED
      BY <2>2, <2>4, <3>1, <3>2
  <2>5. CASE c \in Of(u)
    <3>1. cmd'[c] = cmd[c] /\ c \in Int
      BY <2>2, <2>5, Numbers, Zenon
    <3> QED
      BY <2>1, <2>2, <2>4, <2>5, <3>1
  <2>6. CASE u = t /\ c \in K
    <3>1. CommandInv(c, t)' /\ c \in Ids /\ c \in Int
      BY <2>6, QueueFacts, Zenon DEF ChainInv, Grows
    <3>2. cmd'[c].lo \in Nat /\ cmd'[c].hi \in Nat /\ base(t) \in Nat
      BY <3>1, Totals, Zenon DEF TransferInv, TypeOK, CmdType
    <3>3. c \in Chain(t, o)'
      BY <2>1, <2>6, Zenon DEF Chain
    <3>4. PICK p : p = cmd'[c].prev
      BY Zenon
    <3>5. CASE x \in BytesOf(c)'
      BY <2>1, <2>6, <3>1, <3>3, <3>5
    <3>6. CASE x \notin BytesOf(c)'
      <4>1. x \in Bytes(base(t), cmd'[c].lo) /\ cmd'[c].lo # base(t)
        BY <2>2, <2>6, <3>2, <3>6 DEF Bytes, BytesOf
      <4>2. p # INVALID /\ p \in Chain(t, o)' /\ p < c /\ cmd'[p].hi = cmd'[c].lo
        BY <2>1, <2>2, <2>6, <3>1, <3>4, <4>1, Zenon DEF CommandInv
      <4>3. p \in Of(t) /\ p \in Issued /\ p \in Int
        <5>1. p = prev[t]
          BY <2>6, <3>4, <4>2, Zenon DEF Grows
        <5> QED
          BY <4>2, <5>1, Owners, Numbers, Zenon
      <4>4. cmd[p].op = o /\ cmd[p].hi = cmd'[c].lo
        BY <2>2, <4>2, <4>3, Zenon DEF Chain
      <4>5. p \in Of(u) /\ x \in Bytes(base(u), cmd[p].hi) /\ p <= c
        BY <2>6, <3>1, <4>1, <4>2, <4>3, <4>4
      <4> QED
        BY <2>4, <3>1, <4>4, <4>5, Zenon
    <3> QED
      BY <3>5, <3>6, Zenon
  <2> QED
    BY <2>3, <2>5, <2>6, Zenon
<1>BeforeSubmits.
    ASSUME TransferInv, QueueInv, ChainInv, ResultInv, NEW t \in App, NEW K, Grows(t, K),
           NEW u \in App, req[u].op = "call", BeforeInv(u)
    PROVE  BeforeInv(u)'
  <2> USE <1>BeforeSubmits
  <2>1. /\ Unseen' = Unseen \cup K /\ K \cap Issued = {}
        /\ Chain(u, "call") \subseteq Chain(u, "call")' /\ Chain(u, "call") \subseteq Issued
        /\ Chain(u, "send")' \subseteq Chain(u, "send") \cup K /\ Chain(u, "send") \subseteq Issued
        /\ u # t => Chain(u, "call")' = Chain(u, "call")
        /\ \A i \in Issued : BytesOf(i)' = BytesOf(i) /\ (Failed(i)' <=> Failed(i))
    BY <1>GrownChains
  <2>2. /\ UNCHANGED <<ran, onVE>> /\ OthersSame(t) /\ pc[t] \notin {"wait", "done", "failed"}
    BY Zenon DEF Grows
  <2> SUFFICES ASSUME Chain(u, "call")' \subseteq Unseen'
               PROVE  /\ ran[u] = "no"
                      /\ Chain(u, "call")' # {} \/ submit_mtx' = u =>
                           \A d \in (Chain(u, "send") \ Unseen)' : Failed(d)' \/ BytesOf(d)' \subseteq onVE[u]
    BY <2>2, Zenon DEF BeforeInv
  <2>3. Chain(u, "call") \subseteq Unseen
    BY <2>1, Zenon
  <2>4. ran[u] = "no"
    BY <2>3, Zenon DEF BeforeInv
  <2>5. ASSUME Chain(u, "call")' # {} \/ submit_mtx' = u, NEW d \in (Chain(u, "send") \ Unseen)'
        PROVE  Failed(d)' \/ BytesOf(d)' \subseteq onVE[u]
    <3>1. d \in Chain(u, "send") /\ d \notin Unseen /\ d \in Issued
      BY <2>1, <2>5, Zenon
    <3>2. Chain(u, "call") # {} \/ submit_mtx = u
      <4>1. CASE u # t
        BY <2>1, <2>2, <2>5, <4>1, Zenon DEF OthersSame
      <4>2. CASE u = t
        <5>1. PlaceInv(t) /\ pc[t] \in Pcs
          BY Zenon DEF ChainInv, ThreadInv, TransferInv, TypeOK
        <5>2. d \in Of(t) /\ cmd[d].op = "send"
          BY <3>1, <4>2, Zenon DEF Chain
        <5>3. isLarge(t)
          <6>1. Suits(cmd[d], t)
            BY <5>2, Zenon DEF ChainInv, CommandInv
          <6> QED
            BY <4>2, <5>2, <6>1, Zenon DEF Suits
        <5>4. pc[t] # "idle"
          BY <5>1, <5>2, Zenon DEF PlaceInv, OpsAt
        <5> QED
          BY <2>2, <4>2, <5>1, <5>3, <5>4, Zenon DEF PlaceInv, Pcs
      <4> QED
        BY <4>1, <4>2, Zenon
    <3>3. Failed(d) \/ BytesOf(d) \subseteq onVE[u]
      BY <2>3, <3>1, <3>2, Zenon DEF BeforeInv
    <3> QED
      BY <2>1, <3>1, <3>3, Zenon
  <2> QED
    BY <2>4, <2>5, Zenon
<1>RanSubmits.
    ASSUME TransferInv, QueueInv, ChainInv, ResultInv, ChainInv', NEW t \in App, Submits(t), NEW K,
           Grows(t, K), NEW u \in App, req[u].op = "call", RanInv(u)
    PROVE  RanInv(u)'
  <2> USE <1>RanSubmits
  <2>1. /\ Unseen' = Unseen \cup K /\ K \cap Issued = {} /\ Unseen \subseteq Issued
        /\ \A o : /\ Chain(u, o) \subseteq Chain(u, o)' /\ Chain(u, o)' \subseteq Chain(u, o) \cup K
                  /\ u # t => Chain(u, o)' = Chain(u, o)
        /\ Chain(u, "call") \subseteq Issued /\ Chain(u, "send") \subseteq Issued /\ Chain(u, "recv") \subseteq Issued
        /\ \A i \in Issued : BytesOf(i)' = BytesOf(i) /\ (Failed(i)' <=> Failed(i)) /\ cmd'[i] = cmd[i]
        /\ \A k \in K : status'[k] = "UNFINISHED" /\ \A n \in DOMAIN rep : rep[n].id # k
        /\ base(u)' = base(u) /\ (isLarge(u)' <=> isLarge(u))
    BY <1>GrownChains, SMTT(30)
  <2>2. /\ UNCHANGED <<ran, onVE, rep, status, buffer, req>> /\ OthersSame(t)
        /\ (\A i \in Issued, k \in K : i < k) /\ Issued' = Issued \cup K
    BY Zenon DEF Grows
  <2> SUFFICES ASSUME ran[u] # "no" PROVE RanInv(u)'
    BY <2>2, Zenon DEF RanInv
  <2>3. PICK e \in Chain(u, "call") : \A c \in Unseen : e < c
    BY Zenon DEF RanInv
  <2>4. e \in Of(u) /\ cmd[e].op = "call" /\ e \in Issued
    BY <2>1, Zenon DEF Chain
  <2>5. u = t => pc[t] \notin {"idle", "write", "call"}
    <3>1. PlaceInv(t)
      BY Zenon DEF ChainInv, ThreadInv
    <3> QED
      BY <2>4, <3>1, Zenon DEF PlaceInv, OpsAt
  <2>6. Chain(u, "call")' = Chain(u, "call")
    <3>1. ASSUME NEW k \in Chain(u, "call")', k \in K PROVE FALSE
      <4>1. CommandInv(k, u)' /\ e < k /\ cmd'[k].op = "call" /\ e \in Of(u)' /\ cmd'[e].op = "call"
        <5>1. k \in Of(u)' /\ cmd'[k].op = "call" /\ e \in Of(u)'
          BY <2>1, Zenon DEF Chain
        <5> QED
          BY <2>1, <2>2, <2>4, <3>1, <5>1, Zenon DEF ChainInv
      <4>2. cmd'[e].op \in Earlier("call")
        BY <4>1, Zenon DEF CommandInv
      <4> QED
        BY <4>1, <4>2, Zenon DEF Earlier
    <3> QED
      BY <2>1, <3>1, Zenon
  <2>7. \A d \in Chain(u, "call"), c \in Unseen' : d < c
    BY <2>1, <2>2, Zenon DEF RanInv
  <2>8. ran[u] = "partial" =>
          /\ isLarge(u) /\ req[u].in
          /\ parts'[u].write = INVALID \/ \E d \in Chain(u, "send")' : Failed(d)'
    <3>1. parts'[u].write = parts[u].write
      BY <2>2, <2>5, <1>Continuing, Zenon DEF OthersSame
    <3> QED
      BY <2>1, <3>1, Zenon DEF RanInv
  <2>9. pc'[u] = "read" \/ (Chain(u, "recv") \cap Unseen)' # {} => onVE[u] = Bytes(0, req[u].size)
    <3>1. ASSUME pc'[u] = "read" PROVE pc[u] = "read"
      BY <2>2, <2>5, <3>1, <1>Continuing, Zenon DEF OthersSame
    <3>2. ASSUME NEW f \in Chain(u, "recv")', f \in Unseen', f \in K PROVE pc[u] = "read"
      <4>1. u = t /\ f \in Issued' \ Issued /\ cmd'[f].op = "recv"
        BY <2>1, <2>2, <3>2, Zenon DEF Chain
      <4> QED
        BY <4>1, <1>Continuing, Zenon
    <3> QED
      BY <2>1, <3>1, <3>2, Zenon DEF RanInv
  <2>10. ASSUME NEW c \in Chain(u, "recv")'
         PROVE  /\ \A n \in DOMAIN rep : rep[n].id = c /\ ~rep[n].exc => rep[n].data = BytesOf(c)'
                /\ status[c] = "OK" => Bytes(base(u), cmd'[c].hi) \subseteq buffer[u]
    <3>1. CASE c \in K
      BY <2>1, <2>2, <3>1, Zenon
    <3>2. CASE c \in Chain(u, "recv")
      BY <2>1, <3>2, SMTT(30) DEF RanInv
    <3> QED
      BY <2>1, <3>1, <3>2, Zenon
  <2>11. Chain(u, "call")' # {}
    BY <2>6, Zenon
  <2> QED
    BY <2>1, <2>2, <2>6, <2>7, <2>8, <2>9, <2>10, <2>11, SMTT(30) DEF RanInv
<1> SUFFICES ASSUME NEW t \in App, Submits(t), NEW K, Grows(t, K) PROVE CallInv'
  BY Zenon
<1>1. CoverInv'
  BY <1>CoverSubmits, Zenon DEF CallInv
<1>2. /\ Unseen' = Unseen \cup K /\ K \cap Issued = {}
      /\ \A u \in App : \A o : /\ Chain(u, o)' \subseteq Chain(u, o) \cup K
                               /\ u # t => Chain(u, o)' = Chain(u, o)
      /\ \A i \in Issued : BytesOf(i)' = BytesOf(i) /\ cmd'[i] = cmd[i]
      /\ \A k \in K : status'[k] = "UNFINISHED" /\ \A n \in DOMAIN rep : rep[n].id # k
      /\ \A u \in App : (isLarge(u)' <=> isLarge(u)) /\ Chain(u, "call") \subseteq Issued
  BY <1>GrownChains, SMTT(30)
<1>3. /\ UNCHANGED <<ran, rep, status, buffer, outArgs, req>> /\ OthersSame(t)
      /\ (\A i \in Issued, k \in K : i < k) /\ Issued' = Issued \cup K
      /\ pc[t] \notin {"wait", "done", "failed"}
  BY Zenon DEF Grows
<1>4. SeenInv'
  <2> SUFFICES ASSUME NEW d \in Issued', cmd'[d].op \notin {"empty", "finish"}, status[d] = "OK",
                      NEW c \in Unseen'
               PROVE  d < c
    BY <1>3, Zenon DEF SeenInv
  <2>1. d \in Issued /\ cmd[d].op \notin {"empty", "finish"}
    BY <1>2, <1>3, Zenon
  <2> QED
    BY <1>2, <1>3, <2>1, Zenon DEF CallInv, SeenInv
<1>5. ASSUME NEW u \in App, req[u].op = "call" PROVE CallOf(u)'
  <2>1. CallOf(u)
    BY <1>5, Zenon DEF CallInv, CallOf
  <2>2. BeforeInv(u)'
    BY <1>5, <2>1, <1>BeforeSubmits, Zenon DEF CallOf
  <2>3. RanInv(u)'
    BY <1>5, <2>1, <1>RanSubmits, Zenon DEF CallOf
  <2>4. CalledInv(u)'
    <3>1. ASSUME NEW c \in Chain(u, "call")'
          PROVE  /\ \A n \in DOMAIN rep : rep[n].id = c /\ ~rep[n].exc =>
                      ran[u] # "no" /\ (req[u].out => rep[n].data = BytesOf(c)')
                 /\ status[c] = "OK" =>
                      /\ ran[u] # "no"
                      /\ req[u].out => IF isLarge(u) THEN BytesOf(c)' \subseteq buffer[u]
                                       ELSE outArgs[u] = BytesOf(c)'
      <4>1. CASE c \in K
        BY <1>2, <1>3, <4>1, Zenon
      <4>2. CASE c \in Chain(u, "call")
        BY <1>2, <2>1, <4>2, SMTT(30) DEF CallOf, CalledInv
      <4> QED
        BY <1>2, <4>1, <4>2, Zenon
    <3> QED
      BY <1>2, <1>3, <3>1, Zenon DEF CalledInv
  <2>5. ImageInv(u)'
    <3>1. ASSUME NEW c \in Chain(u, "finish")', status[c] = "OK", Submitted(u)', req[u].out
          PROVE  outArgs[u] = Bytes(0, req[u].size)
      <4>1. c \in Chain(u, "finish")
        BY <1>2, <1>3, <3>1, Zenon
      <4>2. u # t
        <5>1. cmd[c].op = "finish" /\ cmd[c].t = u /\ c \in Issued
          BY <4>1, Zenon DEF Chain, Of
        <5> QED
          BY <1>3, <5>1, FinishLast, Zenon
      <4>3. Submitted(u)
        BY <1>2, <1>3, <3>1, <4>2, Zenon DEF Submitted, OthersSame
      <4> QED
        BY <2>1, <3>1, <4>1, <4>3, Zenon DEF CallOf, ImageInv
    <3> QED
      BY <1>3, <3>1, Zenon DEF ImageInv
  <2> QED
    BY <2>2, <2>3, <2>4, <2>5, Zenon DEF CallOf
<1> QED
  BY <1>1, <1>3, <1>4, <1>5, Zenon DEF CallInv, CallOf

-----------------------------------------------------------------------------
\* A step of the driver or the environment without data.
LEMMA CallQuiet ==
  ASSUME TransferInv, QueueInv, ChainInv, CallInv,
         UNCHANGED <<req, cmd, seq_no, parts, submit_mtx, onVE, ran, buffer>>,
         \A u \in App : pc'[u] = "read" => pc[u] = "read",
         Unseen' \subseteq Unseen,
         \A d \in Unseen \ Unseen' : cmd[d].op \in {"empty", "finish"} \/ Failed(d)',
         \A d \in Issued : Failed(d) => Failed(d)',
         \A n \in DOMAIN rep' : ~rep'[n].exc => n \in DOMAIN rep /\ rep'[n] = rep[n],
         \A d \in Issued : cmd[d].op \notin {"empty", "finish"} /\ status'[d] = "OK" => status[d] = "OK",
         \A u \in App : ~isLarge(u) => outArgs'[u] = outArgs[u],
         \A u \in App : req[u].op = "call" => ImageInv(u)'
  PROVE  CallInv'
<1>1. /\ Issued' = Issued /\ (\A u, o : Chain(u, o)' = Chain(u, o)) /\ (\A u : Of(u)' = Of(u))
      /\ \A d : BytesOf(d)' = BytesOf(d)
      /\ \A u \in App : base(u)' = base(u) /\ (isLarge(u)' <=> isLarge(u))
  BY Zenon DEF Issued, Chain, Of, BytesOf, base, isLarge
<1>2. CoverInv'
  <2>1. \A c : Chain(cmd[c].t, cmd[c].op)' = Chain(cmd[c].t, cmd[c].op)
    BY Zenon DEF Chain, Of, Issued
  <2>2. CoverInv
    BY Zenon DEF CallInv
  <2>3. ASSUME NEW u \in App, NEW c \in Of(u), cmd[c].op \in Fragments, NEW x \in Bytes(base(u), cmd[c].hi)
        PROVE  \E d \in Chain(u, cmd[c].op) : d <= c /\ x \in BytesOf(d)'
    BY <1>1, <2>2, <2>3, Zenon DEF CoverInv
  <2> QED
    BY <1>1, <2>3, Zenon DEF CoverInv, Chain
<1>3. SeenInv'
  BY <1>1, Zenon DEF CallInv, SeenInv
<1>4. ASSUME NEW u \in App, req[u].op = "call" PROVE BeforeInv(u)' /\ RanInv(u)' /\ CalledInv(u)'
  <2>1. BeforeInv(u) /\ RanInv(u) /\ CalledInv(u)
    BY <1>4, Zenon DEF CallInv
  <2>2. Chain(u, "send") \subseteq Issued /\ \A d \in Chain(u, "send") : cmd[d].op = "send"
    BY Numbers, Zenon DEF Chain
  <2>3. \A d \in Chain(u, "call") \cup Chain(u, "recv") :
          d \in Issued /\ cmd[d].op \notin {"empty", "finish"}
    BY Numbers, Zenon DEF Chain
  <2>4. BeforeInv(u)'
    <3> SUFFICES ASSUME Chain(u, "call") \subseteq Unseen'
                 PROVE  /\ ran[u] = "no"
                        /\ Chain(u, "call") # {} \/ submit_mtx = u =>
                             \A d \in Chain(u, "send") \ Unseen' : Failed(d)' \/ BytesOf(d) \subseteq onVE[u]
      BY <1>1, Zenon DEF BeforeInv
    <3>1. /\ ran[u] = "no"
          /\ Chain(u, "call") # {} \/ submit_mtx = u =>
               \A d \in Chain(u, "send") \ Unseen : Failed(d) \/ BytesOf(d) \subseteq onVE[u]
      BY <2>1, Zenon DEF BeforeInv
    <3>2. \A d \in Chain(u, "send") \ Unseen' : d \in Issued /\ (d \notin Unseen \/ Failed(d)')
      BY <2>2, Zenon
    <3> QED
      BY <3>1, <3>2, Zenon
  <2>5. RanInv(u)'
    <3> SUFFICES ASSUME ran[u] # "no" PROVE RanInv(u)'
      BY Zenon DEF RanInv
    <3>1. /\ Chain(u, "call") # {} /\ \A e \in Chain(u, "call"), c \in Unseen' : e < c
      BY <2>1, Zenon DEF RanInv
    <3>2. ran[u] = "partial" => /\ isLarge(u) /\ req[u].in
                                /\ parts[u].write = INVALID \/ \E d \in Chain(u, "send") : Failed(d)'
      BY <2>1, <2>2, Zenon DEF RanInv
    <3>3. pc'[u] = "read" \/ Chain(u, "recv") \cap Unseen' # {} => onVE[u] = Bytes(0, req[u].size)
      BY <2>1, Zenon DEF RanInv
    <3>4. \A c \in Chain(u, "recv") :
            /\ \A n \in DOMAIN rep' : rep'[n].id = c /\ ~rep'[n].exc => rep'[n].data = BytesOf(c)
            /\ status'[c] = "OK" => Bytes(base(u), cmd[c].hi) \subseteq buffer[u]
      BY <2>1, <2>3, SMTT(30) DEF RanInv
    <3> QED
      BY <1>1, <3>1, <3>2, <3>3, <3>4, Zenon DEF RanInv
  <2>6. CalledInv(u)'
    <3>1. ASSUME NEW c \in Chain(u, "call")
          PROVE  /\ \A n \in DOMAIN rep' : rep'[n].id = c /\ ~rep'[n].exc =>
                      ran[u] # "no" /\ (req[u].out => rep'[n].data = BytesOf(c))
                 /\ status'[c] = "OK" =>
                      /\ ran[u] # "no"
                      /\ req[u].out => IF isLarge(u) THEN BytesOf(c) \subseteq buffer[u]
                                       ELSE outArgs'[u] = BytesOf(c)
      BY <2>1, <2>3 DEF CalledInv
    <3> QED
      BY <1>1, <3>1, Zenon DEF CalledInv
  <2> QED
    BY <2>4, <2>5, <2>6, Zenon
<1> QED
  BY <1>2, <1>3, <1>4, Zenon DEF CallInv

\* A step without data that lets nothing succeed.
LEMMA CallCalm ==
  ASSUME TransferInv, QueueInv, ChainInv, CallInv,
         UNCHANGED <<req, cmd, seq_no, parts, submit_mtx, onVE, ran, buffer, outArgs>>,
         \A u \in App : pc'[u] = "read" => pc[u] = "read",
         Unseen' \subseteq Unseen, \A d \in Unseen \ Unseen' : Failed(d)',
         \A d \in Issued : /\ status'[d] = "OK" => status[d] = "OK"
                           /\ status[d] \in {"ERROR", "EXCEPTION"} => status'[d] \in {"ERROR", "EXCEPTION"},
         \A n \in DOMAIN rep : n \in DOMAIN rep' /\ rep'[n] = rep[n],
         \A n \in DOMAIN rep' : ~rep'[n].exc => n \in DOMAIN rep /\ rep'[n] = rep[n]
  PROVE  CallInv'
<1>1. \A d \in Issued : Failed(d) => Failed(d)'
  BY Zenon DEF Failed
<1>2. ASSUME NEW u \in App, req[u].op = "call" PROVE ImageInv(u)'
  <2>1. ImageInv(u) /\ Chain(u, "finish")' = Chain(u, "finish") /\ (Submitted(u)' <=> Submitted(u))
    BY <1>2, Zenon DEF CallInv, Chain, Of, Issued, Submitted, isLarge
  <2>2. Chain(u, "finish") \subseteq Issued
    BY Numbers, Zenon
  <2> QED
    BY <2>1, <2>2, Zenon DEF ImageInv
<1> QED
  BY <1>1, <1>2, CallQuiet, Zenon

\* So does a step that neither makes nor takes a reply.
LEMMA CallStill ==
  ASSUME TransferInv, QueueInv, ChainInv, CallInv,
         \/ \E t \in App : Wait(t)
         \/ SubmitVE \/ CancelAll \/ IdleRound \/ ProgressExit \/ VEKilled
         \/ UNCHANGED vars
  PROVE  CallInv'
<1>1. UNCHANGED <<rep, req, cmd, seq_no, parts, submit_mtx, onVE, ran, buffer, outArgs>>
  BY Zenon DEF Wait, SubmitVE, CancelAll, IdleRound, ProgressExit, VEKilled, vars, ctxVars,
     veVars, dataVars, loopVars
<1>2. pc \in [App -> Pcs] /\ status \in [Ids -> Statuses] /\ Issued \subseteq Ids
  BY Numbers, Zenon DEF TransferInv, TypeOK, CommQueueType
<1>3. \A u \in App : pc'[u] = "read" => pc[u] = "read"
  <2>1. UNCHANGED pc \/ \E t \in App : pc' = [pc EXCEPT ![t] = "done"]
    BY Zenon DEF Wait, SubmitVE, CancelAll, IdleRound, ProgressExit, VEKilled, vars
  <2> QED
    BY <1>2, <2>1, Zenon
<1>4. /\ Unseen' \subseteq Unseen /\ \A d \in Unseen \ Unseen' : status'[d] = "ERROR"
      /\ UNCHANGED status \/ \E S : status' = [i \in Ids |-> IF i \in S THEN "ERROR" ELSE status[i]]
  <2>1. CASE SubmitVE
    <3>1. PICK c : c = Head(request)
      BY Zenon
    <3>2. /\ c \in Issued
          /\ \/ Unseen' = Unseen /\ UNCHANGED status
             \/ Unseen' = Unseen \ {c} /\ status' = [status EXCEPT ![c] = "ERROR"]
      BY <2>1, <3>1, QueueSubmitVE, Zenon
    <3>3. [status EXCEPT ![c] = "ERROR"] = [i \in Ids |-> IF i \in {c} THEN "ERROR" ELSE status[i]]
      BY <1>2, Zenon
    <3> QED
      BY <1>2, <3>2, <3>3, Zenon
  <2>2. CASE CancelAll
    <3>1. /\ Unseen' \subseteq Unseen /\ Unseen \ Unseen' \subseteq Pending /\ Pending \subseteq Issued
      BY <2>2, QueueCancelAll, Kept, Zenon
    <3>2. status' = [i \in Ids |-> IF i \in Pending THEN "ERROR" ELSE status[i]]
      BY <2>2, Zenon DEF CancelAll, Pending
    <3> QED
      BY <1>2, <3>1, <3>2, Zenon
  <2>3. CASE (\E t \in App : Wait(t)) \/ IdleRound \/ ProgressExit \/ VEKilled \/ UNCHANGED vars
    <3>1. UNCHANGED <<request, chan, status>>
      BY <2>3, Zenon DEF Wait, IdleRound, ProgressExit, VEKilled, vars, comqVars, veVars
    <3> QED
      BY <3>1, Zenon DEF Unseen, Elems
  <2> QED
    BY <2>1, <2>2, <2>3, Zenon
<1>5. \A d \in Issued : /\ status'[d] = "OK" => status[d] = "OK"
                        /\ status[d] \in {"ERROR", "EXCEPTION"} => status'[d] \in {"ERROR", "EXCEPTION"}
  BY <1>2, <1>4, Zenon
<1>6. \A d \in Unseen \ Unseen' : Failed(d)'
  BY <1>4, Zenon DEF Failed
<1> QED
  BY <1>1, <1>3, <1>4, <1>5, <1>6, CallCalm, Zenon

\* So does an exception on the VE: its reply fails the command.
LEMMA CallException ==
  ASSUME TransferInv, QueueInv, ChainInv, CallInv, VEException
  PROVE  CallInv'
<1>1. PICK c : c = Head(chan)
  BY Zenon
<1>2. PICK r : r = [id |-> c, exc |-> TRUE, data |-> {}]
  BY Zenon
<1>3. /\ UNCHANGED <<req, cmd, seq_no, parts, submit_mtx, onVE, ran, buffer, outArgs, pc, status>>
      /\ rep' = Append(rep, r)
  BY <1>1, <1>2, Zenon DEF VEException, comqVars, ctxVars, dataVars, loopVars
<1>4. c \in Ids /\ Unseen' = Unseen \ {c}
  BY <1>1, QueueVE, Numbers, Zenon
<1>5. r \in Reply /\ r.exc /\ r.id = c
  BY <1>2, <1>4, Zenon DEF Reply
<1>6. /\ \A n \in DOMAIN rep' : (n \in DOMAIN rep /\ rep'[n] = rep[n]) \/ rep'[n] = r
      /\ \A n \in DOMAIN rep : n \in DOMAIN rep' /\ rep'[n] = rep[n]
      /\ Len(rep') \in DOMAIN rep' /\ rep'[Len(rep')] = r
  BY <1>3, <1>5, RepAppend, Zenon DEF TransferInv
<1>7. Failed(c)'
  BY <1>5, <1>6, Zenon DEF Failed
<1>8. \A n \in DOMAIN rep' : ~rep'[n].exc => n \in DOMAIN rep /\ rep'[n] = rep[n]
  BY <1>5, <1>6, Zenon
<1> QED
  BY <1>3, <1>4, <1>6, <1>7, <1>8, CallCalm, Zenon

\* So does the VH command at the end of a large call, which collects the parts.
LEMMA CallSubmitVH ==
  ASSUME TransferInv, QueueInv, ChainInv, ResultInv, RangeInv, CallInv, SubmitVH
  PROVE  CallInv'
  \* The VH command of a large call: if every part succeeded, the stack image is
  \* complete.
<1>ImageComplete.
    ASSUME TransferInv, QueueInv, ChainInv, RangeInv, CallInv, NEW t \in App, isLarge(t), req[t].out,
           Submitted(t), \A p \in PartSet(t) : status[p] = "OK"
    PROVE  buffer[t] = Bytes(0, req[t].size)
  <2> USE <1>ImageComplete
  <2>1. PICK e : e = parts[t].call
    BY Zenon
  <2>2. PICK f : f = parts[t].read
    BY Zenon
  <2>3. e # INVALID /\ f # INVALID /\ e \in PartSet(t) /\ f \in PartSet(t)
    BY <2>1, <2>2, Zenon DEF Submitted, PartSet
  <2>4. e \in Chain(t, "call") /\ f \in Chain(t, "recv") /\ cmd[f].hi = req[t].size
    BY <2>1, <2>2, <2>3, Zenon DEF ChainInv, ThreadInv, PartsInv, Top
  <2>5. CalledInv(t) /\ RanInv(t) /\ req[t].op = "call"
    BY Zenon DEF CallInv, isLarge
  <2>6. BytesOf(e) \subseteq buffer[t] /\ ran[t] # "no"
    BY <2>3, <2>4, <2>5, Zenon DEF CalledInv
  <2>7. Bytes(base(t), req[t].size) \subseteq buffer[t]
    BY <2>3, <2>4, <2>5, <2>6, Zenon DEF RanInv
  <2>8. BytesOf(e) = Bytes(0, MaxStack) /\ base(t) = MaxStack
    <3>1. Suits(cmd[e], t) /\ cmd[e].op = "call"
      BY <2>4, Zenon DEF ChainInv, CommandInv, Chain
    <3> QED
      BY <2>5, <3>1, Zenon DEF Suits, BytesOf, base
  <2>9. MaxStack \in Nat /\ req[t].size \in Nat
    BY TransferAssumption, Zenon DEF TransferInv, TypeOK, RequestType
  <2>10. Bytes(0, req[t].size) \subseteq Bytes(0, MaxStack) \cup Bytes(MaxStack, req[t].size)
    BY <2>9 DEF Bytes
  <2> QED
    BY <2>6, <2>7, <2>8, <2>10, Zenon DEF RangeInv
<1>1. PICK c : c = Head(request)
  BY Zenon
<1>2. PICK t : t = cmd[c].t
  BY Zenon
<1>3. PICK last : last = (cmd[c].op = "finish")
  BY Zenon
<1>4. /\ vhReady /\ request # <<>> /\ isVH(c)
      /\ status' = [status EXCEPT ![c] = IF last THEN collected(t) ELSE "OK"]
      /\ outArgs' = IF last /\ req[t].out /\ peek(parts[t].read) = "OK"
                    THEN [outArgs EXCEPT ![t] = buffer[t]] ELSE outArgs
      /\ UNCHANGED <<rep, req, cmd, seq_no, parts, submit_mtx, onVE, ran, buffer, pc>>
  BY <1>1, <1>2, <1>3, Zenon DEF SubmitVH, setResult, loopVars, veVars
<1>5. /\ c \in Issued /\ c \in Elems(request) /\ Unseen' = Unseen \ {c} /\ c \in Ids
      /\ c \in Pending
  BY <1>1, QueueSubmitVH, Numbers, Zenon DEF Pending
<1>6. t \in App /\ c \in Of(t)
  BY <1>2, <1>5, Kept, Zenon
<1>7. status \in [Ids -> Statuses] /\ outArgs \in [App -> SUBSET Nat] /\ status[c] = "UNFINISHED"
  BY <1>5, Zenon DEF ResultInv, DoneInv, TransferInv, TypeOK, CommQueueType
<1>8. last => isLarge(t) /\ \A d \in Chain(t, "finish") : d = c
  <2>1. last => isLarge(t) /\ \A d \in Of(t) : d <= c
    BY <1>2, <1>3, <1>5, FinishLast, Zenon
  <2>2. ASSUME NEW d \in Chain(t, "finish") PROVE c <= d /\ d \in Of(t) /\ d \in Int /\ c \in Int
    <3>1. d \in Of(t) /\ cmd[d].op = "finish" /\ cmd[d].t = t /\ d \in Issued
      BY Zenon DEF Chain, Of
    <3> QED
      BY <1>5, <1>6, <3>1, FinishLast, Numbers, Zenon
  <2> QED
    BY <2>1, <2>2
<1>9. /\ \A u \in App : u # t \/ ~last => outArgs'[u] = outArgs[u]
      /\ \A i \in Ids : i # c => status'[i] = status[i]
  BY <1>4, <1>6, <1>7, Zenon
<1>10. ASSUME NEW u \in App, req[u].op = "call" PROVE ImageInv(u)'
  <2>1. ImageInv(u) /\ Chain(u, "finish")' = Chain(u, "finish") /\ (Submitted(u)' <=> Submitted(u))
    BY <1>4, <1>10, Zenon DEF CallInv, Chain, Of, Issued, Submitted, isLarge
  <2> SUFFICES ASSUME NEW d \in Chain(u, "finish"), status'[d] = "OK", Submitted(u), req[u].out
               PROVE  outArgs'[u] = Bytes(0, req[u].size)
    BY <1>4, <2>1, Zenon DEF ImageInv
  <2>2. d \in Of(u) /\ cmd[d].op = "finish" /\ d \in Ids
    BY Numbers, Zenon DEF Chain
  <2>3. CASE d # c
    <3>1. status[d] = "OK"
      BY <1>9, <2>2, <2>3, Zenon
    <3>2. u # t \/ ~last
      BY <1>8, <2>3, Zenon
    <3> QED
      BY <1>9, <2>1, <3>1, <3>2, Zenon DEF ImageInv
  <2>4. CASE d = c
    <3>1. u = t /\ last
      BY <1>2, <1>3, <2>2, <2>4, Kept, Zenon
    <3>2. collected(t) = "OK" /\ isLarge(t)
      BY <1>4, <1>5, <1>7, <1>8, <2>4, <3>1, Zenon
    <3>3. \A p \in PartSet(t) : p \in completion /\ p \in rem_reqid /\ status[p] # "UNFINISHED"
      <4>1. Elems(partsInOrder(t)) \ {INVALID} \subseteq completion \cap rem_reqid
        BY <1>1, <1>2, <1>3, <1>4, <1>5, <3>1, Ready, Zenon DEF ResultsReady, ResultInv
      <4>2. Elems(partsInOrder(t)) \ {INVALID} = PartSet(t)
        BY DEF Elems, partsInOrder, PartSet
      <4>3. \A p \in completion : p \in Ids /\ p \in Issued /\ p \notin Pending
        BY Numbers, Zenon DEF ResultInv, DoneInv
      <4> QED
        BY <4>1, <4>2, <4>3, Zenon DEF ResultInv, DoneInv
    <3>4. \A p \in PartSet(t) : status[p] = "OK"
      BY <1>6, <3>2, <3>3, Collected, Zenon
    <3>5. buffer[t] = Bytes(0, req[t].size)
      BY <1>6, <3>1, <3>2, <3>4, <1>ImageComplete, Zenon
    <3>6. peek(parts[t].read) = "OK"
      BY <3>3, <3>4, Zenon DEF peek, PartSet
    <3> QED
      BY <1>4, <1>6, <1>7, <3>1, <3>5, <3>6, Zenon
  <2> QED
    BY <2>3, <2>4, Zenon
<1>11. \A d \in Issued : Failed(d) => Failed(d)'
  <2>1. \A d \in Issued : d # c /\ Failed(d) => Failed(d)'
    BY <1>4, <1>9, Numbers, Zenon DEF Failed
  <2>2. ~Failed(c)
    <3>1. \A n \in DOMAIN rep : rep[n].id # c
      BY <1>4, <1>5, Replied, Zenon DEF isVH
    <3> QED
      BY <1>7, <3>1, Zenon DEF Failed
  <2> QED
    BY <2>1, <2>2, Zenon
<1>12. \A d \in Issued : cmd[d].op \notin {"empty", "finish"} /\ status'[d] = "OK" => status[d] = "OK"
  BY <1>4, <1>9, Numbers, Zenon DEF isVH
<1>13. \A u \in App : ~isLarge(u) => outArgs'[u] = outArgs[u]
  BY <1>8, <1>9, Zenon
<1>14. \A d \in Unseen \ Unseen' : cmd[d].op \in {"empty", "finish"} \/ Failed(d)'
  BY <1>4, <1>5, Zenon DEF isVH
<1> QED
  BY <1>4, <1>5, <1>10, <1>11, <1>12, <1>13, <1>14, CallQuiet, Zenon

-----------------------------------------------------------------------------

\* So does the receipt of a reply.
LEMMA CallRecv ==
  ASSUME TransferInv, QueueInv, ChainInv, ResultInv, CallInv, Recv
  PROVE  CallInv'
  \* A failure stays one when its reply is received.
<1>StaysFailed.
    ASSUME TransferInv, QueueInv, ChainInv, ResultInv, Recv, NEW d \in Issued, Failed(d)
    PROVE  Failed(d)'
  <2> USE <1>StaysFailed
  <2>1. PICK c : c = Head(rep).id
    BY Zenon
  <2>2. /\ rep # <<>> /\ rep' = Tail(rep)
        /\ status' = [status EXCEPT ![c] = resultStatus(c, Head(rep).exc)]
    BY <2>1, Zenon DEF Recv, setResult
  <2>3. /\ \A n \in DOMAIN rep' : n + 1 \in DOMAIN rep /\ rep'[n] = rep[n + 1]
        /\ 1 \in DOMAIN rep /\ rep[1] = Head(rep) /\ RepIds = RepIds' \cup {c}
    BY <2>1, <2>2, RepTail, Zenon DEF TransferInv
  <2>4. \A i \in Ids \ {c} : status'[i] = status[i]
    BY <2>1, Received, Zenon
  <2>5. c \in Ids /\ c \in Pending /\ d \in Ids
    BY <2>1, QueueRecv, Numbers, Zenon DEF Pending
  <2>6. \A m, n \in DOMAIN rep : rep[m].id = rep[n].id => m = n
    <3>1. /\ \A m, n \in DOMAIN rep : m < n => rep[m].id < rep[n].id
          /\ \A n \in DOMAIN rep : rep[n].id \in Int /\ n \in Int
      BY QueueFacts, Replied, SMTT(30) DEF QueueInv
    <3> QED
      BY <3>1
  <2>7. CASE d = c
    <3>1. status[d] = "UNFINISHED"
      BY <2>5, <2>7, Zenon DEF ResultInv, DoneInv
    <3>2. Head(rep).exc
      BY <2>1, <2>3, <2>6, <2>7, <3>1, SMTT(30) DEF Failed
    <3>3. status'[d] = "EXCEPTION"
      BY <2>2, <2>5, <2>7, <3>2, Zenon DEF resultStatus, TransferInv, TypeOK, CommQueueType
    <3> QED
      BY <3>3, Zenon DEF Failed
  <2>8. CASE d # c
    <3>1. CASE status[d] \in {"ERROR", "EXCEPTION"}
      BY <2>4, <2>5, <2>8, <3>1, Zenon DEF Failed
    <3>2. CASE \E n \in DOMAIN rep : rep[n].id = d /\ rep[n].exc
      <4>1. PICK n \in DOMAIN rep : rep[n].id = d /\ rep[n].exc
        BY <3>2, Zenon
      <4>2. d \in RepIds'
        BY <2>3, <2>8, <4>1, Zenon DEF RepIds
      <4>3. PICK m \in DOMAIN rep' : rep'[m].id = d
        BY <4>2, Zenon DEF RepIds
      <4>4. rep'[m].exc
        BY <2>3, <2>6, <4>1, <4>3, Zenon
      <4> QED
        BY <4>3, <4>4, Zenon DEF Failed
    <3> QED
      BY <3>1, <3>2, Zenon DEF Failed
  <2> QED
    BY <2>7, <2>8, Zenon
<1>1. PICK c : c = Head(rep).id
  BY Zenon
<1>2. PICK t : t = cmd[c].t
  BY Zenon
<1>3. /\ c \in Issued /\ c \in Ids /\ c \in Of(t) /\ t \in App /\ c \in RepIds
      /\ cmd[c].op \in {"send", "recv", "call"}
      /\ 1 \in DOMAIN rep /\ rep[1] = Head(rep)
      /\ \A n \in DOMAIN rep' : n + 1 \in DOMAIN rep /\ rep'[n] = rep[n + 1]
      /\ \A i \in Ids \ {c} : status'[i] = status[i]
      /\ status'[c] = "OK" =>
           /\ ~Head(rep).exc
           /\ cmd[c].prev # INVALID => status[cmd[c].prev] = "OK"
      /\ UNCHANGED <<cmd, seq_no, req, pc, parts, onVE, ran>>
  BY <1>1, <1>2, Received, Zenon
<1>4. UNCHANGED submit_mtx /\ Unseen' = Unseen
  BY QueueRecv, Zenon DEF Recv
<1>5. /\ Issued' = Issued /\ (\A u, o : Chain(u, o)' = Chain(u, o)) /\ (\A u : Of(u)' = Of(u))
      /\ \A d : BytesOf(d)' = BytesOf(d)
      /\ \A u \in App : base(u)' = base(u) /\ (isLarge(u)' <=> isLarge(u))
  BY <1>3, Zenon DEF Issued, Chain, Of, BytesOf, base, isLarge
<1>6. /\ \A u \in App : buffer[u] \subseteq buffer'[u]
      /\ ~Head(rep).exc /\ ~simpleCall(c) => buffer'[t] = buffer[t] \cup Head(rep).data
      /\ ~Head(rep).exc /\ simpleCall(c) => outArgs'[t] = Head(rep).data
      /\ \A u \in App : u # t \/ ~simpleCall(c) => outArgs'[u] = outArgs[u]
  <2>1. CASE Head(rep).exc
    BY <1>1, <2>1, Received, Zenon
  <2>2. CASE ~Head(rep).exc
    <3>1. \A u \in App : buffer'[u] =
            IF u = t /\ ~simpleCall(c) THEN buffer[u] \cup Head(rep).data ELSE buffer[u]
      BY <1>1, <1>2, <2>2, ReceivedData, Zenon
    <3>2. \A u \in App : outArgs'[u] =
            IF u = t /\ simpleCall(c) THEN Head(rep).data ELSE outArgs[u]
      BY <1>1, <1>2, <2>2, ReceivedData, Zenon
    <3> QED
      BY <1>3, <3>1, <3>2, Zenon
  <2> QED
    BY <2>1, <2>2, Zenon
<1>7. CoverInv'
  <2>1. ASSUME NEW u \in App, NEW d \in Of(u), cmd[d].op \in Fragments, NEW x \in Bytes(base(u), cmd[d].hi)
        PROVE  \E e \in Chain(u, cmd[d].op) : e <= d /\ x \in BytesOf(e)'
    BY <1>5, <2>1, Zenon DEF CallInv, CoverInv
  <2> QED
    BY <1>3, <1>5, <2>1, Zenon DEF CoverInv, Chain
<1>8. SeenInv'
  <2>1. \A d \in Unseen : c < d
    BY <1>3, Zenon DEF QueueInv, Unseen
  <2> QED
    BY <1>3, <1>4, <1>5, <2>1, Numbers, Zenon DEF CallInv, SeenInv
<1>9. \A d \in Issued : Failed(d) => Failed(d)'
  BY <1>StaysFailed, Zenon
<1>10. \A u \in App : \A o : \A d \in Chain(u, o) :
         /\ d \in Issued /\ d \in Ids /\ cmd[d].op = o /\ d \in Of(u)
         /\ d = c => u = t
  BY <1>2, Kept, Numbers, Zenon DEF Chain
<1>11. ASSUME NEW u \in App, req[u].op = "call" PROVE CallOf(u)'
  <2>1. BeforeInv(u) /\ RanInv(u) /\ CalledInv(u) /\ ImageInv(u)
    BY <1>11, Zenon DEF CallInv
  <2>2. BeforeInv(u)'
    <3>1. \A d \in Chain(u, "send") \ Unseen : Failed(d) => Failed(d)'
      BY <1>9, <1>10, Zenon
    <3> QED
      BY <1>3, <1>4, <1>5, <2>1, <3>1, Zenon DEF BeforeInv
  <2>3. RanInv(u)'
    <3> SUFFICES ASSUME ran[u] # "no" PROVE RanInv(u)'
      BY <1>3, Zenon DEF RanInv
    <3>1. ran[u] = "partial" => /\ isLarge(u) /\ req[u].in
                                /\ parts[u].write = INVALID \/ \E d \in Chain(u, "send") : Failed(d)'
      BY <1>9, <1>10, <2>1, Zenon DEF RanInv
    <3>2. ASSUME NEW d \in Chain(u, "recv"), NEW n \in DOMAIN rep', rep'[n].id = d, ~rep'[n].exc
          PROVE  rep'[n].data = BytesOf(d)
      BY <1>3, <2>1, <3>2, SMTT(30) DEF RanInv
    <3>3. ASSUME NEW d \in Chain(u, "recv"), status'[d] = "OK"
          PROVE  Bytes(base(u), cmd[d].hi) \subseteq buffer'[u]
      <4>1. CASE d # c
        <5>1. status[d] = "OK"
          BY <1>3, <1>10, <3>3, <4>1, Zenon
        <5> QED
          BY <1>6, <2>1, <5>1, Zenon DEF RanInv
      <4>2. CASE d = c
        <5>1. u = t /\ ~Head(rep).exc /\ cmd[c].op = "recv"
          BY <1>3, <1>10, <3>3, <4>2, Zenon
        <5>2. Head(rep).data = BytesOf(c)
          BY <1>1, <1>3, <2>1, <3>3, <4>2, <5>1, SMTT(30) DEF RanInv
        <5>3. PICK B : B = buffer'[t]
          BY Zenon
        <5>4. BytesOf(c) \subseteq B
          BY <1>6, <5>1, <5>2, <5>3, Zenon DEF simpleCall
        <5>5. PICK p : p = cmd[c].prev
          BY Zenon
        <5>6. p # INVALID => p \in Chain(t, "recv") /\ status[p] = "OK"
          <6>1. CommandInv(c, t)
            BY <1>3, Zenon DEF ChainInv
          <6> QED
            BY <1>3, <3>3, <4>2, <5>1, <5>5, <6>1, Zenon DEF CommandInv, Fragments
        <5>7. p # INVALID => Bytes(base(t), cmd[p].hi) \subseteq B
          BY <1>3, <1>6, <2>1, <5>1, <5>3, <5>6, Zenon DEF RanInv
        <5>8. Bytes(base(t), cmd[c].hi) \subseteq B
          BY <1>3, <5>1, <5>4, <5>5, <5>7, Continues, Zenon DEF Fragments
        <5> QED
          BY <4>2, <5>1, <5>3, <5>8, Zenon
      <4> QED
        BY <4>1, <4>2, Zenon
    <3> QED
      BY <1>3, <1>4, <1>5, <2>1, <3>1, <3>2, <3>3, Zenon DEF RanInv
  <2>4. CalledInv(u)'
    <3>1. ASSUME NEW d \in Chain(u, "call"), NEW n \in DOMAIN rep', rep'[n].id = d, ~rep'[n].exc
          PROVE  ran[u] # "no" /\ (req[u].out => rep'[n].data = BytesOf(d))
      BY <1>3, <2>1, <3>1, SMTT(30) DEF CalledInv
    <3>2. ASSUME NEW d \in Chain(u, "call"), status'[d] = "OK"
          PROVE  /\ ran[u] # "no"
                 /\ req[u].out => IF isLarge(u) THEN BytesOf(d) \subseteq buffer'[u]
                                  ELSE outArgs'[u] = BytesOf(d)
      <4>1. CASE d # c
        <5>1. status[d] = "OK"
          BY <1>3, <1>10, <3>2, <4>1, Zenon
        <5>2. u # t \/ ~simpleCall(c)
          <6>1. simpleCall(c) => Of(t) = {c}
            BY <1>3, SimpleAlone, Zenon
          <6> QED
            BY <1>10, <4>1, <6>1, Zenon
        <5> QED
          BY <1>6, <2>1, <5>1, <5>2, Zenon DEF CalledInv
      <4>2. CASE d = c
        <5>1. u = t /\ ~Head(rep).exc /\ cmd[c].op = "call"
          BY <1>3, <1>10, <3>2, <4>2, Zenon
        <5>2. ran[u] # "no" /\ (req[u].out => Head(rep).data = BytesOf(c))
          BY <1>1, <1>3, <2>1, <3>2, <4>2, <5>1, Zenon DEF CalledInv
        <5>3. simpleCall(c) <=> ~isLarge(u)
          BY <1>2, <5>1, Zenon DEF simpleCall
        <5> QED
          BY <1>6, <4>2, <5>1, <5>2, <5>3, Zenon
      <4> QED
        BY <4>1, <4>2, Zenon
    <3> QED
      BY <1>3, <1>5, <3>1, <3>2, Zenon DEF CalledInv
  <2>5. ImageInv(u)'
    <3>1. Submitted(u)' <=> Submitted(u)
      BY <1>3, <1>5, Zenon DEF Submitted
    <3>2. ASSUME NEW d \in Chain(u, "finish"), status'[d] = "OK", Submitted(u), req[u].out
          PROVE  outArgs'[u] = Bytes(0, req[u].size)
      <4>1. d # c /\ cmd[d].t = u
        BY <1>3, <1>10, Kept
      <4>2. status[d] = "OK"
        BY <1>3, <1>10, <3>2, <4>1, Zenon
      <4>3. isLarge(u)
        BY <1>10, <4>1, FinishLast, ZenonT(60)
      <4>4. u # t \/ ~simpleCall(c)
        BY <1>2, <4>3, Zenon DEF simpleCall
      <4> QED
        BY <1>6, <2>1, <3>2, <4>2, <4>4, Zenon DEF ImageInv
    <3> QED
      BY <1>3, <1>5, <3>1, <3>2, Zenon DEF ImageInv
  <2> QED
    BY <2>2, <2>3, <2>4, <2>5, Zenon DEF CallOf
<1> QED
  BY <1>3, <1>7, <1>8, <1>11, Zenon DEF CallInv, CallOf

-----------------------------------------------------------------------------

\* So does the VE when it handles a command: it writes, runs or reads.
LEMMA CallHandle ==
  ASSUME TransferInv, QueueInv, ChainInv, ResultInv, RangeInv, CallInv, VEHandle
  PROVE  CallInv'
  \* There is one CALL command.
<1>OneCall.
    ASSUME TransferInv, QueueInv, ChainInv, NEW t \in App, NEW c \in Chain(t, "call"),
           NEW d \in Chain(t, "call")
    PROVE  c = d
  <2> USE <1>OneCall
  <2>1. /\ c \in Of(t) /\ d \in Of(t) /\ cmd[c].op = "call" /\ cmd[d].op = "call"
        /\ c \in Int /\ d \in Int
    BY Numbers, Zenon DEF Chain
  <2>2. CommandInv(c, t) /\ CommandInv(d, t)
    BY <2>1, Zenon DEF ChainInv
  <2>3. (c < d => cmd[c].op \in Earlier("call")) /\ (d < c => cmd[d].op \in Earlier("call"))
    BY <2>1, <2>2, Zenon DEF CommandInv
  <2> QED
    BY <2>1, <2>3 DEF Earlier
  \* What has been executed, came before what has not.
<1>SeenFirst.
    ASSUME TransferInv, QueueInv, ResultInv, SeenInv, NEW d \in Issued, d \notin Unseen,
           cmd[d].op \notin {"empty", "finish"}, ~Failed(d), NEW c \in Unseen
    PROVE  d < c
  <2> USE <1>SeenFirst
  <2>1. CASE d \in RepIds
    BY <2>1, Zenon DEF QueueInv, Unseen
  <2>2. CASE d \notin RepIds
    <3>1. d \notin Pending /\ d \in Ids
      BY <2>2, Numbers, Zenon DEF Pending, Unseen, QueueInv
    <3>2. status[d] # "UNFINISHED" /\ status[d] \in Statuses
      BY <3>1, Zenon DEF ResultInv, DoneInv, TransferInv, TypeOK, CommQueueType
    <3>3. status[d] = "OK"
      BY <3>2, Zenon DEF Failed, Statuses
    <3> QED
      BY <3>3, Zenon DEF SeenInv
  <2> QED
    BY <2>1, <2>2, Zenon
  \* Nobody else's command is executed between two commands of a large call.
<1>Alone.
    ASSUME TransferInv, QueueInv, ChainInv, VEHandle, NEW c, c = Head(chan), NEW u \in App,
           isLarge(u), NEW d \in Of(u), d < c, submit_mtx = u \/ \E f \in Of(u) : f \in Unseen
    PROVE  c \in Of(u)
  <2> USE <1>Alone
  <2>1. c \in Issued /\ Unseen' = Unseen \ {c} /\ \A f \in Unseen' : c < f
    BY QueueVE, Zenon
  <2>2. Contiguous(u)
    BY Zenon DEF ChainInv
  <2>3. CASE submit_mtx = u
    BY <2>1, <2>2, <2>3, Zenon DEF Contiguous
  <2>4. CASE \E f \in Of(u) : f \in Unseen
    <3>1. PICK f \in Of(u) : f \in Unseen
      BY <2>4, Zenon
    <3>2. f = c \/ c < f
      BY <2>1, <3>1, Zenon
    <3> QED
      BY <2>1, <2>2, <3>1, <3>2, Zenon DEF Contiguous
  <2> QED
    BY <2>3, <2>4, Zenon
  \* The function runs on the whole stack image unless a fragment failed.
<1>WholeImage.
    ASSUME TransferInv, QueueInv, ChainInv, RangeInv, CallInv, VEHandle, NEW c, c = Head(chan),
           NEW t \in App, c \in Of(t), cmd[c].op = "call", req[t].in,
           isLarge(t) => parts[t].write # INVALID /\ \A d \in Chain(t, "send") : ~Failed(d)
    PROVE  onVE[t] \cup BytesOf(c) = Bytes(0, req[t].size)
  <2> USE <1>WholeImage
  <2>1. CommandInv(c, t) /\ MaxStack \in Nat /\ req[t].size \in Nat /\ c \in Int
    BY TransferAssumption, Numbers, Zenon DEF ChainInv, TransferInv, TypeOK, RequestType
  <2>2. req[t].op = "call" /\ BytesOf(c) = Bytes(0, IF isLarge(t) THEN MaxStack ELSE req[t].size)
    BY <2>1, Zenon DEF CommandInv, Suits, BytesOf
  <2>3. onVE[t] \cup BytesOf(c) \subseteq Bytes(0, req[t].size)
    BY BytesInside, Zenon DEF RangeInv
  <2>4. ASSUME isLarge(t) PROVE Bytes(MaxStack, req[t].size) \subseteq onVE[t]
    <3>1. PICK w : w = parts[t].write
      BY Zenon
    <3>2. w \in Of(t) /\ cmd[w].op = "send" /\ cmd[w].hi = req[t].size
      BY <2>4, <3>1, Zenon DEF ChainInv, ThreadInv, PartsInv, Top, Chain
    <3>3. base(t) = MaxStack
      BY <2>2, Zenon DEF base
    <3>4. ASSUME NEW d \in Chain(t, "send") PROVE BytesOf(d) \subseteq onVE[t]
      <4>1. d \in Of(t) /\ cmd[d].op = "send" /\ d \in Int
        BY Numbers, Zenon DEF Chain
      <4>2. ~(c < d)
        <5>1. CommandInv(d, t)
          BY <4>1, Zenon DEF ChainInv
        <5> QED
          BY <4>1, <5>1, Zenon DEF CommandInv, Earlier
      <4>3. d \notin Unseen
        <5>1. \A f \in Unseen : f = c \/ c < f
          BY QueueVE, Zenon
        <5> QED
          BY <4>1, <4>2, <5>1, Zenon
      <4>4. c \in Chain(t, "call") /\ Chain(t, "call") \subseteq Unseen
        <5>1. c \in Chain(t, "call") /\ c \in Unseen
          BY QueueVE, Zenon DEF Chain
        <5> QED
          BY <5>1, <1>OneCall, Zenon
      <4>5. Failed(d) \/ BytesOf(d) \subseteq onVE[t]
        BY <2>2, <4>3, <4>4, Zenon DEF CallInv, BeforeInv
      <4> QED
        BY <2>4, <4>5, Zenon
    <3>5. ASSUME NEW x \in Bytes(MaxStack, req[t].size) PROVE x \in onVE[t]
      <4>1. \E d \in Chain(t, "send") : x \in BytesOf(d)
        BY <3>2, <3>3, Zenon DEF CallInv, CoverInv, Fragments
      <4> QED
        BY <3>4, <4>1, Zenon
    <3> QED
      BY <3>5, Zenon
  <2>5. isLarge(t) => Bytes(0, req[t].size) \subseteq Bytes(0, MaxStack) \cup Bytes(MaxStack, req[t].size)
    BY <2>1 DEF Bytes
  <2> QED
    BY <2>2, <2>3, <2>4, <2>5, Zenon
  \* The replies after a command was executed.
<1>HandledReply.
    ASSUME TransferInv, QueueInv, ChainInv, VEHandle, NEW c, c = Head(chan),
           NEW r, r = [id |-> c, exc |-> FALSE, data |-> replyData(c)]
    PROVE  /\ \A n \in DOMAIN rep' : (n \in DOMAIN rep /\ rep'[n] = rep[n]) \/ rep'[n] = r
           /\ \A n \in DOMAIN rep : n \in DOMAIN rep' /\ rep'[n] = rep[n]
           /\ r.id = c /\ r.data = replyData(c)
           /\ \A d \in Issued : Failed(d) => Failed(d)'
  <2> USE <1>HandledReply
  <2>1. PICK t : t = cmd[c].t
    BY Zenon
  <2>2. /\ t \in App /\ c \in Of(t) /\ cmd[c].op \in {"send", "recv", "call"}
        /\ replyData(c) \subseteq BytesOf(c) /\ rep' = Append(rep, r) /\ UNCHANGED status
    BY <2>1, Handled, Zenon
  <2>3. BytesOf(c) \subseteq Nat /\ c \in Ids
    <3>1. BytesOf(c) \subseteq Bytes(0, req[t].size)
      BY <2>2, BytesInside, Zenon
    <3> QED
      BY <2>2, <3>1, Kept, SMTT(30) DEF Bytes
  <2>4. r \in Reply
    BY <2>2, <2>3, Zenon DEF Reply
  <2>5. /\ \A n \in DOMAIN rep' : (n \in DOMAIN rep /\ rep'[n] = rep[n]) \/ rep'[n] = r
        /\ \A n \in DOMAIN rep : n \in DOMAIN rep' /\ rep'[n] = rep[n]
    BY <2>2, <2>4, RepAppend, SMTT(30) DEF TransferInv
  <2>6. \A d \in Issued : Failed(d) => Failed(d)'
    BY <2>2, <2>5, SMTT(30) DEF Failed
  <2> QED
    BY <2>5, <2>6, Zenon
  \* The calls of other threads, when a command of thread t is executed.
<1>OtherCalls.
    ASSUME TransferInv, QueueInv, ChainInv, ResultInv, CallInv, VEHandle, NEW c, c = Head(chan),
           NEW t \in App, t = cmd[c].t, NEW u \in App, u # t, req[u].op = "call"
    PROVE  BeforeInv(u)' /\ RanInv(u)'
  <2> USE <1>OtherCalls
  <2>1. /\ c \in Of(t) /\ UNCHANGED <<status, cmd, seq_no, req, pc, parts, buffer>>
    BY Handled, Zenon
  <2>2. ran'[u] = ran[u]
    <3>1. ran' = ran \/ \E s : ran' = [ran EXCEPT ![t] = s]
      BY Zenon DEF VEHandle
    <3> QED
      BY <3>1, Zenon DEF TransferInv, TypeOK
  <2>3. /\ UNCHANGED submit_mtx /\ Unseen' = Unseen \ {c} /\ c \in Unseen /\ c \in Issued
    BY QueueVE, Zenon DEF VEHandle, ctxVars
  <2>4. c \notin Of(u)
    BY <2>1, Kept, Zenon
  <2>5. PICK r : r = [id |-> c, exc |-> FALSE, data |-> replyData(c)]
    BY Zenon
  <2>6. /\ \A n \in DOMAIN rep' : (n \in DOMAIN rep /\ rep'[n] = rep[n]) \/ rep'[n] = r
        /\ \A n \in DOMAIN rep : n \in DOMAIN rep' /\ rep'[n] = rep[n]
        /\ r.id = c
        /\ \A d \in Issued : Failed(d) => Failed(d)'
    BY <2>5, <1>HandledReply
  <2>7. \A d \in Issued : Failed(d) => Failed(d)'
    BY <2>6, Zenon
  <2>8. /\ \A o : Chain(u, o)' = Chain(u, o) /\ Chain(u, o) \subseteq Of(u) /\ Of(u) \subseteq Issued
        /\ \A d : BytesOf(d)' = BytesOf(d)
        /\ base(u)' = base(u) /\ (isLarge(u)' <=> isLarge(u))
    BY <2>1, Numbers, Zenon DEF Issued, Chain, Of, BytesOf, base, isLarge
  <2>9. BeforeInv(u) /\ RanInv(u)
    BY Zenon DEF CallInv
  <2>10. BeforeInv(u)'
    <3> SUFFICES ASSUME Chain(u, "call") \subseteq Unseen'
                 PROVE  /\ ran[u] = "no"
                        /\ Chain(u, "call") # {} \/ submit_mtx = u =>
                             \A d \in Chain(u, "send") \ Unseen' : Failed(d)'
      BY <2>2, <2>3, <2>8, Zenon DEF BeforeInv
    <3>1. Chain(u, "call") \subseteq Unseen /\ ran[u] = "no"
      BY <2>3, <2>9, Zenon DEF BeforeInv
    <3>2. ASSUME Chain(u, "call") # {} \/ submit_mtx = u, NEW d \in Chain(u, "send") \ Unseen', ~Failed(d)
          PROVE  FALSE
      <4>1. d \in Of(u) /\ cmd[d].op = "send" /\ d \in Issued /\ d \notin Unseen
        BY <2>3, <2>4, <2>8, <3>2, Zenon DEF Chain
      <4>2. d < c
        BY <2>3, <3>2, <4>1, <1>SeenFirst, Zenon DEF CallInv
      <4>3. isLarge(u)
        BY <4>1, Zenon DEF ChainInv, CommandInv, Suits
      <4>4. submit_mtx = u \/ \E f \in Of(u) : f \in Unseen
        BY <2>8, <3>1, <3>2, Zenon
      <4> QED
        BY <2>4, <4>1, <4>2, <4>3, <4>4, <1>Alone, Zenon
    <3> QED
      BY <2>7, <2>8, <3>1, <3>2, Zenon
  <2>11. RanInv(u)'
    <3> SUFFICES ASSUME ran[u] # "no" PROVE RanInv(u)'
      BY <2>2, Zenon DEF RanInv
    <3>1. Chain(u, "call") # {} /\ \A e \in Chain(u, "call"), f \in Unseen : e < f
      BY <2>9, Zenon DEF RanInv
    <3>2. ASSUME pc[u] = "read" \/ Chain(u, "recv") \cap Unseen' # {} PROVE FALSE
      <4>1. PICK e \in Of(u) : e < c
        BY <2>3, <2>8, <3>1, Zenon
      <4>2. isLarge(u) /\ (submit_mtx = u \/ \E f \in Of(u) : f \in Unseen)
        <5>1. CASE pc[u] = "read"
          BY <5>1, Zenon DEF ChainInv, ThreadInv, PlaceInv
        <5>2. CASE Chain(u, "recv") \cap Unseen' # {}
          <6>1. PICK f \in Of(u) : cmd[f].op = "recv" /\ f \in Unseen
            BY <2>3, <5>2, Zenon DEF Chain
          <6> QED
            BY <6>1, Zenon DEF ChainInv, CommandInv, Suits
        <5> QED
          BY <3>2, <5>1, <5>2, Zenon
      <4> QED
        BY <2>4, <4>1, <4>2, <1>Alone, Zenon
    <3>3. ran[u] = "partial" => /\ isLarge(u) /\ req[u].in
                                /\ parts[u].write = INVALID \/ \E d \in Chain(u, "send") : Failed(d)'
      BY <2>7, <2>8, <2>9, Zenon DEF RanInv
    <3>4. ASSUME NEW d \in Chain(u, "recv"), NEW n \in DOMAIN rep', rep'[n].id = d, ~rep'[n].exc
          PROVE  rep'[n].data = BytesOf(d)
      <4>1. d # c
        BY <2>4, <2>8, Zenon
      <4> QED
        BY <2>6, <2>9, <3>4, <4>1, Zenon DEF RanInv
    <3>5. \A d \in Chain(u, "recv") : status[d] = "OK" => Bytes(base(u), cmd[d].hi) \subseteq buffer[u]
      BY <2>9, Zenon DEF RanInv
    <3> QED
      BY <2>1, <2>2, <2>3, <2>8, <3>1, <3>2, <3>3, <3>4, <3>5, Zenon DEF RanInv
  <2> QED
    BY <2>10, <2>11, Zenon
  \* The call of the thread whose command is executed.
<1>OwnCall.
    ASSUME TransferInv, QueueInv, ChainInv, ResultInv, RangeInv, CallInv, VEHandle, NEW c, c = Head(chan),
           NEW t \in App, t = cmd[c].t, req[t].op = "call"
    PROVE  BeforeInv(t)' /\ RanInv(t)'
  <2> USE <1>OwnCall
  <2>1. /\ c \in Of(t) /\ c \in Issued /\ cmd[c].op \in {"send", "recv", "call"}
        /\ cmd[c].op = "send" => onVE' = stored(t, BytesOf(c))
        /\ cmd[c].op = "call" => onVE' = called(t)
        /\ cmd[c].op = "recv" => onVE' = onVE
        /\ cmd[c].op # "call" => ran' = ran
        /\ UNCHANGED <<status, cmd, seq_no, req, pc, parts, buffer>>
    BY Handled, Zenon
  <2>0. cmd[c].op = "call" =>
          ran'[t] = IF req[t].in /\ stored(t, BytesOf(c))[t] # Bytes(0, req[t].size)
                    THEN "partial" ELSE "full"
    BY Zenon DEF VEHandle, BytesOf, TransferInv, TypeOK
  <2>2. /\ UNCHANGED submit_mtx /\ Unseen' = Unseen \ {c} /\ c \in Unseen
        /\ (\A d \in Unseen' : c < d) /\ \A d \in RepIds : d < c
    BY QueueVE, Zenon DEF VEHandle, ctxVars
  <2>3. PICK r : r = [id |-> c, exc |-> FALSE, data |-> replyData(c)]
    BY Zenon
  <2>4. /\ \A n \in DOMAIN rep' : (n \in DOMAIN rep /\ rep'[n] = rep[n]) \/ rep'[n] = r
        /\ r.id = c /\ r.data = replyData(c)
        /\ \A d \in Issued : Failed(d) => Failed(d)'
    BY <2>3, <1>HandledReply, SMTT(30)
  <2>5. /\ \A o : /\ Chain(t, o)' = Chain(t, o) /\ Chain(t, o) \subseteq Of(t)
                  /\ \A d \in Chain(t, o) : cmd[d].op = o
        /\ Of(t) \subseteq Issued /\ Issued \subseteq Int
        /\ \A d : BytesOf(d)' = BytesOf(d)
        /\ base(t)' = base(t) /\ (isLarge(t)' <=> isLarge(t))
    BY <2>1, Numbers, Zenon DEF Issued, Chain, Of, BytesOf, base, isLarge
  <2>6. BeforeInv(t) /\ RanInv(t)
    BY Zenon DEF CallInv
  <2>7. \A d, e \in Of(t) : d < e => cmd[d].op \in Earlier(cmd[e].op)
    BY Zenon DEF ChainInv, CommandInv
  <2>8. BeforeInv(t)'
    <3> SUFFICES ASSUME Chain(t, "call") \subseteq Unseen'
                 PROVE  /\ ran'[t] = "no"
                        /\ Chain(t, "call") # {} \/ submit_mtx = t =>
                             \A d \in Chain(t, "send") \ Unseen' : Failed(d)' \/ BytesOf(d) \subseteq onVE'[t]
      BY <2>2, <2>5, SMTT(30) DEF BeforeInv
    <3>1. cmd[c].op # "call"
      BY <2>1, <2>2, Zenon DEF Chain
    <3>2. Chain(t, "call") \subseteq Unseen /\ ran'[t] = "no"
      BY <2>1, <2>2, <2>6, <3>1, Zenon DEF BeforeInv
    <3>3. onVE[t] \subseteq onVE'[t] /\ (cmd[c].op = "send" => BytesOf(c) \subseteq onVE'[t])
      BY <2>1, <3>1, Zenon DEF stored
    <3>4. ASSUME Chain(t, "call") # {} \/ submit_mtx = t, NEW d \in Chain(t, "send") \ Unseen', ~Failed(d)'
          PROVE  BytesOf(d) \subseteq onVE'[t]
      <4>1. CASE d = c
        BY <2>5, <3>3, <3>4, <4>1, Zenon
      <4>2. CASE d # c
        <5>1. d \notin Unseen /\ d \in Issued /\ d \in Chain(t, "send")
          BY <2>2, <2>5, <3>4, <4>2, Zenon
        <5>2. Failed(d) \/ BytesOf(d) \subseteq onVE[t]
          BY <2>6, <3>2, <3>4, <5>1, Zenon DEF BeforeInv
        <5> QED
          BY <2>4, <3>3, <3>4, <5>1, <5>2, Zenon
      <4> QED
        BY <4>1, <4>2, Zenon
    <3> QED
      BY <3>2, <3>4, Zenon
  <2>9. ASSUME cmd[c].op = "call" PROVE RanInv(t)'
    <3>1. c \in Chain(t, "call") /\ \A e \in Chain(t, "call") : e = c
      <4>1. c \in Chain(t, "call")
        BY <2>1, <2>9, Zenon DEF Chain
      <4> QED
        BY <4>1, <1>OneCall, ZenonT(60)
    <3>2. onVE'[t] = Bytes(0, req[t].size)
      BY <2>1, <2>9, Zenon DEF called
    <3>3. ASSUME ran'[t] = "partial"
          PROVE  /\ isLarge(t) /\ req[t].in
                 /\ parts[t].write = INVALID \/ \E d \in Chain(t, "send") : Failed(d)'
      <4>1. req[t].in /\ onVE[t] \cup BytesOf(c) # Bytes(0, req[t].size)
        BY <2>0, <2>9, <3>3, Zenon DEF stored
      <4>2. ~(isLarge(t) => parts[t].write # INVALID /\ \A d \in Chain(t, "send") : ~Failed(d))
        BY <2>1, <2>9, <4>1, <1>WholeImage, Zenon
      <4> QED
        BY <2>4, <2>5, <4>1, <4>2, Zenon
    <3>4. ASSUME NEW d \in Chain(t, "recv")
          PROVE  status[d] # "OK" /\ \A n \in DOMAIN rep' : rep'[n].id # d
      <4>1. d \in Of(t) /\ cmd[d].op = "recv" /\ d \in Int /\ c \in Int /\ d \in Issued
        BY <2>1, <2>5, Zenon
      <4>2. ~(d < c) /\ d # c
        BY <2>1, <2>7, <2>9, <4>1, Zenon DEF Earlier
      <4>3. status[d] # "OK"
        BY <2>2, <4>1, <4>2, Zenon DEF CallInv, SeenInv
      <4>4. d \notin RepIds
        BY <2>2, <4>2, Zenon
      <4> QED
        BY <2>4, <4>2, <4>3, <4>4, Zenon DEF RepIds
    <3> QED
      <4>1. Chain(t, "call")' # {} /\ \A e \in Chain(t, "call")', f \in Unseen' : e < f
        <5>1. Chain(t, "call")' = Chain(t, "call")
          BY <2>5, Zenon
        <5>2. Chain(t, "call")' # {} /\ \A e \in Chain(t, "call")' : e = c
          BY <3>1, <5>1, Zenon
        <5> QED
          BY <2>2, <5>2, Zenon
      <4>2. ran'[t] = "partial" =>
              /\ isLarge(t)' /\ req'[t].in
              /\ parts'[t].write = INVALID \/ \E d \in Chain(t, "send")' : Failed(d)'
        BY <2>1, <2>5, <3>3, Zenon
      <4>3. onVE'[t] = Bytes(0, req'[t].size)
        BY <2>1, <3>2, Zenon
      <4>4. \A d \in Chain(t, "recv")' : status'[d] # "OK" /\ \A n \in DOMAIN rep' : rep'[n].id # d
        BY <2>1, <2>5, <3>4, ZenonT(60)
      <4> QED
        BY <4>1, <4>2, <4>3, <4>4, Zenon DEF RanInv
  <2>10. ASSUME cmd[c].op # "call" PROVE RanInv(t)'
    <3> SUFFICES ASSUME ran[t] # "no" PROVE RanInv(t)'
      BY <2>1, <2>10, Zenon DEF RanInv
    <3>1. Chain(t, "call") # {} /\ \A e \in Chain(t, "call"), f \in Unseen : e < f
      BY <2>6, Zenon DEF RanInv
    <3>2. cmd[c].op = "recv" /\ c \in Chain(t, "recv")
      <4>1. PICK e \in Chain(t, "call") : e < c
        BY <2>2, <3>1, Zenon
      <4>2. e \in Of(t) /\ cmd[e].op = "call"
        BY <2>5, Zenon
      <4>3. "call" \in Earlier(cmd[c].op)
        BY <2>1, <2>7, <4>1, <4>2, Zenon
      <4> QED
        BY <2>1, <2>10, <4>3, Zenon DEF Earlier, Chain
    <3>3. onVE'[t] = onVE[t] /\ ran'[t] = ran[t] /\ onVE[t] = Bytes(0, req[t].size)
      BY <2>1, <2>2, <2>6, <3>2, Zenon DEF RanInv
    <3>4. ran[t] = "partial" => /\ isLarge(t) /\ req[t].in
                                /\ parts[t].write = INVALID \/ \E d \in Chain(t, "send") : Failed(d)'
      BY <2>4, <2>5, <2>6, Zenon DEF RanInv
    <3>5. r.data = BytesOf(c)
      <4>1. replyData(c) = BytesOf(c) \cap onVE[t]
        BY <3>2, Handled, Zenon
      <4>2. BytesOf(c) \subseteq Bytes(0, req[t].size)
        BY <2>1, <3>2, BytesInside, Zenon
      <4> QED
        BY <2>4, <3>3, <4>1, <4>2, Zenon
    <3>6. ASSUME NEW d \in Chain(t, "recv"), NEW n \in DOMAIN rep', rep'[n].id = d, ~rep'[n].exc
          PROVE  rep'[n].data = BytesOf(d)
      BY <2>4, <2>6, <3>5, <3>6, Zenon DEF RanInv
    <3>7. \A d \in Chain(t, "recv") : status[d] = "OK" => Bytes(base(t), cmd[d].hi) \subseteq buffer[t]
      BY <2>6, Zenon DEF RanInv
    <3>8. \A e \in Chain(t, "call"), f \in Unseen' : e < f
      BY <2>2, <3>1, Zenon
    <3> QED
      <4>1. Chain(t, "call")' # {} /\ \A e \in Chain(t, "call")', f \in Unseen' : e < f
        BY <2>5, <3>1, <3>8, Zenon
      <4>2. ran'[t] = "partial" =>
              /\ isLarge(t)' /\ req'[t].in
              /\ parts'[t].write = INVALID \/ \E d \in Chain(t, "send")' : Failed(d)'
        BY <2>1, <2>5, <3>3, <3>4, Zenon
      <4>3. onVE'[t] = Bytes(0, req'[t].size)
        BY <2>1, <3>3, Zenon
      <4>4. ASSUME NEW d \in Chain(t, "recv")'
            PROVE  /\ \A n \in DOMAIN rep' : rep'[n].id = d /\ ~rep'[n].exc => rep'[n].data = BytesOf(d)'
                   /\ status'[d] = "OK" => Bytes(base(t)', cmd'[d].hi) \subseteq buffer'[t]
        <5>1. d \in Chain(t, "recv") /\ BytesOf(d)' = BytesOf(d) /\ base(t)' = base(t)
          BY <2>5, <4>4, Zenon
        <5>2. cmd' = cmd /\ status' = status /\ buffer' = buffer
          BY <2>1, Zenon
        <5>3. status'[d] = "OK" => Bytes(base(t)', cmd'[d].hi) \subseteq buffer'[t]
          BY <3>7, <5>1, <5>2, Zenon
        <5> QED
          BY <3>6, <5>1, <5>3, Zenon
      <4> QED
        BY <4>1, <4>2, <4>3, <4>4, Zenon DEF RanInv
  <2> QED
    BY <2>8, <2>9, <2>10, Zenon
<1>1. PICK c : c = Head(chan)
  BY Zenon
<1>2. PICK t : t = cmd[c].t
  BY Zenon
<1>3. PICK r : r = [id |-> c, exc |-> FALSE, data |-> replyData(c)]
  BY Zenon
<1>4. /\ t \in App /\ c \in Of(t) /\ c \in Issued
      /\ cmd[c].op = "call" => replyData(c) = IF req[t].out THEN BytesOf(c) ELSE {}
      /\ UNCHANGED <<status, cmd, seq_no, req, pc, parts, buffer, outArgs>>
  BY <1>1, <1>2, Handled, Zenon
<1>5. /\ \A n \in DOMAIN rep' : (n \in DOMAIN rep /\ rep'[n] = rep[n]) \/ rep'[n] = r
      /\ r.id = c /\ r.data = replyData(c)
  BY <1>1, <1>3, <1>HandledReply, SMTT(30)
<1>6. Unseen' \subseteq Unseen
  BY QueueVE, Zenon
<1>7. /\ Issued' = Issued /\ (\A u, o : Chain(u, o)' = Chain(u, o)) /\ (\A u : Of(u)' = Of(u))
      /\ \A d : BytesOf(d)' = BytesOf(d)
      /\ \A u \in App : base(u)' = base(u) /\ (isLarge(u)' <=> isLarge(u))
  BY <1>4, Zenon DEF Issued, Chain, Of, BytesOf, base, isLarge
<1>8. CoverInv'
  <2>1. ASSUME NEW u \in App, NEW d \in Of(u), cmd[d].op \in Fragments, NEW x \in Bytes(base(u), cmd[d].hi)
        PROVE  \E e \in Chain(u, cmd[d].op) : e <= d /\ x \in BytesOf(e)'
    BY <1>7, <2>1, Zenon DEF CallInv, CoverInv
  <2> QED
    BY <1>4, <1>7, <2>1, Zenon DEF CoverInv, Chain
<1>9. SeenInv'
  BY <1>4, <1>6, <1>7, Zenon DEF CallInv, SeenInv
<1>10. \A u \in App : /\ ran[u] # "no" => ran'[u] # "no"
                      /\ u = t /\ cmd[c].op = "call" => ran'[u] # "no"
  <2>1. /\ cmd[c].op # "call" => ran' = ran
        /\ cmd[c].op = "call" => \E s \in {"partial", "full"} : ran' = [ran EXCEPT ![t] = s]
    BY <1>1, <1>2, Zenon DEF VEHandle
  <2> QED
    BY <2>1, Zenon DEF TransferInv, TypeOK
<1>11. ASSUME NEW u \in App, req[u].op = "call" PROVE CallOf(u)'
  <2>1. CalledInv(u) /\ ImageInv(u)
    BY <1>11, Zenon DEF CallInv
  <2>2. BeforeInv(u)' /\ RanInv(u)'
    BY <1>1, <1>2, <1>4, <1>11, <1>OtherCalls, <1>OwnCall, Zenon
  <2>3. CalledInv(u)'
    <3>1. ASSUME NEW d \in Chain(u, "call"), NEW n \in DOMAIN rep', rep'[n].id = d, ~rep'[n].exc
          PROVE  ran'[u] # "no" /\ (req[u].out => rep'[n].data = BytesOf(d))
      <4>1. CASE n \in DOMAIN rep /\ rep'[n] = rep[n]
        BY <1>10, <2>1, <3>1, <4>1, Zenon DEF CalledInv
      <4>2. CASE rep'[n] = r
        <5>1. d = c /\ u = t /\ cmd[c].op = "call"
          BY <1>2, <1>5, <3>1, <4>2, Zenon DEF Chain, Of
        <5> QED
          BY <1>4, <1>5, <1>10, <4>2, <5>1, Zenon
      <4> QED
        BY <1>5, <4>1, <4>2, Zenon
    <3>2. \A d \in Chain(u, "call") : status[d] = "OK" =>
            /\ ran'[u] # "no"
            /\ req[u].out => IF isLarge(u) THEN BytesOf(d) \subseteq buffer[u] ELSE outArgs[u] = BytesOf(d)
      BY <1>10, <2>1, Zenon DEF CalledInv
    <3> QED
      BY <1>4, <1>7, <3>1, <3>2, Zenon DEF CalledInv
  <2>4. ImageInv(u)'
    BY <1>4, <1>7, <2>1, Zenon DEF ImageInv, Submitted
  <2> QED
    BY <2>2, <2>3, <2>4, Zenon DEF CallOf
<1> QED
  BY <1>4, <1>8, <1>9, <1>11, Zenon DEF CallInv, CallOf

-----------------------------------------------------------------------------
LEMMA CallInit == Init => CallInv
<1> SUFFICES ASSUME Init PROVE CallInv
  BY Zenon
<1>1. /\ ran = [t \in App |-> "no"] /\ seq_no = 0
  BY Zenon DEF Init
<1>2. Issued = {} /\ (\A t \in App : Of(t) = {}) /\ \A t \in App : \A o : Chain(t, o) = {}
  BY <1>1 DEF Issued, Of, Chain
<1> QED
  BY <1>1, <1>2, Zenon DEF CallInv, CoverInv, SeenInv, BeforeInv, RanInv, CalledInv, ImageInv

\* CallInv is preserved by every step.
LEMMA CallNext == ChainsInv /\ DataInv /\ CallInv /\ [Next]_vars => CallInv'
<1> SUFFICES ASSUME ChainsInv, DataInv, CallInv, [Next]_vars PROVE CallInv'
  BY Zenon
<1>1. TransferInv /\ QueueInv /\ ChainInv /\ ResultInv /\ RangeInv
  BY Zenon DEF ChainsInv, DataInv
<1>2. ASSUME NEW t \in App, Submits(t) PROVE CallInv'
  <2>1. TransferInv' /\ ChainInv'
    BY ChainsNext, Zenon DEF ChainsInv
  <2>2. PICK K : Grows(t, K)
    BY <1>1, <1>2, SubmitsStep, Zenon
  <2> QED
    BY <1>1, <1>2, <2>1, <2>2, CallSubmits, Zenon
<1>3. CASE \/ \E t \in App : Wait(t)
           \/ SubmitVE \/ CancelAll \/ IdleRound \/ ProgressExit \/ VEKilled
           \/ UNCHANGED vars
  BY <1>1, <1>3, CallStill, Zenon
<1>4. CASE SubmitVH
  BY <1>1, <1>4, CallSubmitVH, Zenon
<1>5. CASE Recv
  BY <1>1, <1>5, CallRecv, Zenon
<1>6. CASE VEHandle
  BY <1>1, <1>6, CallHandle, Zenon
<1>7. CASE VEException
  BY <1>1, <1>7, CallException, Zenon
<1> QED
  BY <1>2, <1>3, <1>4, <1>5, <1>6, <1>7, Zenon DEF Next, RequestStep, Submits, Drive

\* SubmittedCallComplete: a call all of whose parts were submitted and whose
\* wait returned OK ran on its whole stack image, and its OUT arguments hold
\* all that the function left there.
THEOREM CallsAlwaysComplete == Spec => []SubmittedCallComplete
<1>1. ChainsInv /\ DataInv /\ CallInv => SubmittedCallComplete
  <2> SUFFICES ASSUME ChainsInv, DataInv, CallInv, NEW t \in App, Succeeded(t), req[t].op = "call",
                      Submitted(t)
               PROVE  /\ ran[t] = "full"
                      /\ req[t].out => outArgs[t] = Bytes(0, req[t].size)
    BY Zenon DEF SubmittedCallComplete
  <2>1. TransferInv /\ QueueInv /\ ChainInv /\ ResultInv /\ RanInv(t) /\ CalledInv(t) /\ ImageInv(t)
    BY Zenon DEF ChainsInv, CallInv
  <2>2. \A c \in Of(t) : status[c] = "OK"
    BY AllGood, Zenon
  <2>3. PICK r \in Of(t) : IF isLarge(t) THEN cmd[r].op = "finish" ELSE cmd[r].op = "call"
    BY <2>1, Zenon DEF Succeeded, ChainInv, ThreadInv, RetInv
  <2>4. ran[t] # "no"
    <3>1. \E e : e \in Chain(t, "call") /\ e \in Of(t)
      <4>1. CASE isLarge(t)
        BY <2>1, <4>1, Zenon DEF Submitted, ChainInv, ThreadInv, PartsInv, Chain
      <4>2. CASE ~isLarge(t)
        BY <2>3, <4>2, Zenon DEF Chain
      <4> QED
        BY <4>1, <4>2, Zenon
    <3> QED
      BY <2>1, <2>2, <3>1, Zenon DEF CalledInv
  <2>5. ran[t] # "partial"
    <3>1. ASSUME NEW d \in Chain(t, "send"), Failed(d) PROVE FALSE
      <4>1. status[d] = "OK" /\ d \in Issued /\ d \in Ids
        BY <2>1, <2>2, Numbers, Zenon DEF Chain
      <4>2. d \in RepIds
        BY <3>1, <4>1, Zenon DEF Failed, RepIds
      <4>3. d \in Pending
        BY <2>1, <4>2, SMTT(30) DEF QueueInv, Pending, Over, RepIds
      <4> QED
        BY <2>1, <4>1, <4>3, Zenon DEF ResultInv, DoneInv
    <3> QED
      BY <2>1, <3>1, Zenon DEF RanInv, Submitted
  <2>6. ran[t] = "full"
    BY <2>1, <2>4, <2>5, Zenon DEF TransferInv, TypeOK
  <2>7. ASSUME req[t].out PROVE outArgs[t] = Bytes(0, req[t].size)
    <3>1. CASE isLarge(t)
      <4>1. r \in Chain(t, "finish")
        BY <2>3, <3>1, Zenon DEF Chain
      <4> QED
        BY <2>1, <2>2, <2>7, <4>1, Zenon DEF ImageInv
    <3>2. CASE ~isLarge(t)
      <4>1. r \in Chain(t, "call")
        BY <2>3, <3>2, Zenon DEF Chain
      <4>2. outArgs[t] = BytesOf(r)
        BY <2>1, <2>2, <2>7, <3>2, <4>1, Zenon DEF CalledInv
      <4>3. Suits(cmd[r], t) /\ cmd[r].op = "call"
        BY <2>1, <2>3, <3>2, Zenon DEF ChainInv, CommandInv
      <4> QED
        BY <3>2, <4>2, <4>3, Zenon DEF Suits, BytesOf
    <3> QED
      BY <3>1, <3>2, Zenon
  <2> QED
    BY <2>6, <2>7, Zenon
<1>2. Init => ChainsInv /\ DataInv /\ CallInv
  BY ChainsInit, DataInit, CallInit, Zenon
<1>3. ChainsInv /\ DataInv /\ CallInv /\ [Next]_vars => (ChainsInv /\ DataInv /\ CallInv)'
  BY ChainsNext, DataNext, CallNext, Zenon
<1> QED
  BY <1>1, <1>2, <1>3, PTL DEF Spec
=============================================================================
