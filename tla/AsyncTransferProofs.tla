------------------------ MODULE AsyncTransferProofs -------------------------
(***************************************************************************)
(* Theorems about AsyncTransfer, for every size of a transfer and of the   *)
(* buffers that SizeAssumption admits, and any number of threads.          *)
(*                                                                         *)
(* First the loop over the fragments of a transfer: each fragment makes    *)
(* progress and fits into one URPC command (TransferInv).  Then two of the *)
(* layers on which AsyncTransferResults and AsyncTransferCalls build, both *)
(* defined in AsyncTransferInv: the queues and rings hold the commands in  *)
(* the order of their IDs (QueueInv), and the commands of one request form *)
(* chains that the loop extends at their ends (ChainInv).                  *)
(***************************************************************************)
EXTENDS AsyncTransferInv, TLAPS

\* ALIGN8B() rounds up, by less than the alignment.
LEMMA AlignBounds ==
  ASSUME NEW n \in Nat
  PROVE  ALIGN8B(n) \in n .. (n + Align - 1)
<1> DEFINE q == (n + Align - 1) \div Align
<1>1. Align \in Nat \ {0}
  BY SizeAssumption, Zenon
<1>2. q \in Int
  BY <1>1
<1>3. Align * q <= n + Align - 1 /\ n + Align - 1 < Align * q + Align
  BY <1>1
<1>4. Align * q \in Int
  BY <1>1, <1>2
<1> QED
  BY <1>1, <1>3, <1>4 DEF ALIGN8B

\* The fragment size of asyncWriteMem() and asyncReadMem() is never zero and
\* never larger than a URPC command, for any size of the transfer.
LEMMA MaxfragBounds ==
  ASSUME NEW dir, NEW size \in Nat \ {0}
  PROVE  maxfrag(dir, size) \in 1 .. MaxCmd
<1> DEFINE d == defaultFrag
<1>1. /\ PartSend \in Nat \ {0} /\ PartSmall \in Nat \ {0} /\ CutSize \in Nat
      /\ Align \in Nat \ {0} /\ MaxCmd \in Nat \ {0}
      /\ 2 * Align <= PartSmall /\ PartSmall <= PartSend
      /\ 6 <= CutSize /\ CutSize <= 2 * PartSmall /\ 2 * PartSmall <= MaxCmd
  BY SizeAssumption
<1>2. d \in Nat \ {0} /\ PartSmall <= d /\ 2 * d <= MaxCmd
  BY <1>1 DEF defaultFrag
<1>3. ASSUME NEW n \in Nat \ {0}, 4 * n < 5 * d
      PROVE  ALIGN8B(n) \in 1 .. MaxCmd
  <2>1. ALIGN8B(n) \in n .. (n + Align - 1)
    BY AlignBounds, Zenon
  <2>2. 4 * (n + Align - 1) <= 4 * MaxCmd
    BY <1>1, <1>2, <1>3
  <2> QED
    BY <1>1, <2>1, <2>2
<1>4. CASE size >= 5 * d
  BY <1>1, <1>2, <1>4 DEF maxfrag, writeFrag, readFrag
<1>5. CASE size < 5 * d /\ size > CutSize
  <2>1. size \div 4 \in Nat \ {0} /\ 4 * (size \div 4) < 5 * d
    BY <1>1, <1>2, <1>5
  <2>2. size \div 5 \in Nat \ {0} /\ 4 * (size \div 5) < 5 * d
    BY <1>1, <1>2, <1>5
  <2>3. ALIGN8B(size \div 4) \in 1 .. MaxCmd /\ ALIGN8B(size \div 5) \in 1 .. MaxCmd
    BY <1>3, <2>1, <2>2, Zenon
  <2> QED
    BY <1>1, <1>2, <1>5, <2>3 DEF maxfrag, writeFrag, readFrag
<1>6. CASE size < 5 * d /\ ~(size > CutSize) /\ size > CutSize \div 2
  <2>1. size \div 3 \in Nat \ {0} /\ 4 * (size \div 3) < 5 * d
    BY <1>1, <1>2, <1>6
  <2>2. size \div 4 \in Nat \ {0} /\ 4 * (size \div 4) < 5 * d
    BY <1>1, <1>2, <1>6
  <2>3. ALIGN8B(size \div 3) \in 1 .. MaxCmd /\ ALIGN8B(size \div 4) \in 1 .. MaxCmd
    BY <1>3, <2>1, <2>2, Zenon
  <2> QED
    BY <1>1, <1>2, <1>6, <2>3 DEF maxfrag, writeFrag, readFrag
<1>7. CASE /\ size < 5 * d /\ ~(size > CutSize) /\ ~(size > CutSize \div 2)
           /\ size > CutSize \div 3
  <2>1. size \div 2 \in Nat \ {0} /\ 4 * (size \div 2) < 5 * d
    BY <1>1, <1>2, <1>7
  <2>2. ALIGN8B(size \div 2) \in 1 .. MaxCmd
    BY <1>3, <2>1, Zenon
  <2> QED
    BY <1>1, <1>2, <1>7, <2>2 DEF maxfrag, writeFrag, readFrag
<1>8. CASE /\ size < 5 * d /\ ~(size > CutSize) /\ ~(size > CutSize \div 2)
           /\ ~(size > CutSize \div 3)
  <2>1. 4 * size < 5 * d
    BY <1>1, <1>2, <1>8
  <2>2. ALIGN8B(size) \in 1 .. MaxCmd
    BY <1>3, <2>1, Zenon
  <2> QED
    BY <1>1, <1>2, <1>8, <2>2 DEF maxfrag, writeFrag, readFrag
<1> QED
  BY <1>1, <1>2, <1>4, <1>5, <1>6, <1>7, <1>8

\* One iteration of the loop transfers something, no more than is left, and no
\* more than fits.
LEMMA FragmentBounds ==
  ASSUME NEW dir, NEW size \in Nat \ {0}, NEW left \in 1 .. size
  PROVE  /\ fragment(dir, size, left) \in 1 .. left
         /\ fragment(dir, size, left) \in 1 .. MaxCmd
<1>1. maxfrag(dir, size) \in 1 .. MaxCmd
  BY MaxfragBounds, Zenon
<1>2. MaxCmd \in Nat
  BY SizeAssumption, Zenon
<1> QED
  BY <1>1, <1>2 DEF fragment

-----------------------------------------------------------------------------
\* What the requests of the threads give the loop: base and total are sizes.
LEMMA Totals ==
  ASSUME TypeOK, NEW t \in App
  PROVE  /\ base(t) \in Nat /\ total(t) \in Int /\ req[t].size = base(t) + total(t)
         /\ isLarge(t) => total(t) \in Nat \ {0}
         /\ req[t].op # "call" => total(t) = req[t].size
<1>1. req[t].size \in Nat /\ MaxStack \in Nat
  BY TransferAssumption, Zenon DEF TypeOK, RequestType
<1>2. base(t) \in Nat /\ (req[t].op # "call" => base(t) = 0)
  BY <1>1, Zenon DEF base
<1>3. total(t) = req[t].size - base(t)
  BY Zenon DEF total
<1>4. isLarge(t) => base(t) = MaxStack /\ req[t].size > MaxStack
  BY Zenon DEF isLarge, base
<1> HIDE DEF total, base, isLarge
<1> QED
  BY <1>1, <1>2, <1>3, <1>4

\* The initial states satisfy the invariant.
LEMMA TransferInit == Init => TransferInv
<1> SUFFICES ASSUME Init PROVE TransferInv
  BY Zenon
<1>1. INVALID \notin Ids /\ seq_no = 0
  BY DEF Init, INVALID, Ids
<1>2. CommQueueType
  <2>1. request \in Seq(Ids) /\ status \in [Ids -> Statuses]
    BY DEF Init, CommQueueInit, Statuses
  <2> QED
    BY <2>1, Zenon DEF Init, CommQueueInit, CommQueueType
<1>3. /\ state \in {"RUNNING", "EXIT"} /\ rem_reqid \subseteq Ids
      /\ submit_mtx \in App \cup {None} /\ driver \in {"running", "cancelling", "exited"}
      /\ child \in {"alive", "exited", "killed"} /\ seq_no \in 0 .. NReq
  BY NReqAssumption DEF Init
<1>4. cmd \in [Ids -> CmdType]
  BY Zenon DEF Init, CmdType, Ops
<1>5. chan \in Seq(Ids) /\ rep \in Seq([id : Ids, exc : BOOLEAN, data : SUBSET Nat])
  BY DEF Init
<1>6. req \in [App -> RequestType] /\ pc \in [App -> Pcs]
  BY TransferAssumption, Zenon DEF Init, Pcs
<1>7. parts \in [App -> PartIds]
  BY Zenon DEF Init, PartIds, NoParts
<1>8. /\ rsize \in [App -> Nat] /\ prev \in [App -> Ids \cup {INVALID}]
      /\ ret \in [App -> Ids \cup {INVALID}] /\ outcome \in [App -> Statuses]
      /\ onVE \in [App -> SUBSET Nat] /\ buffer \in [App -> SUBSET Nat]
      /\ ran \in [App -> {"no", "partial", "full"}]
      /\ outArgs \in [App -> SUBSET Nat] /\ deletes \in [App -> Nat]
  BY Zenon DEF Init, Statuses
<1>9. TypeOK
  BY <1>2, <1>3, <1>4, <1>5, <1>6, <1>7, <1>8, Zenon DEF TypeOK
<1>10. LoopInv
  BY Zenon DEF Init, LoopInv
<1>11. FragmentsFit
  BY <1>1 DEF FragmentsFit, Ids
<1> QED
  BY <1>9, <1>10, <1>11, Zenon DEF TransferInv

-----------------------------------------------------------------------------

\* The shape of a request never changes, so neither do the sizes of its loop.
LEMMA SameTotals ==
  ASSUME UNCHANGED req, NEW t \in App
  PROVE  total(t)' = total(t) /\ (isLarge(t)' <=> isLarge(t)) /\ base(t)' = base(t)
  BY Zenon DEF total, base, isLarge

-----------------------------------------------------------------------------
\* What the commands are made of.
LEMMA CommandType ==
  ASSUME NEW o \in Ops, NEW t \in App, NEW lo \in Nat, NEW hi \in Nat,
         NEW p \in Ids \cup {INVALID}
  PROVE  command(o, t, lo, hi, p) \in CmdType
  BY Zenon DEF command, CmdType

\* A thread in the loop has a positive total and a positive rest.
LEMMA InLoop ==
  ASSUME TransferInv, NEW t \in App, pc[t] \in {"write", "read"}
  PROVE  /\ total(t) \in Nat \ {0} /\ rsize[t] \in 1 .. total(t)
         /\ rsize[t] \in Nat /\ req[t].size - rsize[t] \in Nat
<1>1. TypeOK /\ rsize[t] \in 1 .. total(t)
  BY Zenon DEF TransferInv, LoopInv
<1>2. base(t) \in Nat /\ total(t) \in Int /\ req[t].size = base(t) + total(t)
  BY <1>1, Totals, Zenon
<1>3. rsize[t] \in Nat
  BY <1>1, Zenon DEF TypeOK
<1> QED
  BY <1>1, <1>2, <1>3

-----------------------------------------------------------------------------
\* Every step keeps the invariant.
LEMMA TransferNext == TransferInv /\ [Next]_vars => TransferInv'
  \* Issuing an ID and queueing the command keeps the types, and the fragments
  \* fit if the new one does.
<1>SubmitStep.
    ASSUME TypeOK, FragmentsFit, seq_no < NReq, NEW c \in CmdType, submit(c),
           c.op \in {"send", "recv"} => c.hi - c.lo \in 1 .. MaxCmd
    PROVE  /\ seq_no \in Ids /\ seq_no' \in 0 .. NReq /\ rem_reqid' \subseteq Ids
           /\ cmd' \in [Ids -> CmdType] /\ request' \in Seq(Ids) /\ FragmentsFit'
  <2> USE <1>SubmitStep
  <2>1. seq_no \in Nat /\ NReq \in Nat /\ seq_no \in Ids
    BY NReqAssumption DEF TypeOK, Ids
  <2>2. seq_no' \in 0 .. NReq /\ rem_reqid' \subseteq Ids
    BY <2>1 DEF TypeOK, submit
  <2>3. cmd' \in [Ids -> CmdType] /\ request' \in Seq(Ids)
    BY <2>1 DEF TypeOK, CommQueueType, submit, pushRequest
  <2>4. FragmentsFit'
    <3> SUFFICES ASSUME NEW i \in Ids, i < seq_no', cmd'[i].op \in {"send", "recv"}
                 PROVE  cmd'[i].hi - cmd'[i].lo \in 1 .. MaxCmd
      BY Zenon DEF FragmentsFit
    <3>1. CASE i = seq_no
      <4>1. cmd'[i] = c
        BY <2>1, <3>1, Zenon DEF TypeOK, submit
      <4> QED
        BY <4>1, Zenon
    <3>2. CASE i # seq_no
      <4>1. cmd'[i] = cmd[i] /\ seq_no' = seq_no + 1
        BY <2>1, <3>2, Zenon DEF TypeOK, submit
      <4>2. i < seq_no
        BY <2>1, <3>2, <4>1 DEF Ids
      <4> QED
        BY <4>1, <4>2, Zenon DEF FragmentsFit
    <3> QED
      BY <3>1, <3>2, Zenon
  <2> QED
    BY <2>1, <2>2, <2>3, <2>4, Zenon
  \* LoopInv is about pc and rsize alone; a step of the drivers or of the VE
  \* leaves it and, with no new command, FragmentsFit alone.
<1>OtherSteps.
    ASSUME TransferInv, UNCHANGED <<req, pc, rsize, seq_no, cmd>>
    PROVE  LoopInv' /\ FragmentsFit'
  <2> USE <1>OtherSteps
  <2>1. \A t \in App : total(t)' = total(t) /\ (isLarge(t)' <=> isLarge(t))
    BY SameTotals, Zenon
  <2>2. LoopInv'
    BY <2>1, Zenon DEF TransferInv, LoopInv
  <2>3. FragmentsFit'
    BY Zenon DEF TransferInv, FragmentsFit
  <2> QED
    BY <2>2, <2>3, Zenon
  \* A step of thread t that changes no other thread's program counter or loop
  \* keeps LoopInv if it does so for t.
<1>LoopOfOne.
    ASSUME TransferInv, UNCHANGED req, NEW t \in App,
           \A u \in App \ {t} : pc'[u] = pc[u] /\ rsize'[u] = rsize[u],
           pc'[t] \in {"write", "read"} \/ (pc'[t] = "call" /\ isLarge(t)) =>
             rsize'[t] \in 1 .. total(t)
    PROVE  LoopInv'
  <2> USE <1>LoopOfOne
  <2>1. \A u \in App : total(u)' = total(u) /\ (isLarge(u)' <=> isLarge(u))
    BY SameTotals, Zenon
  <2> QED
    BY <2>1, Zenon DEF TransferInv, LoopInv
  \* Start(t) keeps the invariant.
<1>StartStep.
    ASSUME TransferInv, NEW t \in App, Start(t)
    PROVE  TransferInv'
  <2> USE <1>StartStep
  <2>1. TypeOK /\ LoopInv /\ FragmentsFit
    BY Zenon DEF TransferInv
  <2>2. UNCHANGED <<driver, chan, rep, child, req, outcome, onVE, ran, buffer, outArgs, deletes>>
    BY Zenon DEF Start, veVars, dataVars
  <2>3. CASE ~is_alive
    <3>1. /\ UNCHANGED <<request, inflight, completion, status, terminateFlag>>
          /\ UNCHANGED <<state, seq_no, rem_reqid, submit_mtx, cmd, rsize, prev, parts, ret>>
          /\ pc' = [pc EXCEPT ![t] = "failed"]
      BY <2>3, Zenon DEF Start, comqVars, ctxVars, loopVars
    <3>2. pc' \in [App -> Pcs]
      BY <2>1, <3>1, Zenon DEF TypeOK, Pcs
    <3>3. TypeOK'
      BY <2>1, <2>2, <3>1, <3>2, Zenon DEF TypeOK, CommQueueType
    <3>4. LoopInv'
      BY <2>1, <2>2, <3>1, <1>LoopOfOne, Zenon DEF TypeOK
    <3>5. FragmentsFit'
      BY <2>1, <3>1, Zenon DEF FragmentsFit
    <3> QED
      BY <3>3, <3>4, <3>5, Zenon DEF TransferInv
  <2>4. CASE is_alive /\ req[t].op # "call" /\ req[t].size = 0
    <3> DEFINE c == command("empty", t, 0, 0, INVALID)
    <3>1. /\ seq_no < NReq /\ submit(c)
          /\ UNCHANGED <<inflight, completion, status, terminateFlag, state, submit_mtx>>
          /\ UNCHANGED <<rsize, prev, parts>>
          /\ ret' = [ret EXCEPT ![t] = seq_no]
          /\ pc' = [pc EXCEPT ![t] = "wait"]
      BY <2>4, Zenon DEF Start, canSubmit, loopVars
    <3>2. c \in CmdType /\ c.op = "empty"
      BY CommandType, Zenon DEF Ops, command
    <3> HIDE DEF c
    <3>3. /\ seq_no \in Ids /\ seq_no' \in 0 .. NReq /\ rem_reqid' \subseteq Ids
          /\ cmd' \in [Ids -> CmdType] /\ request' \in Seq(Ids) /\ FragmentsFit'
      BY <2>1, <3>1, <3>2, <1>SubmitStep, Zenon
    <3>4. pc' \in [App -> Pcs] /\ ret' \in [App -> Ids \cup {INVALID}]
      BY <2>1, <3>1, <3>3, Zenon DEF TypeOK, Pcs
    <3>5. TypeOK'
      BY <2>1, <2>2, <3>1, <3>3, <3>4, Zenon DEF TypeOK, CommQueueType
    <3>6. LoopInv'
      BY <2>1, <2>2, <3>1, <1>LoopOfOne, Zenon DEF TypeOK
    <3> QED
      BY <3>3, <3>5, <3>6, Zenon DEF TransferInv
  <2>5. CASE is_alive /\ ~(req[t].op # "call" /\ req[t].size = 0)
    <3> DEFINE next == IF req[t].op # "call" THEN req[t].op
                       ELSE IF isLarge(t) /\ req[t].in THEN "write" ELSE "call"
    <3>1. /\ UNCHANGED <<request, inflight, completion, status, terminateFlag>>
          /\ UNCHANGED <<state, seq_no, rem_reqid, cmd, prev, parts, ret>>
          /\ submit_mtx' = IF isLarge(t) THEN t ELSE submit_mtx
          /\ rsize' = IF req[t].op # "call" \/ isLarge(t)
                      THEN [rsize EXCEPT ![t] = total(t)] ELSE rsize
          /\ pc' = [pc EXCEPT ![t] = next]
      BY <2>5, Zenon DEF Start, comqVars
    <3>2. req[t].op \in {"write", "read", "call"} /\ req[t].size \in Nat
      BY <2>1, Zenon DEF TypeOK, RequestType
    <3>3. next \in Pcs
      BY <3>2, Zenon DEF Pcs
    <3>4. req[t].op # "call" \/ isLarge(t) => total(t) \in Nat \ {0}
      BY <2>1, <2>5, <3>2, Totals, Zenon
    <3>5. next \in {"write", "read"} \/ isLarge(t) => req[t].op # "call" \/ isLarge(t)
      BY Zenon
    <3> HIDE DEF next
    <3>6. pc' \in [App -> Pcs] /\ rsize' \in [App -> Nat] /\ submit_mtx' \in App \cup {None}
      BY <2>1, <3>1, <3>3, <3>4, Zenon DEF TypeOK
    <3>7. TypeOK'
      BY <2>1, <2>2, <3>1, <3>6, Zenon DEF TypeOK, CommQueueType
    <3>8. /\ \A u \in App \ {t} : pc'[u] = pc[u] /\ rsize'[u] = rsize[u]
          /\ pc'[t] = next
          /\ req[t].op # "call" \/ isLarge(t) => rsize'[t] = total(t)
      BY <2>1, <3>1, Zenon DEF TypeOK
    <3>9. LoopInv'
      <4>1. pc'[t] \in {"write", "read"} \/ (pc'[t] = "call" /\ isLarge(t)) =>
              rsize'[t] \in 1 .. total(t)
        BY <3>4, <3>5, <3>8
      <4> QED
        BY <2>2, <3>8, <4>1, <1>LoopOfOne, Zenon
    <3>10. FragmentsFit'
      BY <2>1, <3>1, Zenon DEF FragmentsFit
    <3> QED
      BY <3>7, <3>9, <3>10, Zenon DEF TransferInv
  <2> QED
    BY <2>3, <2>4, <2>5, Zenon
  \* The end of a chain keeps the types and the loop invariant.
<1>EndChainStep.
    ASSUME TransferInv, NEW t \in App, pc[t] \in {"write", "read"},
           NEW id \in Ids \cup {INVALID}, EndChain(t, id), UNCHANGED req
    PROVE  /\ prev' \in [App -> Ids \cup {INVALID}] /\ rsize' \in [App -> Nat]
           /\ parts' \in [App -> PartIds] /\ ret' \in [App -> Ids \cup {INVALID}]
           /\ pc' \in [App -> Pcs] /\ LoopInv'
  <2> USE <1>EndChainStep
  <2>1. TypeOK /\ total(t) \in Nat \ {0}
    BY InLoop, Zenon DEF TransferInv
  <2> DEFINE next == IF req[t].op = "call" THEN IF pc[t] = "write" THEN "call" ELSE "finish"
                     ELSE IF id = INVALID THEN "failed" ELSE "wait"
  <2>2. next \in Pcs /\ next \notin {"write", "read"}
    BY Zenon DEF Pcs
  <2>3. pc' = [pc EXCEPT ![t] = next]
    BY <2>1, Zenon DEF EndChain, TypeOK
  <2> HIDE DEF next
  <2>4. /\ prev' \in [App -> Ids \cup {INVALID}] /\ rsize' \in [App -> Nat]
        /\ ret' \in [App -> Ids \cup {INVALID}] /\ pc' \in [App -> Pcs]
    BY <2>1, <2>2, <2>3 DEF EndChain, TypeOK
  <2>5. parts' \in [App -> PartIds]
    <3>1. parts[t] \in PartIds
      BY <2>1, Zenon DEF TypeOK
    <3>2. /\ [parts[t] EXCEPT !.write = id] \in PartIds
          /\ [parts[t] EXCEPT !.read = id] \in PartIds
      BY <3>1, Zenon DEF PartIds
    <3>3. \/ parts' = [parts EXCEPT ![t] = [parts[t] EXCEPT !.write = id]]
          \/ parts' = [parts EXCEPT ![t] = [parts[t] EXCEPT !.read = id]]
      BY <2>1, Zenon DEF EndChain, TypeOK
    <3> QED
      BY <2>1, <3>2, <3>3, Zenon DEF TypeOK
  <2>6. /\ \A u \in App \ {t} : pc'[u] = pc[u] /\ rsize'[u] = rsize[u]
        /\ pc'[t] = next /\ rsize'[t] = total(t)
    BY <2>1, <2>3, Zenon DEF EndChain, TypeOK
  <2>7. rsize'[t] \in 1 .. total(t)
    BY <2>1, <2>6
  <2>8. LoopInv'
    BY <2>6, <2>7, <1>LoopOfOne, Zenon
  <2> QED
    BY <2>4, <2>5, <2>8, Zenon
  \* One iteration of the loop: the fragment is within bounds, so the new
  \* command fits and something less is left.
<1>FragmentStep.
    ASSUME TransferInv, NEW t \in App, Fragment(t)
    PROVE  TransferInv'
  <2> USE <1>FragmentStep
  <2> DEFINE dir == IF pc[t] = "write" THEN "send" ELSE "recv"
             psz == fragment(dir, total(t), rsize[t])
             lo == req[t].size - rsize[t]
             c == command(dir, t, lo, lo + psz, chainedTo(t))
  <2>1. TypeOK /\ LoopInv /\ FragmentsFit
    BY Zenon DEF TransferInv
  <2>2. /\ pc[t] \in {"write", "read"} /\ seq_no < NReq /\ submit(c)
        /\ IF psz = rsize[t]
           THEN EndChain(t, seq_no)
           ELSE /\ rsize' = [rsize EXCEPT ![t] = @ - psz]
                /\ prev' = [prev EXCEPT ![t] = seq_no]
                /\ UNCHANGED <<pc, parts, ret>>
    BY Zenon DEF Fragment, canSubmit
  <2>3. /\ UNCHANGED <<inflight, completion, status, terminateFlag, state, submit_mtx>>
        /\ UNCHANGED <<driver, chan, rep, child, req, outcome>>
        /\ UNCHANGED <<onVE, ran, buffer, outArgs, deletes>>
    BY Zenon DEF Fragment, veVars, dataVars
  <2>4. /\ total(t) \in Nat \ {0} /\ rsize[t] \in 1 .. total(t)
        /\ rsize[t] \in Nat /\ lo \in Nat
    BY <2>2, InLoop, Zenon
  <2>5. psz \in 1 .. rsize[t] /\ psz \in 1 .. MaxCmd
    BY <2>4, FragmentBounds, Zenon
  <2>6. dir \in {"send", "recv"} /\ dir \in Ops /\ chainedTo(t) \in Ids \cup {INVALID}
    BY <2>1, Zenon DEF Ops, chainedTo, TypeOK
  <2> HIDE DEF dir, psz, lo
  <2>7. lo + psz \in Nat /\ (lo + psz) - lo \in 1 .. MaxCmd
    BY <2>4, <2>5
  <2>8. c \in CmdType /\ c.hi = lo + psz /\ c.lo = lo
    BY <2>4, <2>6, <2>7, CommandType, Zenon DEF command
  <2> HIDE DEF c
  <2>9. /\ seq_no \in Ids /\ seq_no' \in 0 .. NReq /\ rem_reqid' \subseteq Ids
        /\ cmd' \in [Ids -> CmdType] /\ request' \in Seq(Ids) /\ FragmentsFit'
    BY <2>1, <2>2, <2>7, <2>8, <1>SubmitStep, Zenon
  <2>10. /\ prev' \in [App -> Ids \cup {INVALID}] /\ rsize' \in [App -> Nat]
         /\ parts' \in [App -> PartIds] /\ ret' \in [App -> Ids \cup {INVALID}]
         /\ pc' \in [App -> Pcs] /\ LoopInv'
    <3>1. CASE psz = rsize[t]
      BY <2>2, <2>3, <2>9, <3>1, <1>EndChainStep, Zenon
    <3>2. CASE psz # rsize[t]
      <4>1. /\ rsize' = [rsize EXCEPT ![t] = @ - psz]
            /\ prev' = [prev EXCEPT ![t] = seq_no]
            /\ UNCHANGED <<pc, parts, ret>>
        BY <2>2, <3>2, Zenon
      <4>2. rsize[t] - psz \in 1 .. total(t)
        BY <2>4, <2>5, <3>2
      <4>3. prev' \in [App -> Ids \cup {INVALID}] /\ rsize' \in [App -> Nat]
        BY <2>1, <2>4, <2>9, <4>1, <4>2 DEF TypeOK
      <4>4. rsize'[t] = rsize[t] - psz /\ \A u \in App \ {t} : rsize'[u] = rsize[u]
        BY <2>1, <4>1, Zenon DEF TypeOK
      <4>5. LoopInv'
        BY <2>3, <4>1, <4>2, <4>4, <1>LoopOfOne, Zenon
      <4> QED
        BY <2>1, <4>1, <4>3, <4>5, Zenon DEF TypeOK
    <3> QED
      BY <3>1, <3>2, Zenon
  <2>11. TypeOK'
    BY <2>1, <2>3, <2>9, <2>10, Zenon DEF TypeOK, CommQueueType
  <2> QED
    BY <2>9, <2>10, <2>11, Zenon DEF TransferInv
  \* Giving up a chain keeps the invariant.
<1>ChainFailsStep.
    ASSUME TransferInv, NEW t \in App, ChainFails(t)
    PROVE  TransferInv'
  <2> USE <1>ChainFailsStep
  <2>1. TypeOK /\ LoopInv /\ FragmentsFit
    BY Zenon DEF TransferInv
  <2>2. /\ pc[t] \in {"write", "read"} /\ EndChain(t, INVALID)
        /\ UNCHANGED <<request, inflight, completion, status, terminateFlag>>
        /\ UNCHANGED <<state, seq_no, rem_reqid, submit_mtx, driver, cmd, chan, rep, child>>
        /\ UNCHANGED <<req, outcome, onVE, ran, buffer, outArgs, deletes>>
    BY Zenon DEF ChainFails, comqVars, ctxVars, veVars, dataVars
  <2>3. /\ prev' \in [App -> Ids \cup {INVALID}] /\ rsize' \in [App -> Nat]
        /\ parts' \in [App -> PartIds] /\ ret' \in [App -> Ids \cup {INVALID}]
        /\ pc' \in [App -> Pcs] /\ LoopInv'
    BY <2>2, <1>EndChainStep, Zenon
  <2>4. TypeOK'
    BY <2>1, <2>2, <2>3, Zenon DEF TypeOK, CommQueueType
  <2>5. FragmentsFit'
    BY <2>1, <2>2, Zenon DEF FragmentsFit
  <2> QED
    BY <2>3, <2>4, <2>5, Zenon DEF TransferInv
  \* CallStep(t) keeps the invariant: a large call enters the loop again with
  \* all of its extra bytes to read back.
<1>CallStepStep.
    ASSUME TransferInv, NEW t \in App, CallStep(t)
    PROVE  TransferInv'
  <2> USE <1>CallStepStep
  <2> DEFINE id == IF is_alive THEN seq_no ELSE INVALID
             next == IF ~isLarge(t) THEN IF id = INVALID THEN "failed" ELSE "wait"
                     ELSE IF req[t].out THEN "read" ELSE "finish"
             c == command("call", t, 0, IF isLarge(t) THEN MaxStack ELSE req[t].size, INVALID)
  <2>1. TypeOK /\ LoopInv /\ FragmentsFit
    BY Zenon DEF TransferInv
  <2>2. /\ UNCHANGED <<inflight, completion, status, terminateFlag, state, submit_mtx>>
        /\ UNCHANGED <<driver, chan, rep, child, req, rsize, prev, outcome>>
        /\ UNCHANGED <<onVE, ran, buffer, outArgs, deletes>>
        /\ pc[t] = "call"
    BY Zenon DEF CallStep, veVars, dataVars
  <2>3. /\ parts' = [parts EXCEPT ![t].call = id]
        /\ ret' = IF isLarge(t) THEN ret ELSE [ret EXCEPT ![t] = id]
        /\ pc' = [pc EXCEPT ![t] = next]
    BY Zenon DEF CallStep
  <2>4. /\ is_alive => seq_no < NReq /\ submit(c)
        /\ ~is_alive => UNCHANGED <<seq_no, rem_reqid, cmd, request>>
    BY Zenon DEF CallStep, canSubmit
  <2>5. c \in CmdType /\ c.op = "call"
    <3>1. (IF isLarge(t) THEN MaxStack ELSE req[t].size) \in Nat
      BY <2>1, TransferAssumption, Zenon DEF TypeOK, RequestType
    <3> QED
      BY <3>1, CommandType, Zenon DEF command, Ops
  <2>6. next \in Pcs /\ next # "write" /\ next # "call" /\ (next = "read" => isLarge(t))
    BY Zenon DEF Pcs
  <2> HIDE DEF c, next
  <2>7. /\ seq_no' \in 0 .. NReq /\ rem_reqid' \subseteq Ids
        /\ cmd' \in [Ids -> CmdType] /\ request' \in Seq(Ids) /\ FragmentsFit'
        /\ id \in Ids \cup {INVALID}
    <3>1. CASE is_alive
      BY <2>1, <2>4, <2>5, <3>1, <1>SubmitStep, Zenon
    <3>2. CASE ~is_alive
      <4>1. UNCHANGED <<seq_no, rem_reqid, cmd, request>>
        BY <2>4, <3>2, Zenon
      <4>2. FragmentsFit'
        BY <2>1, <4>1, Zenon DEF FragmentsFit
      <4> QED
        BY <2>1, <3>2, <4>1, <4>2, Zenon DEF TypeOK, CommQueueType
    <3> QED
      BY <3>1, <3>2, Zenon
  <2> HIDE DEF id
  <2>8. parts' \in [App -> PartIds]
    <3>1. [parts[t] EXCEPT !.call = id] \in PartIds
      <4>1. parts[t] \in PartIds
        BY <2>1, Zenon DEF TypeOK
      <4> QED
        BY <2>7, <4>1, Zenon DEF PartIds
    <3>2. parts' = [parts EXCEPT ![t] = [parts[t] EXCEPT !.call = id]]
      BY <2>1, <2>3, Zenon DEF TypeOK
    <3> QED
      BY <2>1, <3>1, <3>2, Zenon DEF TypeOK
  <2>9. pc' \in [App -> Pcs] /\ ret' \in [App -> Ids \cup {INVALID}]
    BY <2>1, <2>3, <2>6, <2>7, Zenon DEF TypeOK
  <2>10. TypeOK'
    BY <2>1, <2>2, <2>7, <2>8, <2>9, Zenon DEF TypeOK, CommQueueType
  <2>11. pc'[t] = next /\ \A u \in App \ {t} : pc'[u] = pc[u]
    BY <2>1, <2>3, Zenon DEF TypeOK
  <2>12. isLarge(t) => rsize[t] \in 1 .. total(t)
    BY <2>1, <2>2, Zenon DEF LoopInv
  <2>13. LoopInv'
    BY <2>2, <2>6, <2>11, <2>12, <1>LoopOfOne, Zenon
  <2> QED
    BY <2>7, <2>10, <2>13, Zenon DEF TransferInv
  \* Finish(t) keeps the invariant.
<1>FinishStep.
    ASSUME TransferInv, NEW t \in App, Finish(t)
    PROVE  TransferInv'
  <2> USE <1>FinishStep
  <2> DEFINE c == command("finish", t, 0, 0, INVALID)
  <2>1. TypeOK /\ LoopInv /\ FragmentsFit
    BY Zenon DEF TransferInv
  <2>2. /\ UNCHANGED <<inflight, completion, status, terminateFlag, state>>
        /\ UNCHANGED <<driver, chan, rep, child, req, rsize, prev, parts, outcome>>
        /\ UNCHANGED <<onVE, ran, buffer, outArgs, deletes>>
        /\ seq_no < NReq /\ submit(c) /\ submit_mtx' = None
        /\ ret' = [ret EXCEPT ![t] = seq_no] /\ pc' = [pc EXCEPT ![t] = "wait"]
    BY Zenon DEF Finish, canSubmit, veVars, loopVars, dataVars
  <2>3. c \in CmdType /\ c.op = "finish"
    BY CommandType, Zenon DEF command, Ops
  <2> HIDE DEF c
  <2>4. /\ seq_no \in Ids /\ seq_no' \in 0 .. NReq /\ rem_reqid' \subseteq Ids
        /\ cmd' \in [Ids -> CmdType] /\ request' \in Seq(Ids) /\ FragmentsFit'
    BY <2>1, <2>2, <2>3, <1>SubmitStep, Zenon
  <2>5. pc' \in [App -> Pcs] /\ ret' \in [App -> Ids \cup {INVALID}]
    BY <2>1, <2>2, <2>4, Zenon DEF TypeOK, Pcs
  <2>6. TypeOK'
    BY <2>1, <2>2, <2>4, <2>5, Zenon DEF TypeOK, CommQueueType
  <2>7. LoopInv'
    BY <2>1, <2>2, <1>LoopOfOne, Zenon DEF TypeOK
  <2> QED
    BY <2>4, <2>6, <2>7, Zenon DEF TransferInv
  \* Wait(t) keeps the invariant.
<1>WaitStep.
    ASSUME TransferInv, NEW t \in App, Wait(t)
    PROVE  TransferInv'
  <2> USE <1>WaitStep
  <2>1. TypeOK /\ LoopInv /\ FragmentsFit
    BY Zenon DEF TransferInv
  <2>2. /\ UNCHANGED <<request, inflight, status, terminateFlag, state, seq_no, submit_mtx>>
        /\ UNCHANGED <<driver, cmd, chan, rep, child, req, rsize, prev, parts, ret>>
        /\ UNCHANGED <<onVE, ran, buffer, outArgs, deletes>>
        /\ ret[t] \in completion /\ completion' = completion \ {ret[t]}
        /\ rem_reqid' = rem_reqid \ {ret[t]}
        /\ outcome' = [outcome EXCEPT ![t] = status[ret[t]]]
        /\ pc' = [pc EXCEPT ![t] = "done"]
    BY Zenon DEF Wait, takeCompletion, veVars, loopVars, dataVars
  <2>3. status[ret[t]] \in Statuses
    BY <2>1, <2>2, Zenon DEF TypeOK, CommQueueType
  <2>4. pc' \in [App -> Pcs] /\ outcome' \in [App -> Statuses]
    BY <2>1, <2>2, <2>3, Zenon DEF TypeOK, Pcs
  <2>5. TypeOK'
    BY <2>1, <2>2, <2>4, Zenon DEF TypeOK, CommQueueType
  <2>6. LoopInv'
    BY <2>1, <2>2, <1>LoopOfOne, Zenon DEF TypeOK
  <2>7. FragmentsFit'
    BY <2>1, <2>2, Zenon DEF FragmentsFit
  <2> QED
    BY <2>5, <2>6, <2>7, Zenon DEF TransferInv
  \* The first element and the rest of a sequence.
<1>FirstAndRest.
    ASSUME NEW S, NEW s \in Seq(S), s # <<>>
    PROVE  Head(s) \in S /\ Tail(s) \in Seq(S)
    BY <1>FirstAndRest
  \* A sequence with one more element.
<1>Appended.
    ASSUME NEW S, NEW s \in Seq(S), NEW e \in S
    PROVE  Append(s, e) \in Seq(S)
    BY <1>Appended
  \* _peekResult() answers with a status.
<1>PeekType.
    ASSUME TypeOK, NEW i
    PROVE  peek(i) \in Statuses
    BY <1>PeekType, Zenon DEF TypeOK, CommQueueType, peek, Statuses
  \* Counting a deletion keeps the type of the counters.
<1>CountOnce.
    ASSUME NEW f \in [App -> Nat], NEW t
    PROVE  [f EXCEPT ![t] = @ + 1] \in [App -> Nat]
  <2> USE <1>CountOnce
  <2>1. CASE t \in App
    BY <2>1
  <2>2. CASE t \notin App
    BY <2>2, Zenon
  <2> QED
    BY <2>1, <2>2, Zenon
  \* SubmitVE keeps the invariant.
<1>SubmitVEStep.
    ASSUME TransferInv, SubmitVE
    PROVE  TransferInv'
  <2> USE <1>SubmitVEStep
  <2> DEFINE c == Head(request)
  <2>1. TypeOK /\ LoopInv /\ FragmentsFit
    BY Zenon DEF TransferInv
  <2>2. /\ UNCHANGED <<terminateFlag, state, seq_no, rem_reqid, submit_mtx, driver, cmd>>
        /\ UNCHANGED <<rep, child, req, pc, rsize, prev, parts, ret, outcome>>
        /\ UNCHANGED <<onVE, ran, buffer, outArgs, deletes>>
        /\ request # <<>> /\ request' = Tail(request)
    BY Zenon DEF SubmitVE, tryPopRequest, ctxVars, loopVars, retVars, dataVars
  <2>3. c \in Ids /\ request' \in Seq(Ids)
    BY <2>1, <2>2, <1>FirstAndRest, Zenon DEF TypeOK, CommQueueType
  <2>4. \/ /\ chan' = Append(chan, c) /\ inflight' = inflight \cup {c}
           /\ UNCHANGED <<completion, status>>
        \/ /\ status' = [status EXCEPT ![c] = "ERROR"] /\ completion' = completion \cup {c}
           /\ UNCHANGED <<chan, inflight>>
    BY Zenon DEF SubmitVE, pushInFlight, setResult, pushCompletion
  <2> HIDE DEF c
  <2>5. /\ chan' \in Seq(Ids) /\ inflight' \subseteq Ids /\ completion' \subseteq Ids
        /\ status' \in [Ids -> Statuses]
    <3>1. /\ chan \in Seq(Ids) /\ inflight \subseteq Ids /\ completion \subseteq Ids
          /\ status \in [Ids -> Statuses] /\ "ERROR" \in Statuses
      BY <2>1, Zenon DEF TypeOK, CommQueueType, Statuses
    <3>2. Append(chan, c) \in Seq(Ids)
      BY <2>3, <3>1
    <3>3. [status EXCEPT ![c] = "ERROR"] \in [Ids -> Statuses]
      BY <2>3, <3>1, Zenon
    <3> QED
      BY <2>3, <2>4, <3>1, <3>2, <3>3, Zenon
  <2>6. TypeOK'
    BY <2>1, <2>2, <2>3, <2>5, Zenon DEF TypeOK, CommQueueType
  <2> QED
    BY <2>2, <2>6, <1>OtherSteps, Zenon DEF TransferInv
  \* SubmitVH keeps the invariant.
<1>SubmitVHStep.
    ASSUME TransferInv, SubmitVH
    PROVE  TransferInv'
  <2> USE <1>SubmitVHStep
  <2> DEFINE c == Head(request)
             t == cmd[c].t
             last == cmd[c].op = "finish"
             ids == IF last THEN claimed(Elems(partsInOrder(t))) ELSE {}
             st == IF last THEN collected(t) ELSE "OK"
  <2>1. TypeOK /\ LoopInv /\ FragmentsFit
    BY Zenon DEF TransferInv
  <2>2. /\ UNCHANGED <<inflight, terminateFlag, state, seq_no, submit_mtx, driver, cmd>>
        /\ UNCHANGED <<chan, rep, child, req, pc, rsize, prev, parts, ret, outcome>>
        /\ UNCHANGED <<onVE, ran, buffer>>
        /\ request # <<>> /\ request' = Tail(request)
    BY Zenon DEF SubmitVH, tryPopRequest, veVars, loopVars, retVars
  <2>3. /\ status' = [status EXCEPT ![c] = st]
        /\ completion' = (completion \ ids) \cup {c} /\ rem_reqid' = rem_reqid \ ids
        /\ outArgs' = IF last /\ req[t].out /\ peek(parts[t].read) = "OK"
                      THEN [outArgs EXCEPT ![t] = buffer[t]] ELSE outArgs
        /\ deletes' = IF last THEN [deletes EXCEPT ![t] = @ + 1] ELSE deletes
    BY Zenon DEF SubmitVH, setResult
  <2>4. c \in Ids /\ request' \in Seq(Ids)
    BY <2>1, <2>2, <1>FirstAndRest, Zenon DEF TypeOK, CommQueueType
  <2>5. collected(t) \in Statuses
    <3>1. \A i : peek(i) \in Statuses
      BY <2>1, <1>PeekType, Zenon
    <3> QED
      BY <3>1, Zenon DEF collected, Statuses
  <2>6. st \in Statuses
    BY <2>5, Zenon DEF Statuses
  <2> HIDE DEF c, t, last, ids, st
  <2>7. /\ status' \in [Ids -> Statuses] /\ completion' \subseteq Ids /\ rem_reqid' \subseteq Ids
    BY <2>1, <2>3, <2>4, <2>6, Zenon DEF TypeOK, CommQueueType
  <2>8. outArgs' \in [App -> SUBSET Nat]
    BY <2>1, <2>3, Zenon DEF TypeOK
  <2>9. deletes' \in [App -> Nat]
    BY <2>1, <2>3, <1>CountOnce, Zenon DEF TypeOK
  <2>10. TypeOK'
    BY <2>1, <2>2, <2>4, <2>7, <2>8, <2>9, Zenon DEF TypeOK, CommQueueType
  <2> QED
    BY <2>2, <2>10, <1>OtherSteps, Zenon DEF TransferInv
  \* Recv keeps the invariant.
<1>RecvStep.
    ASSUME TransferInv, Recv
    PROVE  TransferInv'
  <2> USE <1>RecvStep
  <2> DEFINE r == Head(rep)
             c == Head(rep).id
             exc == Head(rep).exc
             t == cmd[c].t
             ids == IF peeks(c, exc) THEN claimed({cmd[c].prev}) ELSE {}
             simple == simpleCall(c)
             st == resultStatus(c, exc)
  <2>1. TypeOK /\ LoopInv /\ FragmentsFit
    BY Zenon DEF TransferInv
  <2>2. /\ UNCHANGED <<request, terminateFlag, seq_no, submit_mtx, cmd, chan, child, req>>
        /\ UNCHANGED <<pc, rsize, prev, parts, ret, outcome, onVE, ran>>
        /\ rep # <<>> /\ rep' = Tail(rep)
    BY Zenon DEF Recv, loopVars, retVars
  <2>3. /\ inflight' = inflight \ {c} /\ status' = [status EXCEPT ![c] = st]
        /\ completion' = (completion \ ids) \cup {c} /\ rem_reqid' = rem_reqid \ ids
        /\ state' = IF exc THEN "EXIT" ELSE state
        /\ driver' = IF exc THEN "cancelling" ELSE driver
    BY Zenon DEF Recv, popInFlight, setResult
  <2>4. /\ buffer' = IF exc \/ simple THEN buffer ELSE [buffer EXCEPT ![t] = @ \cup r.data]
        /\ outArgs' = IF exc \/ ~simple THEN outArgs ELSE [outArgs EXCEPT ![t] = r.data]
        /\ deletes' = IF simple THEN [deletes EXCEPT ![t] = @ + 1] ELSE deletes
    BY Zenon DEF Recv
  <2>5. /\ r \in [id : Ids, exc : BOOLEAN, data : SUBSET Nat]
        /\ rep' \in Seq([id : Ids, exc : BOOLEAN, data : SUBSET Nat])
    BY <2>1, <2>2, <1>FirstAndRest, Zenon DEF TypeOK
  <2>6. c \in Ids /\ r.data \in SUBSET Nat
    BY <2>5, Zenon
  <2>7. st \in Statuses
    BY <2>1, <1>PeekType, Zenon DEF resultStatus, Statuses
  <2> HIDE DEF r, c, exc, t, ids, simple, st
  <2>8. /\ inflight' \subseteq Ids /\ completion' \subseteq Ids /\ rem_reqid' \subseteq Ids
        /\ status' \in [Ids -> Statuses]
    BY <2>1, <2>3, <2>6, <2>7, Zenon DEF TypeOK, CommQueueType
  <2>9. state' \in {"RUNNING", "EXIT"} /\ driver' \in {"running", "cancelling", "exited"}
    BY <2>1, <2>3, Zenon DEF TypeOK
  <2>10. buffer' \in [App -> SUBSET Nat]
    <3>1. buffer \in [App -> SUBSET Nat]
      BY <2>1, Zenon DEF TypeOK
    <3>2. CASE t \in App
      BY <2>4, <2>6, <3>1, <3>2, Zenon
    <3>3. CASE t \notin App
      BY <2>4, <3>1, <3>3, Zenon
    <3> QED
      BY <3>2, <3>3, Zenon
  <2>11. outArgs' \in [App -> SUBSET Nat]
    BY <2>1, <2>4, <2>6, Zenon DEF TypeOK
  <2>12. deletes' \in [App -> Nat]
    BY <2>1, <2>4, <1>CountOnce, Zenon DEF TypeOK
  <2>13. TypeOK'
    BY <2>1, <2>2, <2>5, <2>8, <2>9, <2>10, <2>11, <2>12, Zenon DEF TypeOK, CommQueueType
  <2> QED
    BY <2>2, <2>13, <1>OtherSteps, Zenon DEF TransferInv
  \* CancelAll keeps the invariant.
<1>CancelAllStep.
    ASSUME TransferInv, CancelAll
    PROVE  TransferInv'
  <2> USE <1>CancelAllStep
  <2> DEFINE gone == Elems(request) \cup inflight
  <2>1. TypeOK /\ LoopInv /\ FragmentsFit
    BY Zenon DEF TransferInv
  <2>2. /\ UNCHANGED <<terminateFlag, state, seq_no, rem_reqid, submit_mtx, cmd, chan, rep>>
        /\ UNCHANGED <<child, req, pc, rsize, prev, parts, ret, outcome>>
        /\ UNCHANGED <<onVE, ran, buffer, outArgs, deletes>>
        /\ request' = <<>> /\ inflight' = {} /\ driver' = "running"
    BY Zenon DEF CancelAll, ctxVars, veVars, loopVars, retVars, dataVars
  <2>3. /\ completion' = completion \cup gone
        /\ status' = [i \in Ids |-> IF i \in gone THEN "ERROR" ELSE status[i]]
    BY Zenon DEF CancelAll
  <2>4. gone \subseteq Ids
    <3>1. request \in Seq(Ids) /\ inflight \subseteq Ids
      BY <2>1, Zenon DEF TypeOK, CommQueueType
    <3>2. \A i \in DOMAIN request : request[i] \in Ids
      BY <3>1
    <3> QED
      BY <3>1, <3>2, Zenon DEF Elems
  <2> HIDE DEF gone
  <2>5. completion' \subseteq Ids /\ status' \in [Ids -> Statuses] /\ request' \in Seq(Ids)
    BY <2>1, <2>2, <2>3, <2>4 DEF TypeOK, CommQueueType, Statuses
  <2>6. TypeOK'
    BY <2>1, <2>2, <2>5, Zenon DEF TypeOK, CommQueueType
  <2> QED
    BY <2>2, <2>6, <1>OtherSteps, Zenon DEF TransferInv
  \* The remaining steps of the driver change only state and driver.
<1>DriverStep.
    ASSUME TransferInv, IdleRound \/ ProgressExit
    PROVE  TransferInv'
  <2> USE <1>DriverStep
  <2>1. TypeOK
    BY Zenon DEF TransferInv
  <2>2. /\ UNCHANGED <<request, inflight, completion, status, terminateFlag>>
        /\ UNCHANGED <<seq_no, rem_reqid, submit_mtx, cmd, chan, rep, child, req, pc>>
        /\ UNCHANGED <<rsize, prev, parts, ret, outcome, onVE, ran, buffer, outArgs, deletes>>
        /\ state' \in {state, "EXIT"} /\ driver' \in {"cancelling", "exited"}
    BY Zenon DEF IdleRound, ProgressExit, comqVars, ctxVars, veVars, loopVars, retVars, dataVars
  <2>3. TypeOK'
    BY <2>1, <2>2, Zenon DEF TypeOK, CommQueueType
  <2> QED
    BY <2>2, <2>3, <1>OtherSteps, Zenon DEF TransferInv
  \* The steps of the VE process keep the invariant.
<1>VEStep.
    ASSUME TransferInv, VEHandle \/ VEException \/ VEKilled
    PROVE  TransferInv'
  <2> USE <1>VEStep
  <2> DEFINE Reply == [id : Ids, exc : BOOLEAN, data : SUBSET Nat]
  <2>1. TypeOK
    BY Zenon DEF TransferInv
  <2>2. /\ UNCHANGED <<request, inflight, completion, status, terminateFlag>>
        /\ UNCHANGED <<state, seq_no, rem_reqid, submit_mtx, driver, cmd, req, pc>>
        /\ UNCHANGED <<rsize, prev, parts, ret, outcome, buffer, outArgs, deletes>>
    BY Zenon DEF VEHandle, VEException, VEKilled, comqVars, ctxVars, loopVars, retVars, dataVars
  <2>3. child' \in {"alive", "exited", "killed"}
    BY <2>1, Zenon DEF VEHandle, VEException, VEKilled, TypeOK
  <2>4. \A i \in Ids : Bytes(cmd[i].lo, cmd[i].hi) \in SUBSET Nat
    <3> SUFFICES ASSUME NEW i \in Ids PROVE Bytes(cmd[i].lo, cmd[i].hi) \in SUBSET Nat
      BY Zenon
    <3>1. cmd[i].lo \in Nat /\ cmd[i].hi \in Nat
      BY <2>1, Zenon DEF TypeOK, CmdType
    <3> QED
      BY <3>1 DEF Bytes
  <2>5. chan' \in Seq(Ids) /\ rep' \in Seq(Reply)
    <3>1. chan \in Seq(Ids) /\ rep \in Seq(Reply)
      BY <2>1, Zenon DEF TypeOK
    <3>2. CASE VEKilled
      BY <3>1, <3>2, Zenon DEF VEKilled
    <3>3. CASE VEHandle
      <4>1. Head(chan) \in Ids /\ Tail(chan) \in Seq(Ids)
        BY <3>1, <3>3, <1>FirstAndRest, Zenon DEF VEHandle
      <4>2. replyData(Head(chan)) \in SUBSET Nat
        BY <2>4, <4>1, Zenon DEF replyData
      <4>3. [id |-> Head(chan), exc |-> FALSE, data |-> replyData(Head(chan))] \in Reply
        BY <4>1, <4>2, Zenon
      <4> QED
        BY <3>1, <3>3, <4>1, <4>3, <1>Appended, Zenon DEF VEHandle
    <3>4. CASE VEException
      <4>1. Head(chan) \in Ids /\ Tail(chan) \in Seq(Ids)
        BY <3>1, <3>4, <1>FirstAndRest, Zenon DEF VEException
      <4>2. [id |-> Head(chan), exc |-> TRUE, data |-> {}] \in Reply
        BY <4>1, Zenon
      <4> QED
        BY <3>1, <3>4, <4>1, <4>2, <1>Appended, Zenon DEF VEException
    <3> QED
      BY <3>2, <3>3, <3>4, Zenon
  <2>6. onVE' \in [App -> SUBSET Nat] /\ ran' \in [App -> {"no", "partial", "full"}]
    <3>1. onVE \in [App -> SUBSET Nat] /\ ran \in [App -> {"no", "partial", "full"}]
      BY <2>1, Zenon DEF TypeOK
    <3>2. CASE VEException \/ VEKilled
      BY <3>1, <3>2, Zenon DEF VEException, VEKilled, dataVars
    <3>3. CASE VEHandle
      <4> DEFINE c == Head(chan)
                 t == cmd[c].t
                 b == Bytes(cmd[c].lo, cmd[c].hi)
      <4>1. b \in SUBSET Nat
        BY <2>1, <2>4, <3>3, <1>FirstAndRest, Zenon DEF VEHandle, TypeOK
      <4>2. stored(t, b) \in [App -> SUBSET Nat]
        BY <3>1, <4>1, Zenon DEF stored
      <4>3. called(t) \in [App -> SUBSET Nat]
        <5>1. \A u \in App : Bytes(0, req[u].size) \in SUBSET Nat
          BY <2>1 DEF TypeOK, RequestType, Bytes
        <5> QED
          BY <3>1, <5>1, Zenon DEF called
      <4>4. /\ onVE' \in {stored(t, b), called(t), onVE}
            /\ \/ ran' = ran
               \/ ran' = [ran EXCEPT ![t] = "partial"]
               \/ ran' = [ran EXCEPT ![t] = "full"]
        BY <3>3, Zenon DEF VEHandle
      <4> HIDE DEF t, b
      <4> QED
        BY <3>1, <4>2, <4>3, <4>4, Zenon
    <3> QED
      BY <3>2, <3>3, Zenon
  <2>7. TypeOK'
    BY <2>1, <2>2, <2>3, <2>5, <2>6, Zenon DEF TypeOK, CommQueueType
  <2> QED
    BY <2>2, <2>7, <1>OtherSteps, Zenon DEF TransferInv
<1> SUFFICES ASSUME TransferInv, [Next]_vars PROVE TransferInv'
  BY Zenon
<1>1. CASE UNCHANGED vars
  <2>1. /\ UNCHANGED <<request, inflight, completion, status, terminateFlag>>
        /\ UNCHANGED <<state, seq_no, rem_reqid, submit_mtx, driver, cmd, chan, rep, child>>
        /\ UNCHANGED <<req, pc, rsize, prev, parts, ret, outcome>>
        /\ UNCHANGED <<onVE, ran, buffer, outArgs, deletes>>
    BY <1>1, Zenon DEF vars, comqVars, ctxVars, veVars, loopVars, retVars, dataVars
  <2>2. TypeOK'
    BY <2>1, Zenon DEF TransferInv, TypeOK, CommQueueType
  <2> QED
    BY <2>1, <2>2, <1>OtherSteps, Zenon DEF TransferInv
<1>2. ASSUME NEW t \in App, RequestStep(t)
      PROVE  TransferInv'
  BY <1>2, <1>StartStep, <1>FragmentStep, <1>ChainFailsStep, <1>CallStepStep, <1>FinishStep, <1>WaitStep, Zenon DEF RequestStep
<1>3. CASE Drive
  BY <1>3, <1>SubmitVEStep, <1>SubmitVHStep, <1>RecvStep, <1>CancelAllStep, <1>DriverStep, Zenon DEF Drive
<1>4. CASE VEHandle \/ VEException \/ VEKilled
  BY <1>4, <1>VEStep, Zenon
<1> QED
  BY <1>1, <1>2, <1>3, <1>4, Zenon DEF Next

\* Every variable keeps its type, for all sizes of the requests and buffers:
\* in particular the loop of asyncReadMem() and asyncWriteMem() never counts
\* below zero.
THEOREM TransferTypes == Spec => []TypeOK
<1>1. TransferInv => TypeOK
  BY Zenon DEF TransferInv
<1> QED
  BY TransferInit, TransferNext, <1>1, PTL DEF Spec

\* Every fragment ever submitted moves at least one byte and fits into one
\* URPC command, for all sizes of the requests and buffers.
THEOREM FragmentsAlwaysFit == Spec => []FragmentsFit
<1>1. TransferInv => FragmentsFit
  BY Zenon DEF TransferInv
<1> QED
  BY TransferInit, TransferNext, <1>1, PTL DEF Spec

-----------------------------------------------------------------------------
\* The elements of a longer sequence.
LEMMA ElemsAppend ==
  ASSUME NEW S, NEW s \in Seq(S), NEW e \in S
  PROVE  Elems(Append(s, e)) = Elems(s) \cup {e}
<1>1. Append(s, e) \in Seq(S) /\ Len(Append(s, e)) = Len(s) + 1 /\ Len(s) \in Nat
  OBVIOUS
<1>2. \A n \in 1 .. Len(s) : Append(s, e)[n] = s[n]
  OBVIOUS
<1>3. Append(s, e)[Len(s) + 1] = e
  OBVIOUS
<1>4. DOMAIN s = 1 .. Len(s) /\ DOMAIN Append(s, e) = 1 .. (Len(s) + 1)
  BY <1>1
<1> QED
  BY <1>1, <1>2, <1>3, <1>4, SMTT(30) DEF Elems

\* The first element of an increasing sequence is the least.
LEMMA TailIncreasing ==
  ASSUME NEW s \in Seq(Ids), s # <<>>, Increasing(s)
  PROVE  /\ Head(s) \in Elems(s) /\ Increasing(Tail(s)) /\ Tail(s) \in Seq(Ids)
         /\ Elems(s) = Elems(Tail(s)) \cup {Head(s)}
         /\ \A e \in Elems(Tail(s)) : Head(s) < e
<1>1. /\ Tail(s) \in Seq(Ids) /\ Len(s) \in Nat \ {0} /\ Len(Tail(s)) = Len(s) - 1
      /\ Head(s) = s[1]
  OBVIOUS
<1>2. \A n \in 1 .. (Len(s) - 1) : Tail(s)[n] = s[n + 1]
  OBVIOUS
<1>3. DOMAIN s = 1 .. Len(s) /\ DOMAIN Tail(s) = 1 .. (Len(s) - 1)
  BY <1>1
<1>4. Head(s) \in Elems(s)
  BY <1>1, <1>3 DEF Elems
<1>5. Increasing(Tail(s))
  BY <1>1, <1>2, <1>3 DEF Increasing
<1>6. \A e \in Elems(Tail(s)) : Head(s) < e /\ e \in Elems(s)
  BY <1>1, <1>2, <1>3 DEF Elems, Increasing
<1>7. ASSUME NEW e \in Elems(s), e # Head(s)
      PROVE  e \in Elems(Tail(s))
  <2>1. PICK n \in 1 .. Len(s) : e = s[n]
    BY <1>3, Zenon DEF Elems
  <2>2. n - 1 \in 1 .. (Len(s) - 1) /\ (n - 1) + 1 = n
    BY <1>1, <1>7, <2>1
  <2>3. Tail(s)[n - 1] = e
    BY <1>2, <2>1, <2>2, Zenon
  <2> QED
    BY <1>3, <2>2, <2>3, Zenon DEF Elems
<1> QED
  BY <1>1, <1>4, <1>5, <1>6, <1>7, Zenon

\* A greater element may be appended.
LEMMA AppendIncreasing ==
  ASSUME NEW s \in Seq(Ids), Increasing(s), NEW e \in Ids, \A i \in Elems(s) : i < e
  PROVE  Increasing(Append(s, e)) /\ Elems(Append(s, e)) = Elems(s) \cup {e}
<1>1. Elems(Append(s, e)) = Elems(s) \cup {e}
  BY ElemsAppend
<1>2. Append(s, e) \in Seq(Ids) /\ Len(Append(s, e)) = Len(s) + 1 /\ Len(s) \in Nat
  OBVIOUS
<1>3. \A n \in 1 .. Len(s) : Append(s, e)[n] = s[n] /\ s[n] < e
  BY DEF Elems
<1>4. Append(s, e)[Len(s) + 1] = e
  OBVIOUS
<1>5. DOMAIN s = 1 .. Len(s) /\ DOMAIN Append(s, e) = 1 .. (Len(s) + 1)
  BY <1>2
<1>6. Increasing(Append(s, e))
  <2> SUFFICES ASSUME NEW m \in 1 .. (Len(s) + 1), NEW n \in 1 .. (Len(s) + 1), m < n
               PROVE  Append(s, e)[m] < Append(s, e)[n]
    BY <1>5, Zenon DEF Increasing
  <2>1. m \in 1 .. Len(s)
    BY <1>2
  <2>2. n = Len(s) + 1 \/ n \in 1 .. Len(s)
    BY <1>2
  <2> QED
    BY <1>3, <1>4, <1>5, <2>1, <2>2, Zenon DEF Increasing
<1> QED
  BY <1>1, <1>6, Zenon

Reply == [id : Ids, exc : BOOLEAN, data : SUBSET Nat]

\* The replies without the first.
LEMMA RepTail ==
  ASSUME TypeOK, QueueInv, rep # <<>>, rep' = Tail(rep)
  PROVE  /\ Head(rep) \in Reply /\ Head(rep).id \in RepIds
         /\ rep' \in Seq(Reply)
         /\ \A n \in DOMAIN rep' : /\ n + 1 \in DOMAIN rep /\ rep'[n] = rep[n + 1]
                                   /\ Head(rep).id < rep'[n].id
         /\ 1 \in DOMAIN rep /\ rep[1] = Head(rep)
         /\ RepIds = RepIds' \cup {Head(rep).id}
         /\ \A i \in RepIds' : Head(rep).id < i
         /\ Len(rep') = Len(rep) - 1
<1>1. rep \in Seq(Reply)
  BY Zenon DEF TypeOK, Reply
<1>2. /\ rep' \in Seq(Reply) /\ Len(rep) \in Nat \ {0} /\ Len(rep') = Len(rep) - 1
      /\ Head(rep) = rep[1] /\ Head(rep) \in Reply
  BY <1>1
<1>3. \A n \in 1 .. (Len(rep) - 1) : rep'[n] = rep[n + 1]
  BY <1>1
<1>4. DOMAIN rep = 1 .. Len(rep) /\ DOMAIN rep' = 1 .. (Len(rep) - 1)
  BY <1>1, <1>2
<1>5. \A m, n \in DOMAIN rep : m < n => rep[m].id < rep[n].id
  BY Zenon DEF QueueInv
<1>6. \A n \in DOMAIN rep' : /\ n + 1 \in DOMAIN rep /\ rep'[n] = rep[n + 1]
                             /\ Head(rep).id < rep'[n].id
  BY <1>2, <1>3, <1>4, <1>5, SMTT(30)
<1>7. 1 \in DOMAIN rep
  BY <1>2, <1>4
<1>8. Head(rep).id \in RepIds /\ \A i \in RepIds' : Head(rep).id < i /\ i \in RepIds
  BY <1>2, <1>6, <1>7 DEF RepIds
<1>9. ASSUME NEW i \in RepIds, i # Head(rep).id PROVE i \in RepIds'
  <2>1. PICK n \in DOMAIN rep : i = rep[n].id
    BY Zenon DEF RepIds
  <2>2. n - 1 \in DOMAIN rep' /\ (n - 1) + 1 = n
    BY <1>2, <1>4, <1>9, <2>1
  <2>3. rep'[n - 1] = rep[n]
    BY <1>6, <2>2, Zenon
  <2> QED
    BY <2>1, <2>2, <2>3, Zenon DEF RepIds
<1> QED
  BY <1>2, <1>6, <1>7, <1>8, <1>9, Zenon

\* The replies with one more.
LEMMA RepAppend ==
  ASSUME TypeOK, QueueInv, NEW r \in Reply, rep' = Append(rep, r)
  PROVE  /\ rep' \in Seq(Reply) /\ Len(rep') = Len(rep) + 1
         /\ \A n \in DOMAIN rep' : \/ n \in DOMAIN rep /\ rep'[n] = rep[n]
                                   \/ n = Len(rep') /\ rep'[n] = r
         /\ \A n \in DOMAIN rep : n \in DOMAIN rep' /\ rep'[n] = rep[n] /\ n < Len(rep')
         /\ Len(rep') \in DOMAIN rep' /\ rep'[Len(rep')] = r
         /\ RepIds' = RepIds \cup {r.id}
<1>1. rep \in Seq(Reply)
  BY Zenon DEF TypeOK, Reply
<1>2. rep' \in Seq(Reply) /\ Len(rep') = Len(rep) + 1 /\ Len(rep) \in Nat
  BY <1>1
<1>3. \A n \in 1 .. Len(rep) : rep'[n] = rep[n]
  BY <1>1
<1>4. rep'[Len(rep) + 1] = r
  BY <1>1
<1>5. DOMAIN rep = 1 .. Len(rep) /\ DOMAIN rep' = 1 .. (Len(rep) + 1)
  BY <1>1, <1>2
<1>6. /\ \A n \in DOMAIN rep' : \/ n \in DOMAIN rep /\ rep'[n] = rep[n]
                                \/ n = Len(rep') /\ rep'[n] = r
      /\ \A n \in DOMAIN rep : n \in DOMAIN rep' /\ rep'[n] = rep[n] /\ n < Len(rep')
      /\ Len(rep') \in DOMAIN rep' /\ rep'[Len(rep')] = r
  BY <1>2, <1>3, <1>4, <1>5
<1>7. RepIds' = RepIds \cup {r.id}
  BY <1>6, Zenon DEF RepIds
<1> QED
  BY <1>2, <1>6, <1>7, Zenon

-----------------------------------------------------------------------------
\* What the definitions say of the containers, for the provers.
LEMMA QueueFacts ==
  ASSUME TransferInv, QueueInv
  PROVE  /\ request \in Seq(Ids) /\ chan \in Seq(Ids) /\ inflight \subseteq Ids
         /\ Elems(request) \subseteq Ids /\ Elems(chan) \subseteq Ids /\ RepIds \subseteq Ids
         /\ Issued \subseteq Ids /\ seq_no \in Nat /\ rep \in Seq(Reply)
         /\ \A n \in DOMAIN rep : rep[n] \in Reply
         /\ Ids \subseteq Int /\ INVALID \notin Ids /\ INVALID \notin Issued
         /\ seq_no \notin Issued
<1>1. /\ request \in Seq(Ids) /\ chan \in Seq(Ids) /\ inflight \subseteq Ids
      /\ seq_no \in 0 .. NReq /\ rep \in Seq(Reply)
  BY Zenon DEF TransferInv, TypeOK, CommQueueType, Reply
<1>2. NReq \in Nat
  BY NReqAssumption, Zenon
<1>3. Issued \subseteq Ids /\ seq_no \in Nat /\ Ids \subseteq Int
  BY <1>1, <1>2 DEF Issued, Ids
<1>4. INVALID \notin Ids /\ INVALID \notin Issued /\ seq_no \notin Issued
  BY <1>1, <1>2 DEF Ids, INVALID, Issued
<1>5. Elems(request) \subseteq Ids /\ Elems(chan) \subseteq Ids /\ RepIds \subseteq Ids
  BY <1>3, Zenon DEF QueueInv
<1>6. \A n \in DOMAIN rep : rep[n] \in Reply
  BY <1>1
<1> QED
  BY <1>1, <1>3, <1>4, <1>5, <1>6, Zenon

\* Steps that touch none of the containers.
LEMMA QueueSame ==
  ASSUME QueueInv, UNCHANGED <<request, inflight, state, driver, chan, rep, child, cmd, seq_no>>
  PROVE  /\ QueueInv' /\ Issued' = Issued /\ Pending' = Pending
  BY SMTT(30) DEF QueueInv, RepIds, Over, Increasing, Elems, Issued, Pending

\* What the driver pops is less than what it leaves.
LEMMA QueueSubmitVE ==
  ASSUME TransferInv, QueueInv, SubmitVE
  PROVE  LET c == Head(request) IN
         /\ QueueInv' /\ c \in Issued /\ c \in Elems(request)
         /\ Elems(request) = Elems(request)' \cup {c} /\ c \notin Elems(request)'
         /\ \/ /\ Pending' = Pending /\ Unseen' = Unseen
               /\ UNCHANGED <<completion, status>>
            \/ /\ Pending' = Pending \ {c} /\ Unseen' = Unseen \ {c}
               /\ completion' = completion \cup {c} /\ status' = [status EXCEPT ![c] = "ERROR"]
<1> DEFINE c == Head(request)
<1>1. /\ UNCHANGED <<state, seq_no, driver, cmd, rep, child>>
      /\ request # <<>> /\ request' = Tail(request) /\ rep = <<>> /\ ~isVH(c)
  BY Zenon DEF SubmitVE, tryPopRequest, ctxVars
<1>2. \/ /\ chan' = Append(chan, c) /\ inflight' = inflight \cup {c}
         /\ UNCHANGED <<completion, status>>
      \/ /\ status' = [status EXCEPT ![c] = "ERROR"] /\ completion' = completion \cup {c}
         /\ UNCHANGED <<chan, inflight>>
  BY Zenon DEF SubmitVE, pushInFlight, setResult, pushCompletion
<1>3. /\ request \in Seq(Ids) /\ chan \in Seq(Ids) /\ Elems(request) \subseteq Ids
      /\ Elems(chan) \subseteq Ids /\ RepIds \subseteq Ids /\ Ids \subseteq Int
  BY QueueFacts, Zenon
<1>4. /\ c \in Elems(request) /\ Increasing(request')
      /\ Elems(request) = Elems(request') \cup {c} /\ \A e \in Elems(request') : c < e
  BY <1>1, <1>3, TailIncreasing, Zenon DEF QueueInv
<1>5. c \in Issued /\ c \in Ids
  BY <1>3, <1>4, Zenon DEF QueueInv
<1>6. ~Over /\ (Over' <=> Over) /\ RepIds' = RepIds /\ Issued' = Issued
  BY <1>1, <1>4, Zenon DEF QueueInv, Over, RepIds, Issued, isVH
<1>7. \A i \in RepIds \cup Elems(chan) : i < c
  BY <1>4, Zenon DEF QueueInv
<1>VE. cmd[c].op \notin {"empty", "finish"}
  BY <1>1, Zenon DEF isVH
<1> HIDE DEF c
<1>8. c \notin Elems(request') /\ c \notin Elems(chan) /\ c \notin RepIds
  BY <1>3, <1>4, <1>5, <1>7
<1>9. inflight = Elems(chan) \cup RepIds
  BY <1>6, Zenon DEF QueueInv
<1>10. CASE /\ chan' = Append(chan, c) /\ inflight' = inflight \cup {c}
            /\ UNCHANGED <<completion, status>>
  <2>1. Increasing(chan') /\ Elems(chan') = Elems(chan) \cup {c}
    BY <1>3, <1>5, <1>7, <1>10, AppendIncreasing, Zenon DEF QueueInv
  <2>2. RepIds = {}
    BY <1>1 DEF RepIds
  <2>3. QueueInv'
    BY <1>1, <1>4, <1>5, <1>6, <1>9, <1>10, <2>1, <2>2, <1>VE, SMTT(30) DEF QueueInv
  <2>4. Pending' = Pending /\ Unseen' = Unseen
    BY <1>4, <1>10, <2>1, Zenon DEF Pending, Unseen
  <2> QED
    BY <1>4, <1>5, <1>8, <1>10, <2>3, <2>4, Zenon DEF c
<1>11. CASE /\ status' = [status EXCEPT ![c] = "ERROR"] /\ completion' = completion \cup {c}
            /\ UNCHANGED <<chan, inflight>>
  <2>1. QueueInv'
    BY <1>1, <1>4, <1>5, <1>6, <1>9, <1>11, Zenon DEF QueueInv
  <2>2. Pending' = Pending \ {c} /\ Unseen' = Unseen \ {c}
    BY <1>4, <1>8, <1>9, <1>11, Zenon DEF Pending, Unseen
  <2> QED
    BY <1>4, <1>5, <1>8, <1>11, <2>1, <2>2, Zenon DEF c
<1> QED
  BY <1>2, <1>10, <1>11, Zenon

\* A VH command runs when nothing is in flight.
LEMMA QueueSubmitVH ==
  ASSUME TransferInv, QueueInv, SubmitVH
  PROVE  LET c == Head(request) IN
         /\ QueueInv' /\ c \in Issued /\ c \in Elems(request)
         /\ Pending = Elems(request) /\ Pending' = Pending \ {c} /\ Unseen' = Unseen \ {c}
         /\ \A d \in Pending' : c < d
<1> DEFINE c == Head(request)
<1>1. /\ UNCHANGED <<inflight, state, seq_no, driver, cmd, chan, rep, child>>
      /\ request # <<>> /\ request' = Tail(request) /\ inflight = {}
  BY Zenon DEF SubmitVH, tryPopRequest, veVars, vhReady, emptyInFlight
<1>2. /\ request \in Seq(Ids) /\ Elems(request) \subseteq Ids
      /\ Elems(chan) \subseteq Ids /\ RepIds \subseteq Ids /\ Ids \subseteq Int
  BY QueueFacts, Zenon
<1>3. /\ c \in Elems(request) /\ Increasing(request')
      /\ Elems(request) = Elems(request') \cup {c} /\ \A e \in Elems(request') : c < e
  BY <1>1, <1>2, TailIncreasing, Zenon DEF QueueInv
<1>4. c \in Issued /\ c \in Ids
  BY <1>2, <1>3, Zenon DEF QueueInv
<1>5. (Over' <=> Over) /\ RepIds' = RepIds /\ Issued' = Issued
  BY <1>1, Zenon DEF Over, RepIds, Issued
<1> HIDE DEF c
<1>6. c \notin Elems(request') /\ \A i \in Elems(chan) : i < c
  BY <1>2, <1>3, <1>4 DEF QueueInv
<1>7. c \notin Elems(chan)
  BY <1>2, <1>4, <1>6
<1>8. QueueInv'
  BY <1>1, <1>3, <1>5, Zenon DEF QueueInv
<1>9. Pending = Elems(request) /\ Pending' = Pending \ {c} /\ Unseen' = Unseen \ {c}
  BY <1>1, <1>3, <1>6, <1>7, Zenon DEF Pending, Unseen
<1> QED
  BY <1>3, <1>4, <1>6, <1>8, <1>9, Zenon DEF c

\* The reply that is processed is that to the oldest command.
LEMMA QueueRecv ==
  ASSUME TransferInv, QueueInv, Recv
  PROVE  LET c == Head(rep).id IN
         /\ QueueInv' /\ c \in Issued /\ c \in inflight /\ c \in RepIds
         /\ Pending' = Pending \ {c} /\ Unseen' = Unseen /\ c \notin Unseen
         /\ \A d \in Pending' : c < d
         /\ Head(rep).exc => RepIds' = {}
<1> DEFINE c == Head(rep).id
           exc == Head(rep).exc
<1>1. /\ UNCHANGED <<request, seq_no, cmd, chan, child>>
      /\ rep # <<>> /\ rep' = Tail(rep) /\ inflight' = inflight \ {c} /\ driver # "cancelling"
      /\ state' = IF exc THEN "EXIT" ELSE state
      /\ driver' = IF exc THEN "cancelling" ELSE driver
  BY Zenon DEF Recv, popInFlight
<1>2. /\ Head(rep) \in Reply /\ c \in RepIds /\ rep' \in Seq(Reply)
      /\ \A n \in DOMAIN rep' : n + 1 \in DOMAIN rep /\ rep'[n] = rep[n + 1]
      /\ 1 \in DOMAIN rep /\ rep[1] = Head(rep) /\ RepIds = RepIds' \cup {c}
      /\ (\A i \in RepIds' : c < i) /\ Len(rep') = Len(rep) - 1
  BY <1>1, RepTail, Zenon DEF TransferInv
<1>3. /\ Elems(request) \subseteq Ids /\ rep \in Seq(Reply)
      /\ Elems(chan) \subseteq Ids /\ RepIds \subseteq Ids /\ Ids \subseteq Int
  BY QueueFacts, Zenon
<1>4. c \in Issued /\ c \in Ids /\ state # "EXIT" /\ ~Over /\ driver = "running"
  BY <1>1, <1>2, <1>3, Zenon DEF QueueInv, Over
<1>5. inflight = Elems(chan) \cup RepIds /\ ~Over' /\ Issued' = Issued
  BY <1>1, <1>4, Zenon DEF QueueInv, Over, Issued
<1>6. exc => Len(rep) = 1 /\ child = "exited"
  BY <1>2, Zenon DEF QueueInv
<1>7. exc => rep' = <<>> /\ RepIds' = {}
  BY <1>2, <1>3, <1>6 DEF RepIds
<1>8. \A m, n \in DOMAIN rep' : m < n => rep'[m].id < rep'[n].id
  <2> SUFFICES ASSUME NEW m \in DOMAIN rep', NEW n \in DOMAIN rep', m < n
               PROVE  rep'[m].id < rep'[n].id
    BY Zenon
  <2>1. m \in Nat /\ n \in Nat /\ m + 1 < n + 1
    BY <1>2
  <2> QED
    BY <1>2, <2>1, SMTT(30) DEF QueueInv
<1>9. \A n \in DOMAIN rep' : rep'[n].exc => n = Len(rep') /\ child' = "exited"
  <2> SUFFICES ASSUME NEW n \in DOMAIN rep', rep'[n].exc
               PROVE  n = Len(rep') /\ child' = "exited"
    BY Zenon
  <2>1. n + 1 = Len(rep) /\ child = "exited"
    BY <1>2, Zenon DEF QueueInv
  <2> QED
    BY <1>1, <1>2, <1>3, <2>1
<1> HIDE DEF c, exc
<1>10. /\ \A i \in Elems(chan) \cup Elems(request) \cup RepIds' : c < i
       /\ c \notin Elems(request) /\ c \notin Elems(chan) /\ c \notin RepIds'
  <2>1. \A i \in Elems(chan) \cup Elems(request) \cup RepIds' : c < i
    BY <1>2, Zenon DEF QueueInv
  <2> QED
    BY <1>4, <2>1 DEF Ids
<1>11. inflight' = Elems(chan) \cup RepIds'
  BY <1>1, <1>2, <1>5, <1>10, Zenon
<1>12. QueueInv'
  BY <1>1, <1>2, <1>4, <1>5, <1>6, <1>7, <1>8, <1>9, <1>11, Zenon DEF QueueInv
<1>13. Pending' = Pending \ {c} /\ Unseen' = Unseen /\ c \notin Unseen /\ \A d \in Pending' : c < d
  BY <1>1, <1>2, <1>5, <1>10, <1>11 DEF Pending, Unseen
<1> QED
  BY <1>2, <1>4, <1>5, <1>7, <1>12, <1>13, Zenon DEF c, exc

\* cancelAll() empties the containers.
LEMMA QueueCancelAll ==
  ASSUME TransferInv, QueueInv, CancelAll
  PROVE  /\ QueueInv' /\ Pending' = {} /\ rep = <<>> /\ child # "alive"
         /\ Unseen' \subseteq Unseen /\ Unseen \ Unseen' \subseteq Pending
<1>1. /\ UNCHANGED <<state, seq_no, cmd, chan, rep, child>> /\ driver = "cancelling"
      /\ request' = <<>> /\ inflight' = {} /\ driver' = "running"
  BY Zenon DEF CancelAll, ctxVars, veVars
<1>2. state = "EXIT" /\ rep = <<>> /\ child # "alive" /\ Over' /\ ~Over
  BY <1>1, Zenon DEF QueueInv, Over
<1>3. Elems(request') = {} /\ Increasing(request') /\ RepIds' = RepIds /\ Issued' = Issued
  BY <1>1 DEF Elems, Increasing, RepIds, Issued
<1>4. QueueInv'
  BY <1>1, <1>2, <1>3, Zenon DEF QueueInv
<1>5. Pending' = {} /\ Unseen' \subseteq Unseen /\ Unseen \ Unseen' \subseteq Pending
  BY <1>1, <1>3, Zenon DEF Pending, Unseen
<1> QED
  BY <1>2, <1>4, <1>5, Zenon

\* The other steps of the driver.
LEMMA QueueDriver ==
  ASSUME TransferInv, QueueInv, IdleRound \/ ProgressExit
  PROVE  QueueInv' /\ Pending' = Pending /\ Unseen' = Unseen
<1>1. /\ UNCHANGED <<request, inflight, seq_no, cmd, chan, rep, child>>
      /\ \/ /\ driver = "running" /\ child # "alive" /\ rep = <<>>
            /\ state = "RUNNING" /\ state' = "EXIT" /\ driver' = "cancelling"
         \/ driver = "running" /\ state = "EXIT" /\ driver' = "exited" /\ state' = state
  BY Zenon DEF IdleRound, ProgressExit, comqVars, ctxVars, veVars
<1>2. (Over' <=> Over) /\ RepIds' = RepIds /\ Issued' = Issued
  BY <1>1, Zenon DEF Over, RepIds, Issued
<1>3. QueueInv'
  BY <1>1, <1>2, SMTT(30) DEF QueueInv, Increasing, Elems
<1> QED
  BY <1>1, <1>3, Zenon DEF Pending, Unseen

\* The VE answers the oldest command.
LEMMA QueueVE ==
  ASSUME TransferInv, QueueInv, VEHandle \/ VEException
  PROVE  LET c == Head(chan) IN
         /\ QueueInv' /\ c \in Issued /\ c \in Elems(chan) /\ c \in Unseen
         /\ Pending' = Pending /\ Unseen' = Unseen \ {c}
         /\ \A d \in Unseen' : c < d
         /\ \A d \in RepIds : d < c
<1> DEFINE c == Head(chan)
<1>1. /\ UNCHANGED <<request, inflight, seq_no, cmd, state, driver>>
      /\ child = "alive" /\ chan # <<>> /\ chan' = Tail(chan)
  BY Zenon DEF VEHandle, VEException, comqVars, ctxVars
<1>2. PICK r \in {[id |-> c, exc |-> FALSE, data |-> replyData(c)], [id |-> c, exc |-> TRUE, data |-> {}]} :
        rep' = Append(rep, r) /\ child' = IF r.exc THEN "exited" ELSE "alive"
  BY Zenon DEF VEHandle, VEException
<1>3. /\ Elems(request) \subseteq Ids /\ rep \in Seq(Reply) /\ chan \in Seq(Ids)
      /\ Elems(chan) \subseteq Ids /\ RepIds \subseteq Ids /\ Ids \subseteq Int
  BY QueueFacts, Zenon
<1>4. /\ c \in Elems(chan) /\ Increasing(chan') /\ chan' \in Seq(Ids)
      /\ Elems(chan) = Elems(chan') \cup {c} /\ \A e \in Elems(chan') : c < e
  BY <1>1, <1>3, TailIncreasing, Zenon DEF QueueInv
<1>5. c \in Issued /\ c \in Ids
  BY <1>3, <1>4, Zenon DEF QueueInv
<1>6. r \in Reply /\ r.id = c
  <2>1. TransferInv'
    BY TransferNext, Zenon DEF Next
  <2>2. rep' \in Seq(Reply)
    BY <2>1, Zenon DEF TransferInv, TypeOK, Reply
  <2>3. rep'[Len(rep) + 1] = r /\ Len(rep) + 1 \in DOMAIN rep'
    BY <1>2, <1>3, SMTT(30)
  <2> QED
    BY <1>2, <2>2, <2>3, SMTT(30)
<1>7. /\ rep' \in Seq(Reply) /\ Len(rep') = Len(rep) + 1
      /\ \A n \in DOMAIN rep' : \/ n \in DOMAIN rep /\ rep'[n] = rep[n]
                                \/ n = Len(rep') /\ rep'[n] = r
      /\ \A n \in DOMAIN rep : n \in DOMAIN rep' /\ rep'[n] = rep[n] /\ n < Len(rep')
      /\ RepIds' = RepIds \cup {c}
  BY <1>2, <1>6, RepAppend, Zenon DEF TransferInv
<1> HIDE DEF c
<1>8. /\ \A i \in RepIds : i < c
      /\ c \notin Elems(chan') /\ c \notin Elems(request) /\ \A i \in Elems(request) : c < i
  <2>1. (\A i \in RepIds : i < c) /\ (\A i \in Elems(request) : c < i)
    BY <1>4, Zenon DEF QueueInv
  <2> QED
    BY <1>4, <1>5, <2>1 DEF Ids
<1>9. state # "EXIT" /\ ~Over /\ ~Over' /\ Issued' = Issued
  BY <1>1, Zenon DEF QueueInv, Over, Issued
<1>10. inflight' = Elems(chan') \cup RepIds'
  BY <1>1, <1>4, <1>7, <1>9, Zenon DEF QueueInv
<1>11. \A m, n \in DOMAIN rep' : m < n => rep'[m].id < rep'[n].id
  <2> SUFFICES ASSUME NEW m \in DOMAIN rep', NEW n \in DOMAIN rep', m < n
               PROVE  rep'[m].id < rep'[n].id
    BY Zenon
  <2>1. m \in DOMAIN rep /\ rep'[m] = rep[m]
    <3>1. m # Len(rep')
      BY <1>7
    <3> QED
      BY <1>7, <3>1, Zenon
  <2>2. CASE n \in DOMAIN rep /\ rep'[n] = rep[n]
    BY <2>1, <2>2, Zenon DEF QueueInv
  <2>3. CASE rep'[n] = r
    BY <1>6, <1>8, <2>1, <2>3, Zenon DEF RepIds
  <2> QED
    BY <1>7, <2>2, <2>3, Zenon
<1>12. \A n \in DOMAIN rep' : rep'[n].exc => n = Len(rep') /\ child' = "exited"
  <2>1. \A n \in DOMAIN rep : ~rep[n].exc
    BY <1>1, Zenon DEF QueueInv
  <2> QED
    BY <1>2, <1>7, <2>1, Zenon
<1>13. \A i \in RepIds', j \in Elems(chan') : i < j
  BY <1>4, <1>7, Zenon DEF QueueInv
<1>14. \A i \in RepIds' \cup Elems(chan'), j \in Elems(request) : i < j
  BY <1>4, <1>7, <1>8, Zenon DEF QueueInv
<1>15. QueueInv'
  BY <1>1, <1>4, <1>5, <1>7, <1>9, <1>10, <1>11, <1>12, <1>13, <1>14, Zenon DEF QueueInv
<1>16. Pending' = Pending /\ Unseen' = Unseen \ {c} /\ c \in Unseen /\ \A d \in Unseen' : c < d
  BY <1>1, <1>4, <1>8, Zenon DEF Pending, Unseen
<1> QED
  BY <1>4, <1>5, <1>8, <1>15, <1>16, Zenon DEF c

\* A kill changes nothing in the containers.
LEMMA QueueKilled ==
  ASSUME QueueInv, VEKilled
  PROVE  QueueInv' /\ Pending' = Pending /\ Unseen' = Unseen
<1>1. /\ UNCHANGED <<request, inflight, seq_no, cmd, chan, rep, state, driver>>
      /\ child = "alive" /\ child' = "killed"
  BY Zenon DEF VEKilled, comqVars, ctxVars
<1>2. (Over' <=> Over) /\ RepIds' = RepIds /\ Issued' = Issued
  BY <1>1, Zenon DEF Over, RepIds, Issued
<1>3. QueueInv'
  BY <1>1, <1>2, SMTT(30) DEF QueueInv, Increasing, Elems
<1> QED
  BY <1>1, <1>3, Zenon DEF Pending, Unseen

-----------------------------------------------------------------------------
\* What thread t may add as command r.
Fits(r, t) ==
  /\ r \in CmdType /\ r.t = t /\ Suits(r, t)
  /\ \A d \in Of(t) : cmd[d].op \in Earlier(r.op)
  /\ r.op \notin Fragments => r.prev = INVALID
  /\ r.op \in Fragments =>
       /\ base(t) <= r.lo /\ r.lo < r.hi /\ r.hi <= req[t].size
       /\ IF r.prev = INVALID THEN r.lo = base(t) /\ Chain(t, r.op) = {}
          ELSE Top(t, r.op, r.prev) /\ cmd[r.prev].hi = r.lo

\* Command k has been added as r.
Added(k, r) ==
  /\ k \in Ids /\ Issued' = Issued \cup {k} /\ (\A i \in Issued : i < k)
  /\ cmd'[k] = r /\ \A i \in Issued : cmd'[i] = cmd[i]

\* A new command of t joins t's commands and nobody else's.
LEMMA OfAdded ==
  ASSUME TransferInv, QueueInv, NEW t \in App, NEW r, r.t = t, NEW k, Added(k, r)
  PROVE  /\ \A u \in App : Of(u)' = IF u = t THEN Of(u) \cup {k} ELSE Of(u)
         /\ \A u \in App : \A o : Chain(u, o)' =
              IF u = t /\ o = r.op THEN Chain(u, o) \cup {k} ELSE Chain(u, o)
<1>1. /\ Issued' = Issued \cup {k} /\ cmd'[k] = r /\ \A i \in Issued : cmd'[i] = cmd[i]
  BY Zenon DEF Added
<1>2. \A u \in App : Of(u)' = IF u = t THEN Of(u) \cup {k} ELSE Of(u)
  BY <1>1, Zenon DEF Of
<1>3. \A u \in App : \A o : Chain(u, o)' =
        IF u = t /\ o = r.op THEN Chain(u, o) \cup {k} ELSE Chain(u, o)
  BY <1>1, <1>2 DEF Chain, Of
<1> QED
  BY <1>2, <1>3, Zenon

\* IDs are numbers.
LEMMA Numbers ==
  ASSUME TransferInv, QueueInv
  PROVE  /\ Issued \subseteq Int /\ Issued \subseteq Ids
         /\ \A u : Of(u) \subseteq Issued /\ Of(u) \subseteq Int
         /\ \A u, o : Chain(u, o) \subseteq Of(u) /\ Chain(u, o) \subseteq Int
<1>1. Issued \subseteq Int /\ Issued \subseteq Ids
  BY QueueFacts, Zenon
<1> QED
  BY <1>1, Zenon DEF Of, Chain

\* A thread keeps its invariant while others move.
LEMMA ThreadOther ==
  ASSUME NEW u \in App, ThreadInv(u), UNCHANGED req, Of(u)' = Of(u),
         \A i \in Of(u) : cmd'[i] = cmd[i],
         pc'[u] = pc[u], prev'[u] = prev[u], parts'[u] = parts[u], ret'[u] = ret[u],
         rsize'[u] = rsize[u], submit_mtx' = u <=> submit_mtx = u
  PROVE  ThreadInv(u)'
<1>1. base(u)' = base(u) /\ total(u)' = total(u) /\ (isLarge(u)' <=> isLarge(u)) /\ Dir(u)' = Dir(u)
  BY SameTotals, Zenon DEF Dir
<1>2. \A o : Chain(u, o)' = Chain(u, o) /\ \A i \in Chain(u, o) : cmd'[i] = cmd[i]
  BY Zenon DEF Chain
<1>3. \A o, i : Top(u, o, i)' <=> Top(u, o, i)
  BY <1>2, Zenon DEF Top
<1>4. \A o, i : Top(u, o, i) => cmd'[i] = cmd[i]
  BY <1>2, Zenon DEF Top
<1>5. PlaceInv(u)'
  BY <1>1, Zenon DEF ThreadInv, PlaceInv
<1>6. FragInv(u)'
  BY <1>1, <1>2, <1>3, <1>4, Zenon DEF ThreadInv, FragInv
<1>7. PartsInv(u)'
  BY <1>2, <1>3, <1>4, SMTT(30) DEF ThreadInv, PartsInv
<1>8. RetInv(u)'
  BY <1>1, Zenon DEF ThreadInv, RetInv
<1> QED
  BY <1>5, <1>6, <1>7, <1>8, Zenon DEF ThreadInv

\* Nor do the steps of the driver and of the VE touch the chains.
LEMMA ChainSame ==
  ASSUME ChainInv, UNCHANGED <<req, seq_no, cmd, pc, prev, parts, ret, rsize, submit_mtx>>
  PROVE  ChainInv'
<1>1. Issued' = Issued /\ \A u \in App : base(u)' = base(u) /\ (isLarge(u)' <=> isLarge(u))
  BY SameTotals, Zenon DEF Issued
<1>2. \A u : Of(u)' = Of(u)
  BY <1>1, Zenon DEF Of
<1>3. \A u, o : Chain(u, o)' = Chain(u, o)
  BY <1>2, Zenon DEF Chain
<1>4. ASSUME NEW u \in App, NEW i \in Of(u) PROVE CommandInv(i, u)'
  <2>1. CommandInv(i, u)
    BY Zenon DEF ChainInv
  <2>2. Suits(cmd[i], u)'
    BY <1>1, <2>1, Zenon DEF CommandInv, Suits
  <2> QED
    BY <1>1, <1>2, <1>3, <2>1, <2>2, Zenon DEF CommandInv
<1>5. \A u \in App : Contiguous(u)'
  BY <1>1, <1>2, Zenon DEF ChainInv, Contiguous
<1>6. \A u \in App : ThreadInv(u)'
  BY <1>2, ThreadOther, Zenon DEF ChainInv
<1> QED
  BY <1>1, <1>2, <1>4, <1>5, <1>6, Zenon DEF ChainInv

\* Threads other than t are where they were.
OthersSame(t) ==
  \A u \in App \ {t} :
    /\ pc'[u] = pc[u] /\ prev'[u] = prev[u] /\ parts'[u] = parts[u] /\ ret'[u] = ret[u]
    /\ rsize'[u] = rsize[u] /\ (submit_mtx' = u <=> submit_mtx = u)

\* A step of t without a new command.
LEMMA ChainMoved ==
  ASSUME TransferInv, QueueInv, ChainInv, NEW t \in App, UNCHANGED <<req, cmd, seq_no>>,
         submit_mtx' = t => submit_mtx = t \/ Of(t) = {}, OthersSame(t), ThreadInv(t)'
  PROVE  ChainInv'
<1>1. Issued' = Issued /\ \A u \in App : base(u)' = base(u) /\ (isLarge(u)' <=> isLarge(u))
  BY SameTotals, Zenon DEF Issued
<1>2. \A u : Of(u)' = Of(u)
  BY <1>1, Zenon DEF Of
<1>3. \A u, o : Chain(u, o)' = Chain(u, o)
  BY <1>2, Zenon DEF Chain
<1>4. ASSUME NEW u \in App, NEW i \in Of(u) PROVE CommandInv(i, u)'
  <2>1. CommandInv(i, u)
    BY Zenon DEF ChainInv
  <2>2. Suits(cmd[i], u)'
    BY <1>1, <2>1, Zenon DEF CommandInv, Suits
  <2> QED
    BY <1>1, <1>2, <1>3, <2>1, <2>2, Zenon DEF CommandInv
<1>5. ASSUME NEW u \in App PROVE Contiguous(u)'
  <2>1. Contiguous(u)
    BY Zenon DEF ChainInv
  <2>2. CASE u = t
    BY <1>1, <1>2, <2>1, <2>2, Zenon DEF Contiguous
  <2>3. CASE u # t
    BY <1>1, <1>2, <2>1, <2>3, Zenon DEF Contiguous, OthersSame
  <2> QED
    BY <2>2, <2>3, Zenon
<1>6. ASSUME NEW u \in App, u # t PROVE ThreadInv(u)'
  BY <1>2, <1>6, ThreadOther, Zenon DEF ChainInv, OthersSame
<1> QED
  BY <1>1, <1>2, <1>4, <1>5, <1>6, Zenon DEF ChainInv

\* Before it calls, a thread has submitted nothing.
LEMMA Untouched ==
  ASSUME ChainInv, NEW t \in App, pc[t] = "idle"
  PROVE  /\ Of(t) = {} /\ (\A o : Chain(t, o) = {}) /\ prev[t] = INVALID
         /\ parts[t].write = INVALID /\ parts[t].call = INVALID /\ parts[t].read = INVALID
         /\ submit_mtx # t
<1>1. PlaceInv(t) /\ FragInv(t) /\ PartsInv(t)
  BY Zenon DEF ChainInv, ThreadInv
<1>2. Of(t) = {} /\ submit_mtx # t
  BY <1>1, Zenon DEF PlaceInv, OpsAt
<1> QED
  BY <1>1, <1>2, Zenon DEF FragInv, PartsInv, Chain

-----------------------------------------------------------------------------

Submits(t) == Start(t) \/ Fragment(t) \/ ChainFails(t) \/ CallStep(t) \/ Finish(t)

\* A call that goes on keeps the queues in order and its commands in chains.
LEMMA ChainSubmits ==
  ASSUME TransferInv, QueueInv, ChainInv
  PROVE  \A t \in App : Submits(t) => QueueInv' /\ ChainInv'
  \* The ID of a new command is the greatest of all.
<1>QueueSubmit.
    ASSUME TransferInv, QueueInv, NEW c \in CmdType, seq_no < NReq, submit(c),
           UNCHANGED <<inflight, state, driver, chan, rep, child>>,
           Over => c.op = "finish"
    PROVE  /\ QueueInv'
           /\ Issued' = Issued \cup {seq_no} /\ \A i \in Issued : i < seq_no
           /\ Elems(request)' = Elems(request) \cup {seq_no}
           /\ cmd'[seq_no] = c /\ \A i \in Ids : i # seq_no => cmd'[i] = cmd[i]
           /\ seq_no \in Ids
  <2> USE <1>QueueSubmit
  <2>1. /\ request \in Seq(Ids) /\ Elems(request) \subseteq Ids /\ seq_no \in Nat
        /\ RepIds \subseteq Ids /\ Elems(chan) \subseteq Ids /\ seq_no \notin Issued
        /\ Ids \subseteq Int
    BY QueueFacts, Zenon
  <2>2. seq_no \in Ids /\ seq_no' = seq_no + 1
    BY <2>1, NReqAssumption DEF submit, Ids
  <2>3. Issued' = Issued \cup {seq_no} /\ \A i \in Issued : i < seq_no
    BY <2>1, <2>2 DEF Issued
  <2>4. Increasing(request') /\ Elems(request)' = Elems(request) \cup {seq_no}
    <3>1. \A i \in Elems(request) : i < seq_no
      BY <2>3, Zenon DEF QueueInv
    <3> QED
      BY <2>1, <2>2, <3>1, AppendIncreasing, Zenon DEF submit, pushRequest, QueueInv
  <2>5. cmd'[seq_no] = c /\ \A i \in Ids : i # seq_no => cmd'[i] = cmd[i]
    BY <2>2, Zenon DEF submit, TransferInv, TypeOK
  <2>6. RepIds' = RepIds /\ Elems(chan)' = Elems(chan) /\ (Over' <=> Over)
    BY Zenon DEF RepIds, Over
  <2>7. \A i \in RepIds \cup Elems(chan), j \in Elems(request)' : i < j
    BY <2>1, <2>3, <2>4, Zenon DEF QueueInv
  <2>8. Over => \A i \in Elems(request)' : cmd'[i].op = "finish"
    BY <2>1, <2>4, <2>5, Zenon DEF QueueInv
  <2>9. QueueInv'
    <3>1. \A i \in Elems(chan) \cup RepIds : cmd'[i] = cmd[i]
      BY <2>1, <2>5, Zenon DEF QueueInv
    <3> QED
      BY <2>1, <2>3, <2>4, <2>6, <2>7, <2>8, <3>1, Zenon DEF QueueInv
  <2> QED
    BY <2>2, <2>3, <2>4, <2>5, <2>9, Zenon
  \* If the command fits, the invariants on the commands hold for all of them.
<1>CommandsAdded.
    ASSUME TransferInv, QueueInv, ChainInv, NEW t \in App, NEW r, Fits(r, t), NEW k, Added(k, r),
           UNCHANGED req
    PROVE  /\ \A i \in Issued' : cmd'[i].t \in App
           /\ \A u \in App : \A i \in Of(u)' : CommandInv(i, u)'
  <2> USE <1>CommandsAdded
  <2>1. /\ \A u \in App : Of(u)' = IF u = t THEN Of(u) \cup {k} ELSE Of(u)
        /\ \A u \in App : \A o : Chain(u, o)' =
             IF u = t /\ o = r.op THEN Chain(u, o) \cup {k} ELSE Chain(u, o)
    BY OfAdded, SMTT(30) DEF Fits
  <2>2. /\ k \in Int /\ Issued' = Issued \cup {k} /\ (\A i \in Issued : i < k)
        /\ cmd'[k] = r /\ \A i \in Issued : cmd'[i] = cmd[i]
    BY QueueFacts, Zenon DEF Added
  <2>3. \A u \in App : base(u)' = base(u) /\ (isLarge(u)' <=> isLarge(u))
    BY SameTotals, Zenon
  <2>4. ASSUME NEW u \in App, NEW i \in Of(u) PROVE CommandInv(i, u)'
    <3>1. CommandInv(i, u)
      BY Zenon DEF ChainInv
    <3>2. i \in Issued /\ i \in Int
      BY Numbers, Zenon
    <3>3. cmd'[i] = cmd[i] /\ i < k
      BY <2>2, <3>2, Zenon
    <3>4. PICK c : c = cmd[i]
      BY Zenon
    <3>5. Suits(c, u)'
      BY <2>3, <3>1, <3>4, Zenon DEF CommandInv, Suits
    <3>6. \A d \in Of(u)' : d < i => cmd'[d].op \in Earlier(c.op)
      <4> SUFFICES ASSUME NEW d \in Of(u)', d < i PROVE cmd'[d].op \in Earlier(c.op)
        BY Zenon
      <4>1. d \in Of(u)
        BY <2>1, <2>2, <3>2, <3>3, SMTT(30)
      <4>2. cmd'[d] = cmd[d]
        BY <2>2, <4>1, Numbers, Zenon
      <4> QED
        BY <3>1, <3>4, <4>1, <4>2, Zenon DEF CommandInv
    <3>7. c.op \notin Fragments => c.prev = INVALID
      BY <3>1, <3>4, Zenon DEF CommandInv
    <3>8. /\ \A d \in Chain(u, c.op)' : d \in Chain(u, c.op) \/ d > i
          /\ \A d \in Chain(u, c.op) : d \in Chain(u, c.op)'
      BY <2>1, <2>2, <3>2, <3>3, Zenon
    <3>9. ASSUME c.op \in Fragments, c.prev # INVALID
          PROVE  /\ c.prev \in Chain(u, c.op)' /\ c.prev < i /\ cmd'[c.prev].hi = c.lo
                 /\ \A d \in Chain(u, c.op)' : d < i => d <= c.prev
      <4>1. /\ c.prev \in Chain(u, c.op) /\ c.prev < i /\ cmd[c.prev].hi = c.lo
            /\ \A d \in Chain(u, c.op) : d < i => d <= c.prev
        BY <3>1, <3>4, <3>9, Zenon DEF CommandInv
      <4>2. cmd'[c.prev] = cmd[c.prev]
        BY <2>2, <4>1, Numbers, Zenon
      <4>3. \A d \in Chain(u, c.op)' : d < i => d <= c.prev
        <5> SUFFICES ASSUME NEW d \in Chain(u, c.op)', d < i PROVE d <= c.prev
          BY Zenon
        <5>1. d \in Int
          BY <2>1, <2>2, Numbers, SMTT(30)
        <5>2. d \in Chain(u, c.op)
          BY <3>2, <3>8, <5>1
        <5> QED
          BY <4>1, <5>2, Zenon
      <4> QED
        BY <3>8, <4>1, <4>2, <4>3, Zenon
    <3>10. ASSUME c.op \in Fragments, c.prev = INVALID
           PROVE  c.lo = base(u) /\ \A d \in Chain(u, c.op)' : i <= d
      <4>1. c.lo = base(u) /\ \A d \in Chain(u, c.op) : i <= d
        BY <3>1, <3>4, <3>10, Zenon DEF CommandInv
      <4>2. \A d \in Chain(u, c.op)' : d \in Int
        BY <2>1, <2>2, Numbers, SMTT(30)
      <4> QED
        BY <3>2, <3>8, <4>1, <4>2, SMTT(30)
    <3>11. c.op \in Fragments => base(u) <= c.lo /\ c.lo < c.hi /\ c.hi <= req[u].size
      BY <3>1, <3>4, Zenon DEF CommandInv
    <3>12. cmd'[i] = c /\ base(u)' = base(u)
      BY <2>3, <3>3, <3>4, Zenon
    <3> QED
      BY <3>5, <3>6, <3>7, <3>9, <3>10, <3>11, <3>12, Zenon DEF CommandInv
  <2>5. CommandInv(k, t)'
    <3>1. Suits(r, t)'
      BY <2>3, Zenon DEF Fits, Suits
    <3>2. \A d \in Of(t)' : d < k => cmd'[d].op \in Earlier(r.op)
      <4> SUFFICES ASSUME NEW d \in Of(t)', d < k PROVE cmd'[d].op \in Earlier(r.op)
        BY Zenon
      <4>1. d \in Of(t)
        BY <2>1, <2>2, SMTT(30)
      <4>2. cmd'[d] = cmd[d]
        BY <2>2, <4>1, Numbers, Zenon
      <4> QED
        BY <4>1, <4>2, Zenon DEF Fits
    <3>3. r.op \notin Fragments => r.prev = INVALID
      BY Zenon DEF Fits
    <3>4. Chain(t, r.op)' = Chain(t, r.op) \cup {k} /\ \A d \in Chain(t, r.op) : d < k
      BY <2>1, <2>2, Numbers, Zenon
    <3>5. ASSUME r.op \in Fragments, r.prev = INVALID
          PROVE  r.lo = base(t) /\ \A d \in Chain(t, r.op)' : k <= d
      <4>1. r.lo = base(t) /\ Chain(t, r.op) = {}
        BY <3>5, Zenon DEF Fits
      <4> QED
        BY <2>2, <3>4, <4>1, SMTT(30)
    <3>6. ASSUME r.op \in Fragments, r.prev # INVALID
          PROVE  /\ r.prev \in Chain(t, r.op)' /\ r.prev < k /\ cmd'[r.prev].hi = r.lo
                 /\ \A d \in Chain(t, r.op)' : d < k => d <= r.prev
      <4>1. /\ r.prev \in Chain(t, r.op) /\ cmd[r.prev].hi = r.lo
            /\ \A d \in Chain(t, r.op) : d <= r.prev
        BY <3>6, Zenon DEF Fits, Top
      <4>2. cmd'[r.prev] = cmd[r.prev]
        BY <2>2, <4>1, Numbers, Zenon
      <4> QED
        BY <2>2, <3>4, <4>1, <4>2, SMTT(30)
    <3>7. r.op \in Fragments => base(t) <= r.lo /\ r.lo < r.hi /\ r.hi <= req[t].size
      BY Zenon DEF Fits
    <3>8. base(t)' = base(t) /\ cmd'[k] = r
      BY <2>2, <2>3, Zenon
    <3> QED
      BY <3>1, <3>2, <3>3, <3>5, <3>6, <3>7, <3>8, Zenon DEF CommandInv
  <2>6. \A i \in Issued' : cmd'[i].t \in App
    BY <2>2, Zenon DEF ChainInv, Fits
  <2>7. ASSUME NEW u \in App, NEW i \in Of(u)' PROVE CommandInv(i, u)'
    <3>1. i \in Of(u) \/ (u = t /\ i = k)
      BY <2>1, Zenon
    <3> QED
      BY <2>4, <2>5, <3>1, Zenon
  <2> QED
    BY <2>6, <2>7, Zenon
  \* Whoever submits a part of a large call holds submit_mtx.
<1>ContiguousAdded.
    ASSUME TransferInv, QueueInv, ChainInv, NEW t \in App, NEW r, r.t = t, NEW k, Added(k, r),
           UNCHANGED req, submit_mtx \in {t, None}, isLarge(t) => submit_mtx = t,
           submit_mtx' \in {submit_mtx, None}
    PROVE  \A u \in App : Contiguous(u)'
  <2> USE <1>ContiguousAdded
  <2>1. \A u \in App : Of(u)' = IF u = t THEN Of(u) \cup {k} ELSE Of(u)
    BY OfAdded, Zenon
  <2>2. k \in Int /\ Issued' = Issued \cup {k} /\ (\A i \in Issued : i < k)
    BY QueueFacts, Zenon DEF Added
  <2>3. \A u \in App : isLarge(u)' <=> isLarge(u)
    BY SameTotals, Zenon
  <2>4. ASSUME NEW u \in App, isLarge(u), NEW a \in Of(u)', NEW d \in Of(u)', NEW e \in Issued',
               a < e, e < d
        PROVE  e \in Of(u)'
    <3>1. (a \in Of(u) \/ (a = k /\ u = t)) /\ (d \in Of(u) \/ (d = k /\ u = t)) /\ (e \in Issued \/ e = k)
      BY <2>1, <2>2
    <3>2. \A x \in Of(u) \cup Issued : x \in Int /\ x < k
      BY <2>2, Numbers, Zenon
    <3>3. e \in Issued /\ a \in Of(u)
      BY <2>2, <2>4, <3>1, <3>2
    <3>4. CASE d \in Of(u)
      BY <2>1, <2>4, <3>3, <3>4, SMTT(30) DEF ChainInv, Contiguous
    <3>5. CASE d \notin Of(u)
      <4>1. u = t /\ submit_mtx = u
        BY <2>4, <3>1, <3>5, Zenon
      <4> QED
        BY <2>1, <2>4, <3>3, <4>1, Zenon DEF ChainInv, Contiguous
    <3> QED
      BY <3>4, <3>5, Zenon
  <2>5. ASSUME NEW u \in App, submit_mtx' = u, NEW a \in Of(u)', NEW e \in Issued', a < e
        PROVE  e \in Of(u)'
    <3>1. u = t /\ submit_mtx = u
      BY <2>5, TransferAssumption, Zenon
    <3>2. (a \in Of(u) \/ a = k) /\ (e \in Issued \/ e = k) /\ k \in Of(u)'
      BY <2>1, <2>2, <3>1
    <3>3. \A x \in Of(u) \cup Issued : x \in Int /\ x < k
      BY <2>2, Numbers, Zenon
    <3>4. a \in Of(u)
      BY <2>2, <2>5, <3>2, <3>3
    <3> QED
      BY <2>1, <2>5, <3>1, <3>2, <3>4, Zenon DEF ChainInv, Contiguous
  <2>6. ASSUME NEW u \in App PROVE Contiguous(u)'
    BY <2>3, <2>4, <2>5, Zenon DEF Contiguous
  <2> QED
    BY <2>6, Zenon
  \* A step in which t adds a command.
<1>ChainAdded.
    ASSUME TransferInv, QueueInv, ChainInv, NEW t \in App, NEW r, Fits(r, t), NEW k, Added(k, r),
           UNCHANGED req, submit_mtx \in {t, None}, isLarge(t) => submit_mtx = t,
           submit_mtx' \in {submit_mtx, None}, OthersSame(t), ThreadInv(t)'
    PROVE  ChainInv'
  <2> USE <1>ChainAdded
  <2>1. /\ \A i \in Issued' : cmd'[i].t \in App
        /\ \A u \in App : \A i \in Of(u)' : CommandInv(i, u)'
    BY <1>CommandsAdded, Zenon
  <2>2. \A u \in App : Contiguous(u)'
    BY <1>ContiguousAdded, Zenon DEF Fits
  <2>3. ASSUME NEW u \in App, u # t PROVE ThreadInv(u)'
    <3>1. Of(u)' = Of(u)
      BY <2>3, OfAdded, Zenon DEF Fits
    <3>2. \A i \in Of(u) : cmd'[i] = cmd[i]
      BY Numbers, Zenon DEF Added
    <3>3. ThreadInv(u)
      BY Zenon DEF ChainInv
    <3> QED
      BY <2>3, <3>1, <3>2, <3>3, ThreadOther, Zenon DEF OthersSame
  <2> QED
    BY <2>1, <2>2, <2>3, Zenon DEF ChainInv
  \* What pushing a command as QueueSubmit describes it means for the chains.
<1>Submitting.
    ASSUME TransferInv, QueueInv, NEW r \in CmdType, seq_no < NReq, submit(r),
           UNCHANGED <<inflight, state, driver, chan, rep, child>>,
           Over => r.op = "finish", NEW k, k = seq_no
    PROVE  Added(k, r) /\ QueueInv'
  <2> USE <1>Submitting
  <2>1. /\ QueueInv'
        /\ Issued' = Issued \cup {seq_no} /\ \A i \in Issued : i < seq_no
        /\ cmd'[seq_no] = r /\ \A i \in Ids : i # seq_no => cmd'[i] = cmd[i]
        /\ seq_no \in Ids
    BY <1>QueueSubmit, Zenon
  <2>2. \A i \in Issued : i \in Ids /\ i # seq_no
    BY QueueFacts, Zenon
  <2> QED
    BY <2>1, <2>2, Zenon DEF Added
  \* Start(t) keeps the invariants of the queues and chains.
<1>ChainStart.
    ASSUME TransferInv, QueueInv, ChainInv, NEW t \in App, Start(t)
    PROVE  QueueInv' /\ ChainInv'
  <2> USE <1>ChainStart
  <2>1. /\ pc[t] = "idle"
        /\ UNCHANGED <<driver, chan, rep, child, req>>
    BY Zenon DEF Start, veVars
  <2>2. /\ Of(t) = {} /\ (\A o : Chain(t, o) = {}) /\ prev[t] = INVALID
        /\ parts[t].write = INVALID /\ parts[t].call = INVALID /\ parts[t].read = INVALID
        /\ submit_mtx # t
    BY <2>1, Untouched, Zenon
  <2>3. /\ pc \in [App -> Pcs] /\ ret \in [App -> Ids \cup {INVALID}] /\ rsize \in [App -> Nat]
        /\ req \in [App -> RequestType] /\ submit_mtx \in App \cup {None}
    BY Zenon DEF TransferInv, TypeOK
  <2>4. base(t)' = base(t) /\ total(t)' = total(t) /\ (isLarge(t)' <=> isLarge(t))
    BY <2>1, SameTotals, Zenon
  <2>5. CASE ~is_alive
    <3>1. /\ UNCHANGED <<request, inflight, state, seq_no, submit_mtx, cmd, rsize, prev, parts, ret>>
          /\ pc' = [pc EXCEPT ![t] = "failed"]
      BY <2>5, Zenon DEF Start, comqVars, ctxVars, loopVars
    <3>2. pc'[t] = "failed" /\ OthersSame(t)
      BY <2>3, <3>1, Zenon DEF OthersSame
    <3>3. Of(t)' = {}
      BY <2>2, <3>1, Zenon DEF Of, Issued
    <3>4. ThreadInv(t)'
      BY <2>2, <3>1, <3>2, <3>3, Zenon DEF ThreadInv, PlaceInv, FragInv, PartsInv, RetInv
    <3> QED
      BY <2>1, <3>1, <3>2, <3>4, QueueSame, ChainMoved, Zenon
  <2>6. CASE is_alive /\ req[t].op # "call" /\ req[t].size = 0
    <3>1. PICK k : k = seq_no
      BY Zenon
    <3>2. PICK r : r = command("empty", t, 0, 0, INVALID)
      BY Zenon
    <3>3. /\ seq_no < NReq /\ submit(r) /\ submit_mtx \in {t, None}
          /\ UNCHANGED <<inflight, state, submit_mtx, rsize, prev, parts>>
          /\ ret' = [ret EXCEPT ![t] = k] /\ pc' = [pc EXCEPT ![t] = "wait"]
      BY <2>6, <3>1, <3>2, Zenon DEF Start, canSubmit, loopVars
    <3>4. /\ r \in CmdType /\ r.op = "empty" /\ r.t = t /\ r.prev = INVALID /\ r.hi = 0
      BY <3>2, CommandType, Zenon DEF command, Ops
    <3>5. ~Over
      BY <2>6, Zenon DEF is_alive, Over
    <3>6. Added(k, r) /\ QueueInv'
      BY <2>1, <3>1, <3>3, <3>4, <3>5, <1>Submitting, Zenon
    <3>7. /\ pc'[t] = "wait" /\ ret'[t] = k /\ OthersSame(t) /\ ~isLarge(t) /\ k \in Int
      BY <2>3, <2>6, <3>3, <3>6, QueueFacts, Zenon DEF OthersSame, isLarge, Added
    <3>8. Of(t)' = {k} /\ cmd'[k] = r
      BY <2>2, <3>4, <3>6, OfAdded, SMTT(30) DEF Added
    <3>9. Fits(r, t)
      BY <2>2, <2>6, <3>4, Zenon DEF Fits, Suits, Fragments
    <3>10. ThreadInv(t)'
      <4>1. PlaceInv(t)'
        BY <2>2, <2>4, <3>3, <3>4, <3>7, <3>8, Zenon DEF PlaceInv, OpsAt, Ops
      <4>2. FragInv(t)' /\ PartsInv(t)'
        BY <2>2, <3>3, <3>7, Zenon DEF FragInv, PartsInv
      <4>3. RetInv(t)'
        BY <2>1, <2>4, <2>6, <3>4, <3>7, <3>8, SMTT(30) DEF RetInv
      <4> QED
        BY <4>1, <4>2, <4>3, Zenon DEF ThreadInv
    <3> QED
      BY <2>1, <3>3, <3>6, <3>7, <3>9, <3>10, <1>ChainAdded, Zenon
  <2>7. CASE is_alive /\ ~(req[t].op # "call" /\ req[t].size = 0)
    <3>1. /\ UNCHANGED <<request, inflight, state, seq_no, cmd, prev, parts, ret>>
          /\ isLarge(t) => submit_mtx = None
          /\ submit_mtx' = IF isLarge(t) THEN t ELSE submit_mtx
          /\ rsize' = IF req[t].op # "call" \/ isLarge(t)
                      THEN [rsize EXCEPT ![t] = total(t)] ELSE rsize
          /\ pc' = [pc EXCEPT ![t] = IF req[t].op # "call" THEN req[t].op
                                     ELSE IF isLarge(t) /\ req[t].in THEN "write" ELSE "call"]
      BY <2>7, Zenon DEF Start, comqVars
    <3>2. /\ pc'[t] = IF req[t].op # "call" THEN req[t].op
                      ELSE IF isLarge(t) /\ req[t].in THEN "write" ELSE "call"
          /\ req[t].op # "call" \/ isLarge(t) => rsize'[t] = total(t)
          /\ req[t].op \in {"write", "read", "call"}
      BY <2>3, <3>1, Zenon DEF RequestType
    <3>3. OthersSame(t)
      BY <2>3, <3>1, TransferAssumption, Zenon DEF OthersSame
    <3>4. Of(t)' = {} /\ \A o : Chain(t, o)' = {}
      BY <2>2, <3>1, Zenon DEF Of, Issued, Chain
    <3>5. isLarge(t) => req[t].op = "call"
      BY Zenon DEF isLarge
    <3>6. PlaceInv(t)'
      <4>1. CASE req[t].op = "write"
        <5>1. pc'[t] = "write" /\ ~isLarge(t) /\ submit_mtx' # t
          BY <2>2, <3>1, <3>2, <3>5, <4>1, Zenon
        <5> QED
          BY <2>1, <2>4, <3>4, <4>1, <5>1, Zenon DEF PlaceInv
      <4>2. CASE req[t].op = "read"
        <5>1. pc'[t] = "read" /\ ~isLarge(t) /\ submit_mtx' # t
          BY <2>2, <3>1, <3>2, <3>5, <4>2, Zenon
        <5> QED
          BY <2>1, <2>4, <3>4, <4>2, <5>1, Zenon DEF PlaceInv
      <4>3. CASE req[t].op = "call"
        <5>1. /\ pc'[t] \in {"write", "call"} /\ (pc'[t] = "write" => isLarge(t) /\ req[t].in)
              /\ submit_mtx' = t <=> isLarge(t)
          BY <2>2, <3>1, <3>2, <4>3, Zenon
        <5> QED
          BY <2>1, <2>4, <3>4, <4>3, <5>1, Zenon DEF PlaceInv
      <4> QED
        BY <3>2, <4>1, <4>2, <4>3, Zenon
    <3>7. FragInv(t)'
      BY <2>2, <2>4, <3>1, <3>2, <3>4, <3>5, Zenon DEF FragInv
    <3>8. PartsInv(t)' /\ RetInv(t)'
      <4>1. pc'[t] \in {"write", "read", "call"}
        BY <3>2, Zenon
      <4>2. pc'[t] \notin {"wait", "done"}
        BY <4>1, Zenon
      <4>3. RetInv(t)'
        BY <4>2, Zenon DEF RetInv
      <4>4. PartsInv(t)'
        BY <2>2, <3>1, Zenon DEF PartsInv
      <4> QED
        BY <4>3, <4>4, Zenon
    <3>9. ThreadInv(t)'
      BY <3>6, <3>7, <3>8, Zenon DEF ThreadInv
    <3> QED
      BY <2>1, <2>2, <3>1, <3>3, <3>9, QueueSame, ChainMoved, Zenon
  <2> QED
    BY <2>5, <2>6, <2>7, Zenon
  \* Where a thread in the loop stands.
<1>Looping.
    ASSUME TransferInv, ChainInv, NEW t \in App, pc[t] \in {"write", "read"}
    PROVE  /\ \A c \in Of(t) : cmd[c].op \in Earlier(Dir(t)) \cup {Dir(t)}
           /\ isLarge(t) <=> submit_mtx = t
           /\ (isLarge(t) <=> req[t].op = "call")
           /\ pc[t] = "write" => parts[t].write = INVALID
           /\ parts[t].read = INVALID
           /\ parts[t].call # INVALID => pc[t] = "read" /\ parts[t].call \in Chain(t, "call")
           /\ parts[t].write # INVALID => /\ pc[t] = "read" /\ Top(t, "send", parts[t].write)
                                          /\ cmd[parts[t].write].hi = req[t].size
           /\ pc[t] = "write" => req[t].op = "write" \/ (isLarge(t) /\ req[t].in)
           /\ pc[t] = "read" => req[t].op = "read" \/ (isLarge(t) /\ req[t].out)
  <2> USE <1>Looping
  <2>1. PlaceInv(t) /\ FragInv(t) /\ PartsInv(t)
    BY Zenon DEF ChainInv, ThreadInv
  <2>2. \A c \in Of(t) : cmd[c].op \in Earlier(Dir(t)) \cup {Dir(t)}
    BY <2>1, Zenon DEF PlaceInv, OpsAt, Earlier, Dir
  <2>3. isLarge(t) => req[t].op = "call"
    BY Zenon DEF isLarge
  <2> QED
    BY <2>1, <2>2, <2>3, Zenon DEF PlaceInv, PartsInv
  \* Commands of other chains stay the last of theirs.
<1>TopStays.
    ASSUME TransferInv, QueueInv, NEW t \in App, NEW r, r.t = t, NEW k, Added(k, r),
           NEW o, o # r.op
    PROVE  /\ Chain(t, o)' = Chain(t, o)
           /\ \A i : Top(t, o, i) => Top(t, o, i)' /\ cmd'[i] = cmd[i]
           /\ \A i \in Chain(t, o) : cmd'[i] = cmd[i]
  <2> USE <1>TopStays
  <2>1. Chain(t, o)' = Chain(t, o)
    BY OfAdded
  <2>2. \A i \in Chain(t, o) : cmd'[i] = cmd[i]
    BY Numbers, Zenon DEF Added
  <2> QED
    BY <2>1, <2>2, Zenon DEF Top
  \* A fragment is chained to the last one and begins where that ends.
<1>ChainFragment.
    ASSUME TransferInv, QueueInv, ChainInv, NEW t \in App, Fragment(t)
    PROVE  QueueInv' /\ ChainInv'
  <2> USE <1>ChainFragment
  <2>1. PICK k : k = seq_no
    BY Zenon
  <2>2. PICK o : o = Dir(t)
    BY Zenon
  <2>3. PICK psz : psz = fragment(o, total(t), rsize[t])
    BY Zenon
  <2>4. PICK lo : lo = req[t].size - rsize[t]
    BY Zenon
  <2>5. PICK r : r = command(o, t, lo, lo + psz, prev[t])
    BY Zenon
  <2>6. /\ pc[t] \in {"write", "read"} /\ is_alive /\ seq_no < NReq /\ submit_mtx \in {t, None}
        /\ submit(r)
        /\ IF psz = rsize[t]
           THEN EndChain(t, k)
           ELSE /\ rsize' = [rsize EXCEPT ![t] = rsize[t] - psz]
                /\ prev' = [prev EXCEPT ![t] = k]
                /\ UNCHANGED <<pc, parts, ret>>
        /\ UNCHANGED <<inflight, state, submit_mtx, driver, chan, rep, child, req>>
    BY <2>1, <2>2, <2>3, <2>4, <2>5, Zenon DEF Fragment, canSubmit, chainedTo, Dir, veVars
  <2>7. /\ pc \in [App -> Pcs] /\ ret \in [App -> Ids \cup {INVALID}] /\ rsize \in [App -> Nat]
        /\ prev \in [App -> Ids \cup {INVALID}] /\ parts \in [App -> PartIds]
        /\ req[t].size \in Nat
    BY Zenon DEF TransferInv, TypeOK, RequestType
  <2>8. /\ total(t) \in Nat \ {0} /\ rsize[t] \in 1 .. total(t)
        /\ rsize[t] \in Nat /\ req[t].size - rsize[t] \in Nat
    BY <2>6, InLoop, Zenon
  <2>9. base(t) \in Nat /\ req[t].size = base(t) + total(t)
    BY Totals, Zenon DEF TransferInv
  <2>10. psz \in 1 .. rsize[t]
    BY <2>3, <2>8, FragmentBounds, Zenon
  <2>11. /\ psz \in Nat \ {0} /\ lo \in Nat /\ base(t) <= lo /\ lo + psz <= req[t].size
         /\ lo + psz = req[t].size - (rsize[t] - psz)
         /\ psz = rsize[t] => lo + psz = req[t].size
         /\ rsize[t] = total(t) => lo = base(t)
    BY <2>4, <2>7, <2>8, <2>9, <2>10, SMTT(30)
  <2>12. o \in Fragments /\ o \in Ops /\ o = IF pc[t] = "write" THEN "send" ELSE "recv"
    BY <2>2, <2>6, Zenon DEF Dir, Fragments, Ops
  <2>13. /\ r \in CmdType /\ r.op = o /\ r.t = t /\ r.prev = prev[t] /\ r.lo = lo /\ r.hi = lo + psz
    <3>1. lo + psz \in Nat /\ prev[t] \in Ids \cup {INVALID}
      BY <2>7, <2>11, SMTT(30)
    <3> QED
      BY <2>5, <2>11, <2>12, <3>1, CommandType, Zenon DEF command
  <2>14. ~Over
    BY <2>6, Zenon DEF is_alive, Over
  <2>15. Added(k, r) /\ QueueInv'
    BY <2>1, <2>6, <2>13, <2>14, <1>Submitting, Zenon
  <2>16. /\ \A c \in Of(t) : cmd[c].op \in Earlier(o) \cup {o}
         /\ isLarge(t) <=> submit_mtx = t
         /\ (isLarge(t) <=> req[t].op = "call")
         /\ pc[t] = "write" => parts[t].write = INVALID
         /\ parts[t].read = INVALID
         /\ parts[t].call # INVALID => pc[t] = "read" /\ parts[t].call \in Chain(t, "call")
         /\ parts[t].write # INVALID => /\ pc[t] = "read" /\ Top(t, "send", parts[t].write)
                                        /\ cmd[parts[t].write].hi = req[t].size
         /\ pc[t] = "write" => req[t].op = "write" \/ (isLarge(t) /\ req[t].in)
         /\ pc[t] = "read" => req[t].op = "read" \/ (isLarge(t) /\ req[t].out)
    BY <2>2, <2>6, <1>Looping, Zenon
  <2>17. Fits(r, t)
    <3>1. Suits(r, t)
      BY <2>6, <2>12, <2>13, <2>16, Zenon DEF Suits
    <3>2. \A d \in Of(t) : cmd[d].op \in Earlier(r.op)
      BY <2>12, <2>13, <2>16, Zenon DEF Earlier
    <3>3. IF prev[t] = INVALID THEN rsize[t] = total(t) /\ Chain(t, o) = {}
          ELSE Top(t, o, prev[t]) /\ cmd[prev[t]].hi = lo
      BY <2>2, <2>4, <2>6, Zenon DEF ChainInv, ThreadInv, FragInv
    <3> QED
      <4>1. lo < lo + psz /\ base(t) <= lo /\ lo + psz <= req[t].size
        BY <2>11, SMTT(30)
      <4>2. IF prev[t] = INVALID THEN lo = base(t) /\ Chain(t, o) = {}
            ELSE Top(t, o, prev[t]) /\ cmd[prev[t]].hi = lo
        BY <2>11, <3>3, Zenon
      <4>3. r.op \in Fragments
        BY <2>12, <2>13, Zenon
      <4> QED
        BY <2>13, <3>1, <3>2, <4>1, <4>2, <4>3, Zenon DEF Fits
  <2>18. /\ Of(t)' = Of(t) \cup {k} /\ Chain(t, o)' = Chain(t, o) \cup {k}
         /\ cmd'[k] = r /\ k \in Ids /\ k # INVALID
         /\ \A c \in Of(t) : c < k /\ cmd'[c] = cmd[c]
    <3>1. Of(t)' = Of(t) \cup {k} /\ Chain(t, o)' = Chain(t, o) \cup {k}
      BY <2>13, <2>15, OfAdded, SMTT(30)
    <3>2. cmd'[k] = r /\ \A i \in Issued : cmd'[i] = cmd[i]
      BY <2>15, Zenon DEF Added
    <3> QED
      BY <2>13, <2>15, <3>1, <3>2, Numbers, QueueFacts, SMTT(30) DEF Added
  <2>19. Top(t, o, k)' /\ cmd'[k].hi = lo + psz /\ k \in Int
    <3>1. Chain(t, o) \subseteq Of(t) /\ k \in Int /\ Of(t) \subseteq Int
      BY <2>18, QueueFacts, Numbers, Zenon
    <3>2. \A d \in Chain(t, o)' : d <= k
      BY <2>18, <3>1, SMTT(30)
    <3> QED
      BY <2>13, <2>18, <3>1, <3>2, Zenon DEF Top
  <2>20. base(t)' = base(t) /\ total(t)' = total(t) /\ (isLarge(t)' <=> isLarge(t))
    BY <2>6, SameTotals, Zenon
  <2>21. \E i, j : /\ i = parts[t].write /\ j = parts[t].call
                   /\ i # INVALID => Top(t, "send", i)' /\ cmd'[i].hi = req[t].size
                   /\ j # INVALID => j \in Chain(t, "call")'
    <3>1. ASSUME pc[t] = "read"
          PROVE  /\ \A i : Top(t, "send", i) => Top(t, "send", i)' /\ cmd'[i] = cmd[i]
                 /\ Chain(t, "call")' = Chain(t, "call")
      <4>1. r.op # "send" /\ r.op # "call"
        BY <2>12, <2>13, <3>1, Zenon
      <4> QED
        BY <2>13, <2>15, <4>1, <1>TopStays, SMTT(30)
    <3>2. parts[t].write # INVALID \/ parts[t].call # INVALID => pc[t] = "read"
      BY <2>16, Zenon
    <3>3. PICK i : i = parts[t].write
      BY Zenon
    <3>4. PICK j : j = parts[t].call
      BY Zenon
    <3>5. i # INVALID => Top(t, "send", i)' /\ cmd'[i].hi = req[t].size
      BY <2>16, <3>1, <3>2, <3>3, Zenon
    <3>6. j # INVALID => j \in Chain(t, "call")'
      BY <2>16, <3>1, <3>2, <3>4, Zenon
    <3> QED
      BY <3>3, <3>4, <3>5, <3>6, Zenon
  <2>22. \A c \in Of(t)' : cmd'[c].op \in Earlier(o) \cup {o}
    BY <2>13, <2>16, <2>18, Zenon
  <2>23. CASE psz # rsize[t]
    <3>1. /\ rsize'[t] = rsize[t] - psz /\ prev'[t] = k /\ UNCHANGED <<pc, parts, ret>>
          /\ OthersSame(t)
      BY <2>6, <2>7, <2>23, Zenon DEF OthersSame
    <3>2. PlaceInv(t)'
      <4>1. \A c \in Of(t)' : cmd'[c].op \in OpsAt(pc[t])
        BY <2>6, <2>12, <2>22, Zenon DEF OpsAt, Earlier
      <4>2. PlaceInv(t)
        BY Zenon DEF ChainInv, ThreadInv
      <4> QED
        BY <2>6, <2>20, <3>1, <4>1, <4>2, Zenon DEF PlaceInv
    <3>3. FragInv(t)'
      <4>1. Dir(t)' = o
        BY <2>2, <3>1, Zenon DEF Dir
      <4> QED
        BY <2>6, <2>11, <2>18, <2>19, <3>1, <4>1, Zenon DEF FragInv
    <3>4. PartsInv(t)' /\ RetInv(t)'
      BY <2>6, <2>16, <2>21, <3>1, Zenon DEF PartsInv, RetInv
    <3>5. ThreadInv(t)'
      BY <3>2, <3>3, <3>4, Zenon DEF ThreadInv
    <3> QED
      BY <2>6, <2>15, <2>16, <2>17, <3>1, <3>5, <1>ChainAdded, Zenon
  <2>24. CASE psz = rsize[t]
    <3>1. /\ prev' = [prev EXCEPT ![t] = INVALID] /\ rsize' = [rsize EXCEPT ![t] = total(t)]
          /\ parts' = IF pc[t] = "write" THEN [parts EXCEPT ![t].write = k]
                                         ELSE [parts EXCEPT ![t].read = k]
          /\ ret' = IF req[t].op = "call" THEN ret ELSE [ret EXCEPT ![t] = k]
          /\ pc' = [pc EXCEPT ![t] =
                      IF req[t].op = "call" THEN IF pc[t] = "write" THEN "call" ELSE "finish"
                      ELSE IF k = INVALID THEN "failed" ELSE "wait"]
      BY <2>6, <2>7, <2>24, Zenon DEF EndChain
    <3>2. /\ prev'[t] = INVALID /\ rsize'[t] = total(t)
          /\ req[t].op # "call" => ret'[t] = k
          /\ pc'[t] = IF req[t].op = "call" THEN IF pc[t] = "write" THEN "call" ELSE "finish"
                      ELSE "wait"
      BY <2>7, <2>18, <3>1, Zenon
    <3>3. /\ pc[t] = "write" => /\ parts'[t].write = k /\ parts'[t].call = parts[t].call
                                /\ parts'[t].read = parts[t].read
          /\ pc[t] = "read" => /\ parts'[t].read = k /\ parts'[t].call = parts[t].call
                               /\ parts'[t].write = parts[t].write
      BY <2>7, <3>1, Zenon DEF PartIds
    <3>4. OthersSame(t)
      BY <2>6, <2>7, <3>1, Zenon DEF OthersSame
    <3>5. PlaceInv(t)'
      BY <2>6, <2>12, <2>16, <2>20, <2>22, <3>2, Zenon DEF PlaceInv, OpsAt, Earlier, Ops
    <3>6. FragInv(t)'
      BY <2>20, <3>2, Zenon DEF FragInv
    <3>7. PartsInv(t)'
      BY <2>6, <2>11, <2>12, <2>16, <2>19, <2>21, <2>24, <3>2, <3>3, ZenonT(60) DEF PartsInv
    <3>8. RetInv(t)'
      <4> SUFFICES ASSUME pc'[t] \in {"wait", "done"} PROVE RetInv(t)'
        BY Zenon DEF RetInv
      <4>1. req[t].op # "call" /\ ~isLarge(t) /\ ret'[t] = k
        BY <2>16, <3>2, Zenon
      <4>2. k \in Of(t)' /\ \A d \in Of(t)' : d <= k
        BY <2>18, <2>19, Numbers, SMTT(30)
      <4>3. cmd'[k].op \in Fragments /\ cmd'[k].hi = req[t].size
        BY <2>11, <2>12, <2>13, <2>18, <2>24, Zenon
      <4> QED
        BY <2>6, <2>20, <4>1, <4>2, <4>3, Zenon DEF RetInv
    <3>9. ThreadInv(t)'
      BY <3>5, <3>6, <3>7, <3>8, Zenon DEF ThreadInv
    <3> QED
      BY <2>6, <2>15, <2>16, <2>17, <3>4, <3>9, <1>ChainAdded, Zenon
  <2> QED
    BY <2>23, <2>24, Zenon
  \* A chain that is given up leaves its part unset.
<1>ChainChainFails.
    ASSUME TransferInv, QueueInv, ChainInv, NEW t \in App, ChainFails(t)
    PROVE  QueueInv' /\ ChainInv'
  <2> USE <1>ChainChainFails
  <2>1. /\ pc[t] \in {"write", "read"}
        /\ UNCHANGED <<request, inflight, state, seq_no, submit_mtx, driver, cmd, chan, rep, child, req>>
        /\ prev' = [prev EXCEPT ![t] = INVALID] /\ rsize' = [rsize EXCEPT ![t] = total(t)]
        /\ parts' = IF pc[t] = "write" THEN [parts EXCEPT ![t].write = INVALID]
                                       ELSE [parts EXCEPT ![t].read = INVALID]
        /\ ret' = IF req[t].op = "call" THEN ret ELSE [ret EXCEPT ![t] = INVALID]
        /\ pc' = [pc EXCEPT ![t] =
                    IF req[t].op = "call" THEN IF pc[t] = "write" THEN "call" ELSE "finish"
                    ELSE "failed"]
    BY Zenon DEF ChainFails, EndChain, comqVars, ctxVars, veVars, TransferInv, TypeOK
  <2>2. /\ pc \in [App -> Pcs] /\ ret \in [App -> Ids \cup {INVALID}] /\ rsize \in [App -> Nat]
        /\ prev \in [App -> Ids \cup {INVALID}] /\ parts \in [App -> PartIds]
        /\ cmd \in [Ids -> CmdType]
    BY Zenon DEF TransferInv, TypeOK
  <2>3. /\ prev'[t] = INVALID /\ rsize'[t] = total(t)
        /\ pc'[t] = IF req[t].op = "call" THEN IF pc[t] = "write" THEN "call" ELSE "finish"
                    ELSE "failed"
    BY <2>1, <2>2, Zenon
  <2>4. /\ \A c \in Of(t) : cmd[c].op \in Earlier(Dir(t)) \cup {Dir(t)}
        /\ isLarge(t) <=> submit_mtx = t
        /\ (isLarge(t) <=> req[t].op = "call")
        /\ pc[t] = "write" => parts[t].write = INVALID
        /\ parts[t].read = INVALID
        /\ parts[t].call # INVALID => pc[t] = "read" /\ parts[t].call \in Chain(t, "call")
        /\ parts[t].write # INVALID => /\ pc[t] = "read" /\ Top(t, "send", parts[t].write)
                                       /\ cmd[parts[t].write].hi = req[t].size
    BY <2>1, <1>Looping, Zenon
  <2>5. parts'[t].write = parts[t].write /\ parts'[t].call = parts[t].call /\ parts'[t].read = INVALID
    BY <2>1, <2>2, <2>4 DEF PartIds
  <2>6. OthersSame(t)
    BY <2>1, <2>2, Zenon DEF OthersSame
  <2>7. /\ Of(t)' = Of(t) /\ (\A o : Chain(t, o)' = Chain(t, o))
        /\ (\A o, i : Top(t, o, i)' <=> Top(t, o, i))
        /\ base(t)' = base(t) /\ total(t)' = total(t) /\ (isLarge(t)' <=> isLarge(t))
    BY <2>1, SameTotals, Zenon DEF Of, Chain, Top, Issued
  <2>8. PlaceInv(t)'
    <3>1. \A c \in Of(t) : cmd[c].op = "call" => req[t].op = "call"
      BY Zenon DEF ChainInv, CommandInv, Suits
    <3> QED
      BY <2>1, <2>3, <2>4, <2>7, <3>1 DEF PlaceInv, OpsAt, Earlier, Dir
  <2>9. FragInv(t)' /\ RetInv(t)'
    BY <2>3, <2>7, Zenon DEF FragInv, RetInv
  <2>10. PartsInv(t)'
    BY <2>1, <2>3, <2>4, <2>5, <2>7, SMTT(30) DEF PartsInv
  <2>11. ThreadInv(t)'
    BY <2>8, <2>9, <2>10, Zenon DEF ThreadInv
  <2> QED
    BY <2>1, <2>6, <2>11, QueueSame, ChainMoved, Zenon
  \* simpleCallAsync() submits the one CALL command of a call.
<1>ChainCallStep.
    ASSUME TransferInv, QueueInv, ChainInv, NEW t \in App, CallStep(t)
    PROVE  QueueInv' /\ ChainInv'
  <2> USE <1>ChainCallStep
  <2>1. PICK k : k = IF is_alive THEN seq_no ELSE INVALID
    BY Zenon
  <2>2. PICK r : r = command("call", t, 0, IF isLarge(t) THEN MaxStack ELSE req[t].size, INVALID)
    BY Zenon
  <2>3. /\ pc[t] = "call"
        /\ is_alive => seq_no < NReq /\ submit_mtx \in {t, None} /\ submit(r)
        /\ ~is_alive => UNCHANGED <<seq_no, cmd, request>>
        /\ parts' = [parts EXCEPT ![t].call = k]
        /\ ret' = IF isLarge(t) THEN ret ELSE [ret EXCEPT ![t] = k]
        /\ pc' = [pc EXCEPT ![t] = IF ~isLarge(t)
                                   THEN IF k = INVALID THEN "failed" ELSE "wait"
                                   ELSE IF req[t].out THEN "read" ELSE "finish"]
        /\ UNCHANGED <<inflight, state, submit_mtx, driver, chan, rep, child, req, rsize, prev>>
    BY <2>1, <2>2, Zenon DEF CallStep, canSubmit, veVars
  <2>4. /\ pc \in [App -> Pcs] /\ ret \in [App -> Ids \cup {INVALID}]
        /\ parts \in [App -> PartIds] /\ cmd \in [Ids -> CmdType]
        /\ req[t].size \in Nat /\ MaxStack \in Nat
    BY TransferAssumption, Zenon DEF TransferInv, TypeOK, RequestType
  <2>5. /\ pc'[t] = IF ~isLarge(t) THEN IF k = INVALID THEN "failed" ELSE "wait"
                    ELSE IF req[t].out THEN "read" ELSE "finish"
        /\ ~isLarge(t) => ret'[t] = k
        /\ OthersSame(t)
    BY <2>3, <2>4, Zenon DEF OthersSame
  <2>6. parts'[t].call = k /\ parts'[t].write = parts[t].write /\ parts'[t].read = parts[t].read
    BY <2>3, <2>4, Zenon DEF PartIds
  <2>7. /\ \A c \in Of(t) : cmd[c].op = "send"
        /\ isLarge(t) <=> submit_mtx = t
        /\ req[t].op = "call" /\ prev[t] = INVALID /\ (isLarge(t) => rsize[t] = total(t))
        /\ parts[t].read = INVALID
        /\ parts[t].write # INVALID => Top(t, "send", parts[t].write) /\ cmd[parts[t].write].hi = req[t].size
    <3>1. PlaceInv(t) /\ FragInv(t) /\ PartsInv(t)
      BY Zenon DEF ChainInv, ThreadInv
    <3> QED
      BY <2>3, <3>1, Zenon DEF PlaceInv, FragInv, PartsInv, OpsAt
  <2>8. base(t)' = base(t) /\ total(t)' = total(t) /\ (isLarge(t)' <=> isLarge(t))
    BY <2>3, SameTotals, Zenon
  <2>9. Chain(t, "recv") = {}
    BY <2>7, Zenon DEF Chain
  <2>10. CASE is_alive
    <3>1. /\ r \in CmdType /\ r.op = "call" /\ r.t = t /\ r.prev = INVALID /\ r.lo = 0
          /\ r.hi = IF isLarge(t) THEN MaxStack ELSE req[t].size
      BY <2>2, <2>4, CommandType, Zenon DEF command, Ops
    <3>2. ~Over /\ k = seq_no
      BY <2>1, <2>10, Zenon DEF is_alive, Over
    <3>3. Added(k, r) /\ QueueInv'
      BY <2>3, <2>10, <3>1, <3>2, <1>Submitting, Zenon
    <3>4. Fits(r, t)
      BY <2>7, <3>1, Zenon DEF Fits, Suits, Earlier, Fragments
    <3>5. /\ Of(t)' = Of(t) \cup {k} /\ Chain(t, "call")' = Chain(t, "call") \cup {k}
          /\ Chain(t, "recv")' = {}
          /\ cmd'[k] = r /\ k # INVALID /\ k \in Int
          /\ \A c \in Of(t) : c < k /\ cmd'[c] = cmd[c]
      <4>1. Of(t)' = Of(t) \cup {k} /\ Chain(t, "call")' = Chain(t, "call") \cup {k}
        BY <3>1, <3>3, OfAdded, SMTT(30)
      <4>2. Chain(t, "recv")' = {}
        <5>1. "recv" # r.op
          BY <3>1, Zenon
        <5> QED
          BY <2>9, <3>1, <3>3, <5>1, <1>TopStays, Zenon
      <4>3. cmd'[k] = r /\ k # INVALID /\ k \in Int /\ \A c \in Of(t) : c < k /\ cmd'[c] = cmd[c]
        BY <3>3, Numbers, QueueFacts, Zenon DEF Added
      <4> QED
        BY <4>1, <4>2, <4>3, Zenon
    <3>6. PlaceInv(t)'
      BY <2>3, <2>5, <2>7, <2>8, <3>1, <3>5 DEF PlaceInv, OpsAt, Ops
    <3>7. FragInv(t)'
      <4>1. Dir(t)' = "recv" \/ pc'[t] \notin {"write", "read"}
        BY <2>5, Zenon DEF Dir
      <4> QED
        BY <2>3, <2>5, <2>7, <2>8, <3>5, <4>1 DEF FragInv
    <3>8. PartsInv(t)'
      <4>1. PICK i : i = parts[t].write
        BY Zenon
      <4>2. i # INVALID => Top(t, "send", i)' /\ cmd'[i] = cmd[i]
        <5>1. "send" # r.op
          BY <3>1, Zenon
        <5>2. i # INVALID => Top(t, "send", i)
          BY <2>7, <4>1, Zenon
        <5> QED
          BY <3>1, <3>3, <5>1, <5>2, <1>TopStays, ZenonT(60)
      <4>3. i # INVALID => cmd'[i].hi = req'[t].size
        BY <2>3, <2>7, <4>1, <4>2, Zenon
      <4>4. pc'[t] \notin {"idle", "write", "call"} /\ parts'[t].read = INVALID /\ parts'[t].write = i
        BY <2>5, <2>6, <2>7, <4>1, Zenon
      <4>5. parts'[t].call \in Chain(t, "call")'
        BY <2>6, <3>5, Zenon
      <4> QED
        BY <4>2, <4>3, <4>4, <4>5, Zenon DEF PartsInv
    <3>9. RetInv(t)'
      <4> SUFFICES ASSUME pc'[t] \in {"wait", "done"} PROVE RetInv(t)'
        BY Zenon DEF RetInv
      <4>1. ~isLarge(t) /\ ret'[t] = k
        BY <2>5, Zenon
      <4>2. k \in Of(t)' /\ \A d \in Of(t)' : d <= k
        BY <3>5, Numbers, SMTT(30)
      <4> QED
        BY <2>3, <2>7, <2>8, <3>1, <3>5, <4>1, <4>2, ZenonT(60) DEF RetInv
    <3>10. ThreadInv(t)'
      BY <3>6, <3>7, <3>8, <3>9, Zenon DEF ThreadInv
    <3> QED
      BY <2>3, <2>5, <2>7, <2>10, <3>3, <3>4, <3>10, <1>ChainAdded, Zenon
  <2>11. CASE ~is_alive
    <3>1. UNCHANGED <<seq_no, cmd, request>> /\ k = INVALID
      BY <2>1, <2>3, <2>11, Zenon
    <3>2. /\ Of(t)' = Of(t) /\ (\A o : Chain(t, o)' = Chain(t, o))
          /\ (\A o, i : Top(t, o, i)' <=> Top(t, o, i))
      BY <3>1, Zenon DEF Of, Chain, Top, Issued
    <3>3. PlaceInv(t)'
      <4>1. "send" \in OpsAt(pc'[t])
        BY <2>5, <3>1, Zenon DEF OpsAt, Ops
      <4> QED
        BY <2>3, <2>5, <2>7, <2>8, <3>1, <3>2, <4>1 DEF PlaceInv
    <3>4. FragInv(t)'
      <4>1. Dir(t)' = "recv" \/ pc'[t] \notin {"write", "read"}
        BY <2>5, Zenon DEF Dir
      <4> QED
        BY <2>3, <2>5, <2>7, <2>8, <2>9, <3>2, <4>1 DEF FragInv
    <3>5. PartsInv(t)' /\ RetInv(t)'
      BY <2>3, <2>5, <2>6, <2>7, <3>1, <3>2, SMTT(30) DEF PartsInv, RetInv
    <3>6. ThreadInv(t)'
      BY <3>3, <3>4, <3>5, Zenon DEF ThreadInv
    <3> QED
      BY <2>3, <2>5, <3>1, <3>6, QueueSame, ChainMoved, Zenon
  <2> QED
    BY <2>10, <2>11, Zenon
  \* The VH command of a large call is its last.
<1>ChainFinish.
    ASSUME TransferInv, QueueInv, ChainInv, NEW t \in App, Finish(t)
    PROVE  QueueInv' /\ ChainInv'
  <2> USE <1>ChainFinish
  <2>1. PICK k : k = seq_no
    BY Zenon
  <2>2. PICK r : r = command("finish", t, 0, 0, INVALID)
    BY Zenon
  <2>3. /\ pc[t] = "finish" /\ seq_no < NReq /\ submit_mtx \in {t, None} /\ submit(r)
        /\ submit_mtx' = None /\ ret' = [ret EXCEPT ![t] = k] /\ pc' = [pc EXCEPT ![t] = "wait"]
        /\ UNCHANGED <<inflight, state, driver, chan, rep, child, req, rsize, prev, parts>>
    BY <2>1, <2>2, Zenon DEF Finish, canSubmit, veVars, loopVars
  <2>4. /\ pc \in [App -> Pcs] /\ ret \in [App -> Ids \cup {INVALID}] /\ None \notin App
    BY TransferAssumption, Zenon DEF TransferInv, TypeOK
  <2>5. PlaceInv(t) /\ FragInv(t) /\ PartsInv(t)
    BY Zenon DEF ChainInv, ThreadInv
  <2>6. /\ \A c \in Of(t) : cmd[c].op \in {"send", "call", "recv"}
        /\ isLarge(t) /\ submit_mtx = t /\ prev[t] = INVALID
    BY <2>3, <2>5, Zenon DEF PlaceInv, FragInv, OpsAt
  <2>7. pc'[t] = "wait" /\ ret'[t] = k /\ OthersSame(t)
    BY <2>3, <2>4, <2>6, Zenon DEF OthersSame
  <2>8. base(t)' = base(t) /\ total(t)' = total(t) /\ (isLarge(t)' <=> isLarge(t))
    BY <2>3, SameTotals, Zenon
  <2>9. r \in CmdType /\ r.op = "finish" /\ r.t = t /\ r.prev = INVALID
    BY <2>2, CommandType, Zenon DEF command, Ops
  <2>10. Added(k, r) /\ QueueInv'
    BY <2>1, <2>3, <2>9, <1>Submitting, Zenon
  <2>11. Fits(r, t)
    BY <2>6, <2>9, Zenon DEF Fits, Suits, Earlier, Fragments
  <2>12. /\ Of(t)' = Of(t) \cup {k} /\ cmd'[k] = r /\ k \in Int
         /\ \A c \in Of(t) : c < k /\ cmd'[c] = cmd[c]
    BY <2>9, <2>10, OfAdded, Numbers, QueueFacts, Zenon DEF Added
  <2>13. PlaceInv(t)' /\ FragInv(t)'
    BY <2>3, <2>4, <2>6, <2>7, <2>8, <2>9, <2>12, ZenonT(60) DEF PlaceInv, FragInv, OpsAt, Ops
  <2>14. PartsInv(t)'
    <3>1. \A o \in {"send", "recv", "call"} :
            /\ Chain(t, o)' = Chain(t, o)
            /\ \A i : Top(t, o, i) => Top(t, o, i)' /\ cmd'[i] = cmd[i]
      <4> SUFFICES ASSUME NEW o \in {"send", "recv", "call"}
                   PROVE  /\ Chain(t, o)' = Chain(t, o)
                          /\ \A i : Top(t, o, i) => Top(t, o, i)' /\ cmd'[i] = cmd[i]
        BY Zenon
      <4>1. o # r.op
        BY <2>9, Zenon
      <4> QED
        <5>1. Chain(t, o)' = Chain(t, o)
          BY <2>9, <2>10, <4>1, OfAdded, SMTT(30)
        <5>2. \A i \in Chain(t, o) : cmd'[i] = cmd[i]
          BY <2>10, Numbers, Zenon DEF Added
        <5> QED
          BY <5>1, <5>2, Zenon DEF Top
    <3>2. PICK i : i = parts[t].write
      BY Zenon
    <3>3. PICK j : j = parts[t].read
      BY Zenon
    <3>4. /\ i # INVALID => Top(t, "send", i)' /\ cmd'[i].hi = req'[t].size
          /\ j # INVALID => Top(t, "recv", j)' /\ cmd'[j].hi = req'[t].size
      BY <2>3, <2>5, <3>1, <3>2, <3>3, Zenon DEF PartsInv
    <3> QED
      BY <2>3, <2>5, <2>7, <3>1, <3>2, <3>3, <3>4, Zenon DEF PartsInv
  <2>15. RetInv(t)'
    <3>1. k \in Of(t)' /\ \A d \in Of(t)' : d <= k
      BY <2>12, Numbers, SMTT(30)
    <3> QED
      BY <2>6, <2>7, <2>8, <2>9, <2>12, <3>1, Zenon DEF RetInv
  <2>16. ThreadInv(t)'
    BY <2>13, <2>14, <2>15, Zenon DEF ThreadInv
  <2> QED
    BY <2>3, <2>6, <2>7, <2>10, <2>11, <2>16, <1>ChainAdded, Zenon
<1> QED
  BY <1>ChainStart, <1>ChainFragment, <1>ChainChainFails, <1>ChainCallStep, <1>ChainFinish, Zenon DEF Submits

\* Waiting changes no chain.
LEMMA ChainWait ==
  ASSUME TransferInv, QueueInv, ChainInv, NEW t \in App, Wait(t)
  PROVE  QueueInv' /\ ChainInv'
<1>1. /\ pc[t] = "wait" /\ pc' = [pc EXCEPT ![t] = "done"]
      /\ UNCHANGED <<request, inflight, state, seq_no, submit_mtx, driver, cmd, chan, rep, child>>
      /\ UNCHANGED <<req, rsize, prev, parts, ret>>
  BY Zenon DEF Wait, veVars, loopVars
<1>2. pc'[t] = "done" /\ OthersSame(t)
  BY <1>1, Zenon DEF TransferInv, TypeOK, OthersSame
<1>3. /\ Of(t)' = Of(t) /\ (\A o : Chain(t, o)' = Chain(t, o))
      /\ (\A o, i : Top(t, o, i)' <=> Top(t, o, i)) /\ (isLarge(t)' <=> isLarge(t))
  BY <1>1, SameTotals, Zenon DEF Of, Chain, Top, Issued
<1>4. PlaceInv(t) /\ FragInv(t) /\ PartsInv(t) /\ RetInv(t)
  BY Zenon DEF ChainInv, ThreadInv
<1>5. PlaceInv(t)'
  BY <1>1, <1>2, <1>3, <1>4, Zenon DEF PlaceInv, OpsAt
<1>6. FragInv(t)' /\ RetInv(t)'
  BY <1>1, <1>2, <1>3, <1>4, Zenon DEF FragInv, RetInv
<1>7. PartsInv(t)'
  BY <1>1, <1>2, <1>3, <1>4, Zenon DEF PartsInv
<1>8. ThreadInv(t)'
  BY <1>5, <1>6, <1>7, Zenon DEF ThreadInv
<1> QED
  BY <1>1, <1>2, <1>8, QueueSame, ChainMoved, Zenon
=============================================================================
