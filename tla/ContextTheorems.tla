-------------------------- MODULE ContextTheorems ---------------------------
(***************************************************************************)
(* What Context promises.  It implements CommandStream: whichever threads  *)
(* drive a context, its commands finish in the order of submission and get *)
(* one result, for the command that finishes is the oldest unfinished one  *)
(* (OrderInv).  And the calls of the application may rely on this: a       *)
(* result can be claimed until it has been, synchronize() returns behind   *)
(* everything submitted before it, a request block is not interrupted, and *)
(* the progress thread does not sleep over a request.  The invariants      *)
(* (StreamInv, CallInv, CalmWakeInv) are in ContextInv.                    *)
(***************************************************************************)
EXTENDS ContextProofs

(***************************************************************************)
(* The rings and the in-flight map.                                        *)
(***************************************************************************)

\* Every step keeps the rings and the map together.
LEMMA WireNext ==
  ASSUME StreamInv, [Next]_vars
  PROVE  WireInv'
<1>MoveNotClosing.
    ASSUME TypeOK, NEW t \in App, NEW l, NEW a, AppMove(t, l, a), pc[t] # "closed",
           l # "closed", terminateFlag => terminateFlag'
    PROVE  NotClosing
    BY <1>MoveNotClosing, Zenon DEF NotClosing, AppMove
<1>CallNotClosing.
    ASSUME TypeInv, NEW t \in App, CallStep(t), ~CloseExit(t)
    PROVE  NotClosing
  <2> USE <1>CallNotClosing
  <2>1. pc[t] # "closed" /\ terminateFlag' = terminateFlag
    BY Zenon DEF CallStep, Push, CheckInFlight, TryLock, Notify, SyncCheck, PeekResult, WaitNotify,
       WaitCheck, WaitCompletion, WaitErase, Join, comqVars
  <2>2. PICK l \in AppPcs \ {"closed"} : GoTo(t, l) \/ NotifyAndGoTo(t, l)
    BY Zenon DEF CallStep, Push, CheckInFlight, TryLock, Notify, SyncCheck, PeekResult, WaitNotify,
       WaitCheck, WaitCompletion, WaitErase, Join, AppPcs
  <2>3. PICK a : AppMove(t, l, a)
    BY <2>2, GoToMoves, NotifyMoves, Zenon DEF TypeInv
  <2> QED
    BY <2>1, <2>3, <1>MoveNotClosing, Zenon DEF TypeInv
<1>StartNotClosing.
    ASSUME TypeInv, NEW t \in App, MakeCall(t)
    PROVE  NotClosing
  <2> USE <1>StartNotClosing
  <2>1. CASE BlockBegin(t) \/ BlockEnd(t)
    <3>1. UNCHANGED <<pc, terminateFlag>>
      BY <2>1, Zenon DEF BlockBegin, BlockEnd, comqVars
    <3> QED
      BY <3>1, Zenon DEF NotClosing
  <2>2. CASE Close(t)
    <3>1. pc' = [pc EXCEPT ![t] = "join", ![Progress] = IF @ = "asleep" THEN "woken" ELSE @]
      BY <2>2, Zenon DEF Close
    <3>2. pc[t] = "idle" /\ terminateFlag'
      BY <2>2, Zenon DEF Close, Idle, terminate
    <3> QED
      BY Basics, <3>1, <3>2, Zenon DEF NotClosing, TypeInv
  <2>3. CASE \/ \E k \in Kinds : Issue(t, k)
             \/ SyncDead(t) \/ \E id \in Ids : Begin(t, id, "wait_try") \/ Begin(t, id, "peek_try")
    <3>1. PICK id \in Ids \cup {INVALID}, l \in {"push", "wait_try", "peek_try"} : StartAt(t, id, l)
      <4>1. ASSUME NEW k \in Kinds, Issue(t, k)
            PROVE  seq_no \in Ids /\ StartAt(t, seq_no, "push")
        BY Basics, <4>1 DEF Issue, TypeInv, Ids
      <4>2. ASSUME SyncDead(t)
            PROVE  StartAt(t, INVALID, "wait_try")
        BY <4>2, Zenon DEF SyncDead
      <4>3. ASSUME NEW id \in Ids, NEW l, Begin(t, id, l)
            PROVE  StartAt(t, id, l)
        BY <4>3, Zenon DEF Begin
      <4> QED
        BY <2>3, <4>1, <4>2, <4>3, Zenon
    <3>2. pc[t] = "idle" /\ terminateFlag' = terminateFlag
      BY <2>3, Zenon DEF Issue, SyncDead, Begin, Idle, comqVars
    <3>3. AppMove(t, l, id)
      BY <3>1, StartMoves, Zenon DEF AppPcs, TypeInv
    <3> QED
      BY <3>2, <3>3, <1>MoveNotClosing, Zenon DEF TypeInv
  <2> QED
    BY <2>1, <2>2, <2>3, Zenon DEF MakeCall
<1>ProgressNotClosing.
    ASSUME TypeInv,
           \/ ProgressThread \/ SpuriousWakeup \/ VEReply \/ VEException \/ VEKilled
           \/ UNCHANGED vars
    PROVE  NotClosing
  <2> USE <1>ProgressNotClosing
  <2>1. CASE VEReply \/ VEException \/ VEKilled \/ UNCHANGED vars
    <3>1. UNCHANGED <<pc, terminateFlag>>
      BY <2>1, Zenon DEF VEReply, VEException, VEKilled, vars, comqVars
    <3> QED
      BY <3>1, Zenon DEF NotClosing
  <2>2. CASE ProgressThread \/ SpuriousWakeup
    <3>1. PICK l \in ProgressPcs : GoTo(Progress, l)
      BY <2>2, Zenon DEF ProgressThread, WaitRequest, Woken, SpuriousWakeup, ProgressLock,
         ProgressExec, ProgressCheck, ProgressPcs
    <3>2. pc[Progress] # "exited" /\ terminateFlag' = terminateFlag
      BY <2>2, Zenon DEF ProgressThread, WaitRequest, Woken, SpuriousWakeup, ProgressLock,
         ProgressExec, ProgressCheck, comqVars
    <3> QED
      BY <3>1, <3>2, ProgressMoves, Zenon DEF ProgressMove, NotClosing, TypeInv
  <2> QED
    BY <2>1, <2>2, Zenon
<1>InsideNotClosing.
    ASSUME TypeInv, _progress_nolock
    PROVE  NotClosing
  <2> USE <1>InsideNotClosing
  <2>1. ppc \notin {"none", "thrown"} /\ terminateFlag' = terminateFlag
    BY Zenon DEF _progress_nolock, Recv, Complete, CancelRequests, CancelInFlight, PopRequest,
       SubmitVH, SubmitVE, IdleRound, comqVars
  <2>2. \/ pc' = pc
        \/ \E l \in AppPcs \cup ProgressPcs : l # "closed" /\ GoTo(prog_mtx.owner, l)
    <3>1. ASSUME NEW rv \in Int, Return(rv)
          PROVE  \E l \in AppPcs \cup ProgressPcs : l # "closed" /\ GoTo(prog_mtx.owner, l)
      <4>1. GoTo(prog_mtx.owner, After(pc[prog_mtx.owner], rv))
        BY <3>1, Zenon DEF Return
      <4>2. pc[prog_mtx.owner] \in {"in_exec", "in_progress", "in_wait", "in_peek"}
        BY <2>1, WhoIsInside, Zenon DEF TypeInv
      <4>3. After(pc[prog_mtx.owner], rv) \in
              {"exec", "notify", "peek_result", "wait_notify", "wait_peek"}
        BY <4>2, Zenon DEF After
      <4> QED
        BY <4>1, <4>3, Zenon DEF AppPcs, ProgressPcs
    <3>2. ASSUME Throw
          PROVE  \E l \in AppPcs \cup ProgressPcs : l # "closed" /\ GoTo(prog_mtx.owner, l)
      BY <3>2, Zenon DEF Throw, AppPcs, ProgressPcs
    <3>3. CASE Recv \/ Complete \/ CancelRequests \/ SubmitVE
      BY <3>2, <3>3, Zenon DEF Recv, Complete, CancelRequests, SubmitVE
    <3>4. CASE CancelInFlight
      <4>1. Return(-1) /\ -1 \in Int
        BY <3>4 DEF CancelInFlight
      <4> QED
        BY <3>1, <4>1, Zenon
    <3>5. CASE PopRequest \/ SubmitVH \/ IdleRound
      BY <3>1, <3>5 DEF PopRequest, SubmitVH, IdleRound
    <3> QED
      BY <3>3, <3>4, <3>5, Zenon DEF _progress_nolock
  <2>3. CASE pc' = pc
    BY <2>1, <2>3, Zenon DEF NotClosing
  <2>4. CASE \E l \in AppPcs \cup ProgressPcs : l # "closed" /\ GoTo(prog_mtx.owner, l)
    <3>1. PICK l \in AppPcs \cup ProgressPcs : l # "closed" /\ GoTo(prog_mtx.owner, l)
      BY <2>4, Zenon
    <3>2. PICK t \in Threads : t = prog_mtx.owner /\ pc[t] \notin {"closed", "exited"}
      BY Basics, <2>1, WhoIsInside, Zenon DEF TypeInv
    <3>3. pc \in [Threads -> Pcs] /\ pc' = [pc EXCEPT ![t] = l]
      BY Basics, <3>1, <3>2, Zenon DEF GoTo, TypeInv
    <3> QED
      BY Basics, <2>1, <3>1, <3>2, <3>3, Zenon DEF NotClosing, TypeInv
  <2> QED
    BY <2>2, <2>3, <2>4, Zenon
  \* A step that leaves the rings and the map as they are.
<1>WireFrame.
    ASSUME WireInv, NotClosing, WireIds' = WireIds, inflight' = inflight,
           ppc' \in {"cancel_req", "cancel_fli"} => state' = "EXIT",
           state = "EXIT" => state' = "EXIT",
           \/ state' = "EXIT"
           \/ (ppc' = "complete") = (ppc = "complete") /\ hand' = hand
    PROVE  WireInv'
  <2> USE <1>WireFrame
  <2>1. WireMatchesInFlight'
    BY Zenon DEF WireInv, WireMatchesInFlight
  <2> QED
    BY <2>1, Zenon DEF WireInv, NotClosing
  \* popInFlight() knows every reply of a running context, and a reply it does
  \* not know belongs to no command in flight.
<1>WireRecv.
    ASSUME StreamInv, Recv
    PROVE  WireInv'
  <2> USE <1>WireRecv
  <2>1. /\ TypeInv /\ WireInv /\ OrderInv /\ rep \in Seq(Replies) /\ ppc = "recv" /\ NotClosing
    BY <1>InsideNotClosing, Zenon DEF StreamInv, IInv, TypeInv, TypeOK, Recv, _progress_nolock
  <2>2. UNCHANGED <<state, chan>>
    BY Zenon DEF Recv, ctxVars
  <2>3. CASE rep = <<>>
    <3>1. UNCHANGED <<inflight, hand, rep>> /\ ppc' = "send"
      BY <2>3, Zenon DEF Recv
    <3>2. WireIds' = WireIds
      BY <2>2, <3>1, OnTheWire, Zenon
    <3> QED
      BY <2>1, <2>2, <3>1, <3>2, <1>WireFrame, Zenon
  <2>4. CASE rep # <<>> /\ Head(rep).id \in inflight
    <3>1. /\ inflight' = inflight \ {Head(rep).id} /\ hand' = Head(rep).id
          /\ ppc' = "complete" /\ rep' = rep
      BY <2>4, Zenon DEF Recv, popInFlight
    <3>2. WireIds' = WireIds
      BY <2>2, <3>1, OnTheWire, Zenon
    <3>3. inflight = inflight' \cup {hand'}
      BY <2>4, <3>1, Zenon
    <3>4. WireMatchesInFlight'
      BY <2>1, <2>2, <3>1, <3>2, <3>3, Zenon DEF WireInv, WireMatchesInFlight
    <3> QED
      BY <2>1, <3>1, <3>2, <3>3, <3>4, Zenon DEF WireInv, NotClosing
  <2>5. CASE rep # <<>> /\ Head(rep).id \notin inflight
    <3>1. rep' = Tail(rep) /\ UNCHANGED inflight /\ ppc' \in {"thrown", "none"}
      BY <2>5, Zenon DEF Recv, Throw
    <3>2. WireIds = WireIds' \cup {Head(rep).id}
      BY <2>2, <2>5, <3>1, OrderTaken, Zenon DEF Recv, histVars
    <3>3. state = "EXIT"
      BY <2>1, <2>5, <3>2, Zenon DEF WireInv, WireMatchesInFlight
    <3>4. WireMatchesInFlight'
      BY <2>2, <3>3, Zenon DEF WireMatchesInFlight
    <3> QED
      BY <2>1, <2>5, <3>1, <3>2, <3>4, Zenon DEF WireInv, NotClosing
  <2> QED
    BY <2>3, <2>4, <2>5, Zenon
  \* The reply of a completed command leaves the ring; no other reply of it is
  \* on the wire.
<1>WireComplete.
    ASSUME StreamInv, Complete
    PROVE  WireInv'
  <2> USE <1>WireComplete
  <2>1. /\ TypeInv /\ WireInv /\ OrderInv /\ OnePlace /\ ppc = "complete" /\ NotClosing
    BY <1>InsideNotClosing, Zenon DEF StreamInv, IInv, Complete, _progress_nolock
  <2>2. rep # <<>> /\ Head(rep).id = hand /\ hand \notin inflight
    BY <2>1, HandCases, Zenon DEF TypeInv, HandInv, OnePlace
  <2>3. /\ rep' = Tail(rep) /\ UNCHANGED <<request, log, chan, inflight>>
        /\ \/ state' = "EXIT" /\ ppc' = "cancel_req"
           \/ state' = state /\ ppc' = "recv"
    BY Zenon DEF Complete
  <2>4. /\ WireIds = WireIds' \cup {hand}
        /\ \A j \in WireIds' : Before(log, hand, j)
    BY <2>2, <2>3, OrderTaken, Zenon
  <2>5. hand \notin WireIds'
    <3>1. log \in Seq(Ids) /\ Distinct(log)
      BY <2>1, Zenon DEF TypeInv, TypeOK, OrderInv
    <3> QED
      BY <2>4, <3>1, BeforeStrict, Zenon
  <2>6. WireMatchesInFlight'
    <3> SUFFICES ASSUME state' # "EXIT"
                 PROVE  WireIds' = inflight' /\ ppc' # "complete"
      BY Zenon DEF WireMatchesInFlight
    <3>1. WireIds = inflight \cup {hand}
      BY <2>1, <2>3, Zenon DEF WireInv, WireMatchesInFlight
    <3>2. WireIds = WireIds' \cup {hand} /\ inflight' = inflight /\ ppc' = "recv"
      BY <2>3, <2>4, Zenon
    <3>3. ASSUME NEW x
          PROVE  x \in WireIds' <=> x \in inflight
      <4>1. x \in WireIds' \cup {hand} <=> x \in inflight \cup {hand}
        BY <3>1, <3>2, Zenon
      <4>2. CASE x = hand
        BY <2>2, <2>5, <4>2, Zenon
      <4> QED
        BY <4>1, <4>2, Zenon
    <3>4. WireIds' = inflight
      BY <3>3, Zenon
    <3> QED
      BY <3>2, <3>4, Zenon
  <2> QED
    BY <2>1, <2>2, <2>3, <2>4, <2>6, Zenon DEF WireInv, NotClosing
  \* A command is put on the wire and into the map by the same step.
<1>WireSubmit.
    ASSUME StreamInv, SubmitVH \/ SubmitVE
    PROVE  WireInv'
  <2> USE <1>WireSubmit
  <2>1. /\ TypeInv /\ WireInv /\ chan \in Seq(Ids) /\ ppc = "submit" /\ NotClosing /\ hand \in Ids
    BY <1>InsideNotClosing, HandCases, Zenon
    DEF StreamInv, IInv, TypeInv, TypeOK, SubmitVH, SubmitVE, _progress_nolock
  <2>2. UNCHANGED <<state, rep>> /\ ppc' \in {"recv", "none", "idle"}
    BY Zenon DEF SubmitVH, SubmitVE, Return, ctxVars, veVars
  <2>3. CASE UNCHANGED <<chan, inflight>>
    <3>1. WireIds' = WireIds
      BY <2>2, <2>3, OnTheWire, Zenon
    <3>2. WireMatchesInFlight'
      BY <2>1, <2>2, <2>3, <3>1, Zenon DEF WireInv, WireMatchesInFlight
    <3> QED
      BY <2>1, <2>2, <2>3, <3>1, <3>2, Zenon DEF WireInv, NotClosing
  <2>4. CASE chan' = Append(chan, hand) /\ inflight' = inflight \cup {hand}
    <3>1. Elems(chan') = Elems(chan) \cup {hand}
      BY <2>1, <2>4, AppendElems
    <3>2. WireIds' = WireIds \cup {hand}
      BY <2>2, <3>1, OnTheWire, Zenon
    <3>3. WireMatchesInFlight'
      BY <2>1, <2>2, <2>4, <3>2, Zenon DEF WireInv, WireMatchesInFlight
    <3> QED
      BY <2>1, <2>2, <2>4, <3>2, <3>3, Zenon DEF WireInv, NotClosing
  <2> QED
    BY <2>3, <2>4, Zenon DEF SubmitVH, SubmitVE, pushInFlight, veVars
  \* cancelAll() runs only in a context that has exited.
<1>WireCancel.
    ASSUME StreamInv, CancelRequests \/ CancelInFlight
    PROVE  WireInv'
  <2> USE <1>WireCancel
  <2>1. /\ WireInv /\ NotClosing /\ state = "EXIT" /\ state' = "EXIT"
    BY <1>InsideNotClosing, Zenon
    DEF StreamInv, IInv, WireInv, CancelRequests, CancelInFlight, _progress_nolock, ctxVars
  <2>2. inflight' \subseteq inflight /\ WireIds' = WireIds
    <3>1. inflight' \subseteq inflight
      BY Zenon DEF CancelRequests, CancelInFlight, cancelInFlight
    <3>2. UNCHANGED <<chan, rep>>
      BY Zenon DEF CancelRequests, CancelInFlight, veVars
    <3> QED
      BY <3>1, <3>2, OnTheWire, Zenon
  <2>3. WireMatchesInFlight'
    BY <2>1, Zenon DEF WireMatchesInFlight
  <2> QED
    BY <2>1, <2>2, <2>3, Zenon DEF WireInv, NotClosing
<1>1. WireInv /\ TypeInv
  BY Zenon DEF StreamInv, IInv
<1>2. ASSUME Quiet, NotClosing
      PROVE  WireInv'
  <2>1. WireIds' = WireIds
    BY <1>2, OnTheWire, Zenon DEF Quiet
  <2> QED
    BY <1>1, <1>2, <2>1, <1>WireFrame, Zenon DEF Quiet, WireInv
<1>3. ASSUME NEW t \in App, Push(t)
      PROVE  WireInv'
  <2>1. UNCHANGED <<chan, rep, ppc, hand, inflight, state>>
    BY <1>3, Zenon DEF Push, progVars, veVars
  <2>2. NotClosing /\ WireIds' = WireIds
    <3>1. ~CloseExit(t)
      BY <1>3, Zenon DEF Push, CloseExit
    <3> QED
      BY <1>1, <1>3, <2>1, <3>1, OnTheWire, <1>CallNotClosing, Zenon DEF CallStep
  <2> QED
    BY <1>1, <2>1, <2>2, <1>WireFrame, Zenon DEF WireInv
<1>4. ASSUME NEW t \in App, CloseExit(t)
      PROVE  WireInv'
  <2>1. /\ pc[t] = "close" /\ UNCHANGED <<terminateFlag, ppc, hand, inflight>>
    BY <1>4, Zenon DEF CloseExit, comqVars, progVars
  <2>2. AppMove(t, "closed", arg[t])
    BY <1>1, <1>4, GoToMoves, Zenon DEF CloseExit, TypeInv, AppPcs
  <2>3. terminateFlag /\ pc[Progress] = "exited"
    BY <1>1, <2>1, Zenon DEF TypeInv, Control, CloseInv
  <2>4. pc'[Progress] = "exited" /\ pc'[t] = "closed"
    BY <2>2, <2>3, Zenon DEF AppMove
  <2>5. state = "EXIT" => state' = "EXIT"
    BY <1>4, Zenon DEF CloseExit
  <2>6. WireMatchesInFlight'
    <3>1. CASE is_alive
      BY <1>4, <3>1, Zenon DEF CloseExit, WireMatchesInFlight
    <3>2. CASE ~is_alive
      <4>1. UNCHANGED <<state, chan, rep>>
        BY <1>4, <3>2, Zenon DEF CloseExit, veVars
      <4>2. WireIds' = WireIds
        BY <4>1, OnTheWire, Zenon
      <4> QED
        BY <1>1, <2>1, <4>1, <4>2, Zenon DEF WireInv, WireMatchesInFlight
    <3> QED
      BY <3>1, <3>2, Zenon
  <2> QED
    BY <1>1, <2>1, <2>3, <2>4, <2>5, <2>6, Zenon DEF WireInv
<1>5. ASSUME NEW t \in App, CallStep(t)
      PROVE  WireInv'
  BY <1>1, <1>2, <1>3, <1>4, <1>5, QuietCall, <1>CallNotClosing, Zenon
<1>6. ASSUME VEReply \/ VEException
      PROVE  WireInv'
  <2>1. WireIds' = WireIds /\ NotClosing
    BY <1>1, <1>6, OrderReply, <1>ProgressNotClosing, Zenon
  <2>2. UNCHANGED <<ppc, hand, inflight, state>>
    BY <1>6, Zenon DEF VEReply, VEException, comqVars, ctxVars, progVars
  <2> QED
    BY <1>1, <2>1, <2>2, <1>WireFrame, Zenon DEF WireInv
<1>7. ASSUME PopRequest \/ IdleRound
      PROVE  WireInv'
  <2>1. NotClosing
    BY <1>1, <1>7, <1>InsideNotClosing, Zenon DEF _progress_nolock
  <2>2. /\ UNCHANGED <<chan, rep, inflight>> /\ ppc \in {"send", "idle"}
        /\ \/ state' = "EXIT"
           \/ state' = state /\ ppc' \in {"none", "idle", "submit"}
    BY <1>7, Zenon DEF PopRequest, IdleRound, Return, comqVars, ctxVars, veVars
  <2>3. WireIds' = WireIds
    BY <2>2, OnTheWire, Zenon
  <2>4. WireMatchesInFlight'
    BY <1>1, <2>2, <2>3, Zenon DEF WireInv, WireMatchesInFlight
  <2> QED
    BY <1>1, <2>1, <2>2, <2>3, <2>4, Zenon DEF WireInv, NotClosing
<1>8. ASSUME _progress_nolock
      PROVE  WireInv'
  BY <1>7, <1>8, <1>WireRecv, <1>WireComplete, <1>WireSubmit, <1>WireCancel, Zenon DEF _progress_nolock
<1>9. ASSUME NEW t \in App, MakeCall(t)
      PROVE  WireInv'
  BY <1>1, <1>2, <1>9, QuietStart, <1>StartNotClosing, Zenon
<1>10. ASSUME ProgressThread \/ SpuriousWakeup \/ VEKilled \/ UNCHANGED vars
       PROVE  WireInv'
  BY <1>1, <1>2, <1>10, QuietProgress, <1>ProgressNotClosing, Zenon
<1> QED
  BY <1>5, <1>6, <1>8, <1>9, <1>10, Zenon DEF Next

-----------------------------------------------------------------------------
(***************************************************************************)
(* The theorems.                                                           *)
(***************************************************************************)
LEMMA StreamInvInit ==
  ASSUME Init
  PROVE  StreamInv
<1>1. TypeInv
  BY TypeInit, Zenon
<1>2. /\ Elems(request) = {} /\ Elems(log) = {} /\ Distinct(request) /\ Distinct(log)
      /\ InHand = {} /\ inflight = {} /\ completion = {} /\ retired = {}
      /\ Elems(chan) = {} /\ ReplyIds(rep) = {}
  <2>1. /\ request = <<>> /\ log = <<>> /\ chan = <<>> /\ rep = <<>> /\ InHand = {}
        /\ inflight = {} /\ completion = {} /\ retired = {}
    BY Zenon DEF Init, CommQueueInit, InHand
  <2>2. Elems(<<>>) = {} /\ Distinct(<<>>)
    BY DEF Elems, Distinct
  <2>3. ReplyIds(<<>>) = {}
    BY DEF ReplyIds
  <2> QED
    BY <2>1, <2>2, <2>3, Zenon
<1>3. \A t \in App : pc[t] = "idle"
  BY ContextAssumption, Zenon DEF Init, Threads
<1>4. Waiters = {}
  BY <1>3, Zenon DEF Waiters
<1>5. Held = {} /\ UniqueWaiters
  BY <1>4, Zenon DEF Held, UniqueWaiters
<1>6. IInv
  BY <1>1, <1>2, <1>3, <1>5, Zenon DEF IInv, LogInv, OnePlace
<1>7. WireIds = {} /\ ppc = "none"
  BY <1>2, OnTheWire, Zenon DEF Init
<1>8. Sorted(log, request) /\ Sorted(log, chan) /\ SortedReplies(log, rep)
  BY DEF Init, CommQueueInit, Sorted, SortedReplies
<1>9. OrderInv
  BY <1>2, <1>7, <1>8, Zenon DEF OrderInv, Sending
<1>10. StatusInv
  BY <1>2, Zenon DEF StatusInv, Init, CommQueueInit
<1>11. WireInv
  BY <1>2, <1>3, <1>7, Zenon DEF WireInv, WireMatchesInFlight
<1> QED
  BY <1>6, <1>9, <1>10, <1>11, Zenon DEF StreamInv

\* StreamInv is preserved by every step.
LEMMA StreamInvNext ==
  ASSUME StreamInv, [Next]_vars
  PROVE  StreamInv'
<1>1. IInv'
  BY PlacesNext, Zenon DEF StreamInv
<1> QED
  BY <1>1, OrderNext, StatusNext, WireNext, Zenon DEF StreamInv

\* While a context runs, the commands on the wire are exactly the commands in
\* the in-flight map, for any number of threads, requests and ring slots:
\* popInFlight() knows the command of every reply that arrives.
THEOREM RepliesAlwaysExpected == Spec => []WireMatchesInFlight
<1>1. Init => StreamInv
  BY StreamInvInit, Zenon
<1>2. StreamInv /\ [Next]_vars => StreamInv'
  BY StreamInvNext, Zenon
<1>3. StreamInv => WireMatchesInFlight
  BY Zenon DEF StreamInv, WireInv
<1> QED
  BY <1>1, <1>2, <1>3, PTL DEF Spec

\* The command of a reply is the oldest one without a result.
LEMMA OldestOnWire ==
  ASSUME StreamInv, ppc = "complete", NEW j \in Live, j # hand
  PROVE  ~Before(log, j, hand)
<1>1. /\ TypeInv /\ OrderInv /\ WireInv /\ rep \in Seq(Replies) /\ rep # <<>>
      /\ Head(rep).id = hand /\ log \in Seq(Ids) /\ Distinct(log)
  BY Zenon DEF StreamInv, IInv, TypeInv, TypeOK, HandInv, OrderInv
<1>2. /\ ReplyIds(rep) = ReplyIds(Tail(rep)) \cup {hand}
      /\ \A i \in ReplyIds(Tail(rep)) : Before(log, hand, i)
  BY <1>1, ReplyTail, Zenon DEF OrderInv
<1>3. \A i \in WireIds \ {hand} : Before(log, hand, i)
  BY <1>1, <1>2, OnTheWire, Zenon DEF OrderInv
<1>4. \A t \in App : pc[t] # "closed"
  <2>1. ~terminateFlag \/ pc[Progress] = "in_exec"
    BY Basics, <1>1, WhoIsInside, Zenon DEF TypeInv
  <2> QED
    BY <1>1, <2>1, Zenon DEF WireInv
<1>5. inflight \subseteq WireIds /\ hand \in WireIds /\ InHand = {hand}
  BY <1>1, <1>2, <1>4, OnTheWire, HandCases, Zenon DEF WireInv
<1>6. Before(log, hand, j)
  BY <1>1, <1>3, <1>5, Zenon DEF Live, OrderInv
<1> QED
  BY <1>1, <1>6, BeforeStrict, Zenon

\* A VH function that runs is the oldest one, too.
LEMMA OldestInHand ==
  ASSUME StreamInv, ppc = "submit", inflight = {}, NEW j \in Live, j # hand
  PROVE  ~Before(log, j, hand)
<1>1. InHand = {hand} /\ log \in Seq(Ids) /\ Distinct(log)
  BY HandCases, Zenon DEF StreamInv, IInv, TypeInv, TypeOK, OrderInv
<1>2. Before(log, hand, j)
  BY <1>1, Zenon DEF Live, StreamInv, OrderInv, Sending
<1> QED
  BY <1>1, <1>2, BeforeStrict, Zenon

\* A step of Context is a step of the command stream or leaves it alone.
LEMMA StreamStep ==
  ASSUME StreamInv, [Next]_vars
  PROVE  [Stream!Next]_(Stream!streamVars)
  \* A command without a live predecessor may finish.
<1>MayFinish.
    ASSUME StreamInv, hand \in Live, NEW r \in {"OK", "EXCEPTION"},
           \A j \in Live : j # hand => ~Before(log, j, hand),
           status' = [status EXCEPT ![hand] = r], log' = log,
           retired' \in {retired, retired \cup {hand}}
    PROVE  Stream!Finish
  <2> USE <1>MayFinish
  <2>1. /\ StatusInv /\ log \in Seq(Ids) /\ Live \subseteq Elems(log) /\ Distinct(log)
        /\ Elems(log) \subseteq Ids
    BY ElemsType, Zenon DEF StreamInv, IInv, OnePlace, Live, TypeInv, TypeOK, OrderInv
  <2>2. PICK n \in DOMAIN log : log[n] = hand
    BY <2>1, Zenon DEF Elems
  <2>3. status[log[n]] = "UNFINISHED"
    BY <2>1, <2>2, Zenon DEF StatusInv
  <2>4. ASSUME NEW m \in 1 .. (n - 1)
        PROVE  status[log[m]] # "UNFINISHED"
    <3>1. m \in DOMAIN log /\ m < n /\ m # n
      BY <2>1, <2>2
    <3>2. Before(log, log[m], hand) /\ log[m] # hand /\ log[m] \in Elems(log)
      BY <2>1, <2>2, <3>1, Zenon DEF Before, Distinct, Elems
    <3>3. log[m] \notin Live
      BY <3>2, Zenon
    <3> QED
      BY <2>1, <3>2, <3>3, Zenon DEF StatusInv
  <2> QED
    BY <2>2, <2>3, <2>4, Zenon DEF Stream!Finish
<1>1. /\ TypeInv /\ OnePlace /\ StatusInv /\ Elems(log) \subseteq Ids
      /\ Stream!Submitted = Elems(log)
  BY ElemsType, Zenon DEF StreamInv, IInv, TypeInv, TypeOK, Stream!Submitted, Elems
<1>2. ASSUME UNCHANGED <<log, status, retired>>
      PROVE  UNCHANGED Stream!streamVars
  BY <1>2, Zenon DEF Stream!streamVars
<1>3. ASSUME NEW i \in Elems(log), i \notin retired, i \in completion \cup Held,
             retired' = retired \cup {i}, UNCHANGED <<log, status>>
      PROVE  Stream!Consume
  <2>1. i \in Ids /\ i \notin Live
    BY <1>1, <1>3, Zenon DEF Live, OnePlace
  <2>2. status[i] # "UNFINISHED"
    BY <1>1, <2>1, <1>3, Zenon DEF StatusInv
  <2> QED
    BY <1>1, <1>3, <2>2, Zenon DEF Stream!Consume
<1>4. ASSUME NEW t \in App, CallStep(t)
      PROVE  Stream!Next \/ UNCHANGED Stream!streamVars
  <2>1. CASE Push(t)
    <3>1. arg[t] \in Ids /\ arg[t] \notin Elems(log)
      BY <2>1, CallArg, Zenon DEF Push, StreamInv, IInv, LogInv, TypeInv, IdPcs, SubmitPcs
    <3>2. log' = Append(log, arg[t]) /\ UNCHANGED <<status, retired>>
      BY <2>1, Zenon DEF Push
    <3>3. Stream!Submit
      BY <1>1, <3>1, <3>2, Zenon DEF Stream!Submit
    <3> QED
      BY <3>3, Zenon DEF Stream!Next
  <2>2. ASSUME NEW from, NEW unfinished, PeekResult(t, from, unfinished)
        PROVE  Stream!Next \/ UNCHANGED Stream!streamVars
    <3>1. /\ UNCHANGED <<log, status>>
          /\ \/ UNCHANGED retired
             \/ arg[t] \in completion /\ retired' = retired \cup {arg[t]}
      BY <2>2, Zenon DEF PeekResult
    <3>2. arg[t] \in completion => arg[t] \in Elems(log) /\ arg[t] \notin retired
      BY <1>1, Zenon DEF OnePlace
    <3> QED
      BY <1>2, <1>3, <3>1, <3>2, Zenon DEF Stream!Next
  <2>3. CASE WaitErase(t)
    <3>1. UNCHANGED <<log, status>> /\ retired' = retired \cup {arg[t]} /\ arg[t] \in Held
      BY <2>3, Zenon DEF WaitErase, comqVars, Held, Waiters
    <3>2. arg[t] \in Elems(log) /\ arg[t] \notin retired
      BY <1>1, <3>1, Zenon DEF OnePlace
    <3> QED
      BY <1>3, <3>1, <3>2, Zenon DEF Stream!Next
  <2>4. CASE \/ CheckInFlight(t) \/ Notify(t) \/ SyncCheck(t) \/ WaitNotify(t) \/ WaitCheck(t)
             \/ WaitCompletion(t) \/ Join(t) \/ CloseExit(t)
             \/ \E from, in, otherwise : TryLock(t, from, in, otherwise)
    BY <1>2, <2>4, Zenon DEF CheckInFlight, Notify, SyncCheck, WaitNotify, WaitCheck,
       WaitCompletion,
       Join, CloseExit, TryLock, comqVars, histVars
  <2> QED
    BY <1>4, <2>1, <2>2, <2>3, <2>4, Zenon DEF CallStep
<1>5. ASSUME NEW t \in App, MakeCall(t)
      PROVE  UNCHANGED Stream!streamVars
  <2>1. ASSUME NEW k, Issue(t, k)
        PROVE  UNCHANGED Stream!streamVars
    BY <1>2, <2>1, Zenon DEF Issue, comqVars, histVars
  <2>2. ASSUME NEW id, NEW l, Begin(t, id, l)
        PROVE  UNCHANGED Stream!streamVars
    BY <1>2, <2>2, Zenon DEF Begin, comqVars, histVars
  <2>3. CASE SyncDead(t) \/ BlockBegin(t) \/ BlockEnd(t) \/ Close(t)
    BY <1>2, <2>3, Zenon DEF SyncDead, BlockBegin, BlockEnd, Close, comqVars, histVars
  <2> QED
    BY <1>5, <2>1, <2>2, <2>3, Zenon DEF MakeCall
<1>6. ASSUME _progress_nolock
      PROVE  Stream!Next \/ UNCHANGED Stream!streamVars
  <2>1. log' = log /\ Live \subseteq Elems(log)
    BY <1>6, StatusInside, Zenon
  <2>2. Complete \/ retired' = retired
    BY <1>6, Zenon DEF _progress_nolock, Recv, Complete, CancelRequests, CancelInFlight, PopRequest,
       SubmitVH, SubmitVE, IdleRound, histVars
  <2>3. CASE Live' = Live /\ status' = status
    <3>1. ASSUME Complete
          PROVE  FALSE
      <4>1. InHand = {hand} /\ InHand' = {} /\ UNCHANGED <<request, inflight>>
        BY <1>1, <3>1, HandCases, Zenon DEF Complete, InHand
      <4>2. hand \in Live /\ hand \notin Live'
        BY <1>1, <4>1, Zenon DEF Live, OnePlace
      <4> QED
        BY <2>3, <4>2, Zenon
    <3> QED
      BY <1>2, <2>1, <2>2, <2>3, <3>1, Zenon
  <2>4. CASE /\ Complete /\ hand \in Live
             /\ status' = [status EXCEPT ![hand] = resultStatus(Head(rep))]
    <3>1. \A j \in Live : j # hand => ~Before(log, j, hand)
      BY <2>4, OldestOnWire, Zenon DEF Complete
    <3>2. resultStatus(Head(rep)) \in {"OK", "EXCEPTION"}
      BY Zenon DEF resultStatus
    <3>3. retired' \in {retired, retired \cup {hand}}
      BY <2>4, Zenon DEF Complete
    <3>4. Stream!Finish
      BY <2>1, <2>4, <3>1, <3>2, <3>3, <1>MayFinish, Zenon
    <3> QED
      BY <3>4, Zenon DEF Stream!Next
  <2>5. CASE /\ SubmitVH /\ VHReady /\ hand \in Live
             /\ status' = [status EXCEPT ![hand] = "OK"]
    <3>1. \A j \in Live : j # hand => ~Before(log, j, hand)
      BY <2>5, OldestInHand, Zenon DEF SubmitVH, VHReady, emptyInFlight
    <3>2. retired' = retired
      BY <2>5, Zenon DEF SubmitVH, histVars
    <3>3. Stream!Finish
      BY <2>1, <2>5, <3>1, <3>2, <1>MayFinish, Zenon
    <3> QED
      BY <3>3, Zenon DEF Stream!Next
  <2>6. ASSUME NEW S \in SUBSET Live,
               status' = [i \in Ids |-> IF i \in S THEN "ERROR" ELSE status[i]],
               CancelRequests \/ CancelInFlight \/ SubmitVE
        PROVE  Stream!Next
    <3>1. S \subseteq {i \in Elems(log) : status[i] = "UNFINISHED"}
      BY <1>1, <2>1, Zenon DEF StatusInv
    <3>2. retired' = retired
      BY <2>6, Zenon DEF CancelRequests, CancelInFlight, SubmitVE, histVars
    <3>3. Stream!Fail
      BY <1>1, <2>1, <2>6, <3>1, <3>2, Zenon DEF Stream!Fail
    <3> QED
      BY <3>3, Zenon DEF Stream!Next
  <2> QED
    BY <1>6, <2>3, <2>4, <2>5, <2>6, StatusInside, Zenon
<1>7. ASSUME \/ ProgressThread \/ SpuriousWakeup \/ VEReply \/ VEException \/ VEKilled
             \/ UNCHANGED vars
      PROVE  UNCHANGED Stream!streamVars
  BY <1>2, <1>7, Zenon DEF ProgressThread, WaitRequest, Woken, SpuriousWakeup, ProgressLock,
     ProgressExec, ProgressCheck, VEReply, VEException, VEKilled, vars, comqVars, histVars
<1> QED
  BY <1>4, <1>5, <1>6, <1>7, Zenon DEF Next

\* A context implements the command stream it promises: whichever threads drive
\* it and whatever fails, a command is submitted once, gets one result, is
\* executed only when every earlier command has a result, and is destroyed once
\* and only with a result.
THEOREM ContextImplementsStream == Spec => StreamSpec
<1>1. Init => Stream!Init
  BY Zenon DEF Init, CommQueueInit, Stream!Init
<1>2. Init => StreamInv
  BY StreamInvInit, Zenon
<1>3. StreamInv /\ [Next]_vars => StreamInv'
  BY StreamInvNext, Zenon
<1>4. StreamInv /\ [Next]_vars => [Stream!Next]_(Stream!streamVars)
  BY StreamStep, Zenon
<1> QED
  BY <1>1, <1>2, <1>3, <1>4, PTL DEF Spec, StreamSpec, Stream!Spec

-----------------------------------------------------------------------------
\* What a step that issues no ID does to the call of thread u: the call stays
\* where it is, ends, begins with the ID of a VE or VH command, or goes on.
Kept(u) ==
  \/ pc'[u] = pc[u] /\ arg'[u] = arg[u]
  \/ arg'[u] = INVALID /\ pc'[u] # "push"
  \/ arg'[u] \in Ids /\ kind[arg'[u]] \in {"VE", "VH"} /\ pc'[u] # "push"
  \/ arg'[u] = arg[u] /\ pc'[u] # "push" /\ (pc'[u] \in PeekPcs => pc[u] \in PeekPcs)

\* Where the thread in _progress_nolock() goes: it stays inside, or it returns,
\* or it leaves with an exception.
LEMMA InsideGoes ==
  ASSUME TypeInv, _progress_nolock
  PROVE  /\ ppc \notin {"none", "thrown"}
         /\ \/ UNCHANGED <<pc, arg>>
            \/ /\ ~Recv
               /\ \E rv \in Int : Return(rv)
            \/ Recv /\ Throw /\ rep # <<>> /\ Head(rep).id \notin inflight
<1>1. ppc \notin {"none", "thrown"}
  BY Zenon DEF _progress_nolock, Recv, Complete, CancelRequests, CancelInFlight, PopRequest,
     SubmitVH, SubmitVE, IdleRound
<1>2. CASE Recv \/ Complete \/ CancelRequests \/ SubmitVE
  BY <1>1, <1>2, Zenon DEF Recv, Complete, CancelRequests, SubmitVE
<1>3. CASE CancelInFlight
  <2>1. Return(-1) /\ -1 \in Int /\ ~Recv
    BY <1>3 DEF CancelInFlight, Recv
  <2> QED
    BY <1>1, <2>1, Zenon
<1>4. CASE PopRequest \/ SubmitVH \/ IdleRound
  <2>1. ~Recv
    BY <1>4, Zenon DEF PopRequest, SubmitVH, IdleRound, Recv
  <2> QED
    BY <1>1, <1>4, <2>1 DEF PopRequest, SubmitVH, IdleRound
<1> QED
  BY <1>2, <1>3, <1>4, Zenon DEF _progress_nolock

\* A return from _progress_nolock().
LEMMA ReturnGoes ==
  ASSUME TypeInv, ppc \notin {"none", "thrown"}, NEW rv \in Int, Return(rv)
  PROVE  \/ prog_mtx.owner = Progress /\ ProgressMove("exec")
         \/ /\ prog_mtx.owner \in App
            /\ AppMove(prog_mtx.owner, After(pc[prog_mtx.owner], rv), arg[prog_mtx.owner])
            /\ \/ pc[prog_mtx.owner] = "in_progress"
                  /\ After(pc[prog_mtx.owner], rv) = "notify"
               \/ pc[prog_mtx.owner] = "in_peek"
                  /\ After(pc[prog_mtx.owner], rv) = "peek_result"
               \/ pc[prog_mtx.owner] = "in_wait"
                  /\ After(pc[prog_mtx.owner], rv)
                       = IF rv > 0 THEN "wait_notify" ELSE "wait_peek"
<1>1. GoTo(prog_mtx.owner, After(pc[prog_mtx.owner], rv))
  BY Zenon DEF Return
<1>2. CASE prog_mtx.owner = Progress
  <2>1. After(pc[prog_mtx.owner], rv) = "exec"
    BY Basics, <1>2, WhoIsInside, Zenon DEF After, TypeInv
  <2>2. GoTo(Progress, "exec")
    BY <1>1, <1>2, <2>1, Zenon
  <2> QED
    BY <1>2, <2>2, ProgressMoves, Zenon DEF ProgressPcs, TypeInv
<1>3. CASE prog_mtx.owner # Progress
  <2>1. /\ prog_mtx.owner \in App
        /\ pc[prog_mtx.owner] \in {"in_progress", "in_wait", "in_peek"}
    BY <1>3, WhoIsInside, Zenon DEF TypeInv
  <2>2. \/ pc[prog_mtx.owner] = "in_progress" /\ After(pc[prog_mtx.owner], rv) = "notify"
        \/ pc[prog_mtx.owner] = "in_peek" /\ After(pc[prog_mtx.owner], rv) = "peek_result"
        \/ pc[prog_mtx.owner] = "in_wait"
           /\ After(pc[prog_mtx.owner], rv) = IF rv > 0 THEN "wait_notify" ELSE "wait_peek"
    BY <2>1, Zenon DEF After
  <2>3. After(pc[prog_mtx.owner], rv) \in AppPcs \ {"idle"}
    BY <2>2, Zenon DEF AppPcs
  <2> QED
    BY <1>1, <2>1, <2>2, <2>3, GoToMoves, Zenon DEF TypeInv
<1> QED
  BY <1>2, <1>3, Zenon

\* An exception leaves the call, or ends the process.
LEMMA ThrowGoes ==
  ASSUME TypeInv, ppc \notin {"none", "thrown"}, Throw
  PROVE  \/ prog_mtx.owner = Progress /\ ProgressMove("thrown")
         \/ /\ prog_mtx.owner \in App
            /\ \/ AppMove(prog_mtx.owner, "thrown", arg[prog_mtx.owner])
               \/ /\ AppMove(prog_mtx.owner, "idle", INVALID)
                  /\ arg[prog_mtx.owner] # INVALID /\ kind[arg[prog_mtx.owner]] # "SYNC"
<1>1. CASE prog_mtx.owner = Progress
  <2>1. GoTo(Progress, "thrown")
    BY <1>1, Zenon DEF Throw, Uncaught
  <2> QED
    BY <1>1, <2>1, ProgressMoves, Zenon DEF ProgressPcs, TypeInv
<1>2. CASE prog_mtx.owner # Progress
  <2>1. prog_mtx.owner \in App
    BY <1>2, WhoIsInside, Zenon DEF TypeInv
  <2>2. CASE Uncaught(prog_mtx.owner)
    <3>1. GoTo(prog_mtx.owner, "thrown")
      BY <2>2, Zenon DEF Throw
    <3> QED
      BY <2>1, <3>1, GoToMoves, Zenon DEF AppPcs, TypeInv
  <2>3. CASE ~Uncaught(prog_mtx.owner)
    <3>1. GoTo(prog_mtx.owner, "idle")
      BY <2>3, Zenon DEF Throw
    <3> QED
      BY <2>1, <2>3, <3>1, GoToMoves, Zenon DEF AppPcs, TypeInv, Uncaught
  <2> QED
    BY <2>2, <2>3, Zenon
<1> QED
  BY <1>1, <1>2, Zenon

\* All steps but the one that issues an ID.
Issuing == \E t \in App, k \in Kinds : Issue(t, k)

LEMMA NextKept ==
  ASSUME TypeInv, [Next]_vars, ~Issuing
  PROVE  \A u \in App : Kept(u)
<1>MoveKept.
    ASSUME TypeOK, NEW t \in App, NEW l, NEW a, AppMove(t, l, a), l # "push",
           \/ a = INVALID
           \/ a \in Ids /\ kind[a] \in {"VE", "VH"}
           \/ a = arg[t] /\ (l \in PeekPcs => pc[t] \in PeekPcs)
    PROVE  \A u \in App : Kept(u)
  <2> USE <1>MoveKept
  <2> TAKE u \in App
  <2>1. CASE u = t
    <3>1. pc'[u] = l /\ arg'[u] = a
      BY <2>1, Zenon DEF AppMove
    <3> QED
      BY <2>1, <3>1, Zenon DEF Kept
  <2>2. CASE u # t
    BY <2>2, Zenon DEF AppMove, Kept
  <2> QED
    BY <2>1, <2>2, Zenon
<1>CallKept.
    ASSUME TypeInv, NEW t \in App, CallStep(t)
    PROVE  \A u \in App : Kept(u)
  <2> USE <1>CallKept
  <2>1. PICK l \in AppPcs \ {"push"} :
          (GoTo(t, l) \/ NotifyAndGoTo(t, l)) /\ (l \in PeekPcs => pc[t] \in PeekPcs)
    <3>1. CASE Push(t) \/ CheckInFlight(t) \/ Notify(t) \/ SyncCheck(t) \/ WaitNotify(t)
      BY <3>1 DEF Push, CheckInFlight, Notify, SyncCheck, WaitNotify, AppPcs, PeekPcs
    <3>2. CASE WaitCheck(t) \/ WaitCompletion(t) \/ WaitErase(t) \/ Join(t) \/ CloseExit(t)
      BY <3>2 DEF WaitCheck, WaitCompletion, WaitErase, Join, CloseExit, AppPcs, PeekPcs
    <3>3. CASE \/ TryLock(t, "try", "in_progress", "notify")
               \/ TryLock(t, "wait_try", "in_wait", "wait_notify")
               \/ TryLock(t, "peek_try", "in_peek", "peek_result")
      BY <3>3 DEF TryLock, AppPcs, PeekPcs
    <3>4. CASE PeekResult(t, "wait_peek", "wait_try") \/ PeekResult(t, "peek_result", "idle")
      BY <3>4 DEF PeekResult, AppPcs, PeekPcs
    <3> QED
      BY <3>1, <3>2, <3>3, <3>4, Zenon DEF CallStep
  <2>2. AppMove(t, l, IF l = "idle" THEN INVALID ELSE arg[t])
    BY <2>1, GoToMoves, NotifyMoves, Zenon DEF TypeInv
  <2>3. CASE l = "idle"
    BY <2>1, <2>2, <2>3, <1>MoveKept, Zenon DEF TypeInv
  <2>4. CASE l # "idle"
    BY <2>1, <2>2, <2>4, <1>MoveKept, Zenon DEF TypeInv
  <2> QED
    BY <2>3, <2>4, Zenon
<1>StartKept.
    ASSUME TypeInv, NEW t \in App, MakeCall(t), ~\E k \in Kinds : Issue(t, k)
    PROVE  \A u \in App : Kept(u)
  <2> USE <1>StartKept
  <2>1. CASE BlockBegin(t) \/ BlockEnd(t)
    BY <2>1, Zenon DEF BlockBegin, BlockEnd, Kept
  <2>2. CASE Close(t)
    <3>1. pc' = [pc EXCEPT ![t] = "join", ![Progress] = IF @ = "asleep" THEN "woken" ELSE @]
      BY <2>2, Zenon DEF Close
    <3>2. arg' = arg
      BY <2>2, Zenon DEF Close
    <3>3. \A u \in App : pc'[u] = pc[u] \/ pc'[u] = "join"
      BY Basics, <3>1, Zenon DEF TypeInv
    <3> QED
      BY <3>2, <3>3, Zenon DEF Kept, PeekPcs
  <2>3. CASE SyncDead(t)
    <3>1. AppMove(t, "wait_try", INVALID)
      BY <2>3, StartMoves, Zenon DEF SyncDead, TypeInv, AppPcs
    <3> QED
      BY <3>1, <1>MoveKept, Zenon DEF TypeInv
  <2>4. ASSUME NEW id \in Ids, NEW l \in {"wait_try", "peek_try"}, Begin(t, id, l)
        PROVE  \A u \in App : Kept(u)
    <3>1. AppMove(t, l, id) /\ kind[id] \in {"VE", "VH"}
      BY <2>4, StartMoves, Zenon DEF Begin, Known, TypeInv, AppPcs
    <3> QED
      BY <3>1, <1>MoveKept, Zenon DEF TypeInv
  <2> QED
    BY <2>1, <2>2, <2>3, <2>4, Zenon DEF MakeCall
<1>ProgressKept.
    ASSUME TypeInv,
           \/ ProgressThread \/ SpuriousWakeup \/ VEReply \/ VEException \/ VEKilled
           \/ UNCHANGED vars
    PROVE  \A u \in App : Kept(u)
  <2> USE <1>ProgressKept
  <2>1. CASE VEReply \/ VEException \/ VEKilled \/ UNCHANGED vars
    BY <2>1, Zenon DEF VEReply, VEException, VEKilled, vars, Kept
  <2>2. CASE ProgressThread \/ SpuriousWakeup
    <3>1. PICK l \in ProgressPcs : GoTo(Progress, l)
      BY <2>2, Zenon DEF ProgressThread, WaitRequest, Woken, SpuriousWakeup, ProgressLock,
         ProgressExec, ProgressCheck, ProgressPcs
    <3> QED
      BY <3>1, ProgressMoves, Zenon DEF ProgressMove, Kept, TypeInv
  <2> QED
    BY <2>1, <2>2, Zenon
<1>InsideKept.
    ASSUME TypeInv, _progress_nolock
    PROVE  \A u \in App : Kept(u)
  <2> USE <1>InsideKept
  <2>1. CASE UNCHANGED <<pc, arg>>
    BY <2>1, Zenon DEF Kept
  <2>2. ASSUME NEW l \in ProgressPcs, ProgressMove(l)
        PROVE  \A u \in App : Kept(u)
    BY <2>2, Zenon DEF ProgressMove, Kept
  <2>3. CASE ppc \notin {"none", "thrown"} /\ \E rv \in Int : Return(rv)
    <3>1. PICK rv \in Int : Return(rv)
      BY <2>3, Zenon
    <3>2. CASE ProgressMove("exec")
      BY <2>2, <3>2, Zenon DEF ProgressPcs
    <3>3. CASE ~ProgressMove("exec")
      <4>1. PICK t \in App : t = prog_mtx.owner
        BY <2>3, <3>1, <3>3, ReturnGoes, Zenon
      <4>2. PICK l \in {"notify", "peek_result", "wait_notify", "wait_peek"} :
              AppMove(t, l, arg[t]) /\ (l = "peek_result" => pc[t] = "in_peek")
        BY <2>3, <3>1, <3>3, <4>1, ReturnGoes, Zenon
      <4> QED
        BY <4>2, <1>MoveKept, Zenon DEF PeekPcs, TypeInv
    <3> QED
      BY <3>2, <3>3, Zenon
  <2>4. CASE ppc \notin {"none", "thrown"} /\ Throw
    <3>1. CASE ProgressMove("thrown")
      BY <2>2, <3>1, Zenon DEF ProgressPcs
    <3>2. CASE ~ProgressMove("thrown")
      <4>1. PICK t \in App : AppMove(t, "thrown", arg[t]) \/ AppMove(t, "idle", INVALID)
        BY <2>4, <3>2, ThrowGoes, Zenon
      <4> QED
        BY <4>1, <1>MoveKept, Zenon DEF PeekPcs, TypeInv
    <3> QED
      BY <3>1, <3>2, Zenon
  <2> QED
    BY <2>1, <2>3, <2>4, InsideGoes, Zenon
<1> QED
  BY <1>CallKept, <1>StartKept, <1>ProgressKept, <1>InsideKept, Zenon DEF Next, Issuing

-----------------------------------------------------------------------------
(***************************************************************************)
(* Request IDs.                                                            *)
(***************************************************************************)
\* A command is destroyed by the call that picks its result up, which ends with
\* it, or at once if it is a nowait command.
Destroyed ==
  \/ UNCHANGED retired
  \/ \E u \in App : retired' = retired \cup {arg[u]} /\ arg'[u] = INVALID
  \/ retired' = retired \cup {hand} /\ kind[hand] = "NOWAIT"

\* What a step that issues no ID does to the IDs.
IdsKept ==
  /\ UNCHANGED <<seq_no, kind, owner>>
  /\ \A i \in rem_reqid : i \in rem_reqid' \/ i \in retired'
  /\ retired \subseteq retired'
  /\ Destroyed

LEMMA NextIds ==
  ASSUME TypeInv, [Next]_vars, ~Issuing
  PROVE  IdsKept
<1>CallIds.
    ASSUME TypeInv, NEW t \in App, CallStep(t)
    PROVE  IdsKept
  <2> USE <1>CallIds
  <2>1. ASSUME UNCHANGED <<seq_no, kind, owner, rem_reqid, retired>>
        PROVE  IdsKept
    BY <2>1, Zenon DEF IdsKept, Destroyed
  <2>2. ASSUME NEW from, NEW unfinished, PeekResult(t, from, unfinished)
        PROVE  IdsKept
    <3>1. UNCHANGED <<seq_no, kind, owner>>
      BY <2>2, Zenon DEF PeekResult, cmdVars
    <3>2. CASE UNCHANGED <<rem_reqid, retired>>
      BY <2>1, <3>1, <3>2, Zenon
    <3>3. CASE /\ rem_reqid' = rem_reqid \ {arg[t]} /\ retired' = retired \cup {arg[t]}
               /\ GoTo(t, "idle")
      <4>1. arg'[t] = INVALID
        BY <3>3, GoToMoves, Zenon DEF AppMove, AppPcs, TypeInv
      <4> QED
        BY <3>1, <3>3, <4>1, Zenon DEF IdsKept, Destroyed
    <3> QED
      BY <2>2, <3>2, <3>3, Zenon DEF PeekResult
  <2>3. CASE WaitErase(t)
    <3>1. /\ UNCHANGED <<seq_no, kind, owner>>
          /\ rem_reqid' = rem_reqid \ {arg[t]} /\ retired' = retired \cup {arg[t]}
          /\ GoTo(t, "idle")
      BY <2>3, Zenon DEF WaitErase, cmdVars
    <3>2. arg'[t] = INVALID
      BY <3>1, GoToMoves, Zenon DEF AppMove, AppPcs, TypeInv
    <3> QED
      BY <3>1, <3>2, Zenon DEF IdsKept, Destroyed
  <2>4. CASE \/ Push(t) \/ CheckInFlight(t) \/ Notify(t) \/ SyncCheck(t) \/ WaitNotify(t)
             \/ WaitCheck(t) \/ WaitCompletion(t) \/ Join(t) \/ CloseExit(t)
             \/ \E from, in, otherwise : TryLock(t, from, in, otherwise)
    BY <2>1, <2>4, Zenon DEF Push, CheckInFlight, Notify, SyncCheck, WaitNotify, WaitCheck,
       WaitCompletion, Join, CloseExit, TryLock, ctxVars, cmdVars, histVars
  <2> QED
    BY <2>2, <2>3, <2>4, Zenon DEF CallStep
<1>OtherIds.
    ASSUME \/ \E t \in App : MakeCall(t) /\ ~\E k \in Kinds : Issue(t, k)
           \/ _progress_nolock \/ ProgressThread \/ SpuriousWakeup
           \/ VEReply \/ VEException \/ VEKilled \/ UNCHANGED vars
    PROVE  IdsKept
  <2> USE <1>OtherIds
  <2>1. ASSUME UNCHANGED <<seq_no, kind, owner, rem_reqid, retired>>
        PROVE  IdsKept
    BY <2>1, Zenon DEF IdsKept, Destroyed
  <2>2. CASE \E t \in App : MakeCall(t) /\ ~\E k \in Kinds : Issue(t, k)
    <3>1. PICK t \in App : MakeCall(t) /\ ~\E k \in Kinds : Issue(t, k)
      BY <2>2, Zenon
    <3>2. ASSUME NEW id, NEW l, Begin(t, id, l)
          PROVE  IdsKept
      BY <2>1, <3>2, Zenon DEF Begin, ctxVars, cmdVars, histVars
    <3>3. CASE SyncDead(t) \/ BlockBegin(t) \/ BlockEnd(t) \/ Close(t)
      BY <2>1, <3>3, Zenon DEF SyncDead, BlockBegin, BlockEnd, Close, ctxVars, cmdVars, histVars
    <3> QED
      BY <3>1, <3>2, <3>3, Zenon DEF MakeCall
  <2>3. CASE _progress_nolock
    <3>1. CASE Complete
      BY <3>1, Zenon DEF Complete, cmdVars, IdsKept, Destroyed
    <3>2. CASE ~Complete
      BY <2>1, <2>3, <3>2, Zenon DEF _progress_nolock, Recv, CancelRequests, CancelInFlight,
         PopRequest,
         SubmitVH, SubmitVE, IdleRound, ctxVars, cmdVars, histVars
    <3> QED
      BY <3>1, <3>2, Zenon
  <2>4. CASE \/ ProgressThread \/ SpuriousWakeup \/ VEReply \/ VEException \/ VEKilled
             \/ UNCHANGED vars
    BY <2>1, <2>4, Zenon DEF ProgressThread, WaitRequest, Woken, SpuriousWakeup, ProgressLock,
       ProgressExec, ProgressCheck, VEReply, VEException, VEKilled, vars, ctxVars, cmdVars,
       histVars
  <2> QED
    BY <2>2, <2>3, <2>4, Zenon
<1> QED
  BY <1>CallIds, <1>OtherIds, Zenon DEF Next, Issuing

\* A new ID is outstanding, unsubmitted, unfinished and nobody else's.
LEMMA IssueFacts ==
  ASSUME StreamInv, NEW t \in App, NEW k \in Kinds, Issue(t, k)
  PROVE  /\ AppMove(t, "push", seq_no) /\ seq_no \in Ids /\ seq_no' = seq_no + 1
         /\ kind' = [kind EXCEPT ![seq_no] = k] /\ owner' = [owner EXCEPT ![seq_no] = t]
         /\ rem_reqid' = IF k = "NOWAIT" THEN rem_reqid ELSE rem_reqid \cup {seq_no}
         /\ UNCHANGED <<log, status, state, retired, submit_mtx, start>>
         /\ seq_no \notin Elems(log) /\ seq_no \notin retired
         /\ status[seq_no] = "UNFINISHED"
         /\ \A u \in App : arg[u] # seq_no
<1>1. TypeInv /\ IInv /\ StatusInv
  BY Zenon DEF StreamInv, IInv
<1>2. AppMove(t, "push", seq_no) /\ seq_no \in Ids
  BY Basics, <1>1, StartMoves DEF Issue, Idle, TypeInv, AppPcs, Ids
<1>3. seq_no \notin Elems(log)
  BY Basics, <1>1 DEF IInv, LogInv, TypeInv
<1>4. seq_no \notin retired /\ status[seq_no] = "UNFINISHED"
  BY <1>1, <1>2, <1>3, Zenon DEF IInv, OnePlace, StatusInv
<1>5. \A u \in App : arg[u] # seq_no
  BY Basics, <1>1, <1>2, CallArg DEF TypeInv
<1> QED
  BY <1>2, <1>3, <1>4, <1>5, Zenon DEF Issue, comqVars, histVars

\* An ID stays outstanding until its command is destroyed.
LEMMA ClaimNext ==
  ASSUME StreamInv, ClaimInv, [Next]_vars
  PROVE  ClaimInv'
<1>1. CASE Issuing
  <2>1. PICK t \in App, k \in Kinds : Issue(t, k)
    BY <1>1, Zenon DEF Issuing
  <2>2. /\ kind \in [Ids -> Kinds] /\ seq_no \in Nat
    BY Basics DEF StreamInv, IInv, TypeInv
  <2>3. /\ seq_no' = seq_no + 1 /\ kind' = [kind EXCEPT ![seq_no] = k] /\ retired' = retired
        /\ rem_reqid' = IF k = "NOWAIT" THEN rem_reqid ELSE rem_reqid \cup {seq_no}
    BY <2>1, IssueFacts, Zenon
  <2>4. ASSUME NEW i \in Ids, i < seq_no', kind'[i] # "NOWAIT", i \notin retired'
        PROVE  i \in rem_reqid'
    <3>1. CASE i = seq_no
      BY <2>2, <2>3, <2>4, <3>1, Zenon
    <3>2. CASE i # seq_no
      <4>1. i < seq_no
        BY <2>2, <2>3, <2>4, <3>2 DEF Ids
      <4>2. kind'[i] = kind[i]
        BY <2>2, <2>3, <3>2, Zenon
      <4> QED
        BY <2>3, <2>4, <4>1, <4>2, Zenon DEF ClaimInv
    <3> QED
      BY <3>1, <3>2, Zenon
  <2> QED
    BY <2>4, Zenon DEF ClaimInv
<1>2. CASE ~Issuing
  <2>1. IdsKept
    BY <1>2, NextIds, Zenon DEF StreamInv, IInv
  <2> QED
    BY <2>1, Zenon DEF IdsKept, ClaimInv
<1> QED
  BY <1>1, <1>2, Zenon

\* A thread pushes its own command.
LEMMA PushNext ==
  ASSUME StreamInv, PushInv, [Next]_vars
  PROVE  PushInv'
<1>1. CASE Issuing
  <2>1. PICK t \in App, k \in Kinds : Issue(t, k)
    BY <1>1, Zenon DEF Issuing
  <2>2. /\ AppMove(t, "push", seq_no) /\ owner' = [owner EXCEPT ![seq_no] = t]
        /\ seq_no \in Ids /\ \A u \in App : arg[u] # seq_no
    BY <2>1, IssueFacts, Zenon
  <2>3. owner \in [Ids -> App \cup {None}]
    BY Zenon DEF StreamInv, IInv, TypeInv, TypeOK
  <2>4. ASSUME NEW u \in App, pc'[u] = "push"
        PROVE  owner'[arg'[u]] = u
    <3>1. CASE u = t
      <4>1. arg'[u] = seq_no
        BY <2>2, <3>1, Zenon DEF AppMove
      <4> QED
        BY <2>2, <2>3, <3>1, <4>1, Zenon
    <3>2. CASE u # t
      <4>1. arg'[u] = arg[u] /\ pc[u] = "push"
        BY <2>2, <2>4, <3>2, Zenon DEF AppMove
      <4>2. arg[u] \in Ids
        BY <4>1, CallArg, Zenon DEF StreamInv, IInv, IdPcs, SubmitPcs
      <4> QED
        BY <2>2, <2>3, <4>1, <4>2, Zenon DEF PushInv
    <3> QED
      BY <3>1, <3>2, Zenon
  <2> QED
    BY <2>4, Zenon DEF PushInv
<1>2. CASE ~Issuing
  <2>1. IdsKept /\ \A u \in App : Kept(u)
    BY <1>2, NextIds, NextKept, Zenon DEF StreamInv, IInv
  <2>2. \A u \in App : pc'[u] = "push" => pc[u] = "push" /\ arg'[u] = arg[u]
    BY <2>1, Zenon DEF Kept
  <2> QED
    BY <2>1, <2>2, Zenon DEF IdsKept, PushInv
<1> QED
  BY <1>1, <1>2, Zenon

-----------------------------------------------------------------------------
(***************************************************************************)
(* synchronize().                                                          *)
(***************************************************************************)
\* Nobody but its thread handles the command of synchronize().
LEMMA SyncNext ==
  ASSUME StreamInv, SyncInv, [Next]_vars
  PROVE  SyncInv'
<1>1. TypeInv /\ arg \in [App -> Ids \cup {INVALID}] /\ kind \in [Ids -> Kinds]
  BY Basics, Zenon DEF StreamInv, IInv, TypeInv
<1>2. CASE Issuing
  <2>1. PICK t \in App, k \in Kinds : Issue(t, k)
    BY <1>2, Zenon DEF Issuing
  <2>2. /\ AppMove(t, "push", seq_no) /\ kind' = [kind EXCEPT ![seq_no] = k]
        /\ seq_no \in Ids /\ \A u \in App : arg[u] # seq_no
        /\ retired' = retired /\ seq_no \notin retired
    BY <2>1, IssueFacts, Zenon
  <2>3. ASSUME NEW u \in App, u # t
        PROVE  /\ pc'[u] = pc[u] /\ arg'[u] = arg[u] /\ arg'[u] # arg'[t]
               /\ IsSync(u)' <=> IsSync(u)
    <3>1. pc'[u] = pc[u] /\ arg'[u] = arg[u] /\ arg'[u] # arg'[t]
      BY <2>2, <2>3, Zenon DEF AppMove
    <3>2. arg[u] # INVALID => kind'[arg[u]] = kind[arg[u]]
      BY <1>1, <2>2, Zenon
    <3> QED
      BY <3>1, <3>2, Zenon DEF IsSync
  <2>4. pc'[t] = "push" /\ arg'[t] = seq_no
    BY <2>2, Zenon DEF AppMove
  <2>5. ASSUME NEW u \in App, IsSync(u)'
        PROVE  /\ pc'[u] \notin {"peek_try", "in_peek", "peek_result"}
               /\ arg'[u] \notin retired'
    <3>1. CASE u = t
      BY <2>2, <2>4, <3>1, Zenon
    <3>2. CASE u # t
      BY <2>2, <2>3, <2>5, <3>2, Zenon DEF SyncInv
    <3> QED
      BY <3>1, <3>2, Zenon
  <2>6. ASSUME NEW u \in App, NEW v \in App, IsSync(u)', arg'[v] = arg'[u]
        PROVE  v = u
    <3>1. CASE u = t \/ v = t
      BY <2>3, <2>6, <3>1, Zenon
    <3>2. CASE u # t /\ v # t
      <4>1. IsSync(u) /\ arg[v] = arg[u]
        BY <2>3, <2>6, <3>2, Zenon
      <4> QED
        BY <4>1, Zenon DEF SyncInv
    <3> QED
      BY <3>1, <3>2, Zenon
  <2> QED
    BY <2>5, <2>6, Zenon DEF SyncInv
<1>3. CASE ~Issuing
  <2>1. IdsKept /\ \A u \in App : Kept(u)
    BY <1>1, <1>3, NextIds, NextKept, Zenon
  <2>2. kind' = kind /\ Destroyed
    BY <2>1, Zenon DEF IdsKept
  <2>3. ASSUME NEW u \in App, IsSync(u)'
        PROVE  /\ IsSync(u) /\ arg'[u] = arg[u]
               /\ pc'[u] \in PeekPcs => pc[u] \in PeekPcs
    BY <2>1, <2>2, <2>3, Zenon DEF Kept, IsSync
  <2>4. ASSUME NEW u \in App, IsSync(u)'
        PROVE  arg'[u] \notin retired'
    <3>1. IsSync(u) /\ arg'[u] = arg[u] /\ arg[u] \notin retired /\ arg'[u] # INVALID
      BY <2>3, <2>4, Zenon DEF SyncInv, IsSync
    <3>2. CASE UNCHANGED retired
      BY <3>1, <3>2, Zenon
    <3>3. CASE \E v \in App : retired' = retired \cup {arg[v]} /\ arg'[v] = INVALID
      <4>1. PICK v \in App : retired' = retired \cup {arg[v]} /\ arg'[v] = INVALID
        BY <3>3, Zenon
      <4>2. arg[v] # arg[u]
        BY <3>1, <4>1, Zenon DEF SyncInv
      <4> QED
        BY <3>1, <4>1, <4>2, Zenon
    <3>4. CASE retired' = retired \cup {hand} /\ kind[hand] = "NOWAIT"
      BY <3>1, <3>4, Zenon DEF IsSync
    <3> QED
      BY <2>2, <3>2, <3>3, <3>4, Zenon DEF Destroyed
  <2>5. ASSUME NEW u \in App, IsSync(u)'
        PROVE  pc'[u] \notin {"peek_try", "in_peek", "peek_result"}
    BY <2>3, <2>5, Zenon DEF SyncInv, PeekPcs
  <2>6. ASSUME NEW u \in App, NEW v \in App, IsSync(u)', arg'[v] = arg'[u]
        PROVE  v = u
    <3>1. IsSync(v)'
      BY <2>6, Zenon DEF IsSync
    <3>2. IsSync(u) /\ arg[v] = arg[u]
      BY <2>3, <2>6, <3>1, Zenon
    <3> QED
      BY <3>2, Zenon DEF SyncInv
  <2> QED
    BY <2>4, <2>5, <2>6, Zenon DEF SyncInv
<1> QED
  BY <1>2, <1>3, Zenon

\* Every step keeps the order of the results.
LEMMA ExecutedNext ==
  ASSUME StreamInv, Executed, [Next]_vars
  PROVE  Executed'
  \* A submission leaves the order of the earlier commands alone.
<1>BeforeOld.
    ASSUME NEW l \in Seq(Ids), NEW e \in Ids, NEW i \in Elems(l), NEW j, e \notin Elems(l),
           Before(Append(l, e), j, i)
    PROVE  Before(l, j, i)
  <2> USE <1>BeforeOld
  <2> DEFINE k == Append(l, e)
  <2>1. /\ DOMAIN k = 1 .. (Len(l) + 1) /\ DOMAIN l = 1 .. Len(l)
        /\ \A n \in 1 .. Len(l) : k[n] = l[n]
        /\ k[Len(l) + 1] = e /\ Len(l) \in Nat
    OBVIOUS
  <2>2. PICK m \in DOMAIN k, n \in DOMAIN k : m < n /\ k[m] = j /\ k[n] = i
    BY Zenon DEF Before
  <2> HIDE DEF k
  <2>3. k[n] # e
    BY <2>2, Zenon
  <2>4. m \in DOMAIN l /\ n \in DOMAIN l
    BY <2>1, <2>2, <2>3
  <2>5. l[m] = j /\ l[n] = i
    BY <2>1, <2>2, <2>4, Zenon
  <2> QED
    BY <2>2, <2>4, <2>5, Zenon DEF Before
  \* A command that is executed has no live predecessor.
<1>ExecutedStep.
    ASSUME StreamInv, Executed, hand \in Live, NEW r \in {"OK", "EXCEPTION"},
           \A j \in Live : j # hand => ~Before(log, j, hand),
           status' = [status EXCEPT ![hand] = r], log' = log
    PROVE  Executed'
  <2> USE <1>ExecutedStep
  <2>1. /\ StatusInv /\ log \in Seq(Ids) /\ Live \subseteq Elems(log) /\ Distinct(log)
        /\ Elems(log) \subseteq Ids /\ status \in [Ids -> Statuses]
    BY ElemsType, Zenon
    DEF StreamInv, IInv, OnePlace, Live, TypeInv, TypeOK, CommQueueType, OrderInv
  <2>2. ASSUME NEW i \in Elems(log), status'[i] \in {"OK", "EXCEPTION"}, NEW j \in Ids,
               Before(log, j, i)
        PROVE  status'[j] # "UNFINISHED"
    <3>1. j \in Elems(log) /\ j # i
      BY <2>1, <2>2, BeforeStrict, Zenon
    <3>2. CASE j = hand
      BY <2>1, <3>2, Zenon
    <3>3. CASE j # hand
      <4>1. status'[j] = status[j]
        BY <2>1, <3>3, Zenon
      <4>2. CASE i = hand
        BY <2>1, <2>2, <3>1, <3>3, <4>1, <4>2, Zenon DEF StatusInv
      <4>3. CASE i # hand
        <5>1. status[i] \in {"OK", "EXCEPTION"}
          BY <2>1, <2>2, <4>3, Zenon
        <5> QED
          BY <2>2, <4>1, <5>1, Zenon DEF Executed
      <4> QED
        BY <4>2, <4>3, Zenon
    <3> QED
      BY <3>2, <3>3, Zenon
  <2> QED
    BY <2>2, Zenon DEF Executed
<1>1. TypeInv
  BY Zenon DEF StreamInv, IInv
<1>2. ASSUME UNCHANGED <<log, status>>
      PROVE  Executed'
  BY <1>2, Zenon DEF Executed
<1>3. ASSUME NEW t \in App, Push(t)
      PROVE  Executed'
  <2>1. PICK e \in Ids : e = arg[t] /\ e \notin Elems(log)
    BY <1>3, CallArg, Zenon DEF Push, StreamInv, IInv, LogInv, TypeInv, IdPcs, SubmitPcs
  <2>2. log' = Append(log, e) /\ UNCHANGED status /\ log \in Seq(Ids)
    BY <1>1, <1>3, <2>1, Zenon DEF Push, TypeInv, TypeOK
  <2>3. Elems(log') = Elems(log) \cup {e} /\ status[e] = "UNFINISHED"
    BY <2>1, <2>2, AppendElems DEF StreamInv, StatusInv
  <2>4. ASSUME NEW i \in Elems(log), NEW j, Before(log', j, i)
        PROVE  Before(log, j, i)
    BY <2>1, <2>2, <2>4, <1>BeforeOld, Zenon
  <2> QED
    BY <2>2, <2>3, <2>4, Zenon DEF Executed
<1>4. ASSUME NEW t \in App, CallStep(t)
      PROVE  Executed'
  <2>1. CASE CloseExit(t)
    BY <1>2, <2>1, Zenon DEF CloseExit, comqVars, histVars
  <2>2. CASE ~Push(t) /\ ~CloseExit(t)
    BY <1>1, <1>2, <1>4, <2>2, QuietCall, Zenon DEF Quiet
  <2> QED
    BY <1>3, <2>1, <2>2, Zenon
<1>5. ASSUME _progress_nolock
      PROVE  Executed'
  <2>1. log' = log /\ Live \subseteq Elems(log)
    BY <1>5, StatusInside, Zenon
  <2>2. CASE status' = status
    BY <1>2, <2>1, <2>2, Zenon
  <2>3. CASE /\ Complete /\ hand \in Live
             /\ status' = [status EXCEPT ![hand] = resultStatus(Head(rep))]
    <3>1. \A j \in Live : j # hand => ~Before(log, j, hand)
      BY <2>3, OldestOnWire, Zenon DEF Complete
    <3>2. resultStatus(Head(rep)) \in {"OK", "EXCEPTION"}
      BY Zenon DEF resultStatus
    <3> QED
      BY <2>1, <2>3, <3>1, <3>2, <1>ExecutedStep, Zenon
  <2>4. CASE /\ SubmitVH /\ VHReady /\ hand \in Live
             /\ status' = [status EXCEPT ![hand] = "OK"]
    <3>1. \A j \in Live : j # hand => ~Before(log, j, hand)
      BY <2>4, OldestInHand, Zenon DEF SubmitVH, VHReady, emptyInFlight
    <3> QED
      BY <2>1, <2>4, <3>1, <1>ExecutedStep, Zenon
  <2>5. CASE \E S \in SUBSET Live :
               status' = [i \in Ids |-> IF i \in S THEN "ERROR" ELSE status[i]]
    <3>1. Elems(log) \subseteq Ids
      BY <1>1, ElemsType, Zenon DEF TypeInv, TypeOK
    <3> QED
      BY <2>1, <2>5, <3>1, Zenon DEF Executed
  <2> QED
    BY <1>5, <2>2, <2>3, <2>4, <2>5, StatusInside, Zenon
<1>6. ASSUME VEReply \/ VEException
      PROVE  Executed'
  BY <1>2, <1>6, Zenon DEF VEReply, VEException, comqVars, histVars
<1>7. ASSUME Quiet
      PROVE  Executed'
  BY <1>2, <1>7, Zenon DEF Quiet
<1>8. ASSUME UNCHANGED vars
      PROVE  Executed'
  BY <1>1, <1>7, <1>8, QuietProgress, Zenon
<1> QED
  BY <1>1, <1>4, <1>5, <1>6, <1>7, <1>8, QuietStart, QuietProgress, Zenon DEF Next

\* A VH function is given up only by cancelAll(), after the context has exited.
LEMMA FailedNext ==
  ASSUME StreamInv, FailedVH, [Next]_vars
  PROVE  FailedVH'
<1>1. TypeInv /\ kind \in [Ids -> Kinds] /\ status \in [Ids -> Statuses] /\ StatusInv /\ WireInv
  BY Zenon DEF StreamInv, IInv, TypeInv, TypeOK, CommQueueType
<1>2. ASSUME UNCHANGED <<status, kind>>, state = "EXIT" => state' = "EXIT"
      PROVE  FailedVH'
  BY <1>2, Zenon DEF FailedVH, isVH
<1>3. CASE Issuing
  <2>1. PICK t \in App, k \in Kinds : Issue(t, k)
    BY <1>3, Zenon DEF Issuing
  <2>2. /\ kind' = [kind EXCEPT ![seq_no] = k] /\ UNCHANGED <<status, state>>
        /\ status[seq_no] = "UNFINISHED" /\ seq_no \in Ids
    BY <2>1, IssueFacts, Zenon
  <2>3. ASSUME NEW i \in Ids, isVH(i)', status'[i] = "ERROR"
        PROVE  state' = "EXIT"
    <3>1. i # seq_no
      BY <2>2, <2>3, Zenon
    <3>2. kind'[i] = kind[i]
      BY <1>1, <2>2, <3>1, Zenon
    <3> QED
      BY <2>2, <2>3, <3>2, Zenon DEF FailedVH, isVH
  <2> QED
    BY <2>3, Zenon DEF FailedVH
<1>4. CASE ~Issuing
  <2>1. kind' = kind
    BY <1>1, <1>4, NextIds, Zenon DEF IdsKept
  <2>2. ASSUME Quiet
        PROVE  FailedVH'
    BY <1>2, <2>1, <2>2, Zenon DEF Quiet
  <2>3. ASSUME NEW t \in App, CallStep(t)
        PROVE  FailedVH'
    <3>1. CASE CloseExit(t)
      BY <1>2, <2>1, <3>1, Zenon DEF CloseExit, comqVars
    <3>2. CASE Push(t)
      BY <1>2, <2>1, <3>2, Zenon DEF Push
    <3> QED
      BY <1>1, <2>2, <2>3, <3>1, <3>2, QuietCall, Zenon
  <2>4. ASSUME _progress_nolock
        PROVE  FailedVH'
    <3>1. state = "EXIT" => state' = "EXIT"
      BY <2>4, Zenon DEF _progress_nolock, Recv, Complete, CancelRequests, CancelInFlight,
         PopRequest,
         SubmitVH, SubmitVE, IdleRound, ctxVars
    <3>2. CASE status' = status
      BY <1>2, <2>1, <3>1, <3>2, Zenon
    <3>3. ASSUME NEW r \in {"OK", "EXCEPTION"}, hand \in Live,
                 status' = [status EXCEPT ![hand] = r]
          PROVE  FailedVH'
      BY <1>1, <2>1, <3>1, <3>3, Zenon DEF FailedVH, isVH
    <3>4. ASSUME NEW S \in SUBSET Live,
                 status' = [i \in Ids |-> IF i \in S THEN "ERROR" ELSE status[i]],
                 CancelRequests \/ CancelInFlight \/ (SubmitVE /\ S = {hand})
          PROVE  FailedVH'
      <4>1. CASE CancelRequests \/ CancelInFlight
        <5>1. state' = "EXIT"
          BY <1>1, <3>1, <4>1, Zenon DEF WireInv, CancelRequests, CancelInFlight
        <5> QED
          BY <5>1, Zenon DEF FailedVH
      <4>2. CASE SubmitVE /\ S = {hand}
        <5>1. ~isVH(hand)
          BY <4>2, Zenon DEF SubmitVE
        <5>2. ASSUME NEW i \in Ids, isVH(i)', status'[i] = "ERROR"
              PROVE  state' = "EXIT"
          <6>1. isVH(i) /\ i # hand
            BY <2>1, <5>1, <5>2, Zenon DEF isVH
          <6>2. status[i] = "ERROR"
            BY <3>4, <4>2, <5>2, <6>1, Zenon
          <6> QED
            BY <3>1, <6>1, <6>2, Zenon DEF FailedVH
        <5> QED
          BY <5>2, Zenon DEF FailedVH
      <4> QED
        BY <3>4, <4>1, <4>2, Zenon
    <3>5. resultStatus(Head(rep)) \in {"OK", "EXCEPTION"}
      BY Zenon DEF resultStatus
    <3> QED
      BY <2>4, <3>2, <3>3, <3>4, <3>5, StatusInside, Zenon
  <2>5. ASSUME VEReply \/ VEException
        PROVE  FailedVH'
    BY <1>2, <2>1, <2>5, Zenon DEF VEReply, VEException, comqVars, ctxVars
  <2>6. ASSUME UNCHANGED vars
        PROVE  FailedVH'
    BY <1>1, <2>2, <2>6, QuietProgress, Zenon
  <2> QED
    BY <1>1, <2>2, <2>3, <2>4, <2>5, <2>6, QuietStart, QuietProgress, Zenon DEF Next
<1> QED
  BY <1>3, <1>4, Zenon

\* The command of synchronize() is finished when the call returns.
LEMMA SyncFinished ==
  ASSUME StreamInv, Executed, FailedVH, NEW t \in App, IsSync(t), state # "EXIT",
         arg[t] \in completion \cup Held, UNCHANGED <<log, status>>
  PROVE  FinishedBefore(arg[t])
<1>1. /\ arg[t] \in Elems(log) /\ arg[t] \notin Live /\ Elems(log) \subseteq Ids
      /\ status \in [Ids -> Statuses]
  BY ElemsType, Zenon DEF StreamInv, IInv, OnePlace, Live, TypeInv, TypeOK, CommQueueType
<1>2. status[arg[t]] \in {"OK", "EXCEPTION"}
  <2>1. isVH(arg[t])
    BY Zenon DEF IsSync, isVH
  <2>2. status[arg[t]] # "UNFINISHED" /\ status[arg[t]] # "ERROR" /\ status[arg[t]] \in Statuses
    BY <1>1, <2>1, Zenon DEF StreamInv, StatusInv, FailedVH
  <2> QED
    BY <2>2, Zenon DEF Statuses
<1>3. \A j \in Ids : Before(log, j, arg[t]) => status[j] # "UNFINISHED"
  BY <1>1, <1>2, Zenon DEF Executed
<1>4. ASSUME NEW m \in DOMAIN log, NEW n \in DOMAIN log, m < n, log[n] = arg[t]
      PROVE  status'[log[m]] # "UNFINISHED"
  <2>1. Before(log, log[m], arg[t]) /\ log[m] \in Ids
    BY <1>1, <1>4, Zenon DEF Before, Elems
  <2> QED
    BY <1>3, <2>1, Zenon
<1> QED
  BY <1>4, Zenon DEF FinishedBefore

\* synchronize() returns only where its command has been picked up.
LEMMA SyncStep ==
  ASSUME StreamInv, ClaimInv, Executed, FailedVH, SyncInv, [Next]_vars,
         NEW t \in App, SyncReturns(t), arg[t] # 0
  PROVE  FinishedBefore(arg[t])
<1>1. /\ TypeInv /\ IsSync(t) /\ pc[t] # "idle" /\ pc'[t] = "idle" /\ state' # "EXIT"
      /\ arg[t] \in Ids /\ kind[arg[t]] = "SYNC"
  BY CallArg, Zenon DEF StreamInv, IInv, SyncReturns, IsSync
<1>2. arg[t] \in rem_reqid
  <2>1. arg[t] < seq_no
    BY <1>1, CallArg, Zenon DEF IsSync
  <2>2. arg[t] \notin retired
    BY <1>1, Zenon DEF SyncInv
  <2> QED
    BY <1>1, <2>1, <2>2, Zenon DEF ClaimInv
<1>3. CASE CallStep(t)
  <2>1. CASE PeekResult(t, "wait_peek", "wait_try")
    <3>1. arg[t] \in completion \/ GoTo(t, "wait_try")
      BY <1>2, <2>1, Zenon DEF PeekResult
    <3>2. ~GoTo(t, "wait_try")
      BY Basics, <1>1, Zenon DEF GoTo, TypeInv
    <3>3. UNCHANGED <<log, status, state>>
      BY <2>1, Zenon DEF PeekResult
    <3> QED
      BY <1>1, <3>1, <3>2, <3>3, SyncFinished, Zenon
  <2>2. CASE WaitErase(t)
    <3>1. arg[t] \in Held /\ UNCHANGED <<log, status, state>>
      BY <2>2, Zenon DEF WaitErase, Held, Waiters, comqVars
    <3> QED
      BY <1>1, <3>1, SyncFinished, Zenon
  <2>3. ASSUME NEW l \in AppPcs \ {"idle"}, GoTo(t, l) \/ NotifyAndGoTo(t, l)
        PROVE  FALSE
    BY <1>1, <2>3, GoToMoves, NotifyMoves DEF AppMove, TypeInv
  <2>4. ~PeekResult(t, "peek_result", "idle") /\ ~TryLock(t, "peek_try", "in_peek", "peek_result")
    BY <1>1, Zenon DEF PeekResult, TryLock, SyncInv
  <2>5. CASE Push(t) \/ CheckInFlight(t) \/ Notify(t) \/ SyncCheck(t) \/ WaitNotify(t)
    BY <1>1, <2>3, <2>5, Zenon DEF Push, CheckInFlight, Notify, SyncCheck, WaitNotify, AppPcs
  <2>6. CASE WaitCheck(t) \/ WaitCompletion(t) \/ Join(t) \/ CloseExit(t)
    BY <1>2, <2>3, <2>6, Zenon DEF WaitCheck, WaitCompletion, Join, CloseExit, AppPcs
  <2>7. CASE \/ TryLock(t, "try", "in_progress", "notify")
             \/ TryLock(t, "wait_try", "in_wait", "wait_notify")
    BY <2>3, <2>7, Zenon DEF TryLock, AppPcs
  <2> QED
    BY <1>3, <2>1, <2>2, <2>4, <2>5, <2>6, <2>7, Zenon DEF CallStep
<1>4. ASSUME NEW u \in App \ {t}, NEW l, NEW a, AppMove(u, l, a)
      PROVE  FALSE
  BY <1>1, <1>4, Zenon DEF AppMove
<1>5. ASSUME NEW u \in App, u # t, CallStep(u)
      PROVE  FALSE
  <2>1. PICK l \in AppPcs : GoTo(u, l) \/ NotifyAndGoTo(u, l)
    BY <1>5, Zenon DEF CallStep, Push, CheckInFlight, TryLock, Notify, SyncCheck, PeekResult,
       WaitNotify, WaitCheck, WaitCompletion, WaitErase, Join, CloseExit, AppPcs
  <2> QED
    BY <1>1, <1>4, <1>5, <2>1, GoToMoves, NotifyMoves, Zenon DEF TypeInv
<1>6. ASSUME NEW u \in App, MakeCall(u)
      PROVE  FALSE
  <2>1. CASE BlockBegin(u) \/ BlockEnd(u)
    BY <1>1, <2>1, Zenon DEF BlockBegin, BlockEnd
  <2>2. CASE Close(u)
    BY <1>1, <2>2, Zenon DEF Close, Idle
  <2>3. CASE \/ \E k \in Kinds : Issue(u, k)
             \/ SyncDead(u) \/ \E id \in Ids, l \in {"wait_try", "peek_try"} : Begin(u, id, l)
    <3>1. PICK id, l : StartAt(u, id, l) /\ pc[u] = "idle"
      BY <2>3, Zenon DEF Issue, SyncDead, Begin, Idle
    <3>2. u # t
      BY <1>1, <3>1, Zenon
    <3> QED
      BY Basics, <1>1, <3>1, <3>2, Zenon DEF StartAt, TypeInv
  <2> QED
    BY <1>6, <2>1, <2>2, <2>3, Zenon DEF MakeCall
<1>7. ASSUME NEW l, ProgressMove(l)
      PROVE  FALSE
  BY <1>1, <1>7, Zenon DEF ProgressMove
<1>8. ASSUME _progress_nolock
      PROVE  FALSE
  <2>1. CASE UNCHANGED <<pc, arg>>
    BY <1>1, <2>1, Zenon
  <2>2. CASE ppc \notin {"none", "thrown"} /\ \E rv \in Int : Return(rv)
    <3>1. PICK rv \in Int : Return(rv)
      BY <2>2, Zenon
    <3>2. PICK u \in App : u = prog_mtx.owner
      BY <1>1, <1>7, <2>2, <3>1, ReturnGoes, Zenon
    <3>3. PICK l \in {"notify", "peek_result", "wait_notify", "wait_peek"} :
            AppMove(u, l, arg[u])
      BY <1>1, <1>7, <2>2, <3>1, <3>2, ReturnGoes, Zenon
    <3>4. u # t
      BY <1>1, <3>3, Zenon DEF AppMove
    <3> QED
      BY <1>4, <3>3, <3>4, Zenon
  <2>3. CASE ppc \notin {"none", "thrown"} /\ Throw
    <3>1. PICK u \in App :
            \/ AppMove(u, "thrown", arg[u])
            \/ AppMove(u, "idle", INVALID) /\ arg[u] # INVALID /\ kind[arg[u]] # "SYNC"
      BY <1>1, <1>7, <2>3, ThrowGoes, Zenon
    <3>2. u # t
      BY <1>1, <3>1, Zenon DEF AppMove
    <3> QED
      BY <1>4, <3>1, <3>2, Zenon
  <2> QED
    BY <1>1, <1>8, <2>1, <2>2, <2>3, InsideGoes, Zenon
<1>9. ASSUME ProgressThread \/ SpuriousWakeup
      PROVE  FALSE
  <2>1. PICK l \in ProgressPcs : GoTo(Progress, l)
    BY <1>9, Zenon DEF ProgressThread, WaitRequest, Woken, SpuriousWakeup, ProgressLock,
       ProgressExec, ProgressCheck, ProgressPcs
  <2> QED
    BY <1>1, <1>7, <2>1, ProgressMoves, Zenon DEF TypeInv
<1>10. ASSUME VEReply \/ VEException \/ VEKilled \/ UNCHANGED vars
       PROVE  FALSE
  BY <1>1, <1>10, Zenon DEF VEReply, VEException, VEKilled, vars
<1> QED
  BY <1>3, <1>5, <1>6, <1>8, <1>9, <1>10, Zenon DEF Next

-----------------------------------------------------------------------------
(***************************************************************************)
(* Request blocks.                                                         *)
(***************************************************************************)

\* Only the owner of the block submits.
LEMMA BlockNext ==
  ASSUME StreamInv, PushInv, BlockContiguous, [Next]_vars
  PROVE  BlockContiguous'
  \* Steps outside the submission paths leave the block alone.
<1>BlockKept.
    ASSUME [Next]_vars, ~Issuing,
           ~\E t \in App : Push(t) \/ Notify(t) \/ BlockBegin(t) \/ BlockEnd(t)
    PROVE  UNCHANGED <<submit_mtx, start, log, owner>>
  <2> USE <1>BlockKept
  <2>1. ASSUME NEW t \in App, CallStep(t)
        PROVE  UNCHANGED <<submit_mtx, start, log, owner>>
    <3>1. CASE \/ CheckInFlight(t) \/ SyncCheck(t) \/ WaitNotify(t) \/ WaitCheck(t)
               \/ WaitCompletion(t) \/ WaitErase(t) \/ Join(t) \/ CloseExit(t)
      BY <3>1, Zenon DEF CheckInFlight, SyncCheck, WaitNotify, WaitCheck, WaitCompletion, WaitErase,
         Join, CloseExit, ctxVars, cmdVars, histVars
    <3>2. ASSUME NEW from, NEW in, NEW otherwise, TryLock(t, from, in, otherwise)
          PROVE  UNCHANGED <<submit_mtx, start, log, owner>>
      BY <3>2, Zenon DEF TryLock, ctxVars, cmdVars, histVars
    <3>3. ASSUME NEW from, NEW unfinished, PeekResult(t, from, unfinished)
          PROVE  UNCHANGED <<submit_mtx, start, log, owner>>
      BY <3>3, Zenon DEF PeekResult, cmdVars
    <3> QED
      BY <2>1, <3>1, <3>2, <3>3, Zenon DEF CallStep
  <2>2. ASSUME NEW t \in App, MakeCall(t)
        PROVE  UNCHANGED <<submit_mtx, start, log, owner>>
    <3>1. ASSUME NEW id, NEW l, Begin(t, id, l)
          PROVE  UNCHANGED <<submit_mtx, start, log, owner>>
      BY <3>1, Zenon DEF Begin, ctxVars, cmdVars, histVars
    <3>2. CASE SyncDead(t) \/ Close(t)
      BY <3>2, Zenon DEF SyncDead, Close, ctxVars, cmdVars, histVars
    <3> QED
      BY <2>2, <3>1, <3>2, Zenon DEF MakeCall, Issuing
  <2>3. ASSUME _progress_nolock
        PROVE  UNCHANGED <<submit_mtx, start, log, owner>>
    BY <2>3, Zenon DEF _progress_nolock, Recv, Complete, CancelRequests, CancelInFlight, PopRequest,
       SubmitVH, SubmitVE, IdleRound, ctxVars, cmdVars, histVars
  <2>4. ASSUME \/ ProgressThread \/ SpuriousWakeup \/ VEReply \/ VEException \/ VEKilled
               \/ UNCHANGED vars
        PROVE  UNCHANGED <<submit_mtx, start, log, owner>>
    BY <2>4, Zenon DEF ProgressThread, WaitRequest, Woken, SpuriousWakeup, ProgressLock,
       ProgressExec, ProgressCheck, VEReply, VEException, VEKilled, vars, ctxVars, cmdVars,
       histVars
  <2> QED
    BY <2>1, <2>2, <2>3, <2>4, Zenon DEF Next
<1>1. /\ TypeInv /\ log \in Seq(Ids) /\ start \in Nat /\ Len(log) \in Nat
      /\ submit_mtx \in Mutexes /\ owner \in [Ids -> App \cup {None}]
      /\ MutexInv(submit_mtx) /\ None \notin App
  <2>1. TypeInv
    BY Zenon DEF StreamInv, IInv
  <2>2. /\ log \in Seq(Ids) /\ start \in Nat /\ submit_mtx \in Mutexes
        /\ owner \in [Ids -> App \cup {None}]
    BY <2>1, Zenon DEF TypeInv, TypeOK
  <2>3. MutexInv(submit_mtx) /\ None \notin App
    BY <2>1, ContextAssumption, Zenon DEF TypeInv, Control, SubmitInv
  <2>4. Len(log) \in Nat
    BY <2>2
  <2> QED
    BY <2>1, <2>2, <2>3, <2>4, Zenon
<1>2. CASE Issuing
  <2>1. PICK t \in App, k \in Kinds : Issue(t, k)
    BY <1>2, Zenon DEF Issuing
  <2>2. /\ owner' = [owner EXCEPT ![seq_no] = t] /\ seq_no \notin Elems(log)
        /\ UNCHANGED <<log, start, submit_mtx>>
    BY <2>1, IssueFacts, Zenon
  <2>3. ASSUME NEW n \in (start + 1) .. Len(log)
        PROVE  owner'[log[n]] = owner[log[n]]
    <3>1. n \in DOMAIN log
      BY <1>1
    <3>2. log[n] \in Elems(log) /\ log[n] \in Ids
      BY <1>1, <3>1 DEF Elems
    <3> QED
      BY <1>1, <2>2, <3>2, Zenon
  <2> QED
    BY <2>2, <2>3, Zenon DEF BlockContiguous
<1>3. ASSUME NEW t \in App, Push(t)
      PROVE  BlockContiguous'
  <2>1. PICK e \in Ids : e = arg[t]
    BY <1>1, <1>3, CallArg, Zenon DEF Push, IdPcs, SubmitPcs
  <2>2. log' = Append(log, e) /\ owner' = owner /\ owner[e] = t
    BY <1>3, <2>1, Zenon DEF Push, cmdVars, PushInv
  <2>3. /\ Len(log') = Len(log) + 1 /\ log'[Len(log) + 1] = e
        /\ \A n \in 1 .. Len(log) : log'[n] = log[n]
    BY <1>1, <2>2
  <2>4. \/ /\ submit_mtx.owner = None /\ submit_mtx.depth = 0
           /\ submit_mtx'.owner = t /\ start' = Len(log)
        \/ submit_mtx.owner \in {t, None} /\ submit_mtx'.owner = submit_mtx.owner /\ start' = start
    <3>1. CanLock(submit_mtx, t)
      BY <1>3, Zenon DEF Push
    <3>2. CASE UNCHANGED <<submit_mtx, start>>
      BY <3>1, <3>2, Zenon DEF CanLock
    <3>3. CASE LockSubmit(t)
      BY <1>1, <3>1, <3>3, Zenon DEF CanLock, LockSubmit, Locked, MutexInv
    <3> QED
      BY <1>3, <3>2, <3>3, Zenon DEF Push
  <2>5. ASSUME submit_mtx'.owner # None, NEW n \in (start' + 1) .. Len(log')
        PROVE  owner'[log'[n]] = submit_mtx'.owner
    <3>1. submit_mtx'.owner = t
      BY <2>4, <2>5, Zenon
    <3>2. CASE n = Len(log) + 1
      BY <2>2, <2>3, <3>1, <3>2, Zenon
    <3>3. CASE n # Len(log) + 1
      <4>1. start' = start /\ submit_mtx.owner = t
        BY <1>1, <2>3, <2>4, <2>5, <3>1, <3>3
      <4>2. n \in (start + 1) .. Len(log) /\ log'[n] = log[n]
        BY <1>1, <2>3, <2>5, <3>3, <4>1
      <4> QED
        BY <1>1, <2>2, <3>1, <4>1, <4>2, Zenon DEF BlockContiguous
    <3> QED
      BY <3>2, <3>3, Zenon
  <2> QED
    BY <2>5, Zenon DEF BlockContiguous
<1>4. ASSUME UnlockSubmit, UNCHANGED <<log, owner>>
      PROVE  BlockContiguous'
  <2>1. CASE submit_mtx.depth = 1
    BY <1>4, <2>1, Zenon DEF UnlockSubmit, Released, Unlocked, BlockContiguous
  <2>2. CASE submit_mtx.depth # 1
    <3>1. submit_mtx'.owner = submit_mtx.owner /\ start' = start
      BY <1>1, <1>4, <2>2, Zenon DEF UnlockSubmit, Released, Mutexes
    <3> QED
      BY <1>4, <3>1, Zenon DEF BlockContiguous
  <2> QED
    BY <2>1, <2>2, Zenon
<1>5. ASSUME UNCHANGED <<submit_mtx, start, log, owner>>
      PROVE  BlockContiguous'
  BY <1>5, Zenon DEF BlockContiguous
<1>6. ASSUME NEW t \in App, Notify(t) \/ BlockEnd(t)
      PROVE  BlockContiguous'
  <2>1. UNCHANGED <<log, owner>>
    BY <1>6, Zenon DEF Notify, BlockEnd, cmdVars
  <2>2. UnlockSubmit \/ UNCHANGED <<submit_mtx, start>>
    BY <1>6, Zenon DEF Notify, BlockEnd
  <2> QED
    BY <1>4, <1>5, <2>1, <2>2, Zenon
<1>7. ASSUME NEW t \in App, BlockBegin(t)
      PROVE  BlockContiguous'
  <2>1. start' = Len(log) /\ UNCHANGED <<log, owner>>
    BY <1>1, <1>7, Zenon DEF BlockBegin, LockSubmit, MutexInv, cmdVars
  <2>2. (start' + 1) .. Len(log') = {}
    BY <1>1, <2>1
  <2> QED
    BY <2>2, Zenon DEF BlockContiguous
<1> QED
  BY <1>2, <1>3, <1>5, <1>6, <1>7, <1>BlockKept, Zenon

-----------------------------------------------------------------------------
(***************************************************************************)
(* The theorems.                                                           *)
(***************************************************************************)
LEMMA CallInvInit ==
  ASSUME Init
  PROVE  CallInv
<1>1. StreamInv
  BY StreamInvInit, Zenon
<1>2. \A t \in App : pc[t] = "idle" /\ arg[t] = INVALID
  BY ContextAssumption, Zenon DEF Init, Threads
<1>3. /\ \A i \in Ids : status[i] = "UNFINISHED"
      /\ Elems(log) = {} /\ seq_no = 0 /\ submit_mtx.owner = None
  BY DEF Init, CommQueueInit, Elems, Unlocked
<1>4. ClaimInv
  BY <1>3 DEF ClaimInv, Ids
<1>5. Executed /\ FailedVH /\ BlockContiguous
  BY <1>3, Zenon DEF Executed, FailedVH, BlockContiguous
<1>6. PushInv /\ SyncInv
  BY <1>2, Zenon DEF PushInv, SyncInv, IsSync
<1> QED
  BY <1>1, <1>4, <1>5, <1>6, Zenon DEF CallInv

\* CallInv is preserved by every step.
LEMMA CallInvNext ==
  ASSUME CallInv, [Next]_vars
  PROVE  CallInv'
  BY StreamInvNext, ClaimNext, ExecutedNext, FailedNext, PushNext, SyncNext, BlockNext, Zenon
  DEF CallInv

\* A finished command's ID is outstanding until its result has been picked up,
\* for any number of threads that wait and peek: callWaitResult() and
\* _peekResult() never find a result without its ID.
THEOREM ResultsAlwaysClaimable == Spec => []Claimable
<1>1. Init => CallInv
  BY CallInvInit, Zenon
<1>2. CallInv /\ [Next]_vars => CallInv'
  BY CallInvNext, Zenon
<1>3. CallInv => Claimable
  <2> SUFFICES ASSUME CallInv, NEW i \in completion \cup Held, kind[i] # "NOWAIT"
               PROVE  i \in rem_reqid
    BY Zenon DEF Claimable
  <2>1. i \in Elems(log) /\ i \notin retired
    BY Zenon DEF CallInv, StreamInv, IInv, OnePlace
  <2>2. i \in Ids /\ i < seq_no
    BY <2>1, ElemsType, Zenon DEF CallInv, StreamInv, IInv, LogInv, TypeInv, TypeOK
  <2> QED
    BY <2>1, <2>2, Zenon DEF CallInv, ClaimInv
<1> QED
  BY <1>1, <1>2, <1>3, PTL DEF Spec

\* A request block is not interrupted: between reqBlockBegin() and reqBlockEnd()
\* only commands of the block's thread enter the queue, however deep the VH
\* submissions inside it lock submit_mtx.
THEOREM BlocksStayWhole == Spec => []BlockContiguous
<1>1. Init => CallInv
  BY CallInvInit, Zenon
<1>2. CallInv /\ [Next]_vars => CallInv'
  BY CallInvNext, Zenon
<1>3. CallInv => BlockContiguous
  BY Zenon DEF CallInv
<1> QED
  BY <1>1, <1>2, <1>3, PTL DEF Spec

\* synchronize() is a barrier: unless the context has exited, it returns with a
\* result for every command submitted before its own, whoever drives the context
\* and whatever fails (the request with ID 0 excepted).
THEOREM SynchronizeIsBarrier == Spec => SyncBarrier
<1>1. Init => CallInv
  BY CallInvInit, Zenon
<1>2. CallInv /\ [Next]_vars => CallInv'
  BY CallInvNext, Zenon
<1>3. CallInv /\ [Next]_vars =>
        [\A t \in App : SyncReturns(t) /\ arg[t] # 0 => FinishedBefore(arg[t])]_vars
  BY SyncStep, Zenon DEF CallInv
<1> QED
  BY <1>1, <1>2, <1>3, PTL DEF Spec, SyncBarrier

-----------------------------------------------------------------------------
(***************************************************************************)
(* The progress thread does not sleep over a request, in a calm context.   *)
(***************************************************************************)
\* While somebody is in _progress_nolock(), nothing has ended the context ...
LEMMA InsideAlive ==
  ASSUME TypeInv, CalmInv, ppc \notin {"none", "thrown"}
  PROVE  state # "EXIT" /\ child = "alive"
<1>1. prog_mtx.owner \in App \cup {Progress} /\ pc[prog_mtx.owner] \in InPcs
  BY Basics, Zenon DEF TypeInv, Control, ProgInv
<1>2. CASE prog_mtx.owner = Progress
  BY <1>1, <1>2, Zenon DEF CalmInv, InPcs
<1>3. CASE prog_mtx.owner \in App
  <2>1. ~terminateFlag
    BY <1>1, <1>3, Zenon DEF TypeInv, Control, CloseInv, InPcs
  <2> QED
    BY <2>1, Zenon DEF CalmInv
<1> QED
  BY <1>1, <1>2, <1>3, Zenon

\* ... so that every reply finds its command.
LEMMA ReplyExpected ==
  ASSUME StreamInv, CalmInv, ppc = "recv", rep # <<>>
  PROVE  Head(rep).id \in inflight
<1>1. state # "EXIT"
  BY InsideAlive, Zenon DEF StreamInv, IInv
<1>2. WireIds = inflight
  BY <1>1, Zenon DEF StreamInv, WireInv, WireMatchesInFlight
<1>3. rep \in Seq(Replies)
  BY Zenon DEF StreamInv, IInv, TypeInv, TypeOK
<1>4. 1 \in DOMAIN rep /\ Head(rep) = rep[1]
  BY <1>3
<1> QED
  BY <1>2, <1>4, Zenon DEF WireIds

\* Without peeking calls and with send errors only, every step preserves CalmInv.
LEMMA CalmNext ==
  ASSUME Calm, StreamInv, CalmInv, [Next]_vars
  PROVE  CalmInv'
  \* Nobody begins to peek.
<1>NoPeek.
    ASSUME Calm, StreamInv, CalmInv, [Next]_vars, NEW u \in App
    PROVE  pc'[u] \notin PeekPcs
  <2> USE <1>NoPeek
  <2>1. TypeInv /\ \A t \in App : pc[t] \notin PeekPcs
    BY Zenon DEF StreamInv, IInv, CalmInv
  <2>2. ASSUME NEW t \in App, NEW l, NEW a, AppMove(t, l, a), l \notin PeekPcs
        PROVE  pc'[u] \notin PeekPcs
    BY <2>1, <2>2, Zenon DEF AppMove
  <2>3. ASSUME NEW l, ProgressMove(l)
        PROVE  pc'[u] \notin PeekPcs
    BY <2>1, <2>3, Zenon DEF ProgressMove
  <2>4. ASSUME NEW t \in App, CallStep(t)
        PROVE  pc'[u] \notin PeekPcs
    <3>1. PICK l \in AppPcs \ PeekPcs : GoTo(t, l) \/ NotifyAndGoTo(t, l)
      <4>1. CASE Push(t) \/ CheckInFlight(t) \/ Notify(t) \/ SyncCheck(t) \/ WaitNotify(t)
        BY <4>1, Zenon DEF Push, CheckInFlight, Notify, SyncCheck, WaitNotify, AppPcs, PeekPcs
      <4>2. CASE WaitCheck(t) \/ WaitCompletion(t) \/ WaitErase(t) \/ Join(t) \/ CloseExit(t)
        BY <4>2, Zenon DEF WaitCheck, WaitCompletion, WaitErase, Join, CloseExit, AppPcs, PeekPcs
      <4>3. CASE \/ TryLock(t, "try", "in_progress", "notify")
                 \/ TryLock(t, "wait_try", "in_wait", "wait_notify")
        BY <4>3, Zenon DEF TryLock, AppPcs, PeekPcs
      <4>4. CASE PeekResult(t, "wait_peek", "wait_try")
        BY <4>4, Zenon DEF PeekResult, AppPcs, PeekPcs
      <4>5. ~TryLock(t, "peek_try", "in_peek", "peek_result") /\ ~PeekResult(t, "peek_result", "idle")
        BY <2>1, Zenon DEF TryLock, PeekResult, PeekPcs
      <4> QED
        BY <2>4, <4>1, <4>2, <4>3, <4>4, <4>5, Zenon DEF CallStep
    <3> QED
      BY <2>1, <2>2, <3>1, GoToMoves, NotifyMoves, Zenon DEF TypeInv
  <2>5. ASSUME NEW t \in App, MakeCall(t)
        PROVE  pc'[u] \notin PeekPcs
    <3>1. CASE BlockBegin(t) \/ BlockEnd(t)
      BY <2>1, <3>1, Zenon DEF BlockBegin, BlockEnd
    <3>2. CASE Close(t)
      <4>1. pc' = [pc EXCEPT ![t] = "join", ![Progress] = IF @ = "asleep" THEN "woken" ELSE @]
        BY <3>2, Zenon DEF Close
      <4>2. pc'[u] = pc[u] \/ pc'[u] = "join"
        BY Basics, <2>1, <4>1, Zenon DEF TypeInv
      <4> QED
        BY <2>1, <4>2, Zenon DEF PeekPcs
    <3>3. CASE \E k \in Kinds \cap Calls : Issue(t, k)
      <4>1. PICK k \in Kinds : Issue(t, k)
        BY <3>3, Zenon
      <4>2. pc' = [pc EXCEPT ![t] = "push"]
        BY <4>1, Zenon DEF Issue, StartAt
      <4>3. pc'[u] = pc[u] \/ pc'[u] = "push"
        BY Basics, <2>1, <4>2, Zenon DEF TypeInv
      <4> QED
        BY <2>1, <4>3, Zenon DEF PeekPcs
    <3>4. CASE SyncDead(t) \/ \E id \in Ids : Begin(t, id, "wait_try")
      <4>1. pc' = [pc EXCEPT ![t] = "wait_try"]
        BY <3>4, Zenon DEF SyncDead, Begin, StartAt
      <4>2. pc'[u] = pc[u] \/ pc'[u] = "wait_try"
        BY Basics, <2>1, <4>1, Zenon DEF TypeInv
      <4> QED
        BY <2>1, <4>2, Zenon DEF PeekPcs
    <3> QED
      BY <2>5, <3>1, <3>2, <3>3, <3>4, Zenon DEF MakeCall, Calm
  <2>6. ASSUME _progress_nolock
        PROVE  pc'[u] \notin PeekPcs
    <3>1. CASE UNCHANGED <<pc, arg>>
      BY <2>1, <3>1, Zenon
    <3>2. CASE ppc \notin {"none", "thrown"} /\ \E rv \in Int : Return(rv)
      <4>1. PICK rv \in Int : Return(rv)
        BY <3>2, Zenon
      <4>2. CASE prog_mtx.owner = Progress
        BY <2>1, <2>3, <3>2, <4>1, <4>2, ReturnGoes, Basics, Zenon DEF TypeInv
      <4>3. CASE prog_mtx.owner # Progress
        <5>1. PICK v \in App : v = prog_mtx.owner
          BY <2>1, <3>2, <4>1, <4>3, ReturnGoes, Zenon
        <5>2. pc[v] # "in_peek"
          BY <2>1, Zenon DEF PeekPcs
        <5>3. PICK l \in {"notify", "wait_notify", "wait_peek"} : AppMove(v, l, arg[v])
          BY <2>1, <3>2, <4>1, <4>3, <5>1, <5>2, ReturnGoes, Zenon
        <5> QED
          BY <2>2, <5>3, Zenon DEF PeekPcs
      <4> QED
        BY <4>2, <4>3, Zenon
    <3>3. ~(Recv /\ rep # <<>> /\ Head(rep).id \notin inflight)
      BY ReplyExpected, Zenon DEF Recv
    <3> QED
      BY <2>1, <2>6, <3>1, <3>2, <3>3, InsideGoes, Zenon
  <2>7. ASSUME ProgressThread \/ SpuriousWakeup
        PROVE  pc'[u] \notin PeekPcs
    <3>1. PICK l \in ProgressPcs : GoTo(Progress, l)
      BY <2>7, Zenon DEF ProgressThread, WaitRequest, Woken, SpuriousWakeup, ProgressLock,
         ProgressExec, ProgressCheck, ProgressPcs
    <3> QED
      BY <2>1, <2>3, <3>1, ProgressMoves, Zenon DEF TypeInv
  <2>8. ASSUME VEReply \/ VEException \/ VEKilled \/ UNCHANGED vars
        PROVE  pc'[u] \notin PeekPcs
    BY <2>1, <2>8, Zenon DEF VEReply, VEException, VEKilled, vars
  <2> QED
    BY <2>4, <2>5, <2>6, <2>7, <2>8, Zenon DEF Next
<1>AppendNormal.
    ASSUME NEW s \in Seq(Replies), NEW r \in Replies, ~r.exc, \A n \in DOMAIN s : ~s[n].exc
    PROVE  \A n \in DOMAIN Append(s, r) : ~Append(s, r)[n].exc
  <2> USE <1>AppendNormal
  <2> DEFINE f == Append(s, r)
  <2>1. /\ DOMAIN f = 1 .. (Len(s) + 1) /\ DOMAIN s = 1 .. Len(s)
        /\ \A n \in 1 .. Len(s) : f[n] = s[n]
        /\ f[Len(s) + 1] = r /\ Len(s) \in Nat
    OBVIOUS
  <2> HIDE DEF f
  <2>2. \A n \in DOMAIN f : ~f[n].exc
    BY <2>1
  <2> QED
    BY <2>2, Zenon DEF f
  \* The VE process raises no exception and survival stays.
<1>NoException.
    ASSUME Calm, StreamInv, CalmInv, [Next]_vars
    PROVE  survival' /\ \A n \in DOMAIN rep' : ~rep'[n].exc
  <2> USE <1>NoException
  <2>1. TypeInv /\ rep \in Seq(Replies) /\ survival /\ \A n \in DOMAIN rep : ~rep[n].exc
    BY Zenon DEF StreamInv, IInv, TypeInv, TypeOK, CalmInv
  <2>2. ASSUME UNCHANGED <<rep, survival>>
        PROVE  survival' /\ \A n \in DOMAIN rep' : ~rep'[n].exc
    BY <2>1, <2>2, Zenon
  <2>3. ASSUME rep # <<>>, rep' = Tail(rep), survival' = survival
        PROVE  survival' /\ \A n \in DOMAIN rep' : ~rep'[n].exc
    <3>1. \A n \in DOMAIN rep' : n + 1 \in DOMAIN rep /\ rep'[n] = rep[n + 1]
      BY <2>1, <2>3
    <3> QED
      BY <2>1, <2>3, <3>1, Zenon
  <2>4. ASSUME NEW t \in App, CallStep(t)
        PROVE  survival' /\ \A n \in DOMAIN rep' : ~rep'[n].exc
    <3>1. CASE CloseExit(t)
      <4>1. survival' = survival /\ (rep' = rep \/ rep' = <<>>)
        BY <3>1, Zenon DEF CloseExit, idleVars, veVars
      <4> QED
        BY <2>1, <4>1
    <3>2. ASSUME NEW from, NEW in, NEW otherwise, TryLock(t, from, in, otherwise)
          PROVE  UNCHANGED <<rep, survival>>
      BY <3>2, Zenon DEF TryLock, idleVars, veVars
    <3>3. ASSUME NEW from, NEW unfinished, PeekResult(t, from, unfinished)
          PROVE  UNCHANGED <<rep, survival>>
      BY <3>3, Zenon DEF PeekResult, idleVars, veVars
    <3>4. CASE \/ Push(t) \/ CheckInFlight(t) \/ Notify(t) \/ SyncCheck(t) \/ WaitNotify(t)
               \/ WaitCheck(t) \/ WaitCompletion(t) \/ WaitErase(t) \/ Join(t)
      BY <2>2, <3>4, Zenon DEF Push, CheckInFlight, Notify, SyncCheck, WaitNotify, WaitCheck,
         WaitCompletion, WaitErase, Join, idleVars, veVars
    <3> QED
      BY <2>2, <2>4, <3>1, <3>2, <3>3, <3>4, Zenon DEF CallStep
  <2>5. ASSUME NEW t \in App, MakeCall(t)
        PROVE  survival' /\ \A n \in DOMAIN rep' : ~rep'[n].exc
    <3>1. UNCHANGED <<rep, survival>>
      BY <2>5, Zenon DEF MakeCall, Issue, SyncDead, Begin, BlockBegin, BlockEnd, Close, idleVars,
         veVars
    <3> QED
      BY <2>2, <3>1, Zenon
  <2>6. CASE Recv
    <3>1. ~(rep # <<>> /\ Head(rep).id \notin inflight)
      BY <2>6, ReplyExpected, Zenon DEF Recv
    <3>2. UNCHANGED <<rep, survival>>
      BY <2>6, <3>1, Zenon DEF Recv, idleVars
    <3> QED
      BY <2>2, <3>2, Zenon
  <2>7. CASE Complete
    <3>1. rep # <<>> /\ rep' = Tail(rep) /\ survival' = survival
      BY <2>1, <2>7, Zenon DEF Complete, TypeInv, HandInv, idleVars
    <3> QED
      BY <2>3, <3>1, Zenon
  <2>8. CASE IdleRound
    <3>1. child = "alive"
      BY <2>1, <2>8, InsideAlive, Zenon DEF IdleRound
    <3>2. UNCHANGED <<rep, survival>>
      BY <2>1, <2>8, <3>1, Zenon DEF IdleRound, veVars
    <3> QED
      BY <2>2, <3>2, Zenon
  <2>9. CASE CancelRequests \/ CancelInFlight \/ PopRequest \/ SubmitVH \/ SubmitVE
    BY <2>2, <2>9, Zenon DEF CancelRequests, CancelInFlight, PopRequest, SubmitVH, SubmitVE,
       idleVars, veVars
  <2>10. CASE ProgressThread \/ SpuriousWakeup \/ UNCHANGED vars
    BY <2>2, <2>10, Zenon DEF ProgressThread, WaitRequest, Woken, SpuriousWakeup, ProgressLock,
       ProgressExec, ProgressCheck, vars, idleVars, veVars
  <2>11. CASE VEReply
    <3>1. survival' = survival /\ rep' = Append(rep, [id |-> Head(chan), exc |-> FALSE])
      BY <2>11, Zenon DEF VEReply, idleVars
    <3>2. chan \in Seq(Ids) /\ chan # <<>>
      BY <2>1, <2>11, Zenon DEF VEReply, TypeInv, TypeOK
    <3>3. Head(chan) \in Ids
      BY <3>2
    <3>4. [id |-> Head(chan), exc |-> FALSE] \in Replies
      BY <3>3, Zenon DEF Replies
    <3> QED
      BY <2>1, <3>1, <3>4, <1>AppendNormal, Zenon
  <2>12. ~VEException /\ ~VEKilled
    BY Zenon DEF VEException, VEKilled, Calm
  <2> QED
    BY <2>4, <2>5, <2>6, <2>7, <2>8, <2>9, <2>10, <2>11, <2>12, Zenon DEF Next, _progress_nolock
  \* Only close() ends the context, and what it ends stays ended.
<1>EndNext.
    ASSUME Calm, StreamInv, CalmInv, [Next]_vars, state' = "EXIT" \/ child' # "alive"
    PROVE  terminateFlag' /\ pc'[Progress] = "exited"
  <2> USE <1>EndNext
  <2> DEFINE Ended == terminateFlag /\ pc[Progress] = "exited"
  <2>1. TypeInv /\ (state = "EXIT" \/ child # "alive" => Ended)
    BY Zenon DEF StreamInv, IInv, CalmInv
  <2>2. ASSUME Ended, NEW t \in App, NEW l \in AppPcs, GoTo(t, l) \/ NotifyAndGoTo(t, l),
               terminateFlag' = terminateFlag
        PROVE  Ended'
    BY <2>1, <2>2, GoToMoves, NotifyMoves, Zenon DEF AppMove, TypeInv
  <2>3. ASSUME NEW t \in App, CallStep(t)
        PROVE  Ended'
    <3>1. CASE CloseExit(t)
      <4>1. Ended
        BY <2>1, <3>1, Zenon DEF CloseExit, TypeInv, Control, CloseInv
      <4>2. GoTo(t, "closed") /\ terminateFlag' = terminateFlag
        BY <3>1, Zenon DEF CloseExit, comqVars
      <4> QED
        BY <2>2, <4>1, <4>2, Zenon DEF AppPcs
    <3>2. CASE ~CloseExit(t)
      <4>1. UNCHANGED <<state, child, terminateFlag>>
        <5>1. ASSUME NEW from, NEW in, NEW otherwise, TryLock(t, from, in, otherwise)
              PROVE  UNCHANGED <<state, child, terminateFlag>>
          BY <5>1, Zenon DEF TryLock, ctxVars, comqVars, veVars
        <5>2. ASSUME NEW from, NEW unfinished, PeekResult(t, from, unfinished)
              PROVE  UNCHANGED <<state, child, terminateFlag>>
          BY <5>2, Zenon DEF PeekResult, veVars
        <5>3. CASE \/ Push(t) \/ CheckInFlight(t) \/ Notify(t) \/ SyncCheck(t) \/ WaitNotify(t)
                   \/ WaitCheck(t) \/ WaitCompletion(t) \/ WaitErase(t) \/ Join(t)
          BY <5>3, Zenon DEF Push, CheckInFlight, Notify, SyncCheck, WaitNotify, WaitCheck,
             WaitCompletion, WaitErase, Join, ctxVars, comqVars, veVars
        <5> QED
          BY <2>3, <3>2, <5>1, <5>2, <5>3, Zenon DEF CallStep
      <4>2. Ended
        BY <2>1, <4>1, Zenon
      <4>3. PICK l \in AppPcs : GoTo(t, l) \/ NotifyAndGoTo(t, l)
        BY <2>3, Zenon DEF CallStep, Push, CheckInFlight, TryLock, Notify, SyncCheck, PeekResult,
           WaitNotify, WaitCheck, WaitCompletion, WaitErase, Join, CloseExit, AppPcs
      <4> QED
        BY <2>2, <4>1, <4>2, <4>3, Zenon
    <3> QED
      BY <3>1, <3>2, Zenon
  <2>4. ASSUME NEW t \in App, MakeCall(t)
        PROVE  Ended'
    <3>1. UNCHANGED <<state, child>>
      BY <2>4, Zenon DEF MakeCall, Issue, SyncDead, Begin, BlockBegin, BlockEnd, Close, ctxVars,
         veVars
    <3>2. Ended
      BY <2>1, <3>1, Zenon
    <3>3. (BlockBegin(t) \/ BlockEnd(t)) /\ UNCHANGED <<pc, terminateFlag>>
      BY <2>4, <3>2, Zenon DEF MakeCall, Issue, SyncDead, Begin, BlockBegin, BlockEnd, Close,
         Idle, comqVars
    <3> QED
      BY <3>2, <3>3, Zenon
  <2>5. ASSUME _progress_nolock
        PROVE  FALSE
    <3>1. ppc \notin {"none", "thrown"} /\ state # "EXIT" /\ child = "alive"
      BY <2>1, <2>5, InsideGoes, InsideAlive, Zenon
    <3>2. child' = child /\ (state' = state \/ Complete \/ IdleRound)
      BY <2>5, Zenon DEF _progress_nolock, Recv, CancelRequests, Complete, CancelInFlight,
         PopRequest,
         SubmitVH, SubmitVE, IdleRound, ctxVars, veVars
    <3>3. CASE Complete
      <4>1. rep \in Seq(Replies) /\ rep # <<>>
        BY <2>1, <3>3, Zenon DEF Complete, TypeInv, TypeOK, HandInv
      <4>2. 1 \in DOMAIN rep /\ Head(rep) = rep[1]
        BY <4>1
      <4>3. ~Head(rep).exc
        BY <4>2, Zenon DEF CalmInv
      <4> QED
        BY <3>1, <3>2, <3>3, <4>3, Zenon DEF Complete
    <3>4. CASE IdleRound
      BY <3>1, <3>2, <3>4, Zenon DEF IdleRound, CalmInv
    <3> QED
      BY <3>1, <3>2, <3>3, <3>4, Zenon
  <2>6. ASSUME ProgressThread \/ SpuriousWakeup
        PROVE  FALSE
    <3>1. UNCHANGED <<state, child>>
      BY <2>6, Zenon DEF ProgressThread, WaitRequest, Woken, SpuriousWakeup, ProgressLock,
         ProgressExec, ProgressCheck, ctxVars, veVars
    <3>2. pc[Progress] # "exited"
      BY <2>6, Zenon DEF ProgressThread, WaitRequest, Woken, SpuriousWakeup, ProgressLock,
         ProgressExec, ProgressCheck
    <3> QED
      BY <2>1, <3>1, <3>2, Zenon
  <2>7. ASSUME VEReply \/ UNCHANGED vars
        PROVE  Ended'
    <3>1. UNCHANGED <<state, child, pc, terminateFlag>>
      BY <2>7, Zenon DEF VEReply, vars, ctxVars, comqVars, veVars
    <3> QED
      BY <2>1, <3>1, Zenon
  <2>8. ~VEException /\ ~VEKilled
    BY Zenon DEF VEException, VEKilled, Calm
  <2> QED
    BY <2>3, <2>4, <2>5, <2>6, <2>7, <2>8, Zenon DEF Next
<1> QED
  BY <1>NoPeek, <1>NoException, <1>EndNext, Zenon DEF CalmInv

\* It then preserves WakeInv.
LEMMA WakeNext ==
  ASSUME Calm, StreamInv, CalmInv, WakeInv, [Next]_vars
  PROVE  WakeInv'
  \* A thread that leaves the way to notifyAll() has notified.
<1>WakeMove.
    ASSUME WakeInv, NEW t \in App, NEW l, NEW a, AppMove(t, l, a), request' = request,
           pc[t] \in OnTheWay => l \in OnTheWay \/ request = <<>> \/ pc'[Progress] # "asleep"
    PROVE  WakeInv'
  <2> USE <1>WakeMove
  <2> SUFFICES ASSUME pc'[Progress] = "asleep", request # <<>>
               PROVE  \E u \in App : pc'[u] \in OnTheWay
    BY Zenon DEF WakeInv
  <2>1. pc[Progress] = "asleep"
    BY Zenon DEF AppMove
  <2>2. PICK u \in App : pc[u] \in OnTheWay
    BY <2>1, Zenon DEF WakeInv
  <2>3. pc'[u] \in OnTheWay
    BY <2>2, Zenon DEF AppMove
  <2> QED
    BY <2>3, Zenon
<1>WakeReturn.
    ASSUME TypeInv, CalmInv, WakeInv, ppc \notin {"none", "thrown"}, NEW rv \in Int,
           Return(rv), request' = request \/ rv > 0
    PROVE  WakeInv'
  <2> USE <1>WakeReturn
  <2>1. CASE prog_mtx.owner = Progress
    <3>1. pc'[Progress] = "exec"
      BY <2>1, ReturnGoes, Basics, Zenon DEF ProgressMove, TypeInv
    <3> QED
      BY <3>1, Zenon DEF WakeInv
  <2>2. CASE prog_mtx.owner # Progress
    <3>1. PICK u \in App : u = prog_mtx.owner
      BY <2>2, ReturnGoes, Zenon
    <3>2. pc[u] # "in_peek"
      BY Zenon DEF CalmInv, PeekPcs
    <3>3. \/ AppMove(u, "notify", arg[u])
          \/ rv > 0 /\ AppMove(u, "wait_notify", arg[u])
          \/ ~(rv > 0) /\ pc[u] = "in_wait" /\ AppMove(u, "wait_peek", arg[u])
      BY <2>2, <3>1, <3>2, ReturnGoes, Zenon
    <3>4. CASE AppMove(u, "notify", arg[u]) \/ AppMove(u, "wait_notify", arg[u])
      BY <3>4, Zenon DEF AppMove, WakeInv, OnTheWay
    <3>5. CASE ~(rv > 0) /\ pc[u] = "in_wait" /\ AppMove(u, "wait_peek", arg[u])
      <4>1. pc[u] \notin OnTheWay
        BY <3>5, Zenon DEF OnTheWay
      <4> QED
        BY <3>5, <4>1, <1>WakeMove, Zenon
    <3> QED
      BY <3>3, <3>4, <3>5, Zenon
  <2> QED
    BY <2>1, <2>2, Zenon
<1>WakeCall.
    ASSUME TypeInv, WakeInv, NEW t \in App, CallStep(t)
    PROVE  WakeInv'
  <2> USE <1>WakeCall
  <2>1. ASSUME NEW l \in AppPcs, GoTo(t, l) \/ NotifyAndGoTo(t, l), request' = request,
               pc[t] \in OnTheWay => l \in OnTheWay \/ request = <<>> \/ pc'[Progress] # "asleep"
        PROVE  WakeInv'
    BY <2>1, GoToMoves, NotifyMoves, <1>WakeMove, Zenon DEF TypeInv
  <2>2. CASE Push(t)
    <3>1. PICK l \in {"notify", "progress"} : GoTo(t, l)
      BY <2>2, Zenon DEF Push
    <3>2. pc'[t] \in OnTheWay
      BY <3>1, GoToMoves, Zenon DEF AppMove, AppPcs, OnTheWay, TypeInv
    <3> QED
      BY <3>2, Zenon DEF WakeInv
  <2>3. CASE CheckInFlight(t)
    <3>1. PICK l \in {"notify", "try"} : GoTo(t, l)
      BY <2>3, Zenon DEF CheckInFlight
    <3>2. request' = request /\ l \in AppPcs /\ l \in OnTheWay
      BY <2>3, Zenon DEF CheckInFlight, comqVars, AppPcs, OnTheWay
    <3> QED
      BY <2>1, <3>1, <3>2, Zenon
  <2>4. CASE TryLock(t, "try", "in_progress", "notify")
    <3>1. PICK l \in {"notify", "in_progress"} : GoTo(t, l)
      BY <2>4, Zenon DEF TryLock
    <3>2. request' = request /\ l \in AppPcs /\ l \in OnTheWay
      BY <2>4, Zenon DEF TryLock, comqVars, AppPcs, OnTheWay
    <3> QED
      BY <2>1, <3>1, <3>2, Zenon
  <2>5. CASE Notify(t) \/ WaitNotify(t)
    <3>1. PICK l \in AppPcs : NotifyAndGoTo(t, l)
      BY <2>5, Zenon DEF Notify, WaitNotify, AppPcs
    <3>2. request' = request
      BY <2>5, Zenon DEF Notify, WaitNotify, comqVars
    <3>3. request = <<>> \/ pc'[Progress] # "asleep"
      BY <3>1, Basics, Zenon DEF NotifyAndGoTo, notifies, TypeInv
    <3> QED
      BY <2>1, <3>1, <3>2, <3>3, Zenon
  <2>6. CASE \/ TryLock(t, "wait_try", "in_wait", "wait_notify")
             \/ TryLock(t, "peek_try", "in_peek", "peek_result")
             \/ PeekResult(t, "wait_peek", "wait_try") \/ PeekResult(t, "peek_result", "idle")
    <3>1. (\E l \in AppPcs : GoTo(t, l)) /\ request' = request /\ pc[t] \notin OnTheWay
      BY <2>6, Zenon DEF TryLock, PeekResult, comqVars, AppPcs, OnTheWay
    <3> QED
      BY <2>1, <3>1, Zenon
  <2>7. CASE \/ SyncCheck(t) \/ WaitCheck(t) \/ WaitCompletion(t) \/ WaitErase(t) \/ Join(t)
             \/ CloseExit(t)
    <3>1. (\E l \in AppPcs : GoTo(t, l)) /\ request' = request /\ pc[t] \notin OnTheWay
      BY <2>7, Zenon DEF SyncCheck, WaitCheck, WaitCompletion, WaitErase, Join, CloseExit, comqVars,
         AppPcs, OnTheWay
    <3> QED
      BY <2>1, <3>1, Zenon
  <2> QED
    BY <2>2, <2>3, <2>4, <2>5, <2>6, <2>7, Zenon DEF CallStep
<1>WakeStart.
    ASSUME TypeInv, WakeInv, NEW t \in App, MakeCall(t)
    PROVE  WakeInv'
  <2> USE <1>WakeStart
  <2>1. CASE BlockBegin(t) \/ BlockEnd(t)
    BY <2>1, Zenon DEF BlockBegin, BlockEnd, comqVars, WakeInv
  <2>2. CASE Close(t)
    <3>1. pc' = [pc EXCEPT ![t] = "join", ![Progress] = IF @ = "asleep" THEN "woken" ELSE @]
      BY <2>2, Zenon DEF Close
    <3>2. pc'[Progress] # "asleep"
      BY <3>1, Basics, Zenon DEF TypeInv
    <3> QED
      BY <3>2, Zenon DEF WakeInv
  <2>3. CASE \/ \E k \in Kinds : Issue(t, k)
             \/ SyncDead(t)
             \/ \E id \in Ids, l \in {"wait_try", "peek_try"} : Begin(t, id, l)
    <3>1. request' = request /\ pc[t] = "idle"
      BY <2>3, Zenon DEF Issue, SyncDead, Begin, Idle, comqVars
    <3>2. PICK id, l : StartAt(t, id, l)
      BY <2>3, Zenon DEF Issue, SyncDead, Begin
    <3>3. pc'[Progress] = pc[Progress] /\ \A u \in App : u # t => pc'[u] = pc[u]
      BY <3>2, Basics, Zenon DEF StartAt, TypeInv
    <3> QED
      BY <3>1, <3>3, Zenon DEF WakeInv, OnTheWay
  <2> QED
    BY <2>1, <2>2, <2>3, Zenon DEF MakeCall
<1>WakeInside.
    ASSUME Calm, StreamInv, CalmInv, WakeInv, _progress_nolock
    PROVE  WakeInv'
  <2> USE <1>WakeInside
  <2>1. TypeInv /\ ppc \notin {"none", "thrown"}
    BY InsideGoes, Zenon DEF StreamInv, IInv
  <2>2. ASSUME UNCHANGED <<pc, request>>
        PROVE  WakeInv'
    BY <2>2, Zenon DEF WakeInv
  <2>3. CASE Recv
    <3>1. ~(rep # <<>> /\ Head(rep).id \notin inflight)
      BY <2>3, ReplyExpected, Zenon DEF Recv
    <3> QED
      BY <2>2, <2>3, <3>1, Zenon DEF Recv
  <2>4. CASE Complete
    BY <2>2, <2>4, Zenon DEF Complete
  <2>5. CASE CancelRequests
    <3>1. request' = <<>>
      BY <2>5, Zenon DEF CancelRequests, cancelRequests
    <3> QED
      BY <3>1, Zenon DEF WakeInv
  <2>6. CASE CancelInFlight
    BY <2>1, <2>6, <1>WakeReturn DEF CancelInFlight
  <2>7. CASE PopRequest
    <3>1. CASE UNCHANGED request /\ Return(0)
      BY <2>1, <3>1, <1>WakeReturn
    <3>2. CASE request # <<>> /\ UNCHANGED pc
      BY <3>2, Zenon DEF WakeInv
    <3> QED
      BY <2>2, <2>7, <3>1, <3>2, Zenon DEF PopRequest
  <2>8. CASE SubmitVH
    BY <2>1, <2>2, <2>8, <1>WakeReturn DEF SubmitVH
  <2>9. CASE SubmitVE
    BY <2>2, <2>9, Zenon DEF SubmitVE, Calm
  <2>10. CASE IdleRound
    BY <2>1, <2>2, <2>10, <1>WakeReturn DEF IdleRound, comqVars
  <2> QED
    BY <2>3, <2>4, <2>5, <2>6, <2>7, <2>8, <2>9, <2>10, Zenon DEF _progress_nolock
<1>1. TypeInv
  BY Zenon DEF StreamInv, IInv
<1>2. CASE WaitRequest
  <2>1. PICK l \in ProgressPcs : GoTo(Progress, l) /\ (l = "asleep" => request = <<>>)
    BY <1>2, Zenon DEF WaitRequest, waitRequestSleeps, ProgressPcs
  <2>2. pc'[Progress] = l /\ request' = request
    BY <1>1, <1>2, <2>1, ProgressMoves, Zenon DEF WaitRequest, comqVars, ProgressMove, TypeInv
  <2> QED
    BY <2>1, <2>2, Zenon DEF WakeInv
<1>3. CASE Woken \/ ProgressLock \/ ProgressExec \/ ProgressCheck \/ SpuriousWakeup
  <2>1. PICK l \in ProgressPcs \ {"asleep"} : GoTo(Progress, l)
    BY <1>3, Zenon DEF Woken, SpuriousWakeup, ProgressLock, ProgressExec, ProgressCheck, ProgressPcs
  <2>2. pc'[Progress] # "asleep"
    BY <1>1, <2>1, ProgressMoves, Zenon DEF ProgressMove, TypeInv
  <2> QED
    BY <2>2, Zenon DEF WakeInv
<1>4. CASE VEReply \/ VEException \/ VEKilled \/ UNCHANGED vars
  BY <1>4, Zenon DEF VEReply, VEException, VEKilled, vars, comqVars, WakeInv
<1> QED
  BY <1>1, <1>2, <1>3, <1>4, <1>WakeCall, <1>WakeStart, <1>WakeInside, Zenon DEF Next,
     ProgressThread

\* In a calm context (nobody peeks, nothing but a submission error fails) the
\* progress thread sleeps over a request only while the thread that submitted it
\* or put it back is on its way to notifyAll(): no wake-up of waitRequest() is
\* lost, for any number of submitting and waiting threads.
THEOREM NoWakeupLost ==
  ASSUME Calm
  PROVE  Spec => []WakeupPending
<1>1. Init => StreamInv /\ CalmInv /\ WakeInv
  <2> SUFFICES ASSUME Init
               PROVE  StreamInv /\ CalmInv /\ WakeInv
    BY Zenon
  <2>1. StreamInv
    BY StreamInvInit, Zenon
  <2>2. (\A t \in App : pc[t] = "idle") /\ request = <<>>
    BY ContextAssumption, Zenon DEF Init, CommQueueInit, Threads
  <2>3. CalmInv
    BY <2>2 DEF Init, CalmInv, PeekPcs
  <2> QED
    BY <2>1, <2>2, <2>3, Zenon DEF WakeInv
<1>2. StreamInv /\ CalmInv /\ WakeInv /\ [Next]_vars => StreamInv' /\ CalmInv' /\ WakeInv'
  BY StreamInvNext, CalmNext, WakeNext, Zenon
<1>3. WakeInv => WakeupPending
  BY Zenon DEF WakeInv, WakeupPending, OnTheWay
<1> QED
  BY <1>1, <1>2, <1>3, PTL DEF Spec
=============================================================================
