---------------------------- MODULE ContextProofs ----------------------------
(***************************************************************************)
(* Theorems about Context, for any number of threads, requests and slots.  *)
(*                                                                         *)
(* The proof that TypeInv is inductive goes through a few facts about      *)
(* control: what a step does to the program counters and to prog_mtx is    *)
(* one of six moves (a call goes on outside _progress_nolock(), the        *)
(* progress thread goes on outside it, a thread enters it, goes on in it,  *)
(* returns from it, or throws), and each move preserves Control.  A step   *)
(* of the system is then one such move and a change of the data.           *)
(*                                                                         *)
(* The second half proves that a command is always in exactly one place.   *)
(* A step moves commands from one container to another; the lemmas say     *)
(* what the containers hold after it.  LogInv is what makes a pushed       *)
(* command a new one: IDs are issued once and pushed once.                 *)
(*                                                                         *)
(* The last part is about order: the reply ring, the command ring, the     *)
(* hand of _progress_nolock() and the request queue, read one after the    *)
(* other, are always sorted by the time of submission (OrderInv).          *)
(***************************************************************************)
EXTENDS ContextInv, TLAPS

Pcs == AppPcs \cup ProgressPcs

\* Facts about the constants and the types of the control variables.
LEMMA Basics ==
  ASSUME TypeOK
  PROVE  /\ pc \in [Threads -> Pcs] /\ arg \in [App -> Ids \cup {INVALID}]
         /\ ppc \in Ppcs /\ prog_mtx \in Mutexes /\ submit_mtx \in Mutexes
         /\ kind \in [Ids -> Kinds] /\ seq_no \in 0 .. NReq /\ NReq \in Nat
         /\ Threads = App \cup {Progress} /\ Progress \notin App
         /\ None \notin Threads /\ INVALID \notin Ids /\ Ids \subseteq Nat
  BY NReqAssumption, ContextAssumption DEF TypeOK, Threads, INVALID, Ids, Pcs

\* The commands in a deque of requests are request IDs.
LEMMA ElemsType ==
  ASSUME NEW S, NEW s \in Seq(S)
  PROVE  Elems(s) \subseteq S
<1>1. \A i \in DOMAIN s : s[i] \in S
  OBVIOUS
<1> QED
  BY <1>1, Zenon DEF Elems

-----------------------------------------------------------------------------
\* Thread t goes to l with request a; notifyAll() or terminate() may wake the
\* progress thread in the same step.
AppMove(t, l, a) ==
  /\ pc' \in [Threads -> Pcs] /\ arg' \in [App -> Ids \cup {INVALID}]
  /\ pc'[t] = l /\ arg'[t] = a
  /\ \A u \in App \ {t} : pc'[u] = pc[u] /\ arg'[u] = arg[u]
  /\ \/ pc'[Progress] = pc[Progress]
     \/ pc[Progress] = "asleep" /\ pc'[Progress] = "woken"

\* GoTo, NotifyAndGoTo and StartAt are such moves.
LEMMA GoToMoves ==
  ASSUME TypeOK, NEW t \in App, NEW l \in AppPcs, GoTo(t, l)
  PROVE  AppMove(t, l, IF l = "idle" THEN INVALID ELSE arg[t])
  BY Basics, Zenon DEF GoTo, Back, AppMove, Pcs

LEMMA NotifyMoves ==
  ASSUME TypeOK, NEW t \in App, NEW l \in AppPcs, NotifyAndGoTo(t, l)
  PROVE  AppMove(t, l, IF l = "idle" THEN INVALID ELSE arg[t])
  BY Basics, Zenon DEF NotifyAndGoTo, Back, AppMove, Pcs, ProgressPcs

LEMMA StartMoves ==
  ASSUME TypeOK, NEW t \in App, NEW l \in AppPcs, NEW id \in Ids \cup {INVALID},
         StartAt(t, id, l)
  PROVE  AppMove(t, l, id)
  BY Basics, Zenon DEF StartAt, AppMove, Pcs

-----------------------------------------------------------------------------
\* The progress thread goes to l.
ProgressMove(l) ==
  /\ pc' \in [Threads -> Pcs] /\ pc'[Progress] = l /\ arg' = arg
  /\ \A u \in App : pc'[u] = pc[u]

LEMMA ProgressMoves ==
  ASSUME TypeOK, NEW l \in ProgressPcs, GoTo(Progress, l)
  PROVE  ProgressMove(l)
  BY Basics, Zenon DEF GoTo, Back, ProgressMove, Pcs, ProgressPcs

-----------------------------------------------------------------------------

\* The thread inside _progress_nolock() is the owner of prog_mtx.
LEMMA WhoIsInside ==
  ASSUME TypeOK, Control, ppc \notin {"none", "thrown"}
  PROVE  /\ ~terminateFlag \/ prog_mtx.owner = Progress
         /\ prog_mtx.depth \in Nat \ {0}
         /\ \/ prog_mtx.owner = Progress /\ pc[Progress] = "in_exec"
            \/ /\ prog_mtx.owner \in App
               /\ pc[prog_mtx.owner] \in {"in_progress", "in_wait", "in_peek"}
<1> USE Basics DEF Control
<1>1. prog_mtx.owner \in Threads /\ pc[prog_mtx.owner] \in InPcs
  BY Zenon DEF ProgInv
<1>2. prog_mtx.depth \in Nat \ {0}
  BY <1>1, Zenon DEF ProgInv, MutexInv, Mutexes
<1>3. CASE prog_mtx.owner = Progress
  BY <1>1, <1>2, <1>3, Zenon DEF PcInv, InPcs, ProgressPcs
<1>4. CASE prog_mtx.owner # Progress
  BY <1>1, <1>2, <1>4 DEF PcInv, InPcs, AppPcs, CloseInv
<1> QED
  BY <1>3, <1>4, Zenon

-----------------------------------------------------------------------------
\* The first element and the rest of a sequence.
LEMMA FirstAndRest ==
  ASSUME NEW S, NEW s \in Seq(S), s # <<>>
  PROVE  Head(s) \in S /\ Tail(s) \in Seq(S) /\ Len(s) \in Nat \ {0}
  OBVIOUS

\* The request ID a call is about.
LEMMA CallArg ==
  ASSUME TypeInv, NEW t \in App
  PROVE  /\ arg[t] \in Ids \cup {INVALID} /\ (arg[t] # INVALID => arg[t] < seq_no)
         /\ pc[t] \in IdPcs => arg[t] # INVALID
  BY Basics, Zenon DEF TypeInv, Control, ArgInv

-----------------------------------------------------------------------------
\* Every step of the system preserves the type invariant.
LEMMA TypeNext ==
  ASSUME TypeInv, [Next]_vars
  PROVE  TypeInv'
  \* Request IDs are counted by seq_no, and INVALID is none of them.
<1>IdBasics.
    ASSUME TypeOK
    PROVE  seq_no \in Nat /\ INVALID \notin Ids
  <2> USE <1>IdBasics
  <2>1. seq_no \in 0 .. NReq /\ NReq \in Nat /\ INVALID \notin Ids
    BY Basics, Zenon
  <2> QED
    BY <2>1
  \* A call goes on outside _progress_nolock().
<1>AppControl.
    ASSUME TypeOK, Control, NEW t \in App, NEW l \in AppPcs, NEW a \in Ids \cup {INVALID},
           AppMove(t, l, a), ~terminateFlag, pc[t] \notin InPcs \cup {"thrown"},
           l \notin InPcs \cup {"join", "close"},
           l \in IdPcs => a # INVALID,
           a # INVALID => a < seq_no',
           seq_no <= seq_no', seq_no' \in Nat,
           UNCHANGED <<prog_mtx, ppc, terminateFlag>>,
           SubmitInv'
    PROVE  Control'
  <2> USE <1>AppControl
  <2> USE Basics DEF AppMove
  <2>1. PcInv'
    BY Zenon DEF PcInv, Control, ProgressPcs
  <2>2. ProgInv'
    BY DEF ProgInv, MutexInv, Control, InPcs
  <2>3. ExecInv'
    BY Zenon DEF ExecInv, Control
  <2>4. ArgInv'
    BY DEF ArgInv, Control
  <2>5. CloseInv'
    BY Zenon DEF CloseInv, Control
  <2> QED
    BY <2>1, <2>2, <2>3, <2>4, <2>5, Zenon DEF Control
  \* Only the thread that submits a VH command holds submit_mtx for it.
<1>SubmitControl.
    ASSUME TypeOK, Control, NEW t \in App, NEW l \in AppPcs, NEW a \in Ids \cup {INVALID},
           AppMove(t, l, a),
           l \in {"progress", "try", "in_progress", "notify"} => ~isVH(a),
           UNCHANGED <<submit_mtx, kind>>
    PROVE  SubmitInv'
    BY <1>SubmitControl, Basics DEF AppMove, SubmitInv, MutexInv, isVH, Control
  \* The invariants that do not depend on where the progress thread is.
<1>ProgressOthers.
    ASSUME TypeOK, Control, NEW l \in ProgressPcs, ProgressMove(l),
           pc[Progress] # "exited",
           UNCHANGED <<submit_mtx, kind, seq_no, terminateFlag>>
    PROVE  PcInv' /\ SubmitInv' /\ ArgInv' /\ CloseInv'
  <2> USE <1>ProgressOthers
  <2> USE Basics DEF ProgressMove
  <2>1. PcInv'
    BY Zenon DEF PcInv, Control
  <2>2. SubmitInv'
    BY Zenon DEF SubmitInv, MutexInv, isVH, Control
  <2>3. ArgInv'
    BY Zenon DEF ArgInv, Control
  <2>4. CloseInv'
    BY Zenon DEF CloseInv, Control
  <2> QED
    BY <2>1, <2>2, <2>3, <2>4, Zenon
  \* The progress thread goes on outside progressExec().
<1>ProgressControl.
    ASSUME TypeOK, Control, NEW l \in ProgressPcs, ProgressMove(l),
           pc[Progress] \in {"wait_req", "asleep", "woken", "check"},
           l \notin InPcs \cup {"exec", "thrown"},
           UNCHANGED <<prog_mtx, ppc, submit_mtx, kind, seq_no, terminateFlag>>
    PROVE  Control'
  <2> USE <1>ProgressControl
  <2>1. ProgInv'
    BY Basics, Zenon DEF ProgInv, MutexInv, InPcs, Control, ProgressMove
  <2>2. ExecInv'
    BY Basics, Zenon DEF ExecInv, Control, ProgressMove
  <2> QED
    BY <2>1, <2>2, <1>ProgressOthers, Zenon DEF Control
  \* progressExec() locks prog_mtx, calls _progress_nolock() and unlocks it again.
<1>ExecControl.
    ASSUME TypeOK, Control, NEW l \in ProgressPcs, ProgressMove(l),
           UNCHANGED <<submit_mtx, kind, seq_no, terminateFlag>>,
           \/ /\ pc[Progress] = "lock" /\ CanLock(prog_mtx, Progress) /\ l = "exec"
              /\ prog_mtx' = Locked(prog_mtx, Progress) /\ ppc' = ppc
           \/ /\ pc[Progress] = "exec" /\ l = "in_exec"
              /\ prog_mtx' = prog_mtx /\ ppc' = "recv"
           \/ /\ pc[Progress] = "exec" /\ l = "check"
              /\ prog_mtx' = Released(prog_mtx) /\ ppc' = ppc
    PROVE  Control'
  <2> USE <1>ExecControl
  <2> USE Basics DEF ProgressMove, Control, CanLock, Locked, Released, Unlocked, Mutexes
  <2>1. ProgInv'
    <3>1. MutexInv(prog_mtx)'
      BY DEF ProgInv, ExecInv, MutexInv
    <3>2. (\A t \in Threads : pc[t] \in InPcs =>
             prog_mtx.owner = t /\ ppc \notin {"none", "thrown"})'
      BY Zenon DEF ProgInv, ExecInv, InPcs
    <3>3. (ppc \notin {"none", "thrown"} =>
             prog_mtx.owner \in Threads /\ pc[prog_mtx.owner] \in InPcs)'
      BY Zenon DEF ProgInv, ExecInv, InPcs
    <3>4. (ppc = "thrown" =>
             prog_mtx.owner \in Threads /\ pc[prog_mtx.owner] = "thrown")'
      BY Zenon DEF ProgInv, ExecInv
    <3> QED
      BY <3>1, <3>2, <3>3, <3>4, Zenon DEF ProgInv
  <2>2. ExecInv'
    BY DEF ExecInv, ProgInv, MutexInv, InPcs
  <2> QED
    BY <2>1, <2>2, <1>ProgressOthers, Zenon DEF Control
  \* An application thread enters _progress_nolock() with prog_mtx locked.
<1>EnterControl.
    ASSUME TypeOK, Control, NEW t \in App, NEW l \in {"in_progress", "in_wait", "in_peek"},
           AppMove(t, l, arg[t]), ~terminateFlag, pc[t] \notin InPcs \cup {"thrown"},
           CanLock(prog_mtx, t), prog_mtx' = Locked(prog_mtx, t), ppc' = "recv",
           l = "in_progress" => pc[t] = "try",
           UNCHANGED <<submit_mtx, kind, seq_no, terminateFlag>>
    PROVE  Control'
  <2> USE <1>EnterControl
  <2> USE Basics DEF AppMove, Control, CanLock, Locked, Mutexes
  <2>1. PcInv'
    BY Zenon DEF PcInv, AppPcs, ProgressPcs
  <2>2. ProgInv'
    <3>1. MutexInv(prog_mtx)'
      BY DEF ProgInv, MutexInv
    <3>2. (\A u \in Threads : pc[u] \in InPcs =>
             prog_mtx.owner = u /\ ppc \notin {"none", "thrown"})'
      BY Zenon DEF ProgInv, InPcs
    <3>3. (ppc \notin {"none", "thrown"} =>
             prog_mtx.owner \in Threads /\ pc[prog_mtx.owner] \in InPcs)'
      BY Zenon DEF InPcs
    <3> QED
      BY <3>1, <3>2, <3>3, Zenon DEF ProgInv
  <2>3. ExecInv'
    BY Zenon DEF ExecInv
  <2>4. SubmitInv'
    BY DEF SubmitInv, MutexInv, isVH
  <2>5. ArgInv'
    BY Zenon DEF ArgInv, IdPcs, SubmitPcs
  <2>6. CloseInv'
    BY Zenon DEF CloseInv
  <2> QED
    BY <2>1, <2>2, <2>3, <2>4, <2>5, <2>6, Zenon DEF Control
  \* The thread inside _progress_nolock() goes on in it.
<1>InsideControl.
    ASSUME TypeOK, Control, ppc \notin {"none", "thrown"}, ppc' \notin {"none", "thrown"},
           UNCHANGED <<pc, arg, prog_mtx, submit_mtx, kind, seq_no, terminateFlag>>
    PROVE  Control'
  <2> USE <1>InsideControl
  <2> USE DEF Control
  <2>1. PcInv' /\ CloseInv'
    BY Zenon DEF PcInv, CloseInv
  <2>2. ProgInv' /\ ExecInv'
    BY Zenon DEF ProgInv, ExecInv, MutexInv, InPcs
  <2>3. SubmitInv' /\ ArgInv'
    BY Zenon DEF SubmitInv, ArgInv, MutexInv, isVH
  <2> QED
    BY <2>1, <2>2, <2>3, Zenon
  \* It returns, and an application thread unlocks prog_mtx.
<1>ReturnControl.
    ASSUME TypeOK, Control, ppc \notin {"none", "thrown"}, NEW rv \in Int, Return(rv),
           UNCHANGED <<submit_mtx, kind, seq_no, terminateFlag>>
    PROVE  /\ Control'
           /\ pc' \in [Threads -> Pcs] /\ arg' \in [App -> Ids \cup {INVALID}]
           /\ prog_mtx' \in Mutexes /\ ppc' = "none"
  <2> USE <1>ReturnControl
  <2> USE Basics, WhoIsInside
  <2>1. CASE prog_mtx.owner = Progress
    <3>1. ProgressMove("exec") /\ prog_mtx' = prog_mtx /\ ppc' = "none"
      BY <2>1, ProgressMoves, Zenon DEF Return, execVH, After, ProgressPcs
    <3>2. ProgInv'
      BY <2>1, <3>1, Zenon DEF ProgInv, InPcs, Control, ProgressMove, MutexInv
    <3>3. ExecInv'
      BY <2>1, <3>1, Zenon DEF ExecInv, Control, ProgressMove
    <3>4. PcInv' /\ SubmitInv' /\ ArgInv' /\ CloseInv'
      BY <2>1, <3>1, <1>ProgressOthers, Zenon DEF ProgressPcs
    <3> QED
      BY <3>1, <3>2, <3>3, <3>4, Zenon DEF Control, ProgressMove
  <2>2. CASE prog_mtx.owner # Progress
    <3> DEFINE t == prog_mtx.owner
               l == After(pc[t], rv)
    <3>1. /\ t \in App /\ pc[t] \in {"in_progress", "in_wait", "in_peek"}
          /\ l \in {"notify", "peek_result", "wait_notify", "wait_peek"}
          /\ l = "notify" => pc[t] = "in_progress"
      BY <2>2, Zenon DEF After
    <3>2. prog_mtx' = Released(prog_mtx) /\ ppc' = "none" /\ GoTo(t, l)
      BY <2>2, Zenon DEF Return, execVH
    <3>3. AppMove(t, l, arg[t])
      <4> HIDE DEF l
      <4> QED BY <3>1, <3>2, GoToMoves DEF AppPcs
    <3> HIDE DEF l
    <3>4. prog_mtx' \in Mutexes /\ prog_mtx'.owner \in {t, None} /\ MutexInv(prog_mtx)'
      BY <3>1, <3>2 DEF Released, Unlocked, Mutexes, MutexInv
    <3>5. PcInv'
      BY <3>1, <3>3, Zenon DEF PcInv, Control, AppMove, AppPcs, ProgressPcs
    <3>6. ProgInv'
      BY <3>1, <3>2, <3>3, <3>4, ZenonT(60) DEF ProgInv, Control, AppMove, InPcs
    <3>7. ExecInv'
      BY <2>2, <3>1, <3>2, <3>3, <3>4, Zenon DEF ExecInv, Control, AppMove
    <3>8. SubmitInv'
      BY <3>1, <3>3 DEF SubmitInv, MutexInv, isVH, Control, AppMove
    <3>9. ArgInv'
      BY <3>1, <3>3 DEF ArgInv, IdPcs, SubmitPcs, Control, AppMove
    <3>10. CloseInv'
      BY <2>2, <3>1, <3>3, ZenonT(60) DEF CloseInv, Control, AppMove
    <3> QED
      BY <3>2, <3>3, <3>4, <3>5, <3>6, <3>7, <3>8, <3>9, <3>10, Zenon DEF Control, AppMove
  <2> QED
    BY <2>1, <2>2, Zenon
  \* It throws: the C API returns to the application, or the process ends; in
  \* both cases prog_mtx stays locked.
<1>ThrowControl.
    ASSUME TypeOK, Control, ppc \notin {"none", "thrown"}, Throw,
           UNCHANGED <<prog_mtx, submit_mtx, kind, seq_no, terminateFlag>>
    PROVE  /\ Control'
           /\ pc' \in [Threads -> Pcs] /\ arg' \in [App -> Ids \cup {INVALID}]
           /\ ppc' \in {"none", "thrown"}
  <2> USE <1>ThrowControl
  <2> USE Basics, WhoIsInside
  <2>1. CASE prog_mtx.owner = Progress
    <3>1. ProgressMove("thrown") /\ ppc' = "thrown"
      BY <2>1, ProgressMoves, Zenon DEF Throw, Uncaught, ProgressPcs
    <3>2. ProgInv'
      BY <2>1, <3>1, Zenon DEF ProgInv, InPcs, Control, ProgressMove, MutexInv
    <3>3. ExecInv'
      BY <2>1, <3>1, Zenon DEF ExecInv, Control, ProgressMove
    <3>4. PcInv' /\ SubmitInv' /\ ArgInv' /\ CloseInv'
      BY <2>1, <3>1, <1>ProgressOthers, Zenon DEF ProgressPcs
    <3> QED
      BY <3>1, <3>2, <3>3, <3>4, Zenon DEF Control, ProgressMove
  <2>2. CASE prog_mtx.owner # Progress
    <3> DEFINE t == prog_mtx.owner
    <3>1. PICK l \in {"idle", "thrown"} :
            GoTo(t, l) /\ ppc' = IF l = "thrown" THEN "thrown" ELSE "none"
      BY <2>2, Zenon DEF Throw
    <3>2. PICK a \in {INVALID, arg[t]} : AppMove(t, l, a)
      BY <2>2, <3>1, GoToMoves DEF AppPcs
    <3>3. PcInv'
      BY <2>2, <3>2, Zenon DEF PcInv, Control, AppMove, AppPcs, ProgressPcs
    <3>4. ProgInv'
      BY <2>2, <3>1, <3>2, Zenon DEF ProgInv, MutexInv, Control, AppMove, InPcs
    <3>5. ExecInv'
      BY <2>2, <3>1, <3>2, Zenon DEF ExecInv, Control, AppMove
    <3>6. SubmitInv'
      BY <2>2, <3>2 DEF SubmitInv, MutexInv, isVH, Control, AppMove
    <3>7. ArgInv'
      BY <2>2, <3>2, ZenonT(60) DEF ArgInv, IdPcs, SubmitPcs, Control, AppMove
    <3>8. CloseInv'
      BY <2>2, <3>2, ZenonT(60) DEF CloseInv, Control, AppMove
    <3> QED
      BY <3>1, <3>2, <3>3, <3>4, <3>5, <3>6, <3>7, <3>8, Zenon DEF Control, AppMove
  <2> QED
    BY <2>1, <2>2, Zenon
  \* The command in the hand of _progress_nolock() stays there.
<1>HandFrame.
    ASSUME HandInv, UNCHANGED <<ppc, hand, rep>>
    PROVE  HandInv'
    BY <1>HandFrame, Zenon DEF HandInv
  \* A thread in a call is not closing the context, so nobody has terminated it.
<1>InCall.
    ASSUME TypeInv, NEW t \in App,
           pc[t] \notin {"idle", "join", "close", "closed"}
    PROVE  ~terminateFlag
    BY <1>InCall, Zenon DEF TypeInv, Control, CloseInv
  \* What lock() leaves behind is a mutex owned by the caller.
<1>LockedMutex.
    ASSUME NEW m \in Mutexes, NEW t \in Threads, None \notin Threads
    PROVE  /\ Locked(m, t) \in Mutexes /\ MutexInv(Locked(m, t))
           /\ Locked(m, t).owner = t
    BY <1>LockedMutex DEF Locked, Mutexes, MutexInv
  \* The length of a log is a number.
<1>LogLength.
    ASSUME TypeInv
    PROVE  Len(log) \in Nat /\ start \in Nat
  <2> USE <1>LogLength
  <2>1. log \in Seq(Ids) /\ start \in Nat
    BY Zenon DEF TypeInv, TypeOK
  <2> QED
    BY <2>1
  \* A submission pushes its command and goes on to progress() or notifyAll().
<1>TypePush.
    ASSUME TypeInv, NEW t \in App, Push(t)
    PROVE  TypeInv'
  <2> USE <1>TypePush
  <2> DEFINE l == IF isVH(arg[t]) THEN "notify" ELSE "progress"
  <2>1. /\ pc[t] = "push" /\ arg[t] \in Ids /\ arg[t] < seq_no /\ ~terminateFlag
    BY Basics, <1>InCall, Zenon DEF Push, TypeInv, Control, ArgInv, IdPcs, SubmitPcs
  <2>2. AppMove(t, l, arg[t])
    BY Basics, GoToMoves, Zenon DEF Push, TypeInv, AppPcs
  <2>3. request' \in Seq(Ids) /\ log' \in Seq(Ids)
    BY <2>1, SMTT(30) DEF Push, pushRequest, TypeInv, TypeOK, CommQueueType
  <2>4. /\ submit_mtx' \in Mutexes /\ MutexInv(submit_mtx)'
        /\ submit_mtx' = submit_mtx \/ submit_mtx'.owner = t
        /\ isVH(arg[t]) => submit_mtx'.owner = t
        /\ submit_mtx.owner \in {t, None}
    <3>1. /\ submit_mtx \in Mutexes /\ MutexInv(submit_mtx)
          /\ t \in Threads /\ None \notin Threads
      BY Basics, Zenon DEF TypeInv, Control, SubmitInv
    <3>2. /\ Locked(submit_mtx, t) \in Mutexes /\ MutexInv(Locked(submit_mtx, t))
          /\ Locked(submit_mtx, t).owner = t
      BY <3>1, <1>LockedMutex, Zenon
    <3>3. submit_mtx' = IF isVH(arg[t]) THEN Locked(submit_mtx, t) ELSE submit_mtx
      BY Zenon DEF Push, LockSubmit
    <3>4. submit_mtx.owner \in {t, None}
      BY Zenon DEF Push, CanLock
    <3> QED
      BY <3>1, <3>2, <3>3, <3>4, Zenon DEF MutexInv
  <2>5. start' \in Nat
    BY <1>LogLength, Zenon DEF Push, LockSubmit
  <2>6. /\ UNCHANGED <<inflight, completion, status, terminateFlag, state, seq_no, rem_reqid,
                       count, survival, kind, owner, prog_mtx, ppc, hand, chan, rep, child,
                       retired>>
    BY Zenon DEF Push, idleVars, cmdVars, progVars, veVars
  <2>7. TypeOK'
    BY <2>2, <2>3, <2>4, <2>5, <2>6, Zenon DEF AppMove, Pcs, TypeInv, TypeOK, CommQueueType
  <2>8. SubmitInv'
    BY Basics, <2>1, <2>2, <2>4, <2>6, SMTT(30) DEF AppMove, TypeInv, Control, SubmitInv, isVH
  <2>9. /\ l \in AppPcs /\ l \notin InPcs \cup {"join", "close"}
        /\ pc[t] \notin InPcs \cup {"thrown"} /\ arg[t] # INVALID
        /\ arg[t] < seq_no' /\ seq_no <= seq_no' /\ seq_no' \in Nat
    <3>1. l \in AppPcs /\ l \notin InPcs \cup {"join", "close"}
      BY Zenon DEF InPcs, AppPcs
    <3>2. pc[t] \notin InPcs \cup {"thrown"}
      BY <2>1, Zenon DEF InPcs
    <3>3. arg[t] # INVALID /\ seq_no \in Nat
      BY <2>1, <1>IdBasics, Zenon DEF TypeInv
    <3>4. seq_no' = seq_no
      BY <2>6, Zenon
    <3> HIDE DEF l
    <3> QED
      BY <2>1, <3>1, <3>2, <3>3, <3>4
  <2>10. Control'
    BY Basics, <2>1, <2>2, <2>6, <2>8, <2>9, <1>AppControl, Zenon DEF TypeInv
  <2> QED
    BY <2>6, <2>7, <2>10, <1>HandFrame, Zenon DEF TypeInv
  \* A step of a call that touches no queue but completion, and no lock.
<1>CallMove.
    ASSUME TypeInv, NEW t \in App, NEW l \in AppPcs, NEW a \in Ids \cup {INVALID},
           AppMove(t, l, a), ~terminateFlag, pc[t] \notin InPcs \cup {"thrown"},
           l \notin InPcs \cup {"join", "close"},
           l \in IdPcs => a # INVALID,
           a # INVALID => a < seq_no,
           l \in {"progress", "try", "notify"} => ~isVH(a),
           completion' \subseteq Ids, rem_reqid' \subseteq Ids, retired' \subseteq Ids,
           UNCHANGED <<request, inflight, status, terminateFlag, state, seq_no, submit_mtx,
                       idleVars, cmdVars, progVars, veVars, log, start>>
    PROVE  TypeInv'
  <2> USE <1>CallMove
  <2>1. SubmitInv'
    BY Basics, <1>SubmitControl, Zenon DEF TypeInv, cmdVars, InPcs
  <2>2. Control'
    BY Basics, <2>1, <1>AppControl DEF TypeInv, progVars
  <2>3. TypeOK'
    <3>1. UNCHANGED <<request, inflight, status, terminateFlag, state, seq_no, submit_mtx,
                      count, survival, kind, owner, prog_mtx, ppc, hand, chan, rep, child,
                      log, start>>
      BY Zenon DEF idleVars, cmdVars, progVars, veVars
    <3> QED
      BY <3>1, Zenon DEF AppMove, Pcs, TypeInv, TypeOK, CommQueueType
  <2> QED
    BY <2>2, <2>3, <1>HandFrame, Zenon DEF TypeInv, progVars, veVars
  \* A step of a call that changes nothing but where the thread is.
<1>CallGoesOn.
    ASSUME TypeInv, NEW t \in App, NEW l \in AppPcs, NEW a \in Ids \cup {INVALID},
           AppMove(t, l, a), ~terminateFlag, pc[t] \notin InPcs \cup {"thrown"},
           l \notin InPcs \cup {"join", "close"},
           l \in IdPcs => a # INVALID,
           a # INVALID => a < seq_no,
           l \in {"progress", "try", "notify"} => ~isVH(a),
           UNCHANGED <<comqVars, ctxVars, idleVars, cmdVars, progVars, veVars, histVars>>
    PROVE  TypeInv'
  <2> USE <1>CallGoesOn
  <2>1. completion' \subseteq Ids /\ rem_reqid' \subseteq Ids /\ retired' \subseteq Ids
    BY Zenon DEF TypeInv, TypeOK, CommQueueType, comqVars, ctxVars, histVars
  <2> QED
    BY <2>1, <1>CallMove, Zenon DEF comqVars, ctxVars, histVars
  \* progress() with commands in flight, or not.
<1>TypeCheckInFlight.
    ASSUME TypeInv, NEW t \in App, CheckInFlight(t)
    PROVE  TypeInv'
  <2> USE <1>TypeCheckInFlight
  <2> DEFINE l == IF emptyInFlight THEN "try" ELSE "notify"
  <2>1. pc[t] = "progress" /\ ~terminateFlag
    BY <1>InCall, Zenon DEF CheckInFlight
  <2>2. AppMove(t, l, arg[t])
    BY GoToMoves, Zenon DEF CheckInFlight, TypeInv, AppPcs
  <2>3. ~isVH(arg[t]) /\ arg[t] # INVALID
    BY <2>1, CallArg, Zenon DEF TypeInv, Control, SubmitInv, IdPcs, SubmitPcs
  <2> QED
    BY <2>1, <2>2, <2>3, CallArg, <1>CallGoesOn, Zenon DEF CheckInFlight, InPcs, AppPcs
  \* prog_mtx.try_lock() succeeds or fails.
<1>TypeTryLock.
    ASSUME TypeInv, NEW t \in App,
           NEW from \in {"try", "wait_try", "peek_try"},
           NEW in \in {"in_progress", "in_wait", "in_peek"},
           NEW otherwise \in {"notify", "wait_notify", "peek_result"},
           TryLock(t, from, in, otherwise),
           in = "in_progress" => from = "try", otherwise = "notify" => from = "try"
    PROVE  TypeInv'
  <2> USE <1>TypeTryLock
  <2>1. /\ pc[t] = from /\ ~terminateFlag
        /\ from = "try" => arg[t] # INVALID /\ ~isVH(arg[t])
    BY <1>InCall, CallArg, Zenon DEF TryLock, TypeInv, Control, SubmitInv, IdPcs, SubmitPcs
  <2>2. CASE CanLock(prog_mtx, t)
    <3>1. /\ prog_mtx' = Locked(prog_mtx, t) /\ ppc' = "recv" /\ GoTo(t, in)
          /\ ppc \notin {"complete", "submit"}
      <4>1. ppc \in {"none", "thrown"}
        BY Basics, <2>1, <2>2, Zenon DEF CanLock, TypeInv, Control, ProgInv, InPcs
      <4> QED
        BY <2>2, <4>1, Zenon DEF TryLock
    <3>2. AppMove(t, in, arg[t])
      BY <3>1, GoToMoves, Zenon DEF TypeInv, AppPcs
    <3>3. Control'
      BY <2>1, <2>2, <3>1, <3>2, <1>EnterControl, Zenon
      DEF TryLock, TypeInv, comqVars, ctxVars, cmdVars, InPcs
    <3>4. prog_mtx' \in Mutexes /\ ppc' \in Ppcs
      BY Basics, <3>1 DEF Locked, Mutexes, Ppcs, TypeInv
    <3>5. TypeOK'
      BY <3>2, <3>4, Zenon DEF TryLock, AppMove, Pcs, TypeInv, TypeOK, CommQueueType, comqVars,
         ctxVars, idleVars, cmdVars, veVars, histVars
    <3>6. HandInv'
      BY <3>1, Zenon DEF TryLock, TypeInv, HandInv
    <3> QED
      BY <3>3, <3>5, <3>6, Zenon DEF TypeInv
  <2>3. CASE ~CanLock(prog_mtx, t)
    <3>1. AppMove(t, otherwise, arg[t]) /\ otherwise \in AppPcs
      BY <2>3, GoToMoves, Zenon DEF TryLock, TypeInv, AppPcs
    <3>2. UNCHANGED <<comqVars, ctxVars, idleVars, cmdVars, progVars, veVars, histVars>>
      BY <2>3, Zenon DEF TryLock, progVars
    <3>3. otherwise \in IdPcs \cup {"progress", "try", "notify"} => from = "try"
      BY Zenon DEF IdPcs, SubmitPcs
    <3>4. otherwise \notin InPcs \cup {"join", "close"} /\ from \notin InPcs \cup {"thrown"}
      BY Zenon DEF InPcs
    <3> QED
      BY <2>1, <3>1, <3>2, <3>3, <3>4, CallArg, <1>CallGoesOn, Zenon
  <2> QED
    BY <2>2, <2>3, Zenon
  \* synchronize() of a dead context waits for VEO_REQUEST_ID_INVALID.
<1>TypeSyncDead.
    ASSUME TypeInv, NEW t \in App, SyncDead(t)
    PROVE  TypeInv'
  <2> USE <1>TypeSyncDead
  <2>1. AppMove(t, "wait_try", INVALID)
    BY StartMoves, Zenon DEF SyncDead, TypeInv, AppPcs
  <2> QED
    BY <2>1, <1>CallGoesOn, Zenon DEF SyncDead, Idle, InPcs, AppPcs, IdPcs, SubmitPcs
  \* callWaitResult() and callPeekResult() begin.
<1>TypeBegin.
    ASSUME TypeInv, NEW t \in App, NEW id \in Ids, NEW l \in {"wait_try", "peek_try"},
           Begin(t, id, l)
    PROVE  TypeInv'
  <2> USE <1>TypeBegin
  <2>1. AppMove(t, l, id)
    BY StartMoves, Zenon DEF Begin, TypeInv, AppPcs
  <2>2. l \in AppPcs /\ l \notin InPcs \cup {"join", "close"} /\ l \notin IdPcs
    BY Zenon DEF AppPcs, InPcs, IdPcs, SubmitPcs
  <2> QED
    BY <2>1, <2>2, <1>CallGoesOn, Zenon DEF Begin, Known, Idle, InPcs
  \* synchronize() has submitted its VH function.
<1>TypeSyncCheck.
    ASSUME TypeInv, NEW t \in App, SyncCheck(t)
    PROVE  TypeInv'
  <2> USE <1>TypeSyncCheck
  <2> DEFINE l == IF arg[t] # 0 THEN "wait_try" ELSE "idle"
  <2>1. pc[t] = "sync" /\ ~terminateFlag
    BY <1>InCall, Zenon DEF SyncCheck
  <2>2. PICK a \in {arg[t], INVALID} : AppMove(t, l, a)
    BY GoToMoves, Zenon DEF SyncCheck, TypeInv, AppPcs
  <2> QED
    BY <2>1, <2>2, CallArg, <1>CallGoesOn, Zenon DEF SyncCheck, InPcs, AppPcs, IdPcs, SubmitPcs
  \* callWaitResult() calls notifyAll() after its loop.
<1>TypeWaitNotify.
    ASSUME TypeInv, NEW t \in App, WaitNotify(t)
    PROVE  TypeInv'
  <2> USE <1>TypeWaitNotify
  <2>1. pc[t] = "wait_notify" /\ ~terminateFlag
    BY <1>InCall, Zenon DEF WaitNotify
  <2>2. AppMove(t, "wait_check", arg[t])
    BY NotifyMoves, Zenon DEF WaitNotify, TypeInv, AppPcs
  <2> QED
    BY <2>1, <2>2, CallArg, <1>CallGoesOn, Zenon DEF WaitNotify, InPcs, AppPcs, IdPcs, SubmitPcs
  \* It looks for its ID in rem_reqid.
<1>TypeWaitCheck.
    ASSUME TypeInv, NEW t \in App, WaitCheck(t)
    PROVE  TypeInv'
  <2> USE <1>TypeWaitCheck
  <2> DEFINE l == IF arg[t] \in rem_reqid THEN "wait_block" ELSE "idle"
  <2>1. pc[t] = "wait_check" /\ ~terminateFlag
    BY <1>InCall, Zenon DEF WaitCheck
  <2>2. PICK a \in {arg[t], INVALID} : AppMove(t, l, a)
    BY GoToMoves, Zenon DEF WaitCheck, TypeInv, AppPcs
  <2> QED
    BY <2>1, <2>2, CallArg, <1>CallGoesOn, Zenon DEF WaitCheck, InPcs, AppPcs, IdPcs, SubmitPcs
  \* It takes its command out of the completion map ...
<1>TypeWaitCompletion.
    ASSUME TypeInv, NEW t \in App, WaitCompletion(t)
    PROVE  TypeInv'
  <2> USE <1>TypeWaitCompletion
  <2>1. pc[t] = "wait_block" /\ ~terminateFlag /\ arg[t] \in Ids
    BY <1>InCall, Zenon DEF WaitCompletion, TypeInv, TypeOK, CommQueueType
  <2>2. AppMove(t, "wait_erase", arg[t])
    BY GoToMoves, Zenon DEF WaitCompletion, TypeInv, AppPcs
  <2>3. completion' \subseteq Ids /\ rem_reqid' \subseteq Ids /\ retired' \subseteq Ids
    BY Zenon DEF WaitCompletion, takeCompletion, TypeInv, TypeOK, CommQueueType, ctxVars, histVars
  <2>4. arg[t] # INVALID
    BY Basics, <2>1, Zenon DEF TypeInv
  <2> QED
    BY <2>1, <2>2, <2>3, <2>4, CallArg, <1>CallMove, Zenon
    DEF WaitCompletion, InPcs, AppPcs, ctxVars, histVars
  \* ... and returns its result.
<1>TypeWaitErase.
    ASSUME TypeInv, NEW t \in App, WaitErase(t)
    PROVE  TypeInv'
  <2> USE <1>TypeWaitErase
  <2>1. pc[t] = "wait_erase" /\ ~terminateFlag /\ arg[t] \in Ids
    BY <1>InCall, CallArg, Zenon DEF WaitErase, IdPcs
  <2>2. AppMove(t, "idle", INVALID)
    BY GoToMoves, Zenon DEF WaitErase, TypeInv, AppPcs
  <2>3. completion' \subseteq Ids /\ rem_reqid' \subseteq Ids /\ retired' \subseteq Ids
    BY <2>1, Zenon DEF WaitErase, TypeInv, TypeOK, CommQueueType, comqVars
  <2> QED
    BY <2>1, <2>2, <2>3, <1>CallMove, Zenon
    DEF WaitErase, InPcs, AppPcs, IdPcs, SubmitPcs, comqVars
  \* _peekResult() picks the command up, does not know its ID, or finds it unfinished.
<1>TypePeekResult.
    ASSUME TypeInv, NEW t \in App, NEW from \in {"wait_peek", "peek_result"},
           NEW unfinished \in {"wait_try", "idle"}, PeekResult(t, from, unfinished)
    PROVE  TypeInv'
  <2> USE <1>TypePeekResult
  <2>1. pc[t] = from /\ ~terminateFlag
    BY <1>InCall, Zenon DEF PeekResult
  <2>2. PICK l \in {"wait_try", "idle"} : GoTo(t, l)
    BY Zenon DEF PeekResult
  <2>3. PICK a \in {arg[t], INVALID} : AppMove(t, l, a)
    BY <2>2, GoToMoves, Zenon DEF TypeInv, AppPcs
  <2>4. completion' \subseteq Ids /\ rem_reqid' \subseteq Ids /\ retired' \subseteq Ids
    BY Zenon DEF PeekResult, takeCompletion, TypeInv, TypeOK, CommQueueType
  <2>5. l \in AppPcs /\ l \notin InPcs \cup {"join", "close"} /\ l \notin IdPcs
    BY <2>2, Zenon DEF AppPcs, InPcs, IdPcs, SubmitPcs
  <2> QED
    BY <2>1, <2>2, <2>3, <2>4, <2>5, CallArg, <1>CallMove, Zenon DEF PeekResult, InPcs
  \* A submission gets its ID.
<1>TypeIssue.
    ASSUME TypeInv, NEW t \in App, NEW k \in Kinds, Issue(t, k)
    PROVE  TypeInv'
  <2> USE <1>TypeIssue
  <2>1. /\ pc[t] = "idle" /\ ~terminateFlag /\ seq_no \in Ids
        /\ seq_no' = seq_no + 1 /\ seq_no' \in 0 .. NReq
    BY Basics DEF Issue, Idle, TypeInv, Ids
  <2>2. AppMove(t, "push", seq_no)
    BY <2>1, StartMoves, Zenon DEF Issue, TypeInv, AppPcs
  <2>3. /\ kind' \in [Ids -> Kinds] /\ owner' \in [Ids -> App \cup {None}]
        /\ rem_reqid' \subseteq Ids
    BY <2>1, Zenon DEF Issue, TypeInv, TypeOK
  <2>4. TypeOK'
    BY <2>1, <2>2, <2>3, Zenon DEF Issue, AppMove, Pcs, TypeInv, TypeOK, CommQueueType, comqVars,
       idleVars, progVars, veVars, histVars
  <2>5. SubmitInv'
    <3>1. \A u \in App : pc[u] \in SubmitPcs => kind'[arg[u]] = kind[arg[u]]
      BY Basics, <2>1, CallArg DEF Issue, IdPcs, TypeInv
    <3> QED
      <4>1. submit_mtx' = submit_mtx
        BY Zenon DEF Issue
      <4>2. \A u \in App : pc'[u] \in {"progress", "try", "in_progress", "notify"} =>
              /\ pc[u] = pc'[u] /\ arg'[u] = arg[u]
              /\ kind'[arg[u]] = kind[arg[u]]
        BY <2>2, <3>1, Zenon DEF AppMove, SubmitPcs
      <4> QED
        BY <4>1, <4>2, ZenonT(60) DEF SubmitInv, MutexInv, isVH, TypeInv, Control
  <2>6. Control'
    <3>1. UNCHANGED <<prog_mtx, ppc, terminateFlag>>
      BY Zenon DEF Issue, comqVars, progVars
    <3>2. /\ seq_no # INVALID /\ seq_no < seq_no' /\ seq_no <= seq_no' /\ seq_no' \in Nat
          /\ seq_no \in Ids \cup {INVALID}
          /\ "push" \in AppPcs /\ "push" \notin InPcs \cup {"join", "close"}
          /\ pc[t] \notin InPcs \cup {"thrown"}
      BY Basics, <2>1 DEF TypeInv, InPcs, AppPcs
    <3> QED
      BY <2>1, <2>2, <2>5, <3>1, <3>2, <1>AppControl, Zenon DEF TypeInv
  <2> QED
    BY <2>4, <2>6, <1>HandFrame, Zenon DEF TypeInv, Issue, progVars, veVars
  \* unlock() by the owner of a recursive mutex.
<1>ReleasedMutex.
    ASSUME NEW m \in Mutexes, m.depth # 0, None \notin Threads, m.owner # None
    PROVE  /\ Released(m) \in Mutexes /\ MutexInv(Released(m))
           /\ Released(m).owner \in {m.owner, None}
    BY <1>ReleasedMutex DEF Released, Unlocked, Mutexes, MutexInv
  \* A submission ends with notifyAll(); that of a VH function unlocks submit_mtx.
<1>TypeNotify.
    ASSUME TypeInv, NEW t \in App, Notify(t)
    PROVE  TypeInv'
  <2> USE <1>TypeNotify
  <2> DEFINE l == IF kind[arg[t]] = "SYNC" THEN "sync" ELSE "idle"
  <2>1. pc[t] = "notify" /\ ~terminateFlag /\ arg[t] # INVALID
    BY <1>InCall, CallArg, Zenon DEF Notify, IdPcs, SubmitPcs
  <2>2. PICK a \in {arg[t], INVALID} : AppMove(t, l, a) /\ (l = "sync" => a = arg[t])
    BY NotifyMoves, Zenon DEF Notify, TypeInv, AppPcs
  <2>3. /\ submit_mtx' \in Mutexes /\ start' \in Nat /\ MutexInv(submit_mtx)'
        /\ submit_mtx'.owner \in {submit_mtx.owner, None}
        /\ submit_mtx'.owner # submit_mtx.owner => submit_mtx.owner = t
    <3>1. CASE isVH(arg[t])
      <4>1. submit_mtx.owner = t /\ submit_mtx.depth \in Nat \ {0}
        BY Basics, <2>1, <3>1 DEF TypeInv, Control, SubmitInv, MutexInv, Mutexes
      <4>2. submit_mtx' = Released(submit_mtx) /\ start' \in Nat
        BY <3>1, SMTT(30) DEF Notify, UnlockSubmit, TypeInv, TypeOK
      <4> QED
        BY Basics, <4>1, <4>2, <1>ReleasedMutex, Zenon DEF TypeInv, MutexInv
    <3>2. CASE ~isVH(arg[t])
      BY <3>2, Zenon DEF Notify, TypeInv, TypeOK, Control, SubmitInv, MutexInv
    <3> QED
      BY <3>1, <3>2, Zenon
  <2>4. TypeOK'
    BY <2>2, <2>3, Zenon DEF Notify, AppMove, Pcs, TypeInv, TypeOK, CommQueueType, comqVars,
       idleVars, cmdVars, progVars, veVars
  <2>5. SubmitInv'
    <3>1. \A u \in App : pc'[u] \in {"progress", "try", "in_progress", "notify"} =>
            /\ u # t /\ pc[u] = pc'[u] /\ arg'[u] = arg[u]
      BY <2>2, Zenon DEF AppMove
    <3>2. kind' = kind
      BY Zenon DEF Notify, cmdVars
    <3>3. submit_mtx'.owner # Progress
      BY Basics, <2>3, Zenon DEF TypeInv, Control, SubmitInv
    <3> QED
      BY <2>3, <3>1, <3>2, <3>3, Zenon DEF SubmitInv, isVH, TypeInv, Control
  <2>6. Control'
    <3>1. /\ l \in AppPcs /\ l \notin InPcs \cup {"join", "close"}
          /\ pc[t] \notin InPcs \cup {"thrown"}
          /\ l \in IdPcs => l = "sync"
      BY <2>1, Zenon DEF InPcs, AppPcs, IdPcs, SubmitPcs
    <3>2. UNCHANGED <<prog_mtx, ppc, terminateFlag, seq_no>>
      BY Zenon DEF Notify, comqVars, progVars
    <3>3. /\ TypeOK /\ Control /\ seq_no \in Nat
          /\ arg[t] < seq_no /\ a \in Ids \cup {INVALID}
      BY <2>1, <1>IdBasics, CallArg, Zenon DEF TypeInv
    <3>4. seq_no <= seq_no' /\ seq_no' \in Nat /\ (a # INVALID => a < seq_no')
      BY <3>2, <3>3
    <3> HIDE DEF l
    <3> QED
      BY <2>1, <2>2, <2>5, <3>1, <3>2, <3>3, <3>4, <1>AppControl, Zenon
  <2> QED
    BY <2>4, <2>6, <1>HandFrame, Zenon DEF TypeInv, Notify, progVars, veVars
  \* A request block begins or ends: nothing but submit_mtx changes.
<1>TypeBlock.
    ASSUME TypeInv, NEW t \in App, BlockBegin(t) \/ BlockEnd(t)
    PROVE  TypeInv'
  <2> USE <1>TypeBlock
  <2>1. /\ submit_mtx' \in Mutexes /\ start' \in Nat /\ MutexInv(submit_mtx)'
        /\ submit_mtx'.owner \in {t, None}
        /\ submit_mtx.owner \in {t, None}
    <3>1. CASE BlockBegin(t)
      <4>1. submit_mtx' = Locked(submit_mtx, t) /\ submit_mtx.owner = None
        BY <3>1, Zenon DEF BlockBegin, LockSubmit
      <4>2. start' \in Nat
        BY <3>1, <1>LogLength, Zenon DEF BlockBegin, LockSubmit
      <4>3. submit_mtx \in Mutexes /\ t \in Threads /\ None \notin Threads
        BY Basics, Zenon DEF TypeInv
      <4>4. Locked(submit_mtx, t) \in Mutexes /\ MutexInv(Locked(submit_mtx, t))
            /\ Locked(submit_mtx, t).owner = t
        BY <4>3, <1>LockedMutex, Zenon
      <4> QED
        BY <4>1, <4>2, <4>4, Zenon DEF MutexInv
    <3>2. CASE BlockEnd(t)
      <4>1. submit_mtx.owner = t /\ submit_mtx.depth \in Nat \ {0}
        BY Basics, <3>2, Zenon DEF BlockEnd, TypeInv, Control, SubmitInv, MutexInv, Mutexes
      <4>2. submit_mtx' = Released(submit_mtx) /\ start' \in Nat
        BY <3>2, Zenon DEF BlockEnd, UnlockSubmit, TypeInv, TypeOK
      <4> QED
        BY Basics, <4>1, <4>2, <1>ReleasedMutex, Zenon DEF TypeInv, MutexInv
    <3> QED
      BY <3>1, <3>2, Zenon
  <2>2. /\ pc[t] = "idle"
        /\ UNCHANGED <<comqVars, state, seq_no, rem_reqid, idleVars, cmdVars, progVars,
                       pc, arg, veVars, log, retired>>
    BY Zenon DEF BlockBegin, BlockEnd, Idle
  <2>3. TypeOK'
    BY <2>1, <2>2, Zenon DEF TypeInv, TypeOK, CommQueueType, comqVars, idleVars, cmdVars, progVars,
       veVars
  <2>4. SubmitInv'
    BY Basics, <2>1, <2>2, Zenon DEF cmdVars, SubmitInv, isVH, TypeInv, Control
  <2>5. PcInv' /\ ArgInv' /\ CloseInv'
    BY <2>2, Zenon DEF comqVars, PcInv, ArgInv, CloseInv, TypeInv, Control
  <2>6. ProgInv' /\ ExecInv'
    BY <2>2, Zenon DEF progVars, ProgInv, MutexInv, ExecInv, TypeInv, Control
  <2> QED
    BY <2>2, <2>3, <2>4, <2>5, <2>6, <1>HandFrame, Zenon DEF TypeInv, Control, progVars, veVars
  \* A closing thread goes on: every application thread is idle or closed.
<1>CloseControl.
    ASSUME TypeOK, Control, NEW t \in App, NEW l \in {"join", "close", "closed"},
           NEW a \in {arg[t], INVALID}, AppMove(t, l, a), terminateFlag',
           \A u \in App : pc[u] \in {"idle", "join", "close", "closed"},
           l = "close" => pc[Progress] = "exited",
           UNCHANGED <<prog_mtx, ppc, submit_mtx, kind, seq_no>>
    PROVE  Control'
  <2> USE <1>CloseControl
  <2> USE Basics DEF AppMove
  <2>1. PcInv'
    BY Zenon DEF PcInv, Control, ProgressPcs, AppPcs
  <2>2. ProgInv'
    <3>1. /\ MutexInv(prog_mtx)'
          /\ \A u \in App : pc[u] \notin InPcs \cup {"thrown"} /\ pc'[u] \notin InPcs
      BY Zenon DEF ProgInv, MutexInv, Control, InPcs
    <3>2. /\ pc'[Progress] \in InPcs <=> pc[Progress] \in InPcs
          /\ pc'[Progress] = "thrown" <=> pc[Progress] = "thrown"
      BY Zenon DEF InPcs
    <3> QED
      BY <3>1, <3>2, SMTT(30) DEF ProgInv, Control
  <2>3. ExecInv'
    BY Zenon DEF ExecInv, Control
  <2>4. SubmitInv'
    BY Zenon DEF SubmitInv, MutexInv, isVH, Control
  <2>5. ArgInv'
    BY Zenon DEF ArgInv, IdPcs, SubmitPcs, Control
  <2>6. CloseInv'
    BY Zenon DEF CloseInv, Control
  <2> QED
    BY <2>1, <2>2, <2>3, <2>4, <2>5, <2>6, Zenon DEF Control
  \* close() terminates the queues and wakes the progress thread.
<1>TypeClose.
    ASSUME TypeInv, NEW t \in App, Close(t)
    PROVE  TypeInv'
  <2> USE <1>TypeClose
  <2>1. AppMove(t, "join", arg[t])
    BY Basics, Zenon DEF Close, AppMove, Pcs, AppPcs, ProgressPcs, TypeInv
  <2>2. Control'
    BY <2>1, <1>CloseControl, Zenon
    DEF Close, terminate, Idle, TypeInv, ctxVars, cmdVars, progVars
  <2>3. TypeOK'
    BY <2>1, Zenon DEF Close, terminate, AppMove, Pcs, TypeInv, TypeOK, CommQueueType, ctxVars,
       idleVars, cmdVars, progVars, veVars, histVars
  <2> QED
    BY <2>2, <2>3, <1>HandFrame, Zenon DEF TypeInv, Close, progVars, veVars
  \* pthread_join() returns.
<1>TypeJoin.
    ASSUME TypeInv, NEW t \in App, Join(t)
    PROVE  TypeInv'
  <2> USE <1>TypeJoin
  <2>1. AppMove(t, "close", arg[t])
    BY GoToMoves, Zenon DEF Join, AppPcs, TypeInv
  <2>2. Control'
    BY <2>1, <1>CloseControl, Zenon
    DEF Join, CloseInv, Control, TypeInv, comqVars, ctxVars, cmdVars, progVars
  <2>3. TypeOK'
    BY <2>1, Zenon DEF Join, AppMove, Pcs, TypeInv, TypeOK, CommQueueType, comqVars, ctxVars,
       idleVars, cmdVars, progVars, veVars, histVars
  <2> QED
    BY <2>2, <2>3, <1>HandFrame, Zenon DEF TypeInv, Join, progVars, veVars
  \* close() ends the VE process and destroys the rings: nobody is in
  \* _progress_nolock() any more.
<1>TypeCloseExit.
    ASSUME TypeInv, NEW t \in App, CloseExit(t)
    PROVE  TypeInv'
  <2> USE <1>TypeCloseExit
  <2>1. AppMove(t, "closed", arg[t])
    BY GoToMoves, Zenon DEF CloseExit, AppPcs, TypeInv
  <2>2. /\ pc[t] = "close" /\ terminateFlag /\ pc[Progress] = "exited"
        /\ \A u \in App : pc[u] \in {"idle", "join", "close", "closed"}
    BY Zenon DEF CloseExit, TypeInv, Control, CloseInv
  <2>3. ppc \in {"none", "thrown"}
    BY Basics, <2>2, Zenon DEF TypeInv, Control, ProgInv, InPcs
  <2>4. Control'
    BY <2>1, <2>2, <1>CloseControl, Zenon DEF CloseExit, TypeInv, comqVars, cmdVars, progVars
  <2>5. /\ state' \in {"RUNNING", "EXIT"} /\ child' \in {"alive", "exited", "killed"}
        /\ chan' \in Seq(Ids) /\ rep' \in Seq(Replies)
    <3>1. CASE is_alive
      <4>1. state' = "EXIT" /\ child' = "exited" /\ chan' = <<>> /\ rep' = <<>>
        BY <3>1, Zenon DEF CloseExit
      <4> QED
        BY <4>1
    <3>2. CASE ~is_alive
      BY <3>2, Zenon DEF CloseExit, TypeInv, TypeOK, veVars
    <3> QED
      BY <3>1, <3>2, Zenon
  <2>6. TypeOK'
    BY <2>1, <2>5, Zenon DEF CloseExit, AppMove, Pcs, TypeInv, TypeOK, CommQueueType, comqVars,
       idleVars, cmdVars, progVars, histVars
  <2>7. HandInv'
    BY <2>3, Zenon DEF CloseExit, TypeInv, HandInv, progVars
  <2> QED
    BY <2>4, <2>6, <2>7, Zenon DEF TypeInv
  \* The progress thread outside progressExec().
<1>TypeProgressOutside.
    ASSUME TypeInv, WaitRequest \/ Woken \/ SpuriousWakeup \/ ProgressCheck
    PROVE  TypeInv'
  <2> USE <1>TypeProgressOutside
  <2>1. /\ pc[Progress] \in {"wait_req", "asleep", "woken", "check"}
        /\ UNCHANGED <<comqVars, ctxVars, idleVars, cmdVars, progVars, veVars, histVars>>
    BY Zenon DEF WaitRequest, Woken, SpuriousWakeup, ProgressCheck
  <2>2. PICK l \in {"asleep", "exited", "lock", "woken", "wait_req"} : GoTo(Progress, l)
    BY Zenon DEF WaitRequest, Woken, SpuriousWakeup, ProgressCheck
  <2>3. ProgressMove(l) /\ l \in ProgressPcs /\ l \notin InPcs \cup {"exec", "thrown"}
    BY <2>2, ProgressMoves, Zenon DEF TypeInv, ProgressPcs, InPcs
  <2>4. Control'
    BY <2>1, <2>3, <1>ProgressControl, Zenon DEF TypeInv, comqVars, ctxVars, cmdVars, progVars
  <2>5. TypeOK'
    BY <2>1, <2>3, Zenon DEF ProgressMove, Pcs, TypeInv, TypeOK, CommQueueType, comqVars, ctxVars,
       idleVars, cmdVars, progVars, veVars, histVars
  <2> QED
    BY <2>1, <2>4, <2>5, <1>HandFrame, Zenon DEF TypeInv, progVars, veVars
  \* progressExec(): lock, call _progress_nolock() or unlock.
<1>TypeProgressExec.
    ASSUME TypeInv, ProgressLock \/ ProgressExec
    PROVE  TypeInv'
  <2> USE <1>TypeProgressExec
  <2>1. UNCHANGED <<comqVars, ctxVars, idleVars, cmdVars, hand, veVars, histVars>>
    BY Zenon DEF ProgressLock, ProgressExec
  <2>2. PICK l \in {"exec", "in_exec", "check"} :
          /\ GoTo(Progress, l)
          /\ \/ /\ pc[Progress] = "lock" /\ CanLock(prog_mtx, Progress) /\ l = "exec"
                /\ prog_mtx' = Locked(prog_mtx, Progress) /\ ppc' = ppc
             \/ /\ pc[Progress] = "exec" /\ l = "in_exec"
                /\ prog_mtx' = prog_mtx /\ ppc' = "recv"
             \/ /\ pc[Progress] = "exec" /\ l = "check"
                /\ prog_mtx' = Released(prog_mtx) /\ ppc' = ppc
    BY Zenon DEF ProgressLock, ProgressExec
  <2>3. ProgressMove(l) /\ l \in ProgressPcs
    BY <2>2, ProgressMoves, Zenon DEF TypeInv, ProgressPcs
  <2>4. Control'
    BY <2>1, <2>2, <2>3, <1>ExecControl, Zenon DEF TypeInv, comqVars, ctxVars, cmdVars
  <2>5. pc[Progress] = "exec" => prog_mtx.owner = Progress /\ prog_mtx.depth = 1 /\ ppc = "none"
    BY Zenon DEF TypeInv, Control, ExecInv
  <2>6. prog_mtx' \in Mutexes /\ ppc' \in Ppcs
    BY Basics, <2>2, <2>5 DEF TypeInv, Locked, Released, Unlocked, Mutexes, Ppcs
  <2>7. TypeOK'
    BY <2>1, <2>3, <2>6, Zenon DEF ProgressMove, Pcs, TypeInv, TypeOK, CommQueueType, comqVars,
       ctxVars, idleVars, cmdVars, veVars, histVars
  <2>8. HandInv'
    BY <2>1, <2>2, <2>5, Zenon DEF TypeInv, HandInv, veVars
  <2> QED
    BY <2>4, <2>7, <2>8, Zenon DEF TypeInv
  \* The VE replies, raises an exception or is killed.
<1>TypeVE.
    ASSUME TypeInv, VEReply \/ VEException \/ VEKilled
    PROVE  TypeInv'
  <2> USE <1>TypeVE
  <2>1. UNCHANGED <<comqVars, ctxVars, idleVars, cmdVars, progVars, pc, arg, histVars>>
    BY Zenon DEF VEReply, VEException, VEKilled
  <2>2. Control'
    BY <2>1, Zenon DEF TypeInv, Control, PcInv, ProgInv, MutexInv, ExecInv, SubmitInv, isVH, ArgInv,
       CloseInv, comqVars, ctxVars, cmdVars, progVars
  <2>3. /\ chan' \in Seq(Ids) /\ rep' \in Seq(Replies)
        /\ child' \in {"alive", "exited", "killed"}
        /\ rep # <<>> => rep' # <<>> /\ Head(rep') = Head(rep)
    <3>1. chan \in Seq(Ids) /\ rep \in Seq(Replies) /\ child \in {"alive", "exited", "killed"}
      BY Zenon DEF TypeInv, TypeOK
    <3>2. CASE VEKilled
      BY <3>1, <3>2, Zenon DEF VEKilled
    <3>3. CASE VEReply \/ VEException
      <4>1. Head(chan) \in Ids /\ Tail(chan) \in Seq(Ids)
        BY <3>1, <3>3, FirstAndRest, Zenon DEF VEReply, VEException
      <4>2. PICK r \in Replies : rep' = Append(rep, r)
        <5>1. PICK e \in BOOLEAN : rep' = Append(rep, [id |-> Head(chan), exc |-> e])
          BY <3>3, Zenon DEF VEReply, VEException
        <5> QED
          BY <4>1, <5>1, Zenon DEF Replies
      <4>3. chan' \in Seq(Ids) /\ child' \in {"alive", "exited", "killed"}
        BY <3>1, <3>3, <4>1, Zenon DEF VEReply, VEException
      <4> QED
        BY <3>1, <4>2, <4>3
    <3> QED
      BY <3>2, <3>3, Zenon
  <2>4. TypeOK'
    BY <2>1, <2>3, Zenon DEF TypeInv, TypeOK, CommQueueType, comqVars, ctxVars, idleVars, cmdVars,
       progVars, histVars
  <2>5. HandInv'
    BY <2>1, <2>3, Zenon DEF TypeInv, HandInv, progVars
  <2> QED
    BY <2>2, <2>4, <2>5, Zenon DEF TypeInv
  \* _progress_nolock() takes the command of a reply, or throws.
<1>TypeRecv.
    ASSUME TypeInv, Recv
    PROVE  TypeInv'
  <2> USE <1>TypeRecv
  <2>1. /\ ppc = "recv" /\ hand = INVALID
        /\ rep \in Seq(Replies) /\ inflight \subseteq Ids
        /\ UNCHANGED <<request, completion, status, terminateFlag, ctxVars, idleVars, cmdVars,
                       prog_mtx, chan, child, histVars>>
    BY Zenon DEF Recv, TypeInv, HandInv, TypeOK, CommQueueType
  <2>2. /\ Control'
        /\ pc' \in [Threads -> Pcs] /\ arg' \in [App -> Ids \cup {INVALID}] /\ ppc' \in Ppcs
        /\ ppc' # "complete" => hand' = INVALID
        /\ ppc' = "complete" => rep' = rep /\ rep # <<>> /\ hand' = Head(rep).id
        /\ ppc' # "submit"
    <3>1. CASE Throw /\ hand' = hand
      BY <2>1, <3>1, <1>ThrowControl, Zenon DEF TypeInv, ctxVars, cmdVars, Ppcs
    <3>2. CASE ppc' \in {"send", "complete"} /\ UNCHANGED <<pc, arg>>
      <4>1. Control'
        BY <2>1, <3>2, <1>InsideControl, Zenon DEF TypeInv, ctxVars, cmdVars
      <4>2. ppc' = "complete" => rep' = rep /\ rep # <<>> /\ hand' = Head(rep).id
        BY <2>1, <3>2, Zenon DEF Recv, Throw
      <4>3. ppc' # "complete" => hand' = INVALID
        BY <2>1, <3>2, Zenon DEF Recv
      <4> QED
        BY Basics, <3>2, <4>1, <4>2, <4>3, Zenon DEF TypeInv, Ppcs
    <3> QED
      BY <2>1, <3>1, <3>2, Zenon DEF Recv
  <2>3. inflight' \subseteq Ids /\ rep' \in Seq(Replies)
    <3>1. inflight' \subseteq inflight
      BY Zenon DEF Recv, popInFlight
    <3>2. rep' = rep \/ (rep # <<>> /\ rep' = Tail(rep))
      BY Zenon DEF Recv
    <3> QED
      BY <2>1, <3>1, <3>2, FirstAndRest, Zenon
  <2>4. hand' \in Ids \cup {INVALID} /\ (ppc' = "complete" => hand' \in Ids)
    <3>1. rep # <<>> => Head(rep) \in Replies
      BY <2>1, FirstAndRest, Zenon
    <3> QED
      BY <2>2, <3>1, Zenon DEF Replies
  <2>5. TypeOK'
    <3>1. UNCHANGED <<request, completion, status, terminateFlag, state, seq_no, rem_reqid,
                      submit_mtx, count, survival, kind, owner, prog_mtx, chan, child, log,
                      start, retired>>
      BY <2>1, Zenon DEF ctxVars, idleVars, cmdVars, histVars
    <3> QED
      BY <2>2, <2>3, <2>4, <3>1, Zenon DEF TypeInv, TypeOK, CommQueueType, Pcs
  <2>6. HandInv'
    BY <2>2, <2>4, Zenon DEF HandInv
  <2> QED
    BY <2>2, <2>5, <2>6, Zenon DEF TypeInv
  \* It stores the result of that command.
<1>TypeComplete.
    ASSUME TypeInv, Complete
    PROVE  TypeInv'
  <2> USE <1>TypeComplete
  <2>1. ppc = "complete" /\ hand \in Ids /\ rep # <<>> /\ rep \in Seq(Replies)
    BY Zenon DEF Complete, TypeInv, HandInv, TypeOK
  <2>2. ppc' \in {"cancel_req", "recv"} /\ hand' = INVALID
    BY Zenon DEF Complete
  <2>3. Control'
    BY <2>1, <2>2, <1>InsideControl, Zenon DEF Complete, TypeInv, cmdVars
  <2>4. /\ status' \in [Ids -> Statuses]
        /\ completion' \subseteq Ids /\ retired' \subseteq Ids
        /\ state' \in {"RUNNING", "EXIT"}
    <3>1. /\ status \in [Ids -> Statuses] /\ completion \subseteq Ids /\ retired \subseteq Ids
          /\ state \in {"RUNNING", "EXIT"}
      BY Zenon DEF TypeInv, TypeOK, CommQueueType
    <3>2. resultStatus(Head(rep)) \in Statuses
      BY Zenon DEF resultStatus, Statuses
    <3>3. status' \in [Ids -> Statuses]
      BY <3>1, <3>2, Zenon DEF Complete, setResult
    <3>4. completion' \subseteq Ids /\ retired' \subseteq Ids
      BY <2>1, <3>1, Zenon DEF Complete, pushCompletion
    <3>5. state' \in {"RUNNING", "EXIT"}
      BY <3>1, Zenon DEF Complete
    <3> QED
      BY <3>3, <3>4, <3>5, Zenon
  <2>5. rep' \in Seq(Replies)
    BY <2>1, FirstAndRest, Zenon DEF Complete
  <2>6. TypeOK'
    <3>1. UNCHANGED <<request, inflight, terminateFlag, seq_no, rem_reqid, submit_mtx, count,
                      survival, kind, owner, prog_mtx, pc, arg, chan, child, log, start>>
      BY Zenon DEF Complete, idleVars, cmdVars
    <3> QED
      BY <2>2, <2>4, <2>5, <3>1, Zenon DEF TypeInv, TypeOK, CommQueueType, Ppcs
  <2>7. HandInv'
    BY <2>2, Zenon DEF HandInv
  <2> QED
    BY <2>3, <2>6, <2>7, Zenon DEF TypeInv
  \* cancelAll() drains the request queue ...
<1>TypeCancelRequests.
    ASSUME TypeInv, CancelRequests
    PROVE  TypeInv'
  <2> USE <1>TypeCancelRequests
  <2>1. ppc = "cancel_req" /\ ppc' = "cancel_fli" /\ hand' = hand
    BY Zenon DEF CancelRequests
  <2>2. Control'
    BY <2>1, <1>InsideControl, Zenon DEF CancelRequests, TypeInv, ctxVars, cmdVars
  <2>3. request' \in Seq(Ids) /\ status' \in [Ids -> Statuses] /\ completion' \subseteq Ids
    <3>1. request \in Seq(Ids) /\ status \in [Ids -> Statuses] /\ completion \subseteq Ids
      BY Zenon DEF TypeInv, TypeOK, CommQueueType
    <3>2. Elems(request) \subseteq Ids
      BY <3>1, ElemsType, Zenon
    <3>3. request' = <<>> /\ completion' \subseteq Ids
      BY <3>1, <3>2, Zenon DEF CancelRequests, cancelRequests
    <3>4. status' \in [Ids -> Statuses]
      BY <3>1, Zenon DEF CancelRequests, cancelRequests, Statuses
    <3> QED
      BY <3>3, <3>4
  <2>4. TypeOK'
    BY <2>1, <2>3, Zenon DEF CancelRequests, TypeInv, TypeOK, CommQueueType, Ppcs, ctxVars,
       idleVars,
       cmdVars, veVars, histVars
  <2>5. HandInv'
    BY <2>1, Zenon DEF TypeInv, HandInv
  <2> QED
    BY <2>2, <2>4, <2>5, Zenon DEF TypeInv
  \* ... and the in-flight map, and _progress_nolock() returns.
<1>TypeCancelInFlight.
    ASSUME TypeInv, CancelInFlight
    PROVE  TypeInv'
  <2> USE <1>TypeCancelInFlight
  <2>1. ppc = "cancel_fli" /\ Return(-1) /\ hand' = hand
    BY Zenon DEF CancelInFlight
  <2>2. /\ Control' /\ pc' \in [Threads -> Pcs] /\ arg' \in [App -> Ids \cup {INVALID}]
        /\ prog_mtx' \in Mutexes /\ ppc' = "none"
    BY <2>1, <1>ReturnControl DEF CancelInFlight, TypeInv, ctxVars, cmdVars
  <2>3. /\ status' \in [Ids -> Statuses]
        /\ completion' \subseteq Ids /\ inflight' \subseteq Ids
    BY Zenon DEF CancelInFlight, cancelInFlight, Statuses, TypeInv, TypeOK, CommQueueType
  <2>4. TypeOK'
    BY <2>1, <2>2, <2>3, Zenon DEF CancelInFlight, TypeInv, TypeOK, CommQueueType, Pcs, Ppcs,
       ctxVars,
       idleVars, cmdVars, veVars, histVars
  <2>5. HandInv'
    BY <2>1, <2>2, Zenon DEF TypeInv, HandInv
  <2> QED
    BY <2>2, <2>4, <2>5, Zenon DEF TypeInv
  \* It takes the oldest request, finds none, or has no slot and returns.
<1>TypePopRequest.
    ASSUME TypeInv, PopRequest
    PROVE  TypeInv'
  <2> USE <1>TypePopRequest
  <2>1. /\ ppc = "send" /\ hand = INVALID /\ request \in Seq(Ids)
        /\ UNCHANGED <<inflight, completion, status, terminateFlag, ctxVars, idleVars, cmdVars,
                       veVars, histVars>>
    BY Zenon DEF PopRequest, TypeInv, HandInv, TypeOK, CommQueueType
  <2>2. /\ Control' /\ pc' \in [Threads -> Pcs] /\ arg' \in [App -> Ids \cup {INVALID}]
        /\ prog_mtx' \in Mutexes /\ ppc' \in {"none", "idle", "submit"}
        /\ hand' \in Ids \cup {INVALID} /\ (ppc' = "submit" <=> hand' # INVALID)
        /\ request' \in Seq(Ids)
    <3>1. CASE Return(0) /\ UNCHANGED <<request, hand>>
      BY <2>1, <3>1, <1>ReturnControl DEF TypeInv, ctxVars, cmdVars
    <3>2. CASE ppc' = "idle" /\ UNCHANGED <<request, hand, prog_mtx, pc, arg>>
      BY Basics, <2>1, <3>2, <1>InsideControl, Zenon DEF TypeInv, ctxVars, cmdVars
    <3>3. CASE /\ request # <<>> /\ hand' = Head(request) /\ request' = Tail(request)
               /\ ppc' = "submit" /\ UNCHANGED <<prog_mtx, pc, arg>>
      <4>1. Control'
        BY <2>1, <3>3, <1>InsideControl, Zenon DEF TypeInv, ctxVars, cmdVars
      <4>2. hand' \in Ids /\ request' \in Seq(Ids)
        BY <2>1, <3>3, FirstAndRest, Zenon
      <4> QED
        BY Basics, <3>3, <4>1, <4>2, Zenon DEF TypeInv
    <3> QED
      BY <3>1, <3>2, <3>3, Zenon DEF PopRequest, tryPopRequest
  <2>3. TypeOK'
    BY <2>1, <2>2, Zenon DEF TypeInv, TypeOK, CommQueueType, Pcs, Ppcs, ctxVars, idleVars, cmdVars,
       veVars, histVars
  <2>4. HandInv'
    BY <2>2, Zenon DEF HandInv
  <2> QED
    BY <2>2, <2>3, <2>4, Zenon DEF TypeInv
  \* A VH command is executed, or goes back and _progress_nolock() returns.
<1>TypeSubmitVH.
    ASSUME TypeInv, SubmitVH
    PROVE  TypeInv'
  <2> USE <1>TypeSubmitVH
  <2>1. /\ ppc = "submit" /\ hand \in Ids /\ hand' = INVALID
        /\ UNCHANGED <<inflight, terminateFlag, ctxVars, idleVars, cmdVars, veVars, histVars>>
    BY Zenon DEF SubmitVH, TypeInv, HandInv
  <2>2. /\ Control' /\ pc' \in [Threads -> Pcs] /\ arg' \in [App -> Ids \cup {INVALID}]
        /\ prog_mtx' \in Mutexes /\ ppc' \in {"none", "recv"}
    <3>1. CASE ppc' = "recv" /\ UNCHANGED <<prog_mtx, pc, arg>>
      BY Basics, <2>1, <3>1, <1>InsideControl, Zenon DEF TypeInv, ctxVars, cmdVars
    <3>2. CASE Return(1)
      BY <2>1, <3>2, <1>ReturnControl DEF TypeInv, ctxVars, cmdVars
    <3> QED
      BY <3>1, <3>2, Zenon DEF SubmitVH
  <2>3. request' \in Seq(Ids) /\ status' \in [Ids -> Statuses] /\ completion' \subseteq Ids
    <3>1. request \in Seq(Ids) /\ status \in [Ids -> Statuses] /\ completion \subseteq Ids
      BY Zenon DEF TypeInv, TypeOK, CommQueueType
    <3>2. <<hand>> \o request \in Seq(Ids)
      BY <2>1, <3>1
    <3> QED
      BY <2>1, <3>1, <3>2, Zenon DEF SubmitVH, setResult, pushCompletion, pushRequestFront, Statuses
  <2>4. TypeOK'
    BY <2>1, <2>2, <2>3, Zenon DEF TypeInv, TypeOK, CommQueueType, Pcs, Ppcs, ctxVars, idleVars,
       cmdVars, veVars, histVars
  <2>5. HandInv'
    BY <2>1, <2>2, Zenon DEF HandInv
  <2> QED
    BY <2>2, <2>4, <2>5, Zenon DEF TypeInv
  \* A VE command is sent, goes back, or fails.
<1>TypeSubmitVE.
    ASSUME TypeInv, SubmitVE
    PROVE  TypeInv'
  <2> USE <1>TypeSubmitVE
  <2>1. /\ ppc = "submit" /\ hand \in Ids /\ hand' = INVALID /\ ppc' \in {"recv", "idle"}
        /\ UNCHANGED <<terminateFlag, ctxVars, idleVars, cmdVars, prog_mtx, pc, arg, rep,
                       child, histVars>>
    BY Zenon DEF SubmitVE, TypeInv, HandInv
  <2>2. Control'
    BY <2>1, <1>InsideControl, Zenon DEF TypeInv, ctxVars, cmdVars
  <2>3. /\ request' \in Seq(Ids) /\ status' \in [Ids -> Statuses]
        /\ completion' \subseteq Ids /\ inflight' \subseteq Ids /\ chan' \in Seq(Ids)
    <3>1. /\ request \in Seq(Ids) /\ status \in [Ids -> Statuses]
          /\ completion \subseteq Ids /\ inflight \subseteq Ids /\ chan \in Seq(Ids)
      BY Zenon DEF TypeInv, TypeOK, CommQueueType
    <3>2. <<hand>> \o request \in Seq(Ids) /\ Append(chan, hand) \in Seq(Ids)
      BY <2>1, <3>1
    <3> QED
      BY <2>1, <3>1, <3>2, Zenon
      DEF SubmitVE, setResult, pushCompletion, pushRequestFront, pushInFlight, Statuses
  <2>4. TypeOK'
    BY <2>1, <2>3, Zenon DEF TypeInv, TypeOK, CommQueueType, Ppcs, ctxVars, idleVars, cmdVars,
       histVars
  <2>5. HandInv'
    BY <2>1, Zenon DEF HandInv
  <2> QED
    BY <2>2, <2>4, <2>5, Zenon DEF TypeInv
  \* Nothing to do: check the VE process or return.
<1>TypeIdleRound.
    ASSUME TypeInv, IdleRound
    PROVE  TypeInv'
  <2> USE <1>TypeIdleRound
  <2>1. /\ ppc = "idle" /\ hand = INVALID /\ hand' = hand
        /\ UNCHANGED <<comqVars, seq_no, rem_reqid, submit_mtx, cmdVars, veVars, histVars>>
    BY Zenon DEF IdleRound, TypeInv, HandInv
  <2>2. /\ Control' /\ pc' \in [Threads -> Pcs] /\ arg' \in [App -> Ids \cup {INVALID}]
        /\ prog_mtx' \in Mutexes /\ ppc' \in {"none", "cancel_req"}
    <3>1. CASE ppc' = "cancel_req" /\ UNCHANGED <<prog_mtx, pc, arg>>
      BY Basics, <2>1, <3>1, <1>InsideControl, Zenon DEF TypeInv, comqVars, cmdVars
    <3>2. CASE Return(0)
      BY <2>1, <3>2, <1>ReturnControl DEF TypeInv, comqVars, cmdVars
    <3> QED
      BY <3>1, <3>2, Zenon DEF IdleRound
  <2>3. /\ count' \in 0 .. (Period - 1) /\ survival' \in BOOLEAN
        /\ state' \in {"RUNNING", "EXIT"}
    <3>1. /\ count \in 0 .. (Period - 1) /\ survival \in BOOLEAN
          /\ state \in {"RUNNING", "EXIT"} /\ Period \in Nat \ {0}
      BY ContextAssumption, Zenon DEF TypeInv, TypeOK
    <3>2. (count + 1) % Period \in 0 .. (Period - 1)
      BY <3>1
    <3> QED
      BY <3>1, <3>2, Zenon DEF IdleRound
  <2>4. TypeOK'
    BY <2>1, <2>2, <2>3, Zenon DEF TypeInv, TypeOK, CommQueueType, Pcs, Ppcs, comqVars, cmdVars,
       veVars, histVars
  <2>5. HandInv'
    BY <2>1, <2>2, Zenon DEF HandInv
  <2> QED
    BY <2>2, <2>4, <2>5, Zenon DEF TypeInv
<1>1. ASSUME NEW t \in App, CallStep(t)
      PROVE  TypeInv'
  BY <1>1, <1>TypePush, <1>TypeCheckInFlight, <1>TypeTryLock, <1>TypeNotify, <1>TypeSyncCheck, Zenon,
     <1>TypePeekResult, <1>TypeWaitNotify, <1>TypeWaitCheck, <1>TypeWaitCompletion, <1>TypeWaitErase,
     <1>TypeJoin, <1>TypeCloseExit
  DEF CallStep
<1>2. ASSUME NEW t \in App, MakeCall(t)
      PROVE  TypeInv'
  BY <1>2, <1>TypeIssue, <1>TypeSyncDead, <1>TypeBegin, <1>TypeBlock, <1>TypeClose, Zenon DEF MakeCall
<1>3. ASSUME _progress_nolock
      PROVE  TypeInv'
  BY <1>3, <1>TypeRecv, <1>TypeComplete, <1>TypeCancelRequests, <1>TypeCancelInFlight, Zenon,
     <1>TypePopRequest,
     <1>TypeSubmitVH, <1>TypeSubmitVE, <1>TypeIdleRound
  DEF _progress_nolock
<1>4. ASSUME ProgressThread \/ SpuriousWakeup
      PROVE  TypeInv'
  BY <1>4, <1>TypeProgressOutside, <1>TypeProgressExec, Zenon DEF ProgressThread
<1>5. ASSUME UNCHANGED vars
      PROVE  TypeInv'
  <2>1. Control'
    BY <1>5, Zenon DEF vars, TypeInv, Control, PcInv, ProgInv, MutexInv, ExecInv, SubmitInv, isVH,
       ArgInv, CloseInv, comqVars, ctxVars, cmdVars, progVars
  <2>2. TypeOK'
    BY <1>5, Zenon DEF vars, TypeInv, TypeOK, CommQueueType, comqVars, ctxVars, idleVars, cmdVars,
       progVars, veVars, histVars
  <2> QED
    BY <1>5, <2>1, <2>2, <1>HandFrame, Zenon DEF vars, TypeInv, progVars, veVars
<1> QED
  BY <1>1, <1>2, <1>3, <1>4, <1>5, <1>TypeVE, Zenon DEF Next

\* A new context is in its type invariant.
LEMMA TypeInit ==
  ASSUME Init
  PROVE  TypeInv
<1>1. request \in Seq(Ids) /\ chan \in Seq(Ids) /\ rep \in Seq(Replies) /\ log \in Seq(Ids)
  BY DEF Init, CommQueueInit
<1>2. status \in [Ids -> Statuses] /\ kind \in [Ids -> Kinds]
  BY Zenon DEF Init, CommQueueInit, Statuses, Kinds
<1>3. owner \in [Ids -> App \cup {None}] /\ arg \in [App -> Ids \cup {INVALID}]
  BY Zenon DEF Init
<1>4. pc \in [Threads -> AppPcs \cup ProgressPcs]
  BY Zenon DEF Init, AppPcs, ProgressPcs
<1>5. submit_mtx \in Mutexes /\ prog_mtx \in Mutexes
  BY Zenon DEF Init, Unlocked, Mutexes
<1>6. seq_no \in 0 .. NReq /\ count \in 0 .. (Period - 1) /\ start \in Nat
  BY NReqAssumption, ContextAssumption DEF Init
<1>7. TypeOK
  BY <1>1, <1>2, <1>3, <1>4, <1>5, <1>6, Zenon DEF Init, CommQueueInit, TypeOK, CommQueueType, Ppcs
<1>8. /\ \A t \in App : pc[t] = "idle" /\ arg[t] = INVALID
      /\ pc[Progress] = "wait_req" /\ ppc = "none"
      /\ prog_mtx = Unlocked /\ submit_mtx = Unlocked /\ ~terminateFlag
  BY ContextAssumption, Zenon DEF Init, CommQueueInit, Threads
<1>9. PcInv /\ ArgInv /\ CloseInv
  BY <1>8, Zenon DEF PcInv, ArgInv, CloseInv, AppPcs, ProgressPcs, IdPcs, SubmitPcs
<1>10. ProgInv /\ ExecInv
  BY Basics, <1>7, <1>8, Zenon DEF ProgInv, ExecInv, MutexInv, Unlocked, InPcs, Threads
<1>11. SubmitInv
  BY Basics, <1>7, <1>8, Zenon DEF SubmitInv, MutexInv, Unlocked, Threads
<1>12. HandInv
  BY <1>8, Zenon DEF Init, HandInv
<1> QED
  BY <1>7, <1>9, <1>10, <1>11, <1>12, Zenon DEF TypeInv, Control

\* The variables of a context keep their types, whatever the number of threads,
\* requests and ring slots and under every fault: in particular neither recursive
\* mutex is ever unlocked by a thread that does not hold it.
THEOREM TypeCorrect == Spec => []TypeOK
<1>1. Init => TypeInv
  BY TypeInit, Zenon
<1>2. TypeInv /\ [Next]_vars => TypeInv'
  BY TypeNext, Zenon
<1>3. TypeInv => TypeOK
  BY Zenon DEF TypeInv
<1> QED
  BY <1>1, <1>2, <1>3, PTL DEF Spec

\* push_back(), push_front() and pop_front() on a deque without duplicates.
LEMMA AppendElems ==
  ASSUME NEW S, NEW s \in Seq(S), NEW e \in S
  PROVE  /\ Elems(Append(s, e)) = Elems(s) \cup {e}
         /\ Distinct(s) /\ e \notin Elems(s) => Distinct(Append(s, e))
<1>1. /\ DOMAIN Append(s, e) = 1 .. (Len(s) + 1) /\ DOMAIN s = 1 .. Len(s)
      /\ \A i \in 1 .. Len(s) : Append(s, e)[i] = s[i]
      /\ Append(s, e)[Len(s) + 1] = e /\ Len(s) \in Nat
  OBVIOUS
<1>2. Elems(Append(s, e)) = Elems(s) \cup {e}
  BY <1>1 DEF Elems
<1>3. Distinct(s) /\ e \notin Elems(s) => Distinct(Append(s, e))
  <2> SUFFICES ASSUME Distinct(s), e \notin Elems(s), NEW m \in DOMAIN Append(s, e),
                      NEW n \in DOMAIN Append(s, e), Append(s, e)[m] = Append(s, e)[n]
               PROVE  m = n
    BY Zenon DEF Distinct
  <2>1. \A i \in 1 .. Len(s) : s[i] # e
    BY <1>1, Zenon DEF Elems
  <2>2. \A i \in DOMAIN Append(s, e) : i \in 1 .. Len(s) \/ i = Len(s) + 1
    BY <1>1
  <2> QED
    BY <1>1, <2>1, <2>2, Zenon DEF Distinct
<1> QED
  BY <1>2, <1>3, Zenon

LEMMA FrontElems ==
  ASSUME NEW S, NEW s \in Seq(S), NEW e \in S
  PROVE  /\ Elems(<<e>> \o s) = Elems(s) \cup {e}
         /\ Distinct(s) /\ e \notin Elems(s) => Distinct(<<e>> \o s)
<1> DEFINE f == <<e>> \o s
<1>1. /\ DOMAIN f = 1 .. (Len(s) + 1) /\ DOMAIN s = 1 .. Len(s)
      /\ \A i \in 1 .. Len(s) : f[i + 1] = s[i]
      /\ f[1] = e /\ Len(s) \in Nat
  OBVIOUS
<1>2. \A i \in DOMAIN f : i = 1 \/ (i - 1 \in DOMAIN s /\ f[i] = s[i - 1])
  BY <1>1
<1> HIDE DEF f
<1>3. Elems(f) = Elems(s) \cup {e}
  BY <1>1, <1>2, SMTT(30) DEF Elems
<1>4. Distinct(s) /\ e \notin Elems(s) => Distinct(f)
  <2> SUFFICES ASSUME Distinct(s), e \notin Elems(s),
                      NEW m \in DOMAIN f, NEW n \in DOMAIN f, f[m] = f[n]
               PROVE  m = n
    BY Zenon DEF Distinct
  <2>1. CASE m = 1 /\ n # 1
    BY <1>1, <1>2, <2>1, Zenon DEF Elems
  <2>2. CASE m # 1 /\ n = 1
    BY <1>1, <1>2, <2>2, Zenon DEF Elems
  <2>3. CASE m # 1 /\ n # 1
    BY <1>1, <1>2, <2>3 DEF Distinct
  <2> QED
    BY <2>1, <2>2, <2>3, Zenon
<1> QED
  BY <1>3, <1>4, Zenon DEF f

LEMMA TailElems ==
  ASSUME NEW S, NEW s \in Seq(S), s # <<>>, Distinct(s)
  PROVE  /\ Elems(Tail(s)) = Elems(s) \ {Head(s)} /\ Distinct(Tail(s))
         /\ Head(s) \in Elems(s)
<1>1. /\ DOMAIN s = 1 .. Len(s) /\ DOMAIN Tail(s) = 1 .. (Len(s) - 1)
      /\ \A i \in 1 .. (Len(s) - 1) : Tail(s)[i] = s[i + 1]
      /\ Head(s) = s[1] /\ Len(s) \in Nat \ {0}
  OBVIOUS
<1>2. \A i \in 2 .. Len(s) : i - 1 \in DOMAIN Tail(s) /\ Tail(s)[i - 1] = s[i]
  BY <1>1
<1>3. Elems(Tail(s)) \subseteq Elems(s) \ {Head(s)}
  BY <1>1 DEF Elems, Distinct
<1>4. Elems(s) \ {Head(s)} \subseteq Elems(Tail(s))
  <2> SUFFICES ASSUME NEW i \in DOMAIN s, s[i] # s[1]
               PROVE  s[i] \in Elems(Tail(s))
    BY <1>1, Zenon DEF Elems
  <2>1. i \in 2 .. Len(s)
    BY <1>1
  <2> QED
    BY <1>2, <2>1, Zenon DEF Elems
<1>5. Distinct(Tail(s))
  <2> SUFFICES ASSUME NEW m \in DOMAIN Tail(s), NEW n \in DOMAIN Tail(s),
                      Tail(s)[m] = Tail(s)[n]
               PROVE  m = n
    BY Zenon DEF Distinct
  <2>1. m + 1 \in DOMAIN s /\ n + 1 \in DOMAIN s /\ s[m + 1] = s[n + 1]
    BY <1>1
  <2> QED
    BY <1>1, <2>1 DEF Distinct
<1> QED
  BY <1>1, <1>3, <1>4, <1>5, SMTT(30) DEF Elems

-----------------------------------------------------------------------------
\* No thread enters or leaves control state l, or changes its request there.
Same(l) ==
  \A u \in App : (pc'[u] = l <=> pc[u] = l) /\ (pc[u] = l => arg'[u] = arg[u])

\* The six places share nothing, said of each command.
LEMMA Places ==
  OnePlace <=>
    /\ Distinct(request) /\ UniqueWaiters
    /\ \A i : i \in Elems(log) <=> \/ i \in Elems(request) \/ i \in InHand \/ i \in inflight
                                   \/ i \in completion \/ i \in Held \/ i \in retired
    /\ \A i : i \in Elems(request) =>
               i \notin InHand /\ i \notin inflight /\ i \notin completion /\ i \notin Held /\ i \notin retired
    /\ \A i : i \in InHand =>
               i \notin inflight /\ i \notin completion /\ i \notin Held /\ i \notin retired
    /\ \A i : i \in inflight => i \notin completion /\ i \notin Held /\ i \notin retired
    /\ \A i : i \in completion => i \notin Held /\ i \notin retired
    /\ \A i : i \in Held => i \notin retired
BY Zenon DEF OnePlace

\* ... and one step later.
LEMMA PlacesPrimed ==
  OnePlace' <=>
    /\ Distinct(request)' /\ UniqueWaiters'
    /\ \A i : i \in Elems(log)' <=> \/ i \in Elems(request)' \/ i \in InHand' \/ i \in inflight'
                                   \/ i \in completion' \/ i \in Held' \/ i \in retired'
    /\ \A i : i \in Elems(request)' =>
               i \notin InHand' /\ i \notin inflight' /\ i \notin completion' /\ i \notin Held' /\ i \notin retired'
    /\ \A i : i \in InHand' =>
               i \notin inflight' /\ i \notin completion' /\ i \notin Held' /\ i \notin retired'
    /\ \A i : i \in inflight' => i \notin completion' /\ i \notin Held' /\ i \notin retired'
    /\ \A i : i \in completion' => i \notin Held' /\ i \notin retired'
    /\ \A i : i \in Held' => i \notin retired'
BY Zenon DEF OnePlace

\* A step that leaves a waiter's hand-over alone.
LEMMA WaitersFrame ==
  ASSUME UniqueWaiters, Same("wait_erase")
  PROVE  Held' = Held /\ UniqueWaiters'
<1>1. Waiters' = Waiters /\ \A t \in Waiters : arg'[t] = arg[t]
  BY Zenon DEF Waiters, Same
<1> QED
  BY <1>1 DEF Held, UniqueWaiters

\* A step in which no command is submitted.
LEMMA LogFrame ==
  ASSUME TypeInv, LogInv, Same("push"), UNCHANGED <<log, seq_no>>
  PROVE  LogInv'
  BY Zenon DEF LogInv, Same

\* Which steps those are: a thread goes on between other control states ...
LEMMA MoveSame ==
  ASSUME TypeOK, NEW t \in App, NEW l \in AppPcs, NEW a, AppMove(t, l, a),
         NEW from \in {"push", "wait_erase"}, pc[t] # from, l # from
  PROVE  Same(from)
  BY Zenon DEF AppMove, Same

LEMMA GoToSame ==
  ASSUME TypeOK, NEW t \in App, NEW l \in AppPcs, GoTo(t, l) \/ NotifyAndGoTo(t, l),
         NEW from \in {"push", "wait_erase"}, pc[t] # from, l # from
  PROVE  Same(from)
  BY GoToMoves, NotifyMoves, MoveSame, Zenon

\* ... or the progress thread does ...
LEMMA ProgressSame ==
  ASSUME TypeOK, NEW l \in ProgressPcs, GoTo(Progress, l)
  PROVE  Same("push") /\ Same("wait_erase")
  BY ProgressMoves, Zenon DEF ProgressMove, Same

\* ... or the thread in _progress_nolock() returns or throws.
LEMMA ReturnSame ==
  ASSUME TypeInv, ppc \notin {"none", "thrown"},
         (\E rv \in Int : Return(rv)) \/ Throw
  PROVE  Same("push") /\ Same("wait_erase")
<1> USE WhoIsInside DEF TypeInv
<1>1. CASE prog_mtx.owner = Progress
  <2>1. PICK l \in ProgressPcs : GoTo(Progress, l)
    <3>1. CASE Throw
      BY <1>1, <3>1, Zenon DEF Throw, Uncaught, ProgressPcs
    <3>2. CASE \E rv \in Int : Return(rv)
      BY Basics, <1>1, <3>2, Zenon DEF Return, After, ProgressPcs
    <3> QED
      BY <3>1, <3>2, Zenon
  <2> QED
    BY <2>1, ProgressSame, Zenon
<1>2. CASE prog_mtx.owner # Progress
  <2>1. PICK l \in AppPcs \ {"push", "wait_erase"} : GoTo(prog_mtx.owner, l)
    <3>1. CASE Throw
      BY <1>2, <3>1, Zenon DEF Throw, AppPcs
    <3>2. CASE \E rv \in Int : Return(rv)
      <4>1. PICK rv \in Int : Return(rv)
        BY <3>2, Zenon
      <4>2. GoTo(prog_mtx.owner, After(pc[prog_mtx.owner], rv))
        BY <4>1, Zenon DEF Return
      <4>3. After(pc[prog_mtx.owner], rv) \in
              {"notify", "peek_result", "wait_notify", "wait_peek"}
        BY <1>2, Zenon DEF After
      <4> QED
        BY <4>2, <4>3, Zenon DEF AppPcs
    <3> QED
      BY <3>1, <3>2, Zenon
  <2> QED
    BY <1>2, <2>1, GoToSame, Zenon
<1> QED
  BY <1>1, <1>2, Zenon

-----------------------------------------------------------------------------
\* What _progress_nolock() holds, as a set.
LEMMA HandCases ==
  ASSUME TypeInv
  PROVE  /\ ppc \in {"complete", "submit"} => hand \in Ids /\ InHand = {hand}
         /\ ppc \notin {"complete", "submit"} => InHand = {}
  BY Basics, Zenon DEF TypeInv, HandInv, InHand

\* No step of _progress_nolock() submits a command or touches a waiter.
LEMMA InsideFrame ==
  ASSUME IInv, _progress_nolock
  PROVE  LogInv' /\ Held' = Held /\ UniqueWaiters' /\ log' = log
<1>1. ppc \notin {"none", "thrown"} /\ UNCHANGED <<log, seq_no>>
  BY Zenon DEF _progress_nolock, Recv, Complete, CancelRequests, CancelInFlight, PopRequest,
     SubmitVH, SubmitVE, IdleRound, ctxVars, histVars
<1>2. \/ UNCHANGED <<pc, arg>>
      \/ (\E rv \in Int : Return(rv)) \/ Throw
  <2>1. CASE Recv \/ Complete \/ CancelRequests \/ SubmitVE
    BY <2>1, Zenon DEF Recv, Complete, CancelRequests, SubmitVE
  <2>2. CASE CancelInFlight
    <3>1. Return(-1) /\ -1 \in Int
      BY <2>2 DEF CancelInFlight
    <3> QED
      BY <3>1, Zenon
  <2>3. CASE PopRequest
    BY <2>3 DEF PopRequest
  <2>4. CASE SubmitVH
    BY <2>4 DEF SubmitVH
  <2>5. CASE IdleRound
    BY <2>5 DEF IdleRound
  <2> QED
    BY <2>1, <2>2, <2>3, <2>4, <2>5, Zenon DEF _progress_nolock
<1>3. Same("push") /\ Same("wait_erase")
  <2>1. CASE UNCHANGED <<pc, arg>>
    BY <2>1, Zenon DEF Same
  <2> QED
    BY <1>1, <1>2, <2>1, ReturnSame, Zenon DEF IInv
<1> QED
  BY <1>1, <1>3, WaitersFrame, LogFrame, Zenon DEF IInv, OnePlace

\* Every step preserves the invariant.
LEMMA PlacesNext ==
  ASSUME IInv, [Next]_vars
  PROVE  IInv'
  \* A step that moves no command.
<1>PlacesFrame.
    ASSUME TypeInv, LogInv, OnePlace, Same("push"), Same("wait_erase"),
           UNCHANGED <<request, hand, inflight, completion, retired, log, seq_no>>
    PROVE  LogInv' /\ OnePlace'
  <2> USE <1>PlacesFrame
  <2>1. Held' = Held /\ UniqueWaiters' /\ InHand' = InHand
    BY WaitersFrame, Zenon DEF OnePlace, InHand
  <2>2. LogInv'
    BY LogFrame, Zenon
  <2> QED
    BY <2>1, <2>2, <1>PlacesFrame, Places, PlacesPrimed, Zenon
  \* Steps that move no command: control of the calls ...
<1>PlaceCalls.
    ASSUME IInv, NEW t \in App,
           \/ CheckInFlight(t) \/ Notify(t) \/ SyncCheck(t) \/ WaitNotify(t) \/ WaitCheck(t)
           \/ TryLock(t, "try", "in_progress", "notify")
           \/ TryLock(t, "wait_try", "in_wait", "wait_notify")
           \/ TryLock(t, "peek_try", "in_peek", "peek_result")
           \/ Join(t) \/ CloseExit(t)
    PROVE  LogInv' /\ OnePlace'
  <2> USE <1>PlaceCalls
  <2>1. UNCHANGED <<request, hand, inflight, completion, retired, log, seq_no>>
    BY Zenon DEF CheckInFlight, Notify, SyncCheck, WaitNotify, WaitCheck, TryLock, Join, CloseExit,
       comqVars, ctxVars, progVars, histVars
  <2>2. PICK l \in AppPcs \ {"push", "wait_erase"} : GoTo(t, l) \/ NotifyAndGoTo(t, l)
    BY Zenon DEF CheckInFlight, Notify, SyncCheck, WaitNotify, WaitCheck, TryLock, Join, CloseExit,
       AppPcs
  <2>3. pc[t] \notin {"push", "wait_erase"}
    BY Zenon DEF CheckInFlight, Notify, SyncCheck, WaitNotify, WaitCheck, TryLock, Join, CloseExit
  <2> QED
    BY <2>1, <2>2, <2>3, GoToSame, <1>PlacesFrame, Zenon DEF IInv, TypeInv
  \* ... the beginning of a call ...
<1>PlaceStarts.
    ASSUME IInv, NEW t \in App,
           \/ SyncDead(t) \/ BlockBegin(t) \/ BlockEnd(t) \/ Close(t)
           \/ \E id \in Ids : Begin(t, id, "wait_try") \/ Begin(t, id, "peek_try")
    PROVE  LogInv' /\ OnePlace'
  <2> USE <1>PlaceStarts
  <2>1. UNCHANGED <<request, hand, inflight, completion, retired, log, seq_no>>
    BY Zenon DEF SyncDead, BlockBegin, BlockEnd, Close, Begin, comqVars, ctxVars, progVars, histVars
  <2>2. Same("push") /\ Same("wait_erase")
    <3>1. CASE BlockBegin(t) \/ BlockEnd(t)
      BY <3>1, Zenon DEF BlockBegin, BlockEnd, Same
    <3>2. CASE Close(t)
      BY Basics, <3>2, Zenon DEF Close, Idle, Same, IInv, TypeInv
    <3>3. CASE SyncDead(t) \/ \E id \in Ids : Begin(t, id, "wait_try") \/ Begin(t, id, "peek_try")
      BY Basics, <3>3, Zenon DEF SyncDead, Begin, Idle, StartAt, Same, IInv, TypeInv
    <3> QED
      BY <3>1, <3>2, <3>3, Zenon
  <2> QED
    BY <2>1, <2>2, <1>PlacesFrame, Zenon DEF IInv
  \* ... the progress thread outside _progress_nolock(), and the VE.
<1>PlaceOutside.
    ASSUME IInv, ProgressThread \/ SpuriousWakeup \/ VEReply \/ VEException \/ VEKilled
    PROVE  LogInv' /\ OnePlace'
  <2> USE <1>PlaceOutside
  <2>1. UNCHANGED <<request, hand, inflight, completion, retired, log, seq_no>>
    BY Zenon DEF ProgressThread, WaitRequest, Woken, SpuriousWakeup, ProgressLock, ProgressExec,
       ProgressCheck, VEReply, VEException, VEKilled, comqVars, ctxVars, progVars, histVars
  <2>2. Same("push") /\ Same("wait_erase")
    <3>1. CASE VEReply \/ VEException \/ VEKilled
      BY <3>1, Zenon DEF VEReply, VEException, VEKilled, Same
    <3>2. CASE ProgressThread \/ SpuriousWakeup
      <4>1. PICK l \in ProgressPcs : GoTo(Progress, l)
        BY <3>2, Zenon DEF ProgressThread, WaitRequest, Woken, SpuriousWakeup, ProgressLock,
           ProgressExec, ProgressCheck, ProgressPcs
      <4> QED
        BY <4>1, ProgressSame, Zenon DEF IInv, TypeInv
    <3> QED
      BY <3>1, <3>2, Zenon
  <2> QED
    BY <2>1, <2>2, <1>PlacesFrame, Zenon DEF IInv
  \* A submission gets an ID nobody has used.
<1>PlaceIssue.
    ASSUME IInv, NEW t \in App, NEW k \in Kinds, Issue(t, k)
    PROVE  LogInv' /\ OnePlace'
  <2> USE <1>PlaceIssue
  <2>1. AppMove(t, "push", seq_no) /\ pc[t] = "idle" /\ seq_no \in Ids
    BY Basics, StartMoves DEF Issue, Idle, IInv, TypeInv, AppPcs, Ids
  <2>2. Same("wait_erase")
    BY <2>1, MoveSame, Zenon DEF IInv, TypeInv, AppPcs
  <2>3. UNCHANGED <<request, hand, inflight, completion, retired, log>> /\ seq_no' = seq_no + 1
    BY Zenon DEF Issue, comqVars, progVars, histVars
  <2>4. OnePlace'
    BY <2>2, <2>3, WaitersFrame, Zenon DEF OnePlace, InHand, IInv
  <2>5. LogInv'
    <3>1. seq_no \notin Elems(log) /\ \A i \in Elems(log) : i < seq_no + 1
      <4>1. Elems(log) \subseteq Ids
        <5>1. log \in Seq(Ids)
          BY Zenon DEF IInv, TypeInv, TypeOK
        <5> QED
          BY <5>1, ElemsType, Zenon
      <4>2. seq_no \in Int /\ \A i \in Ids : i \in Int
        BY <2>1 DEF Ids
      <4>3. \A i \in Elems(log) : i < seq_no
        BY Zenon DEF IInv, LogInv
      <4>4. \A i \in Elems(log) : i < seq_no /\ i \in Int
        BY <4>1, <4>2, <4>3, Zenon
      <4>5. seq_no \notin Elems(log)
        <5> SUFFICES ASSUME seq_no \in Elems(log) PROVE FALSE
          BY Zenon
        <5>1. seq_no < seq_no
          BY <4>3, Zenon
        <5> QED
          BY <4>2, <5>1
      <4>6. ASSUME NEW i \in Elems(log) PROVE i < seq_no + 1
        <5>1. i < seq_no /\ i \in Int
          BY <4>4, Zenon
        <5> QED
          BY <4>2, <5>1
      <4> QED
        BY <4>5, <4>6, Zenon
    <3>2. \A u \in App : pc[u] = "push" => arg[u] # seq_no
      BY Basics, CallArg DEF IInv, TypeInv, IdPcs, SubmitPcs
    <3> QED
      BY <2>1, <2>3, <3>1, <3>2, Zenon DEF LogInv, IInv, AppMove
  <2> QED
    BY <2>4, <2>5, Zenon
  \* Push puts that command into the request queue.
<1>PlacePush.
    ASSUME IInv, NEW t \in App, Push(t)
    PROVE  LogInv' /\ OnePlace'
  <2> USE <1>PlacePush
  <2>1. /\ pc[t] = "push" /\ arg[t] \in Ids /\ arg[t] < seq_no /\ arg[t] \notin Elems(log)
        /\ request \in Seq(Ids) /\ log \in Seq(Ids)
    BY CallArg, Zenon DEF Push, IInv, LogInv, TypeInv, TypeOK, CommQueueType, IdPcs, SubmitPcs
  <2>2. PICK l \in AppPcs \ {"push", "wait_erase"} : GoTo(t, l)
    BY Zenon DEF Push, AppPcs
  <2>3. Same("wait_erase")
    BY <2>1, <2>2, GoToSame, Zenon DEF IInv, TypeInv
  <2>4. /\ Elems(request') = Elems(request) \cup {arg[t]}
        /\ Elems(log') = Elems(log) \cup {arg[t]}
        /\ Distinct(request')
    <3>1. request' = Append(request, arg[t]) /\ log' = Append(log, arg[t])
      BY Zenon DEF Push, pushRequest
    <3>2. Distinct(request) /\ arg[t] \notin Elems(request)
      BY <2>1, Zenon DEF IInv, OnePlace
    <3> QED
      BY <2>1, <3>1, <3>2, AppendElems
  <2>5. UNCHANGED <<hand, inflight, completion, retired, seq_no>>
    BY Zenon DEF Push, progVars
  <2>6. Held' = Held /\ UniqueWaiters' /\ InHand' = InHand
    BY <2>3, <2>5, WaitersFrame, Zenon DEF IInv, OnePlace, InHand
  <2>7. OnePlace'
    <3>1. OnePlace
      BY Zenon DEF IInv
    <3>2. arg[t] \notin Elems(log)
      BY <2>1, Zenon
    <3> QED
      BY <2>4, <2>5, <2>6, <3>1, <3>2, Places, PlacesPrimed, Zenon
  <2>8. LogInv'
    <3>1. PICK a : AppMove(t, l, a)
      BY <2>2, GoToMoves, Zenon DEF IInv, TypeInv
    <3> QED
      BY <2>1, <2>2, <2>4, <2>5, <3>1, Zenon DEF LogInv, IInv, AppMove
  <2> QED
    BY <2>7, <2>8, Zenon
  \* _peekResult() destroys the command it picks up.
<1>PlacePeekResult.
    ASSUME IInv, NEW t \in App, NEW from \in {"wait_peek", "peek_result"},
           NEW unfinished \in {"wait_try", "idle"}, PeekResult(t, from, unfinished)
    PROVE  LogInv' /\ OnePlace'
  <2> USE <1>PlacePeekResult
  <2>1. PICK l \in {"wait_try", "idle"} : GoTo(t, l) /\ pc[t] = from
    BY Zenon DEF PeekResult
  <2>2. Same("push") /\ Same("wait_erase")
    BY <2>1, GoToSame, Zenon DEF IInv, TypeInv, AppPcs
  <2>3. UNCHANGED <<request, hand, inflight, log, seq_no>>
    BY Zenon DEF PeekResult, progVars
  <2>4. Held' = Held /\ UniqueWaiters' /\ InHand' = InHand
    BY <2>2, <2>3, WaitersFrame, Zenon DEF IInv, OnePlace, InHand
  <2>5. \/ UNCHANGED <<completion, retired>>
        \/ /\ arg[t] \in completion /\ completion' = completion \ {arg[t]}
           /\ retired' = retired \cup {arg[t]}
    BY Zenon DEF PeekResult, takeCompletion
  <2>6. OnePlace'
    <3>1. OnePlace
      BY Zenon DEF IInv
    <3>2. CASE UNCHANGED <<completion, retired>>
      BY <2>3, <2>4, <3>1, <3>2, Places, PlacesPrimed, Zenon
    <3>3. CASE /\ arg[t] \in completion /\ completion' = completion \ {arg[t]}
               /\ retired' = retired \cup {arg[t]}
      BY <2>3, <2>4, <3>1, <3>3, Places, PlacesPrimed, Zenon
    <3> QED
      BY <2>5, <3>2, <3>3, Zenon
  <2> QED
    BY <2>2, <2>3, <2>6, LogFrame, Zenon DEF IInv
  \* waitCompletion() hands the command over to the one waiter that finds it ...
<1>PlaceWaitCompletion.
    ASSUME IInv, NEW t \in App, WaitCompletion(t)
    PROVE  LogInv' /\ OnePlace'
  <2> USE <1>PlaceWaitCompletion
  <2>1. /\ pc[t] = "wait_block" /\ arg[t] \in completion
        /\ completion' = completion \ {arg[t]}
        /\ UNCHANGED <<request, hand, inflight, retired, log, seq_no>>
    BY Zenon DEF WaitCompletion, takeCompletion, ctxVars, progVars, histVars
  <2>2. AppMove(t, "wait_erase", arg[t])
    BY GoToMoves, Zenon DEF WaitCompletion, IInv, TypeInv, AppPcs
  <2>3. /\ Waiters' = Waiters \cup {t} /\ t \notin Waiters
        /\ \A u \in App : u \in Waiters' => arg'[u] = arg[u]
    BY <2>1, <2>2, Zenon DEF Waiters, AppMove
  <2>4. Held' = Held \cup {arg[t]} /\ InHand' = InHand
    BY <2>1, <2>3, SMTT(30) DEF Held, InHand, Waiters
  <2>5. arg[t] \notin Held
    BY <2>1, Zenon DEF IInv, OnePlace
  <2>6. UniqueWaiters'
    BY <2>3, <2>5, SMTT(30) DEF IInv, OnePlace, UniqueWaiters, Held, Waiters
  <2>7. OnePlace'
    <3>1. OnePlace
      BY Zenon DEF IInv
    <3> QED
      BY <2>1, <2>4, <2>6, <3>1, Places, PlacesPrimed, Zenon
  <2>8. Same("push")
    BY <2>1, <2>2, MoveSame, Zenon DEF IInv, TypeInv, AppPcs
  <2> QED
    BY <2>1, <2>7, <2>8, LogFrame, Zenon DEF IInv
  \* ... which destroys it.
<1>PlaceWaitErase.
    ASSUME IInv, NEW t \in App, WaitErase(t)
    PROVE  LogInv' /\ OnePlace'
  <2> USE <1>PlaceWaitErase
  <2>1. /\ pc[t] = "wait_erase" /\ retired' = retired \cup {arg[t]}
        /\ UNCHANGED <<request, hand, inflight, completion, log, seq_no>>
    BY Zenon DEF WaitErase, comqVars, progVars
  <2>2. AppMove(t, "idle", INVALID)
    BY GoToMoves, Zenon DEF WaitErase, IInv, TypeInv, AppPcs
  <2>3. /\ Waiters' = Waiters \ {t} /\ t \in Waiters
        /\ \A u \in Waiters' : arg'[u] = arg[u]
    BY <2>1, <2>2, Zenon DEF Waiters, AppMove
  <2>4. \A u \in Waiters : arg[u] = arg[t] => u = t
    BY <2>3, Zenon DEF IInv, OnePlace, UniqueWaiters
  <2>5. Held' = Held \ {arg[t]} /\ arg[t] \in Held /\ InHand' = InHand
    BY <2>1, <2>3, <2>4, Zenon DEF Held, InHand
  <2>6. UniqueWaiters'
    BY <2>3, Zenon DEF IInv, OnePlace, UniqueWaiters
  <2>7. OnePlace'
    <3>1. OnePlace
      BY Zenon DEF IInv
    <3>2. UNCHANGED <<request, inflight, completion, log>> /\ InHand' = InHand
      BY <2>1, <2>5, Zenon
    <3> QED
      BY <2>1, <2>5, <2>6, <3>1, <3>2, Places, PlacesPrimed, Zenon
  <2>8. Same("push")
    BY <2>1, <2>2, MoveSame, Zenon DEF IInv, TypeInv, AppPcs
  <2> QED
    BY <2>1, <2>7, <2>8, LogFrame, Zenon DEF IInv
  \* A reply moves its command from the in-flight map into the hand ...
<1>PlaceRecv.
    ASSUME IInv, Recv
    PROVE  OnePlace'
  <2> USE <1>PlaceRecv
  <2>1. Held' = Held /\ UniqueWaiters' /\ log' = log
    BY InsideFrame, Zenon DEF _progress_nolock
  <2>2. ppc = "recv" /\ UNCHANGED <<request, completion, retired>>
    BY Zenon DEF Recv, histVars
  <2>3. InHand = {}
    BY <2>2, HandCases, Zenon DEF IInv
  <2>4. CASE UNCHANGED <<inflight, hand>>
    BY <2>1, <2>2, <2>4, Zenon DEF OnePlace, InHand, IInv
  <2>5. CASE \E c \in inflight : hand' = c /\ inflight' = inflight \ {c}
    <3>1. PICK c \in inflight : hand' = c /\ inflight' = inflight \ {c}
      BY <2>5, Zenon
    <3>2. InHand' = {c}
      BY Basics, <3>1, Zenon DEF InHand, IInv, TypeInv, TypeOK, CommQueueType
    <3> QED
      BY <2>1, <2>2, <2>3, <3>1, <3>2 DEF OnePlace, IInv
  <2> QED
    BY <2>4, <2>5, Zenon DEF Recv, popInFlight
  \* ... from where it goes to the completion map, or is destroyed (nowait).
<1>PlaceComplete.
    ASSUME IInv, Complete
    PROVE  OnePlace'
  <2> USE <1>PlaceComplete
  <2>1. Held' = Held /\ UniqueWaiters' /\ log' = log
    BY InsideFrame, Zenon DEF _progress_nolock
  <2>2. InHand = {hand} /\ InHand' = {} /\ UNCHANGED <<request, inflight>>
    BY HandCases, Zenon DEF Complete, IInv, InHand
  <2>3. \/ completion' = completion \cup {hand} /\ retired' = retired
        \/ completion' = completion /\ retired' = retired \cup {hand}
    BY Zenon DEF Complete, pushCompletion
  <2> QED
    BY <2>1, <2>2, <2>3, Zenon DEF OnePlace, IInv
  \* cancelAll() moves all requests, then all commands in flight.
<1>PlaceCancel.
    ASSUME IInv, CancelRequests \/ CancelInFlight
    PROVE  OnePlace'
  <2> USE <1>PlaceCancel
  <2>1. Held' = Held /\ UniqueWaiters' /\ log' = log
    BY InsideFrame, Zenon DEF _progress_nolock
  <2>2. hand' = hand /\ retired' = retired
    BY Zenon DEF CancelRequests, CancelInFlight, histVars
  <2>3. InHand' = InHand
    BY <2>2, Zenon DEF InHand
  <2>4. CASE CancelRequests
    <3>1. request' = <<>> /\ completion' = completion \cup Elems(request) /\ inflight' = inflight
      BY <2>4, Zenon DEF CancelRequests, cancelRequests
    <3>2. Elems(request') = {} /\ Distinct(request')
      BY <3>1 DEF Elems, Distinct
    <3> QED
      BY <2>1, <2>2, <2>3, <3>1, <3>2, Zenon DEF OnePlace, IInv
  <2>5. CASE CancelInFlight
    <3>1. inflight' = {} /\ completion' = completion \cup inflight /\ request' = request
      BY <2>5, Zenon DEF CancelInFlight, cancelInFlight
    <3> QED
      BY <2>1, <2>2, <2>3, <3>1, Zenon DEF OnePlace, IInv
  <2> QED
    BY <2>4, <2>5, Zenon
  \* tryPopRequest() moves the oldest request into the hand ...
<1>PlacePopRequest.
    ASSUME IInv, PopRequest
    PROVE  OnePlace'
  <2> USE <1>PlacePopRequest
  <2>1. Held' = Held /\ UniqueWaiters' /\ log' = log
    BY InsideFrame, Zenon DEF _progress_nolock
  <2>2. ppc = "send" /\ UNCHANGED <<inflight, completion, retired>>
    BY Zenon DEF PopRequest, histVars
  <2>3. InHand = {} /\ request \in Seq(Ids) /\ Distinct(request)
    BY <2>2, HandCases, Zenon DEF IInv, TypeInv, TypeOK, CommQueueType, OnePlace
  <2>4. CASE UNCHANGED <<request, hand>>
    BY <2>1, <2>2, <2>4, Zenon DEF OnePlace, InHand, IInv
  <2>5. CASE request # <<>> /\ hand' = Head(request) /\ request' = Tail(request)
    <3>1. /\ Elems(request') = Elems(request) \ {Head(request)} /\ Distinct(request')
          /\ Head(request) \in Elems(request) /\ Head(request) \in Ids
      BY <2>3, <2>5, TailElems, FirstAndRest, Zenon
    <3>2. InHand' = {Head(request)}
      BY Basics, <2>5, <3>1, Zenon DEF InHand, IInv, TypeInv
    <3> QED
      BY <2>1, <2>2, <2>3, <3>1, <3>2 DEF OnePlace, IInv
  <2> QED
    BY <2>4, <2>5, Zenon DEF PopRequest, tryPopRequest
  \* ... and from there into flight, to completion, or back to the front.
<1>PlaceSubmit.
    ASSUME IInv, SubmitVH \/ SubmitVE
    PROVE  OnePlace'
  <2> USE <1>PlaceSubmit
  <2>1. Held' = Held /\ UniqueWaiters' /\ log' = log
    BY InsideFrame, Zenon DEF _progress_nolock
  <2>2. InHand = {hand} /\ hand \in Ids /\ InHand' = {} /\ retired' = retired
    BY HandCases, Zenon DEF SubmitVH, SubmitVE, IInv, InHand, histVars
  <2>3. hand \notin Elems(request) /\ Distinct(request) /\ request \in Seq(Ids)
    BY <2>2, Zenon DEF IInv, OnePlace, TypeInv, TypeOK, CommQueueType
  <2>4. \/ completion' = completion \cup {hand} /\ UNCHANGED <<request, inflight>>
        \/ inflight' = inflight \cup {hand} /\ UNCHANGED <<request, completion>>
        \/ request' = <<hand>> \o request /\ UNCHANGED <<inflight, completion>>
    BY Zenon DEF SubmitVH, SubmitVE, pushCompletion, pushInFlight, pushRequestFront
  <2>5. CASE request' = request
    BY <2>1, <2>2, <2>4, <2>5 DEF OnePlace, IInv
  <2>6. CASE request' = <<hand>> \o request /\ UNCHANGED <<inflight, completion>>
    <3>1. Elems(request') = Elems(request) \cup {hand} /\ Distinct(request')
      BY <2>2, <2>3, <2>6, FrontElems
    <3> QED
      BY <2>1, <2>2, <2>6, <3>1, Zenon DEF OnePlace, IInv
  <2> QED
    BY <2>4, <2>5, <2>6, Zenon
<1>1. TypeInv'
  BY TypeNext, Zenon DEF IInv
<1>2. ASSUME NEW t \in App, CallStep(t)
      PROVE  LogInv' /\ OnePlace'
  BY <1>2, <1>PlaceCalls, <1>PlacePush, <1>PlacePeekResult, <1>PlaceWaitCompletion, Zenon,
     <1>PlaceWaitErase
  DEF CallStep
<1>3. ASSUME NEW t \in App, MakeCall(t)
      PROVE  LogInv' /\ OnePlace'
  BY <1>3, <1>PlaceIssue, <1>PlaceStarts, Zenon DEF MakeCall
<1>4. ASSUME _progress_nolock
      PROVE  LogInv' /\ OnePlace'
  <2>1. CASE IdleRound
    <3>1. UNCHANGED <<request, hand, inflight, completion, retired, log>>
      BY <2>1, Zenon DEF IdleRound, comqVars, histVars
    <3> QED
      BY <1>4, <3>1, InsideFrame, Zenon DEF OnePlace, InHand, IInv
  <2> QED
    BY <1>4, <2>1, InsideFrame, <1>PlaceRecv, <1>PlaceComplete, <1>PlaceCancel, <1>PlacePopRequest, Zenon,
       <1>PlaceSubmit
    DEF _progress_nolock
<1>5. ASSUME UNCHANGED vars
      PROVE  LogInv' /\ OnePlace'
  BY <1>5, <1>PlacesFrame, Zenon DEF IInv, vars, comqVars, ctxVars, progVars, histVars, Same
<1> QED
  BY <1>1, <1>2, <1>3, <1>4, <1>5, <1>PlaceOutside, Zenon DEF Next, IInv

\* A submitted command is always in exactly one place: however many threads
\* submit, wait, peek, cancel and close, no unique_ptr is lost or duplicated on
\* its way through the containers.
THEOREM CommandsInOnePlace == Spec => []OnePlace
<1>1. Init => IInv
  <2> SUFFICES ASSUME Init
               PROVE  IInv
    BY Zenon
  <2>1. TypeInv
    BY TypeInit, Zenon
  <2>2. /\ Elems(request) = {} /\ Elems(log) = {} /\ Distinct(request)
        /\ InHand = {} /\ inflight = {} /\ completion = {} /\ retired = {}
    BY DEF Init, CommQueueInit, Elems, Distinct, InHand
  <2>3. \A t \in App : pc[t] = "idle"
    BY ContextAssumption, Zenon DEF Init, Threads
  <2>4. Waiters = {}
    BY <2>3, Zenon DEF Waiters
  <2>5. Held = {} /\ UniqueWaiters
    BY <2>4, Zenon DEF Held, UniqueWaiters
  <2> QED
    BY <2>1, <2>2, <2>3, <2>5, Zenon DEF IInv, LogInv, OnePlace
<1>2. IInv /\ [Next]_vars => IInv'
  BY PlacesNext, Zenon
<1>3. IInv => OnePlace
  BY Zenon DEF IInv
<1> QED
  BY <1>1, <1>2, <1>3, PTL DEF Spec

-----------------------------------------------------------------------------
\* The order of submission is a strict order.
LEMMA BeforeStrict ==
  ASSUME NEW l \in Seq(Ids), Distinct(l), NEW i, NEW j, Before(l, i, j)
  PROVE  i \in Elems(l) /\ j \in Elems(l) /\ i # j /\ ~Before(l, j, i)
<1>1. /\ DOMAIN l \subseteq Int
      /\ \A m, n \in DOMAIN l : l[m] = l[n] => m = n
  BY DEF Distinct
<1>2. PICK m \in DOMAIN l, n \in DOMAIN l : m < n /\ l[m] = i /\ l[n] = j
  BY Zenon DEF Before
<1>3. i \in Elems(l) /\ j \in Elems(l)
  BY <1>2, Zenon DEF Elems
<1>4. i # j
  BY <1>1, <1>2
<1>5. ASSUME Before(l, j, i)
      PROVE  FALSE
  <2>1. PICK p \in DOMAIN l, q \in DOMAIN l : p < q /\ l[p] = j /\ l[q] = i
    BY <1>5, Zenon DEF Before
  <2>2. p = n /\ q = m
    BY <1>1, <1>2, <2>1, Zenon
  <2> QED
    BY <1>1, <1>2, <2>1, <2>2
<1> QED
  BY <1>3, <1>4, <1>5, Zenon

-----------------------------------------------------------------------------

LEMMA SortedTail ==
  ASSUME NEW l, NEW s \in Seq(Ids), s # <<>>, Sorted(l, s)
  PROVE  /\ Sorted(l, Tail(s)) /\ Head(s) \in Ids
         /\ Elems(s) = Elems(Tail(s)) \cup {Head(s)}
         /\ \A j \in Elems(Tail(s)) : Before(l, Head(s), j)
<1>1. /\ DOMAIN s = 1 .. Len(s) /\ DOMAIN Tail(s) = 1 .. (Len(s) - 1)
      /\ \A n \in 1 .. (Len(s) - 1) : Tail(s)[n] = s[n + 1]
      /\ Head(s) = s[1] /\ Len(s) \in Nat \ {0} /\ Head(s) \in Ids
  OBVIOUS
<1>2. ASSUME NEW m \in DOMAIN Tail(s), NEW n \in DOMAIN Tail(s), m < n
      PROVE  Before(l, Tail(s)[m], Tail(s)[n])
  <2>1. m + 1 \in DOMAIN s /\ n + 1 \in DOMAIN s /\ m + 1 < n + 1
    BY <1>1, <1>2
  <2>2. Tail(s)[m] = s[m + 1] /\ Tail(s)[n] = s[n + 1]
    BY <1>1, Zenon
  <2> QED
    BY <2>1, <2>2, Zenon DEF Sorted
<1>3. ASSUME NEW n \in DOMAIN Tail(s)
      PROVE  Before(l, Head(s), Tail(s)[n]) /\ Tail(s)[n] \in Elems(s)
  <2>1. 1 \in DOMAIN s /\ n + 1 \in DOMAIN s /\ 1 < n + 1
    BY <1>1
  <2>2. Head(s) = s[1] /\ Tail(s)[n] = s[n + 1]
    BY <1>1, Zenon
  <2> QED
    BY <2>1, <2>2, Zenon DEF Sorted, Elems
<1>4. ASSUME NEW n \in DOMAIN s
      PROVE  s[n] \in Elems(Tail(s)) \cup {Head(s)}
  <2>1. CASE n = 1
    BY <1>1, <2>1, Zenon
  <2>2. CASE n # 1
    <3>1. n - 1 \in DOMAIN Tail(s) /\ Tail(s)[n - 1] = s[n]
      BY <1>1, <2>2
    <3> QED
      BY <3>1, Zenon DEF Elems
  <2> QED
    BY <2>1, <2>2, Zenon
<1>5. Head(s) \in Elems(s)
  BY <1>1 DEF Elems
<1> QED
  BY <1>1, <1>2, <1>3, <1>4, <1>5 DEF Sorted, Elems

\* The VE appends a reply, _progress_nolock() takes one.
LEMMA ReplyAppend ==
  ASSUME NEW l, NEW s \in Seq(Replies), NEW r \in Replies, SortedReplies(l, s),
         \A i \in ReplyIds(s) : Before(l, i, r.id)
  PROVE  SortedReplies(l, Append(s, r)) /\ ReplyIds(Append(s, r)) = ReplyIds(s) \cup {r.id}
<1> DEFINE f == Append(s, r)
<1>1. /\ DOMAIN f = 1 .. (Len(s) + 1) /\ DOMAIN s = 1 .. Len(s)
      /\ \A n \in 1 .. Len(s) : f[n] = s[n]
      /\ f[Len(s) + 1] = r /\ Len(s) \in Nat
  OBVIOUS
<1> HIDE DEF f
<1>2. ReplyIds(f) = ReplyIds(s) \cup {r.id}
  BY <1>1 DEF ReplyIds
<1>3. ASSUME NEW m \in DOMAIN f, NEW n \in DOMAIN f, m < n
      PROVE  Before(l, f[m].id, f[n].id)
  <2>1. m \in DOMAIN s /\ f[m] = s[m]
    BY <1>1, <1>3
  <2>2. CASE n \in DOMAIN s
    BY <1>1, <1>3, <2>1, <2>2, Zenon DEF SortedReplies
  <2>3. CASE n \notin DOMAIN s
    <3>1. f[n] = r
      BY <1>1, <2>3
    <3> QED
      BY <2>1, <3>1, Zenon DEF ReplyIds
  <2> QED
    BY <2>2, <2>3, Zenon
<1> QED
  BY <1>2, <1>3, Zenon DEF SortedReplies, f

LEMMA ReplyTail ==
  ASSUME NEW l, NEW s \in Seq(Replies), s # <<>>, SortedReplies(l, s)
  PROVE  /\ SortedReplies(l, Tail(s)) /\ Head(s).id \in Ids
         /\ ReplyIds(s) = ReplyIds(Tail(s)) \cup {Head(s).id}
         /\ \A j \in ReplyIds(Tail(s)) : Before(l, Head(s).id, j)
<1>1. /\ DOMAIN s = 1 .. Len(s) /\ DOMAIN Tail(s) = 1 .. (Len(s) - 1)
      /\ \A n \in 1 .. (Len(s) - 1) : Tail(s)[n] = s[n + 1]
      /\ Head(s) = s[1] /\ Len(s) \in Nat \ {0} /\ Head(s) \in Replies
  OBVIOUS
<1>2. ASSUME NEW m \in DOMAIN Tail(s), NEW n \in DOMAIN Tail(s), m < n
      PROVE  Before(l, Tail(s)[m].id, Tail(s)[n].id)
  <2>1. m + 1 \in DOMAIN s /\ n + 1 \in DOMAIN s /\ m + 1 < n + 1
    BY <1>1, <1>2
  <2>2. Tail(s)[m] = s[m + 1] /\ Tail(s)[n] = s[n + 1]
    BY <1>1, Zenon
  <2> QED
    BY <2>1, <2>2, Zenon DEF SortedReplies
<1>3. ASSUME NEW n \in DOMAIN Tail(s)
      PROVE  Before(l, Head(s).id, Tail(s)[n].id) /\ Tail(s)[n].id \in ReplyIds(s)
  <2>1. 1 \in DOMAIN s /\ n + 1 \in DOMAIN s /\ 1 < n + 1
    BY <1>1
  <2>2. Head(s) = s[1] /\ Tail(s)[n] = s[n + 1]
    BY <1>1, Zenon
  <2> QED
    BY <2>1, <2>2, Zenon DEF SortedReplies, ReplyIds
<1>4. ASSUME NEW n \in DOMAIN s
      PROVE  s[n].id \in ReplyIds(Tail(s)) \cup {Head(s).id}
  <2>1. CASE n = 1
    BY <1>1, <2>1, Zenon
  <2>2. CASE n # 1
    <3>1. n - 1 \in DOMAIN Tail(s) /\ Tail(s)[n - 1] = s[n]
      BY <1>1, <2>2
    <3> QED
      BY <3>1, Zenon DEF ReplyIds
  <2> QED
    BY <2>1, <2>2, Zenon
<1>5. Head(s).id \in ReplyIds(s) /\ Head(s).id \in Ids
  BY <1>1 DEF ReplyIds, Replies
<1> QED
  BY <1>2, <1>3, <1>4, <1>5, Zenon DEF SortedReplies, ReplyIds

\* The commands on the wire.
LEMMA OnTheWire ==
  /\ WireIds = ReplyIds(rep) \cup Elems(chan)
  /\ WireIds' = ReplyIds(rep') \cup Elems(chan')
  BY Zenon DEF WireIds, ReplyIds

-----------------------------------------------------------------------------
(***************************************************************************)
(* The order invariant, step by step.                                      *)
(***************************************************************************)

\* The VE replies to the oldest command in its ring.
LEMMA OrderReply ==
  ASSUME StreamInv, VEReply \/ VEException
  PROVE  OrderInv' /\ WireIds' = WireIds
<1>1. /\ OrderInv /\ TypeInv
      /\ chan \in Seq(Ids) /\ rep \in Seq(Replies) /\ chan # <<>>
  BY Zenon DEF StreamInv, IInv, TypeInv, TypeOK, VEReply, VEException
<1>2. PICK x \in BOOLEAN : rep' = Append(rep, [id |-> Head(chan), exc |-> x])
  BY Zenon DEF VEReply, VEException
<1>3. chan' = Tail(chan) /\ UNCHANGED <<request, log, ppc, hand>>
  BY Zenon DEF VEReply, VEException, comqVars, progVars, histVars
<1>4. /\ Sorted(log, chan') /\ Head(chan) \in Ids
      /\ Elems(chan) = Elems(chan') \cup {Head(chan)}
      /\ \A j \in Elems(chan') : Before(log, Head(chan), j)
  <2>1. Sorted(log, chan)
    BY <1>1, Zenon DEF OrderInv
  <2> QED
    BY <1>1, <1>3, <2>1, SortedTail, Zenon
<1>5. SortedReplies(log, rep') /\ ReplyIds(rep') = ReplyIds(rep) \cup {Head(chan)}
  <2> DEFINE r == [id |-> Head(chan), exc |-> x]
  <2>1. r \in Replies /\ r.id = Head(chan)
    BY <1>4, Zenon DEF Replies
  <2>2. SortedReplies(log, rep) /\ \A i \in ReplyIds(rep) : Before(log, i, Head(chan))
    BY <1>1, <1>4, Zenon DEF OrderInv
  <2>3. rep' = Append(rep, r)
    BY <1>2, Zenon
  <2> HIDE DEF r
  <2> QED
    BY <1>1, <2>1, <2>2, <2>3, ReplyAppend
<1>6. WireIds' = WireIds /\ Sending' = Sending
  BY <1>3, <1>4, <1>5, OnTheWire, Zenon DEF Sending
<1>7. \A i \in ReplyIds(rep'), j \in Elems(chan') : Before(log, i, j)
  BY <1>1, <1>4, <1>5, Zenon DEF OrderInv
<1> QED
  BY <1>1, <1>3, <1>4, <1>5, <1>6, <1>7, Zenon DEF OrderInv

\* A reply leaves the ring; it is the oldest command on the wire.
LEMMA OrderTaken ==
  ASSUME StreamInv, rep # <<>>, rep' = Tail(rep), UNCHANGED <<request, log, chan>>,
         ppc' # "submit"
  PROVE  /\ OrderInv' /\ WireIds = WireIds' \cup {Head(rep).id}
         /\ Head(rep).id \in Ids
         /\ \A j \in WireIds' : Before(log, Head(rep).id, j)
<1>1. OrderInv /\ TypeInv /\ rep \in Seq(Replies)
  BY Zenon DEF StreamInv, IInv, TypeInv, TypeOK
<1>2. /\ SortedReplies(log, rep') /\ ReplyIds(rep) = ReplyIds(rep') \cup {Head(rep).id}
      /\ Head(rep).id \in Ids
      /\ \A j \in ReplyIds(rep') : Before(log, Head(rep).id, j)
  <2>1. SortedReplies(log, rep)
    BY <1>1, Zenon DEF OrderInv
  <2> QED
    BY <1>1, <2>1, ReplyTail, Zenon
<1>3. WireIds = WireIds' \cup {Head(rep).id} /\ Sending' = {}
  BY <1>2, OnTheWire, Zenon DEF Sending
<1>4. \A j \in WireIds' : Before(log, Head(rep).id, j)
  BY <1>1, <1>2, OnTheWire, Zenon DEF OrderInv
<1>5. OrderInv'
  BY <1>1, <1>2, <1>3, Zenon DEF OrderInv
<1> QED
  BY <1>2, <1>3, <1>4, <1>5, Zenon

-----------------------------------------------------------------------------
(***************************************************************************)
(* Steps outside _progress_nolock().                                       *)
(***************************************************************************)
\* Neither a command nor the state of the context moves.
Quiet ==
  /\ UNCHANGED <<log, request, chan, rep, hand, inflight, status, state>>
  /\ ppc' = ppc \/ (ppc \in {"none", "thrown"} /\ ppc' = "recv")

\* Whoever takes prog_mtx finds _progress_nolock() inactive.
LEMMA EnterIdle ==
  ASSUME TypeInv, NEW t \in App, CanLock(prog_mtx, t), pc[t] \notin InPcs
  PROVE  ppc \in {"none", "thrown"}
<1> SUFFICES ASSUME ppc \notin {"none", "thrown"}
             PROVE  FALSE
  BY Zenon
<1>1. prog_mtx.owner \in Threads /\ pc[prog_mtx.owner] \in InPcs
  BY Zenon DEF TypeInv, Control, ProgInv
<1> QED
  BY Basics, <1>1, Zenon DEF CanLock, TypeInv

LEMMA QuietCall ==
  ASSUME TypeInv, NEW t \in App, CallStep(t), ~Push(t), ~CloseExit(t)
  PROVE  Quiet
<1>1. ASSUME NEW from \in {"try", "wait_try", "peek_try"}, NEW in, NEW otherwise,
             TryLock(t, from, in, otherwise)
      PROVE  Quiet
  BY <1>1, EnterIdle, Zenon
  DEF TryLock, Quiet, comqVars, ctxVars, veVars, histVars, InPcs
<1>2. ASSUME \/ CheckInFlight(t) \/ SyncCheck(t) \/ WaitNotify(t) \/ WaitCheck(t) \/ Join(t)
             \/ Notify(t) \/ WaitErase(t)
      PROVE  Quiet
  BY <1>2, Zenon
  DEF CheckInFlight, SyncCheck, WaitNotify, WaitCheck, Join, Notify, WaitErase, Quiet,
      comqVars, ctxVars, progVars, veVars, histVars
<1>3. ASSUME NEW from, NEW unfinished, PeekResult(t, from, unfinished)
      PROVE  Quiet
  BY <1>3, Zenon DEF PeekResult, Quiet, progVars, veVars
<1>4. ASSUME WaitCompletion(t)
      PROVE  Quiet
  BY <1>4, Zenon DEF WaitCompletion, Quiet, ctxVars, progVars, veVars, histVars
<1> QED
  BY <1>1, <1>2, <1>3, <1>4, Zenon DEF CallStep

LEMMA QuietStart ==
  ASSUME NEW t \in App, MakeCall(t)
  PROVE  Quiet
<1>1. ASSUME NEW k, Issue(t, k)
      PROVE  Quiet
  BY <1>1, Zenon DEF Issue, Quiet, comqVars, progVars, veVars, histVars
<1>2. ASSUME NEW id, NEW l, Begin(t, id, l)
      PROVE  Quiet
  BY <1>2, Zenon DEF Begin, Quiet, comqVars, ctxVars, progVars, veVars, histVars
<1>3. ASSUME SyncDead(t) \/ BlockBegin(t) \/ BlockEnd(t) \/ Close(t)
      PROVE  Quiet
  BY <1>3, Zenon DEF SyncDead, BlockBegin, BlockEnd, Close, Quiet, comqVars, ctxVars, progVars,
     veVars, histVars
<1> QED
  BY <1>1, <1>2, <1>3, Zenon DEF MakeCall

LEMMA QuietProgress ==
  ASSUME TypeInv, ProgressThread \/ SpuriousWakeup \/ VEKilled \/ UNCHANGED vars
  PROVE  Quiet
<1>1. ASSUME ProgressExec
      PROVE  Quiet
  BY <1>1, Zenon DEF ProgressExec, TypeInv, Control, ExecInv, Quiet, comqVars, ctxVars, veVars,
     histVars
<1>2. ASSUME \/ WaitRequest \/ Woken \/ ProgressLock \/ ProgressCheck \/ SpuriousWakeup
             \/ VEKilled \/ UNCHANGED vars
      PROVE  Quiet
  BY <1>2, Zenon DEF WaitRequest, Woken, ProgressLock, ProgressCheck, SpuriousWakeup, VEKilled,
     vars, Quiet, comqVars, ctxVars, progVars, veVars, histVars
<1> QED
  BY <1>1, <1>2, Zenon DEF ProgressThread

-----------------------------------------------------------------------------
\* Nobody closes the context in this step, and what has ended stays so.
NotClosing ==
  /\ \A u \in App : pc'[u] = "closed" <=> pc[u] = "closed"
  /\ pc[Progress] = "exited" => pc'[Progress] = "exited"
  /\ terminateFlag => terminateFlag'

-----------------------------------------------------------------------------
\* Every step keeps the order.
LEMMA OrderNext ==
  ASSUME StreamInv, [Next]_vars
  PROVE  OrderInv'
  \* A submitted command becomes the last one.
<1>BeforeGrows.
    ASSUME NEW l \in Seq(Ids), Distinct(l), NEW e \in Ids, e \notin Elems(l)
    PROVE  /\ Distinct(Append(l, e)) /\ Elems(Append(l, e)) = Elems(l) \cup {e}
           /\ \A i, j : Before(l, i, j) => Before(Append(l, e), i, j)
           /\ \A i \in Elems(l) : Before(Append(l, e), i, e)
  <2> USE <1>BeforeGrows
  <2> DEFINE k == Append(l, e)
  <2>1. /\ DOMAIN k = 1 .. (Len(l) + 1) /\ DOMAIN l = 1 .. Len(l)
        /\ \A n \in 1 .. Len(l) : k[n] = l[n]
        /\ k[Len(l) + 1] = e /\ Len(l) \in Nat
    OBVIOUS
  <2>2. Distinct(k) /\ Elems(k) = Elems(l) \cup {e}
    BY AppendElems
  <2> HIDE DEF k
  <2>3. ASSUME NEW i, NEW j, Before(l, i, j)
        PROVE  Before(k, i, j)
    <3>1. PICK m \in DOMAIN l, n \in DOMAIN l : m < n /\ l[m] = i /\ l[n] = j
      BY <2>3, Zenon DEF Before
    <3>2. m \in DOMAIN k /\ n \in DOMAIN k /\ m < n /\ k[m] = i /\ k[n] = j
      BY <2>1, <3>1
    <3> QED
      BY <3>2, Zenon DEF Before
  <2>4. ASSUME NEW i \in Elems(l)
        PROVE  Before(k, i, e)
    <3>1. PICK m \in DOMAIN l : l[m] = i
      BY Zenon DEF Elems
    <3>2. /\ m \in DOMAIN k /\ Len(l) + 1 \in DOMAIN k /\ m < Len(l) + 1
          /\ k[m] = i /\ k[Len(l) + 1] = e
      BY <2>1, <3>1
    <3> QED
      BY <3>2, Zenon DEF Before
  <2> QED
    BY <2>2, <2>3, <2>4, Zenon DEF k
  \* push_back(), push_front() and pop_front() keep a sorted deque sorted.
<1>SortedAppend.
    ASSUME NEW l, NEW s \in Seq(Ids), NEW e \in Ids, Sorted(l, s),
           \A i \in Elems(s) : Before(l, i, e)
    PROVE  Sorted(l, Append(s, e))
  <2> USE <1>SortedAppend
  <2> DEFINE f == Append(s, e)
  <2>1. /\ DOMAIN f = 1 .. (Len(s) + 1) /\ DOMAIN s = 1 .. Len(s)
        /\ \A n \in 1 .. Len(s) : f[n] = s[n]
        /\ f[Len(s) + 1] = e /\ Len(s) \in Nat
    OBVIOUS
  <2> HIDE DEF f
  <2>2. ASSUME NEW m \in DOMAIN f, NEW n \in DOMAIN f, m < n
        PROVE  Before(l, f[m], f[n])
    <3>1. m \in DOMAIN s /\ f[m] = s[m]
      BY <2>1, <2>2
    <3>2. CASE n \in DOMAIN s
      BY <2>1, <2>2, <3>1, <3>2, Zenon DEF Sorted
    <3>3. CASE n \notin DOMAIN s
      <4>1. f[n] = e
        BY <2>1, <3>3
      <4> QED
        BY <3>1, <4>1, Zenon DEF Elems
    <3> QED
      BY <3>2, <3>3, Zenon
  <2> QED
    BY <2>2, Zenon DEF Sorted, f
<1>SortedFront.
    ASSUME NEW l, NEW s \in Seq(Ids), NEW e \in Ids, Sorted(l, s),
           \A i \in Elems(s) : Before(l, e, i)
    PROVE  Sorted(l, <<e>> \o s)
  <2> USE <1>SortedFront
  <2> DEFINE f == <<e>> \o s
  <2>1. /\ DOMAIN f = 1 .. (Len(s) + 1) /\ DOMAIN s = 1 .. Len(s)
        /\ \A n \in 1 .. Len(s) : f[n + 1] = s[n]
        /\ f[1] = e /\ Len(s) \in Nat
    OBVIOUS
  <2>2. \A n \in DOMAIN f : n = 1 \/ (n - 1 \in DOMAIN s /\ f[n] = s[n - 1])
    BY <2>1
  <2> HIDE DEF f
  <2>3. ASSUME NEW m \in DOMAIN f, NEW n \in DOMAIN f, m < n
        PROVE  Before(l, f[m], f[n])
    <3>1. n - 1 \in DOMAIN s /\ f[n] = s[n - 1]
      BY <2>1, <2>2, <2>3, SMTT(30)
    <3>2. CASE m = 1
      BY <2>1, <3>1, <3>2, Zenon DEF Elems
    <3>3. CASE m # 1
      <4>1. m - 1 \in DOMAIN s /\ f[m] = s[m - 1] /\ m - 1 < n - 1
        BY <2>1, <2>2, <2>3, <3>3
      <4> QED
        BY <3>1, <4>1, Zenon DEF Sorted
    <3> QED
      BY <3>2, <3>3, Zenon
  <2> QED
    BY <2>3, Zenon DEF Sorted, f
  \* A step that moves no command between the queue and the rings.
<1>OrderFrame.
    ASSUME OrderInv, UNCHANGED <<log, request, chan, rep>>,
           ppc' = "submit" => ppc = "submit" /\ hand' = hand
    PROVE  OrderInv'
  <2> USE <1>OrderFrame
  <2>1. WireIds' = WireIds
    BY OnTheWire, Zenon
  <2>2. Sending' \subseteq Sending
    BY Zenon DEF Sending
  <2> QED
    BY <2>1, <2>2, Zenon DEF OrderInv
  \* A submitted command is the last one, in the log and in the queue.
<1>OrderPush.
    ASSUME StreamInv, NEW t \in App, Push(t)
    PROVE  OrderInv'
  <2> USE <1>OrderPush
  <2>1. PICK e \in Ids : e = arg[t] /\ e \notin Elems(log)
    BY CallArg, Zenon DEF Push, StreamInv, IInv, LogInv, TypeInv, IdPcs, SubmitPcs
  <2>2. /\ OrderInv /\ OnePlace /\ TypeInv
        /\ request \in Seq(Ids) /\ log \in Seq(Ids) /\ chan \in Seq(Ids)
    BY Zenon DEF StreamInv, IInv, TypeInv, TypeOK, CommQueueType
  <2>3. /\ request' = Append(request, e) /\ log' = Append(log, e)
        /\ UNCHANGED <<chan, rep, ppc, hand>>
    BY <2>1, Zenon DEF Push, pushRequest, progVars, veVars
  <2>4. /\ Distinct(log') /\ Elems(log') = Elems(log) \cup {e}
        /\ \A i, j : Before(log, i, j) => Before(log', i, j)
        /\ \A i \in Elems(log) : Before(log', i, e)
    <3>1. Distinct(log)
      BY <2>2, Zenon DEF OrderInv
    <3> QED
      BY <2>1, <2>2, <2>3, <3>1, <1>BeforeGrows, Zenon
  <2>5. Elems(request') = Elems(request) \cup {e}
    BY <2>2, <2>3, AppendElems
  <2>6. Elems(request) \subseteq Elems(log) /\ Sending \subseteq Elems(log)
    <3>1. Sending \subseteq InHand
      BY <2>2, HandCases, Zenon DEF Sending
    <3> QED
      BY <2>2, <3>1, Zenon DEF OnePlace
  <2>7. Sorted(log', request)
    BY <2>2, <2>4, Zenon DEF OrderInv, Sorted
  <2>8. Sorted(log', request')
    <3>1. \A i \in Elems(request) : Before(log', i, e)
      BY <2>4, <2>6, Zenon
    <3> QED
      BY <2>2, <2>3, <2>7, <3>1, <1>SortedAppend, Zenon
  <2>9. Sorted(log', chan') /\ SortedReplies(log', rep')
    BY <2>2, <2>3, <2>4, Zenon DEF OrderInv, Sorted, SortedReplies
  <2>10. WireIds' = WireIds /\ Sending' = Sending
    BY <2>3, OnTheWire, Zenon DEF Sending
  <2>11. \A i \in WireIds, j \in Elems(request') \cup Sending : Before(log', i, j)
    <3>1. /\ \A i \in WireIds, j \in Elems(request) \cup Sending : Before(log, i, j)
          /\ WireIds \subseteq Elems(log)
      BY <2>2, Zenon DEF OrderInv
    <3> QED
      BY <2>4, <2>5, <3>1, Zenon
  <2>12. \A i \in Sending, j \in Elems(request') : Before(log', i, j)
    <3>1. \A i \in Sending, j \in Elems(request) : Before(log, i, j)
      BY <2>2, Zenon DEF OrderInv
    <3> QED
      BY <2>4, <2>5, <2>6, <3>1, Zenon
  <2>13. \A i \in ReplyIds(rep'), j \in Elems(chan') : Before(log', i, j)
    BY <2>2, <2>3, <2>4, Zenon DEF OrderInv
  <2>14. WireIds' \subseteq Elems(log')
    BY <2>2, <2>4, <2>10, Zenon DEF OrderInv
  <2> QED
    BY <2>4, <2>8, <2>9, <2>10, <2>11, <2>12, <2>13, <2>14, Zenon DEF OrderInv
  \* tryPopRequest() takes the oldest request.
<1>OrderPop.
    ASSUME StreamInv, PopRequest
    PROVE  OrderInv'
  <2> USE <1>OrderPop
  <2>1. /\ OrderInv /\ request \in Seq(Ids) /\ ppc = "send"
        /\ UNCHANGED <<log, chan, rep>>
    BY Zenon DEF StreamInv, IInv, TypeInv, TypeOK, CommQueueType, PopRequest, veVars, histVars
  <2>2. CASE request' = request /\ ppc' # "submit"
    BY <2>1, <2>2, <1>OrderFrame, Zenon
  <2>3. CASE request # <<>> /\ hand' = Head(request) /\ request' = Tail(request) /\ ppc' = "submit"
    <3>1. /\ Sorted(log, request') /\ Elems(request) = Elems(request') \cup {hand'}
          /\ \A j \in Elems(request') : Before(log, hand', j)
      <4>1. Sorted(log, request)
        BY <2>1, Zenon DEF OrderInv
      <4> QED
        BY <2>1, <2>3, <4>1, SortedTail, Zenon
    <3>2. Sending' = {hand'} /\ WireIds' = WireIds
      BY <2>1, <2>3, OnTheWire, Zenon DEF Sending
    <3> QED
      BY <2>1, <3>1, <3>2, Zenon DEF OrderInv
  <2> QED
    BY <2>2, <2>3, Zenon DEF PopRequest, Return, tryPopRequest
  \* The command in the hand is sent, finished, or put back as the first request.
<1>OrderSubmit.
    ASSUME StreamInv, SubmitVH \/ SubmitVE
    PROVE  OrderInv'
  <2> USE <1>OrderSubmit
  <2>1. /\ OrderInv /\ request \in Seq(Ids) /\ chan \in Seq(Ids)
        /\ Sending = {hand} /\ hand \in Ids /\ hand \in Elems(log)
    <3>1. ppc = "submit"
      BY Zenon DEF SubmitVH, SubmitVE
    <3>2. hand \in Ids /\ InHand = {hand} /\ InHand \subseteq Elems(log)
      BY <3>1, HandCases, Zenon DEF StreamInv, IInv, OnePlace
    <3> QED
      BY <3>1, <3>2, Zenon DEF StreamInv, IInv, TypeInv, TypeOK, CommQueueType, Sending
  <2>2. UNCHANGED <<log, rep>> /\ ppc' # "submit"
    BY Zenon DEF SubmitVH, SubmitVE, Return, veVars, histVars
  <2>3. \/ UNCHANGED <<request, chan>>
        \/ request' = request /\ chan' = Append(chan, hand)
        \/ request' = <<hand>> \o request /\ chan' = chan
    BY Zenon DEF SubmitVH, SubmitVE, pushRequestFront, veVars
  <2>4. Sending' = {}
    BY <2>2, Zenon DEF Sending
  <2>5. CASE UNCHANGED <<request, chan>>
    BY <2>1, <2>2, <2>5, <1>OrderFrame, Zenon
  <2>6. CASE request' = request /\ chan' = Append(chan, hand)
    <3>1. \A i \in WireIds : Before(log, i, hand)
      BY <2>1, Zenon DEF OrderInv
    <3>2. Elems(chan') = Elems(chan) \cup {hand}
      BY <2>1, <2>6, AppendElems
    <3>3. Sorted(log, chan')
      <4>1. Sorted(log, chan) /\ \A i \in Elems(chan) : Before(log, i, hand)
        BY <2>1, <3>1, OnTheWire, Zenon DEF OrderInv
      <4> QED
        BY <2>1, <2>6, <4>1, <1>SortedAppend, Zenon
    <3>4. WireIds' = WireIds \cup {hand}
      BY <2>2, <3>2, OnTheWire, Zenon
    <3>5. \A i \in ReplyIds(rep), j \in Elems(chan') : Before(log, i, j)
      BY <2>1, <3>1, <3>2, OnTheWire, Zenon DEF OrderInv
    <3> QED
      BY <2>1, <2>2, <2>4, <2>6, <3>3, <3>4, <3>5, Zenon DEF OrderInv
  <2>7. CASE request' = <<hand>> \o request /\ chan' = chan
    <3>1. Elems(request') = Elems(request) \cup {hand}
      BY <2>1, <2>7, FrontElems
    <3>2. Sorted(log, request')
      <4>1. Sorted(log, request) /\ \A j \in Elems(request) : Before(log, hand, j)
        BY <2>1, Zenon DEF OrderInv
      <4> QED
        BY <2>1, <2>7, <4>1, <1>SortedFront, Zenon
    <3>3. WireIds' = WireIds
      BY <2>2, <2>7, OnTheWire, Zenon
    <3> QED
      BY <2>1, <2>2, <2>4, <2>7, <3>1, <3>2, <3>3, Zenon DEF OrderInv
  <2> QED
    BY <2>3, <2>5, <2>6, <2>7, Zenon
<1>1. OrderInv /\ TypeInv
  BY Zenon DEF StreamInv, IInv
<1>2. ASSUME Quiet
      PROVE  OrderInv'
  BY <1>1, <1>2, <1>OrderFrame, Zenon DEF Quiet
<1>3. ASSUME NEW t \in App, CallStep(t)
      PROVE  OrderInv'
  <2>1. CASE CloseExit(t)
    <3>1. CASE ~is_alive
      BY <1>1, <2>1, <3>1, <1>OrderFrame, Zenon DEF CloseExit, comqVars, progVars, veVars, histVars
    <3>2. CASE is_alive
      <4>1. /\ chan' = <<>> /\ rep' = <<>> /\ UNCHANGED <<log, request, ppc, hand>>
        BY <2>1, <3>2, Zenon DEF CloseExit, comqVars, progVars, histVars
      <4>2. /\ Elems(chan') = {} /\ ReplyIds(rep') = {}
            /\ Sorted(log, chan') /\ SortedReplies(log, rep')
        BY <4>1 DEF Elems, ReplyIds, Sorted, SortedReplies
      <4>3. WireIds' = {} /\ Sending' = Sending
        BY <4>1, <4>2, OnTheWire, Zenon DEF Sending
      <4> QED
        BY <1>1, <4>1, <4>2, <4>3, Zenon DEF OrderInv
    <3> QED
      BY <3>1, <3>2, Zenon
  <2> QED
    BY <1>1, <1>2, <1>3, <2>1, <1>OrderPush, QuietCall, Zenon
<1>4. ASSUME NEW t \in App, MakeCall(t)
      PROVE  OrderInv'
  BY <1>2, <1>4, QuietStart, Zenon
<1>5. ASSUME _progress_nolock
      PROVE  OrderInv'
  <2>1. CASE Recv
    <3>1. CASE UNCHANGED rep
      BY <1>1, <2>1, <3>1, <1>OrderFrame, Zenon DEF Recv, Throw, histVars
    <3>2. CASE ~UNCHANGED rep
      BY <2>1, <3>2, OrderTaken, Zenon DEF Recv, Throw, histVars
    <3> QED
      BY <3>1, <3>2, Zenon
  <2>2. CASE Complete
    <3>1. rep # <<>> /\ ppc' # "submit"
      BY <1>1, <2>2, Zenon DEF Complete, TypeInv, HandInv
    <3> QED
      BY <2>2, <3>1, OrderTaken, Zenon DEF Complete
  <2>3. CASE CancelRequests
    <3>1. /\ request' = <<>> /\ UNCHANGED <<log, chan, rep>> /\ ppc' # "submit"
      BY <2>3, Zenon DEF CancelRequests, cancelRequests, veVars, histVars
    <3>2. Elems(request') = {} /\ Sorted(log, request')
      BY <3>1 DEF Elems, Sorted
    <3>3. WireIds' = WireIds /\ Sending' = {}
      BY <3>1, OnTheWire, Zenon DEF Sending
    <3> QED
      BY <1>1, <3>1, <3>2, <3>3, Zenon DEF OrderInv
  <2>4. CASE CancelInFlight \/ IdleRound
    BY <1>1, <2>4, <1>OrderFrame, Zenon
    DEF CancelInFlight, IdleRound, Return, comqVars, veVars, histVars
  <2> QED
    BY <1>5, <2>1, <2>2, <2>3, <2>4, <1>OrderPop, <1>OrderSubmit, Zenon DEF _progress_nolock
<1>6. ASSUME UNCHANGED vars
      PROVE  OrderInv'
  BY <1>1, <1>2, <1>6, QuietProgress, Zenon
<1> QED
  BY <1>1, <1>2, <1>3, <1>4, <1>5, <1>6, OrderReply, QuietProgress, Zenon DEF Next

-----------------------------------------------------------------------------
(***************************************************************************)
(* Results.                                                                *)
(***************************************************************************)

\* The commands without a result that the steps of _progress_nolock() leave.
LEMMA StatusInside ==
  ASSUME StreamInv, _progress_nolock
  PROVE  /\ log' = log /\ Live \subseteq Elems(log)
         /\ \/ Live' = Live /\ status' = status
            \/ /\ Complete /\ Live' = Live \ {hand} /\ hand \in Live
               /\ status' = [status EXCEPT ![hand] = resultStatus(Head(rep))]
            \/ /\ SubmitVH /\ VHReady /\ Live' = Live \ {hand} /\ hand \in Live
               /\ status' = [status EXCEPT ![hand] = "OK"]
            \/ \E S \in SUBSET Live :
                 /\ Live' = Live \ S
                 /\ status' = [i \in Ids |-> IF i \in S THEN "ERROR" ELSE status[i]]
                 /\ CancelRequests \/ CancelInFlight \/ (SubmitVE /\ S = {hand})
<1>1. TypeInv /\ OnePlace /\ log' = log /\ status \in [Ids -> Statuses]
  BY InsideFrame, Zenon DEF StreamInv, IInv, TypeInv, TypeOK, CommQueueType
<1>2. Live \subseteq Elems(log)
  BY <1>1, Zenon DEF OnePlace, Live
<1>3. CASE Recv
  <2>1. InHand = {} /\ UNCHANGED <<request, status>>
    BY <1>1, <1>3, HandCases, Zenon DEF Recv
  <2>2. CASE UNCHANGED <<inflight, hand>>
    BY <1>1, <1>2, <2>1, <2>2, Zenon DEF Live, InHand
  <2>3. CASE \E c \in inflight : hand' = c /\ inflight' = inflight \ {c}
    <3>1. PICK c \in inflight : hand' = c /\ inflight' = inflight \ {c}
      BY <2>3, Zenon
    <3>2. InHand' = {c}
      BY Basics, <1>1, <3>1, Zenon DEF InHand, TypeInv, TypeOK, CommQueueType
    <3> QED
      BY <1>1, <1>2, <2>1, <3>1, <3>2, Zenon DEF Live
  <2> QED
    BY <1>3, <2>2, <2>3, Zenon DEF Recv, popInFlight
<1>4. CASE Complete
  <2>1. /\ InHand = {hand} /\ InHand' = {} /\ UNCHANGED <<request, inflight>>
        /\ status' = [status EXCEPT ![hand] = resultStatus(Head(rep))]
    BY <1>1, <1>4, HandCases, Zenon DEF Complete, InHand, setResult
  <2>2. Live' = Live \ {hand} /\ hand \in Live
    BY <1>1, <2>1, Zenon DEF Live, OnePlace
  <2> QED
    BY <1>1, <1>2, <1>4, <2>1, <2>2, Zenon
<1>5. CASE CancelRequests
  <2>1. /\ request' = <<>> /\ UNCHANGED <<inflight, hand>>
        /\ status' = [i \in Ids |-> IF i \in Elems(request) THEN "ERROR" ELSE status[i]]
    BY <1>5, Zenon DEF CancelRequests, cancelRequests
  <2>2. Elems(request') = {} /\ InHand' = InHand
    BY <2>1 DEF Elems, InHand
  <2>3. Live' = Live \ Elems(request) /\ Elems(request) \in SUBSET Live
    BY <1>1, <2>1, <2>2, Zenon DEF Live, OnePlace
  <2> QED
    BY <1>1, <1>2, <1>5, <2>1, <2>3, Zenon
<1>6. CASE CancelInFlight
  <2>1. /\ inflight' = {} /\ UNCHANGED <<request, hand>>
        /\ status' = [i \in Ids |-> IF i \in inflight THEN "ERROR" ELSE status[i]]
    BY <1>6, Zenon DEF CancelInFlight, cancelInFlight
  <2>2. InHand' = InHand
    BY <2>1, Zenon DEF InHand
  <2>3. Live' = Live \ inflight /\ inflight \in SUBSET Live
    BY <1>1, <2>1, <2>2, Zenon DEF Live, OnePlace
  <2> QED
    BY <1>1, <1>2, <1>6, <2>1, <2>3, Zenon
<1>7. CASE PopRequest
  <2>1. /\ InHand = {} /\ UNCHANGED <<inflight, status>>
        /\ request \in Seq(Ids) /\ Distinct(request)
    BY <1>1, <1>7, HandCases, Zenon DEF PopRequest, OnePlace, TypeInv, TypeOK, CommQueueType
  <2>2. CASE UNCHANGED <<request, hand>>
    BY <1>1, <1>2, <2>1, <2>2, Zenon DEF Live, InHand
  <2>3. CASE request # <<>> /\ hand' = Head(request) /\ request' = Tail(request)
    <3>1. /\ Elems(request') = Elems(request) \ {Head(request)}
          /\ Head(request) \in Elems(request) /\ Head(request) \in Ids
      BY <2>1, <2>3, TailElems, FirstAndRest, Zenon
    <3>2. InHand' = {Head(request)}
      BY Basics, <1>1, <2>3, <3>1, Zenon DEF InHand, TypeInv
    <3> QED
      BY <1>1, <1>2, <2>1, <3>1, <3>2, Zenon DEF Live
  <2> QED
    BY <1>7, <2>2, <2>3, Zenon DEF PopRequest, tryPopRequest
<1>8. CASE SubmitVH \/ SubmitVE
  <2>1. InHand = {hand} /\ hand \in Ids /\ InHand' = {} /\ request \in Seq(Ids)
    BY <1>1, <1>8, HandCases, Zenon DEF SubmitVH, SubmitVE, InHand, TypeInv, TypeOK, CommQueueType
  <2>2. CASE UNCHANGED <<request, status>> /\ inflight' = inflight \cup {hand}
    BY <1>1, <1>2, <2>1, <2>2, Zenon DEF Live
  <2>3. CASE request' = <<hand>> \o request /\ UNCHANGED <<inflight, status>>
    <3>1. Elems(request') = Elems(request) \cup {hand}
      BY <2>1, <2>3, FrontElems
    <3> QED
      BY <1>1, <1>2, <2>1, <2>3, <3>1, Zenon DEF Live
  <2>4. ASSUME UNCHANGED <<request, inflight>>
        PROVE  Live' = Live \ {hand} /\ hand \in Live
    BY <1>1, <2>1, <2>4, Zenon DEF Live, OnePlace
  <2>5. CASE SubmitVH /\ VHReady
    BY <1>1, <1>2, <2>4, <2>5, Zenon DEF SubmitVH, setResult
  <2>6. CASE SubmitVE /\ UNCHANGED <<request, inflight>> /\ setResult(hand, "ERROR")
    <3>1. status' = [i \in Ids |-> IF i \in {hand} THEN "ERROR" ELSE status[i]]
      BY <1>1, <2>6, Zenon DEF setResult
    <3> QED
      BY <1>1, <1>2, <2>4, <2>6, <3>1, Zenon
  <2>7. CASE SubmitVH
    BY <2>3, <2>5, <2>7, Zenon DEF SubmitVH, pushRequestFront
  <2>8. CASE SubmitVE
    BY <2>2, <2>3, <2>6, <2>8, Zenon DEF SubmitVE, pushRequestFront, pushInFlight
  <2> QED
    BY <1>8, <2>7, <2>8, Zenon
<1>9. CASE IdleRound
  BY <1>1, <1>2, <1>9, Zenon DEF IdleRound, comqVars, Live, InHand
<1> QED
  BY <1>3, <1>4, <1>5, <1>6, <1>7, <1>8, <1>9, Zenon DEF _progress_nolock

\* Every step keeps results and containers together.
LEMMA StatusNext ==
  ASSUME StreamInv, [Next]_vars
  PROVE  StatusInv'
  \* A step that gives no command a result.
<1>StatusFrame.
    ASSUME StatusInv, Live' = Live, UNCHANGED <<log, status>>
    PROVE  StatusInv'
    BY <1>StatusFrame, Zenon DEF StatusInv
  \* A step that gives the live commands in S a result.
<1>StatusStep.
    ASSUME StatusInv, NEW S \in SUBSET Live, Live' = Live \ S, Live \subseteq Elems(log),
           log' = log, NEW r \in Statuses \ {"UNFINISHED"},
           status' = [i \in Ids |-> IF i \in S THEN r ELSE status[i]]
    PROVE  StatusInv'
    BY <1>StatusStep, Zenon DEF StatusInv, Statuses
<1>1. StatusInv /\ TypeInv /\ status \in [Ids -> Statuses]
  BY Zenon DEF StreamInv, IInv, TypeInv, TypeOK, CommQueueType
<1>2. ASSUME UNCHANGED <<log, request, hand, inflight, status>>
      PROVE  StatusInv'
  BY <1>1, <1>2, <1>StatusFrame, Zenon DEF Live, InHand
<1>3. ASSUME Quiet
      PROVE  StatusInv'
  BY <1>2, <1>3, Zenon DEF Quiet
<1>4. ASSUME NEW t \in App, Push(t)
      PROVE  StatusInv'
  <2>1. PICK e \in Ids : e = arg[t] /\ e \notin Elems(log)
    BY <1>4, CallArg, Zenon DEF Push, StreamInv, IInv, LogInv, TypeInv, IdPcs, SubmitPcs
  <2>2. /\ request' = Append(request, e) /\ log' = Append(log, e)
        /\ UNCHANGED <<hand, inflight, status>>
    BY <1>4, <2>1, Zenon DEF Push, pushRequest, progVars
  <2>3. Elems(request') = Elems(request) \cup {e} /\ Elems(log') = Elems(log) \cup {e}
    BY <2>1, <2>2, AppendElems DEF StreamInv, IInv, TypeInv, TypeOK, CommQueueType
  <2>4. Live' = Live \cup {e}
    BY <2>2, <2>3, Zenon DEF Live, InHand
  <2> QED
    BY <1>1, <2>1, <2>2, <2>3, <2>4, Zenon DEF StatusInv
<1>5. ASSUME NEW t \in App, CallStep(t)
      PROVE  StatusInv'
  <2>1. CASE CloseExit(t)
    BY <1>2, <2>1, Zenon DEF CloseExit, comqVars, progVars, histVars
  <2> QED
    BY <1>1, <1>3, <1>4, <1>5, <2>1, QuietCall, Zenon
<1>6. ASSUME VEReply \/ VEException
      PROVE  StatusInv'
  BY <1>2, <1>6, Zenon DEF VEReply, VEException, comqVars, progVars, histVars
<1>7. ASSUME _progress_nolock
      PROVE  StatusInv'
  <2>1. log' = log /\ Live \subseteq Elems(log)
    BY <1>7, StatusInside, Zenon
  <2>2. CASE Live' = Live /\ status' = status
    BY <1>1, <2>1, <2>2, <1>StatusFrame, Zenon
  <2>3. ASSUME NEW r \in Statuses \ {"UNFINISHED"}, Live' = Live \ {hand}, hand \in Live,
               status' = [status EXCEPT ![hand] = r]
        PROVE  StatusInv'
    BY <1>1, <2>1, <2>3, Zenon DEF StatusInv
  <2>4. resultStatus(Head(rep)) \in Statuses \ {"UNFINISHED"}
    BY Zenon DEF resultStatus, Statuses
  <2>5. CASE \E S \in SUBSET Live :
               /\ Live' = Live \ S
               /\ status' = [i \in Ids |-> IF i \in S THEN "ERROR" ELSE status[i]]
    BY <1>1, <2>1, <2>5, <1>StatusStep, Zenon DEF Statuses
  <2>6. "OK" \in Statuses \ {"UNFINISHED"}
    BY Zenon DEF Statuses
  <2> QED
    BY <1>7, <2>2, <2>3, <2>4, <2>5, <2>6, StatusInside, Zenon
<1>8. ASSUME UNCHANGED vars
      PROVE  StatusInv'
  BY <1>1, <1>3, <1>8, QuietProgress, Zenon
<1> QED
  BY <1>1, <1>3, <1>5, <1>6, <1>7, <1>8, QuietStart, QuietProgress, Zenon DEF Next
=============================================================================
