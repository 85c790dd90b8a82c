------------------------------- MODULE Context -------------------------------
(***************************************************************************)
(* One VEO context on the host (Context.hpp, Context.cpp): application     *)
(* threads that submit, wait, peek, synchronize and close, the context's   *)
(* progress thread, the worker _progress_nolock() that whoever holds       *)
(* prog_mtx runs, and the VE peer behind the URPC rings.                   *)
(*                                                                         *)
(* A step is what one thread does between two points at which another      *)
(* thread can observe it: one critical section, or one read of shared      *)
(* state.  _progress_nolock() always runs under prog_mtx, so its program   *)
(* counter and its command pointer are single variables (ppc, hand).       *)
(***************************************************************************)
EXTENDS CommQueue

CONSTANTS App,        \* application threads
          Progress,   \* the progress thread
          None,       \* no thread
          Slots,      \* slots of the URPC ring
          Period,     \* idle rounds between two checks of the VE process (100)
          Calls,      \* API calls the application makes
          Faults,     \* faults of the environment that may happen
          ShareIds    \* may a thread wait for another thread's request?

AllCalls == {"VE", "VH", "NOWAIT", "SYNC", "wait", "peek", "block", "close"}
AllFaults == {"exception", "kill", "eagain", "senderr"}

ASSUME ContextAssumption ==
  /\ Progress \notin App /\ None \notin App \cup {Progress}
  /\ Slots \in Nat \ {0} /\ Period \in Nat \ {0}
  /\ Calls \subseteq AllCalls /\ Faults \subseteq AllFaults
  /\ ShareIds \in BOOLEAN

Threads == App \cup {Progress}

\* what a command is: a VE call or transfer, a VH function, the VH function
\* submitted by synchronize(), a VE command flagged nowait
Kinds == {"VE", "VH", "SYNC", "NOWAIT"}

VARIABLES kind,        \* kind of every issued command
          owner,       \* thread that issued it
          state,       \* veo_context_state: RUNNING or EXIT
          seq_no,      \* next request ID
          rem_reqid,   \* IDs whose result has not been picked up
          submit_mtx,  \* recursive mutex of the submitters
          prog_mtx,    \* recursive mutex around _progress_nolock()
          count,       \* Context::count modulo Period
          survival,    \* ProcHandle::proc_survival
          ppc,         \* control state of _progress_nolock()
          hand,        \* its CmdPtr between two containers
          pc, arg,     \* control state and request ID of every thread
          chan, rep,   \* URPC rings: commands sent, replies sent back
          child,       \* the VE process
          log,         \* history: request IDs in the order of submission
          start,       \* history: Len(log) when submit_mtx was taken
          retired      \* history: commands that have been destroyed

ctxVars == <<state, seq_no, rem_reqid, submit_mtx>>
idleVars == <<count, survival>>
cmdVars == <<kind, owner>>
progVars == <<prog_mtx, ppc, hand>>
veVars == <<chan, rep, child>>
histVars == <<log, start, retired>>
vars == <<comqVars, ctxVars, idleVars, cmdVars, progVars, pc, arg, veVars, histVars>>

AppPcs == {"idle", "push", "progress", "try", "in_progress", "notify", "sync",
           "wait_try", "in_wait", "wait_peek", "wait_notify", "wait_check",
           "wait_block", "wait_erase", "peek_try", "in_peek", "peek_result",
           "join", "close", "closed", "thrown"}
ProgressPcs == {"wait_req", "asleep", "woken", "lock", "exec", "in_exec",
                "check", "exited", "thrown"}
Ppcs == {"none", "recv", "complete", "send", "submit", "idle",
         "cancel_req", "cancel_fli", "thrown"}
Replies == [id : Ids, exc : BOOLEAN]
Mutexes == [owner : Threads \cup {None}, depth : Nat]

TypeOK ==
  /\ CommQueueType
  /\ kind \in [Ids -> Kinds] /\ owner \in [Ids -> App \cup {None}]
  /\ state \in {"RUNNING", "EXIT"}
  /\ seq_no \in 0 .. NReq
  /\ rem_reqid \subseteq Ids
  /\ submit_mtx \in Mutexes /\ prog_mtx \in Mutexes
  /\ count \in 0 .. (Period - 1) /\ survival \in BOOLEAN
  /\ ppc \in Ppcs
  /\ hand \in Ids \cup {INVALID}
  /\ pc \in [Threads -> AppPcs \cup ProgressPcs]
  /\ arg \in [App -> Ids \cup {INVALID}]
  /\ chan \in Seq(Ids) /\ rep \in Seq(Replies)
  /\ child \in {"alive", "exited", "killed"}
  /\ log \in Seq(Ids) /\ start \in Nat /\ retired \subseteq Ids

\* std::recursive_mutex: lock() by t waits for CanLock, try_lock() tests it
Unlocked == [owner |-> None, depth |-> 0]

\* mutant: the mutex is not taken
CanLockAlways(m, t) == TRUE

CanLock(m, t) == m.owner \in {t, None}

Locked(m, t) == [owner |-> t, depth |-> m.depth + 1]
Released(m) == IF m.depth = 1 THEN Unlocked ELSE [m EXCEPT !.depth = @ - 1]

Init ==
  /\ CommQueueInit
  /\ kind = [i \in Ids |-> "VE"] /\ owner = [i \in Ids |-> None]
  /\ state = "RUNNING"
  /\ seq_no = 0
  /\ rem_reqid = {}
  /\ submit_mtx = Unlocked /\ prog_mtx = Unlocked
  /\ count = 0 /\ survival = TRUE
  /\ ppc = "none" /\ hand = INVALID
  /\ pc = [t \in Threads |-> IF t = Progress THEN "wait_req" ELSE "idle"]
  /\ arg = [t \in App |-> INVALID]
  /\ chan = <<>> /\ rep = <<>> /\ child = "alive"
  /\ log = <<>> /\ start = 0 /\ retired = {}

-----------------------------------------------------------------------------
\* is_alive(): the VE process sets the EXITED flag when it exits by itself,
\* never when it is killed
is_alive == state # "EXIT" /\ child # "exited"

isVH(c) == kind[c] \in {"VH", "SYNC"}

\* thread t continues at l; a call that has returned leaves no request ID
Back(t, l) == arg' = IF l = "idle" THEN [arg EXCEPT ![t] = INVALID] ELSE arg
GoTo(t, l) == pc' = [pc EXCEPT ![t] = l] /\ Back(t, l)

\* notifyAll() by thread t, which then continues at l
NotifyAndGoTo(t, l) ==
  /\ pc' = [pc EXCEPT ![t] = l,
                      ![Progress] = IF notifies /\ @ = "asleep" THEN "woken" ELSE @]
  /\ Back(t, l)

\* thread t starts a call about request id at l
StartAt(t, id, l) == pc' = [pc EXCEPT ![t] = l] /\ arg' = [arg EXCEPT ![t] = id]

LockSubmit(t) ==
  /\ submit_mtx' = Locked(submit_mtx, t)
  /\ start' = IF submit_mtx.depth = 0 THEN Len(log) ELSE start
UnlockSubmit ==
  /\ submit_mtx' = Released(submit_mtx)
  /\ start' = IF submit_mtx.depth = 1 THEN 0 ELSE start

\* the clients make no call once one of them has begun to close the context
Idle(t) == pc[t] = "idle" /\ ~terminateFlag

-----------------------------------------------------------------------------
\* genericAsyncReq(), simpleCallAsync(), callVHAsync(): the alive check and
\* issueRequestID().  The ID of a nowait command is dropped from rem_reqid.
Issue(t, k) ==
  /\ Idle(t) /\ is_alive /\ seq_no < NReq
  /\ seq_no' = seq_no + 1
  /\ kind' = [kind EXCEPT ![seq_no] = k]
  /\ owner' = [owner EXCEPT ![seq_no] = t]
  /\ rem_reqid' = IF k = "NOWAIT" THEN rem_reqid ELSE rem_reqid \cup {seq_no}
  /\ StartAt(t, seq_no, "push")
  /\ UNCHANGED <<comqVars, state, submit_mtx, idleVars, progVars, veVars, histVars>>

\* synchronize() of a dead context waits for VEO_REQUEST_ID_INVALID; every
\* other submission just returns it
SyncDead(t) ==
  /\ Idle(t) /\ ~is_alive /\ "SYNC" \in Calls
  /\ StartAt(t, INVALID, "wait_try")
  /\ UNCHANGED <<comqVars, ctxVars, idleVars, cmdVars, progVars, veVars, histVars>>

\* pushRequest() under submit_mtx, which callVHAsync() keeps until notifyAll()
Push(t) ==
  /\ pc[t] = "push" /\ CanLock(submit_mtx, t)
  /\ pushRequest(arg[t])
  /\ log' = Append(log, arg[t])
  /\ IF isVH(arg[t])
     THEN LockSubmit(t) /\ GoTo(t, "notify")
     ELSE UNCHANGED <<submit_mtx, start>> /\ GoTo(t, "progress")
  /\ UNCHANGED <<inflight, completion, status, terminateFlag, state, seq_no,
                 rem_reqid, idleVars, cmdVars, progVars, veVars, retired>>

\* progress(): leave it to the progress thread if commands are in flight
CheckInFlight(t) ==
  /\ pc[t] = "progress"
  /\ GoTo(t, IF emptyInFlight THEN "try" ELSE "notify")
  /\ UNCHANGED <<comqVars, ctxVars, idleVars, cmdVars, progVars, arg, veVars, histVars>>

\* prog_mtx.try_lock(): enter _progress_nolock(), or go on without it
TryLock(t, from, in, otherwise) ==
  /\ pc[t] = from
  /\ \/ /\ CanLock(prog_mtx, t)
        /\ prog_mtx' = Locked(prog_mtx, t) /\ ppc' = "recv"
        /\ GoTo(t, in)
     \/ /\ ~CanLock(prog_mtx, t)
        /\ UNCHANGED <<prog_mtx, ppc>>
        /\ GoTo(t, otherwise)
  /\ UNCHANGED <<comqVars, ctxVars, idleVars, cmdVars, hand, arg, veVars, histVars>>

\* mutant: every submission path unlocks submit_mtx here, not only callVHAsync()
NotifyUnlocks(t) ==
  /\ pc[t] = "notify"
  /\ NotifyAndGoTo(t, IF kind[arg[t]] = "SYNC" THEN "sync" ELSE "idle")
  /\ UnlockSubmit
  /\ UNCHANGED <<comqVars, state, seq_no, rem_reqid, idleVars, cmdVars, progVars,
                 veVars, log, retired>>

\* notifyAll() at the end of a submission
Notify(t) ==
  /\ pc[t] = "notify"
  /\ NotifyAndGoTo(t, IF kind[arg[t]] = "SYNC" THEN "sync" ELSE "idle")
  /\ IF isVH(arg[t]) THEN UnlockSubmit ELSE UNCHANGED <<submit_mtx, start>>
  /\ UNCHANGED <<comqVars, state, seq_no, rem_reqid, idleVars, cmdVars, progVars,
                 veVars, log, retired>>

\* synchronize(): "if (req_id != 0)" decides whether to wait
SyncCheck(t) ==
  /\ pc[t] = "sync"
  /\ GoTo(t, IF arg[t] # 0 THEN "wait_try" ELSE "idle")
  /\ UNCHANGED <<comqVars, ctxVars, idleVars, cmdVars, progVars, veVars, histVars>>

-----------------------------------------------------------------------------
\* an ID the application has got back from a submission, usable by thread t
SubmitPcs == {"push", "progress", "try", "in_progress", "notify"}
Known(t, id) ==
  /\ id < seq_no /\ kind[id] \in {"VE", "VH"}
  /\ \A u \in App : ~(arg[u] = id /\ pc[u] \in SubmitPcs)
  /\ ShareIds \/ owner[id] = t

\* callWaitResult() and callPeekResult() begin
Begin(t, id, l) ==
  /\ Idle(t) /\ Known(t, id)
  /\ StartAt(t, id, l)
  /\ UNCHANGED <<comqVars, ctxVars, idleVars, cmdVars, progVars, veVars, histVars>>

\* _peekResult() under req_mtx: an unknown ID is an error, a completed command
\* is picked up, an unfinished one sends the caller to unfinished
PeekResult(t, from, unfinished) ==
  /\ pc[t] = from
  /\ \/ /\ arg[t] \notin rem_reqid
        /\ GoTo(t, "idle")
        /\ UNCHANGED <<completion, rem_reqid, retired>>
     \/ /\ arg[t] \in rem_reqid /\ arg[t] \in completion
        /\ takeCompletion(arg[t])
        /\ rem_reqid' = rem_reqid \ {arg[t]}
        /\ retired' = retired \cup {arg[t]}
        /\ GoTo(t, "idle")
     \/ /\ arg[t] \in rem_reqid /\ arg[t] \notin completion
        /\ GoTo(t, unfinished)
        /\ UNCHANGED <<completion, rem_reqid, retired>>
  /\ UNCHANGED <<request, inflight, status, terminateFlag, state, seq_no, submit_mtx,
                 idleVars, cmdVars, progVars, veVars, log, start>>

\* callWaitResult() after its loop: notifyAll()
WaitNotify(t) ==
  /\ pc[t] = "wait_notify"
  /\ NotifyAndGoTo(t, "wait_check")
  /\ UNCHANGED <<comqVars, ctxVars, idleVars, cmdVars, progVars, veVars, histVars>>

\* mutant: the ID is erased before the result is there
WaitCheckErases(t) ==
  /\ pc[t] = "wait_check"
  /\ GoTo(t, IF arg[t] \in rem_reqid THEN "wait_block" ELSE "idle")
  /\ rem_reqid' = rem_reqid \ {arg[t]}
  /\ UNCHANGED <<comqVars, state, seq_no, submit_mtx, idleVars, cmdVars, progVars,
                 veVars, histVars>>

\* ... the ID must still be outstanding ...
WaitCheck(t) ==
  /\ pc[t] = "wait_check"
  /\ GoTo(t, IF arg[t] \in rem_reqid THEN "wait_block" ELSE "idle")
  /\ UNCHANGED <<comqVars, ctxVars, idleVars, cmdVars, progVars, veVars, histVars>>

\* ... block in waitCompletion() until the command is there ...
WaitCompletion(t) ==
  /\ pc[t] = "wait_block" /\ arg[t] \in completion
  /\ takeCompletion(arg[t])
  /\ GoTo(t, "wait_erase")
  /\ UNCHANGED <<request, inflight, status, terminateFlag, ctxVars, idleVars, cmdVars,
                 progVars, arg, veVars, histVars>>

\* ... and return its result, or an error if the ID is gone
WaitErase(t) ==
  /\ pc[t] = "wait_erase"
  /\ rem_reqid' = rem_reqid \ {arg[t]}
  /\ retired' = retired \cup {arg[t]}
  /\ GoTo(t, "idle")
  /\ UNCHANGED <<comqVars, state, seq_no, submit_mtx, idleVars, cmdVars, progVars,
                 veVars, log, start>>

-----------------------------------------------------------------------------
\* reqBlockBegin(), reqBlockEnd(); one level of nesting inside a block is
\* enough to see the mutex recurse, because callVHAsync() takes it again
BlockBegin(t) ==
  /\ Idle(t) /\ "block" \in Calls /\ submit_mtx.owner = None
  /\ LockSubmit(t)
  /\ UNCHANGED <<comqVars, state, seq_no, rem_reqid, idleVars, cmdVars, progVars,
                 pc, arg, veVars, log, retired>>

BlockEnd(t) ==
  /\ pc[t] = "idle" /\ submit_mtx.owner = t
  /\ UnlockSubmit
  /\ UNCHANGED <<comqVars, state, seq_no, rem_reqid, idleVars, cmdVars, progVars,
                 pc, arg, veVars, log, retired>>

-----------------------------------------------------------------------------
\* close(), first part of progressTerminate(): terminate() wakes the progress
\* thread.  The application closes when none of its threads is in a call.
Close(t) ==
  /\ "close" \in Calls /\ \A u \in App : Idle(u)
  /\ submit_mtx.owner = None
  /\ terminate
  /\ pc' = [pc EXCEPT ![t] = "join", ![Progress] = IF @ = "asleep" THEN "woken" ELSE @]
  /\ UNCHANGED <<request, inflight, completion, status, ctxVars, idleVars, cmdVars,
                 progVars, arg, veVars, histVars>>

\* pthread_join()
Join(t) ==
  /\ pc[t] = "join" /\ pc[Progress] = "exited"
  /\ GoTo(t, "close")
  /\ UNCHANGED <<comqVars, ctxVars, idleVars, cmdVars, progVars, arg, veVars, histVars>>

\* send EXIT, wait for its ACK and for the process, destroy the peer: the
\* rings are gone with whatever they held
CloseExit(t) ==
  /\ pc[t] = "close"
  /\ IF is_alive
     THEN state' = "EXIT" /\ child' = "exited" /\ chan' = <<>> /\ rep' = <<>>
     ELSE UNCHANGED <<state, veVars>>
  /\ GoTo(t, "closed")
  /\ UNCHANGED <<comqVars, seq_no, rem_reqid, submit_mtx, idleVars, cmdVars, progVars,
                 arg, histVars>>

-----------------------------------------------------------------------------
(***************************************************************************)
(* _progress_nolock(execVH), run by the owner of prog_mtx.  Only the       *)
(* progress thread passes execVH = TRUE.                                   *)
(***************************************************************************)
execVH == prog_mtx.owner = Progress

\* where the caller of _progress_nolock() continues with return value rv;
\* the application threads release prog_mtx there, progressExec() keeps it
After(l, rv) ==
  CASE l = "in_exec" -> "exec"
    [] l = "in_progress" -> "notify"
    [] l = "in_peek" -> "peek_result"
    [] l = "in_wait" -> IF rv > 0 THEN "wait_notify" ELSE "wait_peek"
    [] OTHER -> l

Return(rv) ==
  /\ ppc' = "none"
  /\ prog_mtx' = IF execVH THEN prog_mtx ELSE Released(prog_mtx)
  /\ GoTo(prog_mtx.owner, After(pc[prog_mtx.owner], rv))

\* the exception of an orphan reply: the C API catches it and returns -1 to
\* the caller, except in the progress thread and in veo_context_sync(), where
\* it ends the process; prog_mtx stays locked either way
Uncaught(t) == t = Progress \/ arg[t] = INVALID \/ kind[arg[t]] = "SYNC"
Throw ==
  IF Uncaught(prog_mtx.owner)
  THEN ppc' = "thrown" /\ GoTo(prog_mtx.owner, "thrown")
  ELSE ppc' = "none" /\ GoTo(prog_mtx.owner, "idle")

\* urpc_get_cmd() and popInFlight(): take the command a reply belongs to
Recv ==
  /\ ppc = "recv"
  /\ \/ /\ rep = <<>>
        /\ ppc' = "send"
        /\ UNCHANGED <<inflight, hand, pc, arg, rep>>
     \/ /\ rep # <<>> /\ Head(rep).id \in inflight
        /\ popInFlight(Head(rep).id)
        /\ hand' = Head(rep).id
        /\ ppc' = "complete"
        /\ UNCHANGED <<pc, arg, rep>>
     \/ /\ rep # <<>> /\ Head(rep).id \notin inflight
        /\ rep' = Tail(rep)
        /\ Throw
        /\ UNCHANGED <<inflight, hand>>
  /\ UNCHANGED <<request, completion, status, terminateFlag, ctxVars, idleVars, cmdVars,
                 prog_mtx, chan, child, histVars>>

\* the result function of a VE command
resultStatus(r) == IF r.exc THEN "EXCEPTION" ELSE "OK"

\* the result function, urpc_slot_done() and pushCompletion(); an exception
\* ends the context and cancels everything
Complete ==
  /\ ppc = "complete"
  /\ setResult(hand, resultStatus(Head(rep)))
  /\ rep' = Tail(rep)
  /\ IF kind[hand] = "NOWAIT"
     THEN retired' = retired \cup {hand} /\ UNCHANGED completion
     ELSE pushCompletion(hand) /\ UNCHANGED retired
  /\ hand' = INVALID
  /\ IF Head(rep).exc
     THEN state' = "EXIT" /\ ppc' = "cancel_req"
     ELSE UNCHANGED state /\ ppc' = "recv"
  /\ UNCHANGED <<request, inflight, terminateFlag, seq_no, rem_reqid, submit_mtx,
                 idleVars, cmdVars, prog_mtx, pc, arg, chan, child, log, start>>

CancelRequests ==
  /\ ppc = "cancel_req"
  /\ cancelRequests
  /\ ppc' = "cancel_fli"
  /\ UNCHANGED <<inflight, terminateFlag, ctxVars, idleVars, cmdVars, prog_mtx, hand,
                 pc, arg, veVars, histVars>>

CancelInFlight ==
  /\ ppc = "cancel_fli"
  /\ cancelInFlight
  /\ Return(-1)
  /\ UNCHANGED <<request, terminateFlag, ctxVars, idleVars, cmdVars, hand, arg, veVars,
                 histVars>>

\* urpc_next_send_slot() and tryPopRequest()
SlotFree == Len(chan) < Slots

PopRequest ==
  /\ ppc = "send"
  /\ \/ /\ ~SlotFree
        /\ Return(0)
        /\ UNCHANGED <<request, hand>>
     \/ /\ SlotFree /\ request = <<>>
        /\ ppc' = "idle"
        /\ UNCHANGED <<request, hand, prog_mtx, pc>>
     \/ /\ SlotFree /\ request # <<>>
        /\ hand' = Head(request) /\ tryPopRequest
        /\ ppc' = "submit"
        /\ UNCHANGED <<prog_mtx, pc>>
  /\ UNCHANGED <<inflight, completion, status, terminateFlag, ctxVars, idleVars, cmdVars,
                 arg, veVars, histVars>>

\* mutant: a VH command does not wait for the commands in flight
VHReadyEarly == execVH

\* a VH command runs only in the progress thread with nothing in flight;
\* otherwise it goes back to the front of the queue
VHReady == emptyInFlight /\ execVH

SubmitVH ==
  /\ ppc = "submit" /\ isVH(hand)
  /\ \/ /\ VHReady
        /\ setResult(hand, "OK")
        /\ pushCompletion(hand)
        /\ ppc' = "recv"
        /\ UNCHANGED <<request, prog_mtx, pc>>
     \/ /\ ~VHReady
        /\ pushRequestFront(hand)
        /\ Return(1)
        /\ UNCHANGED <<status, completion>>
  /\ hand' = INVALID
  /\ UNCHANGED <<inflight, terminateFlag, ctxVars, idleVars, cmdVars, arg, veVars, histVars>>

\* the submit function of a VE command: sent, or -EAGAIN, or failed for good
SubmitVE ==
  /\ ppc = "submit" /\ ~isVH(hand)
  /\ \/ /\ chan' = Append(chan, hand)
        /\ pushInFlight(hand)
        /\ ppc' = "recv"
        /\ UNCHANGED <<request, completion, status>>
     \/ /\ "eagain" \in Faults
        /\ pushRequestFront(hand)
        /\ ppc' = "idle"
        /\ UNCHANGED <<chan, inflight, completion, status>>
     \/ /\ "senderr" \in Faults
        /\ setResult(hand, "ERROR")
        /\ pushCompletion(hand)
        /\ ppc' = "idle"
        /\ UNCHANGED <<chan, inflight, request>>
  /\ hand' = INVALID
  /\ UNCHANGED <<terminateFlag, ctxVars, idleVars, cmdVars, prog_mtx, pc, arg, rep, child,
                 histVars>>

\* nothing received or sent: on every Period-th such round look whether the VE
\* process is gone (waitpid), and if so end the context and cancel everything
IdleRound ==
  /\ ppc = "idle"
  /\ \/ /\ count = 0 /\ (~survival \/ child # "alive")
        /\ survival' = FALSE
        /\ state' = "EXIT"
        /\ ppc' = "cancel_req"
        /\ UNCHANGED <<count, prog_mtx, pc>>
     \/ /\ count # 0 \/ (survival /\ child = "alive")
        /\ count' = (count + 1) % Period
        /\ Return(0)
        /\ UNCHANGED <<survival, state>>
  /\ UNCHANGED <<comqVars, seq_no, rem_reqid, submit_mtx, cmdVars, hand, arg, veVars,
                 histVars>>

_progress_nolock ==
  \/ Recv \/ Complete \/ CancelRequests \/ CancelInFlight
  \/ PopRequest \/ SubmitVH \/ SubmitVE \/ IdleRound

-----------------------------------------------------------------------------
(***************************************************************************)
(* progress_main(): waitProgress(), progressExec(), until terminated or    *)
(* the context has exited.                                                 *)
(***************************************************************************)
WaitRequest ==
  /\ pc[Progress] = "wait_req"
  /\ GoTo(Progress, IF waitRequestSleeps THEN "asleep"
                    ELSE IF terminateFlag THEN "exited" ELSE "lock")
  /\ UNCHANGED <<comqVars, ctxVars, idleVars, cmdVars, progVars, arg, veVars, histVars>>

Woken ==
  /\ pc[Progress] = "woken"
  /\ GoTo(Progress, IF terminateFlag THEN "exited" ELSE "lock")
  /\ UNCHANGED <<comqVars, ctxVars, idleVars, cmdVars, progVars, arg, veVars, histVars>>

\* a condition variable may wake without a notification
SpuriousWakeup ==
  /\ pc[Progress] = "asleep"
  /\ GoTo(Progress, "woken")
  /\ UNCHANGED <<comqVars, ctxVars, idleVars, cmdVars, progVars, arg, veVars, histVars>>

ProgressLock ==
  /\ pc[Progress] = "lock" /\ CanLock(prog_mtx, Progress)
  /\ prog_mtx' = Locked(prog_mtx, Progress)
  /\ GoTo(Progress, "exec")
  /\ UNCHANGED <<comqVars, ctxVars, idleVars, cmdVars, ppc, hand, arg, veVars, histVars>>

\* progressExec(): _progress_nolock(true) while the queues are active
ProgressExec ==
  /\ pc[Progress] = "exec"
  /\ IF isActive
     THEN ppc' = "recv" /\ UNCHANGED prog_mtx /\ GoTo(Progress, "in_exec")
     ELSE UNCHANGED ppc /\ prog_mtx' = Released(prog_mtx) /\ GoTo(Progress, "check")
  /\ UNCHANGED <<comqVars, ctxVars, idleVars, cmdVars, hand, arg, veVars, histVars>>

ProgressCheck ==
  /\ pc[Progress] = "check"
  /\ GoTo(Progress, IF state = "EXIT" THEN "exited" ELSE "wait_req")
  /\ UNCHANGED <<comqVars, ctxVars, idleVars, cmdVars, progVars, arg, veVars, histVars>>

-----------------------------------------------------------------------------
(***************************************************************************)
(* The VE process (external to the host library): its handler loop takes   *)
(* the commands in the order they were sent and replies in that order.     *)
(***************************************************************************)
\* mutant: the VE does not free the slot of a command it has handled
VEReplyAgain ==
  /\ child = "alive" /\ chan # <<>> /\ Len(rep) < Slots
  /\ rep' = Append(rep, [id |-> Head(chan), exc |-> FALSE])
  /\ UNCHANGED <<comqVars, ctxVars, idleVars, cmdVars, progVars, pc, arg, chan, child,
                 histVars>>

VEReply ==
  /\ child = "alive" /\ chan # <<>> /\ Len(rep) < Slots
  /\ rep' = Append(rep, [id |-> Head(chan), exc |-> FALSE])
  /\ chan' = Tail(chan)
  /\ UNCHANGED <<comqVars, ctxVars, idleVars, cmdVars, progVars, pc, arg, child, histVars>>

\* a signal while a command runs: reply EXCEPTION, set the flag, exit
VEException ==
  /\ "exception" \in Faults /\ child = "alive" /\ chan # <<>> /\ Len(rep) < Slots
  /\ rep' = Append(rep, [id |-> Head(chan), exc |-> TRUE])
  /\ chan' = Tail(chan)
  /\ child' = "exited"
  /\ UNCHANGED <<comqVars, ctxVars, idleVars, cmdVars, progVars, pc, arg, histVars>>

VEKilled ==
  /\ "kill" \in Faults /\ child = "alive"
  /\ child' = "killed"
  /\ UNCHANGED <<comqVars, ctxVars, idleVars, cmdVars, progVars, pc, arg, chan, rep, histVars>>

-----------------------------------------------------------------------------
\* a thread inside an API call
CallStep(t) ==
  \/ Push(t) \/ CheckInFlight(t)
  \/ TryLock(t, "try", "in_progress", "notify")
  \/ Notify(t) \/ SyncCheck(t)
  \/ TryLock(t, "wait_try", "in_wait", "wait_notify")
  \/ PeekResult(t, "wait_peek", "wait_try")
  \/ WaitNotify(t) \/ WaitCheck(t) \/ WaitCompletion(t) \/ WaitErase(t)
  \/ TryLock(t, "peek_try", "in_peek", "peek_result")
  \/ PeekResult(t, "peek_result", "idle")
  \/ Join(t) \/ CloseExit(t)

\* the application makes a call
MakeCall(t) ==
  \/ \E k \in Kinds \cap Calls : Issue(t, k)
  \/ SyncDead(t)
  \/ \E id \in Ids : "wait" \in Calls /\ Begin(t, id, "wait_try")
  \/ \E id \in Ids : "peek" \in Calls /\ Begin(t, id, "peek_try")
  \/ BlockBegin(t) \/ BlockEnd(t) \/ Close(t)

ProgressThread ==
  \/ WaitRequest \/ Woken \/ ProgressLock \/ ProgressExec \/ ProgressCheck

Next ==
  \/ \E t \in App : CallStep(t) \/ MakeCall(t)
  \/ _progress_nolock
  \/ ProgressThread \/ SpuriousWakeup
  \/ VEReply \/ VEException \/ VEKilled

\* every started call and the progress thread are scheduled, and a running VE
\* function ends; nothing is assumed about faults, spurious wake-ups and when
\* the application makes its next call
Fairness ==
  /\ \A t \in App : WF_vars(CallStep(t))
  /\ WF_vars(_progress_nolock)
  /\ WF_vars(ProgressThread)
  /\ WF_vars(VEReply)

Spec == Init /\ [][Next]_vars
FairSpec == Spec /\ Fairness

-----------------------------------------------------------------------------
(***************************************************************************)
(* Properties.                                                             *)
(***************************************************************************)
InHand == IF hand = INVALID THEN {} ELSE {hand}
Waiters == {t \in App : pc[t] = "wait_erase"}
Held == {arg[t] : t \in Waiters}
UniqueWaiters == \A t, u \in Waiters : arg[t] = arg[u] => t = u

\* Every submitted command is in exactly one place: the request queue, the
\* hand of _progress_nolock(), in flight, completed, held by the one waiter
\* that took it, or destroyed.  The unique_ptrs moved between the containers
\* by several threads are neither lost nor duplicated.
OnePlace ==
  /\ Distinct(request) /\ UniqueWaiters
  /\ Elems(log) = Elems(request) \cup InHand \cup inflight \cup completion
                    \cup Held \cup retired
  /\ Elems(request) \cap (InHand \cup inflight \cup completion \cup Held \cup retired) = {}
  /\ InHand \cap (inflight \cup completion \cup Held \cup retired) = {}
  /\ inflight \cap (completion \cup Held \cup retired) = {}
  /\ completion \cap (Held \cup retired) = {}
  /\ Held \cap retired = {}

\* A finished command's result can still be picked up: its ID is outstanding
\* as long as the result waits in the completion map or with a waiter
\* (callWaitResult() and _peekResult() never find a result without its ID).
Claimable ==
  \A i \in completion \cup Held : kind[i] # "NOWAIT" => i \in rem_reqid

\* While the context runs, the commands on the wire are exactly the commands
\* in flight: no reply can arrive for a command popInFlight() does not know.
WireIds == Elems(chan) \cup {rep[n].id : n \in DOMAIN rep}
WireMatchesInFlight ==
  state # "EXIT" =>
    WireIds = inflight \cup (IF ppc = "complete" THEN {hand} ELSE {})

\* A command gets its result only once and only in the order of submission:
\* the abstract specification of the command stream is implemented.
Stream == INSTANCE CommandStream WITH result <- status
StreamSpec == Stream!Spec

\* The progress thread does not sleep on a submitted request unless some
\* thread is still on its way to notifyAll().
WakeupPending ==
  pc[Progress] = "asleep" /\ request # <<>> =>
    \E t \in App : pc[t] \in {"progress", "try", "in_progress", "notify",
                              "in_wait", "wait_notify"}

\* Inside a request block only requests of the owner enter the queue, VH
\* submissions inside the block (which lock submit_mtx again) included.
BlockContiguous ==
  submit_mtx.owner # None =>
    \A n \in (start + 1) .. Len(log) : owner[log[n]] = submit_mtx.owner

Returned(t) == pc[t] \in {"idle", "closed"} \/ ppc = "thrown"

\* Every API call returns while the VE process lives, close() included (or the
\* host process has been brought down by an exception nobody catches).
CallsReturn ==
  \A t \in App : ~Returned(t) ~> (Returned(t) \/ child # "alive")

\* A VE process that dies does not keep a call from returning either: the death
\* is noticed and the outstanding commands are cancelled.  VH commands and
\* close() are excepted: they need the progress thread, which has ended.
DeadCallsReturn ==
  \A t \in App : ~Returned(t) ~>
     (Returned(t) \/ terminateFlag \/ \E c \in 0 .. (seq_no - 1) : isVH(c))

\* callWaitResult() returns: whatever happens to the VE process and whoever
\* else drives the context, a thread that waits for a request it submitted is
\* not left behind.  veo_call_wait_result() is documented to report success,
\* exception or error.
WaitReturns ==
  \A t \in App : pc[t] = "wait_try" ~> (pc[t] = "idle" \/ ppc = "thrown")

\* synchronize() returns with every command submitted before it finished, as
\* long as the context has not exited; the context's very first request (ID 0)
\* is excepted, because synchronize() does not wait for it.
SyncReturns(t) ==
  /\ pc[t] # "idle" /\ pc'[t] = "idle"
  /\ arg[t] # INVALID /\ kind[arg[t]] = "SYNC" /\ state' # "EXIT"
FinishedBefore(id) ==
  \A m, n \in DOMAIN log : m < n /\ log[n] = id => status'[log[m]] # "UNFINISHED"
SyncBarrier ==
  [][\A t \in App : SyncReturns(t) /\ arg[t] # 0 => FinishedBefore(arg[t])]_vars
=============================================================================
