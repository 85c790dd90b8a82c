----------------------------- MODULE ContextInv -----------------------------
(***************************************************************************)
(* The inductive invariants behind the theorems about Context: how the     *)
(* locks, the program counters and the request IDs hang together and the   *)
(* order of the commands (ContextProofs), what is on the wire and what a   *)
(* call may rely on (ContextTheorems).                                     *)
(***************************************************************************)
EXTENDS Context

InPcs == {"in_progress", "in_wait", "in_peek", "in_exec"}

\* Control states in which a call holds the ID of an issued command.
IdPcs == SubmitPcs \cup {"sync", "wait_erase"}

\* Each thread stays in its own control states.
PcInv ==
  /\ \A t \in App : pc[t] \in AppPcs
  /\ pc[Progress] \in ProgressPcs

\* A recursive mutex is free exactly when its depth is zero.
MutexInv(m) == m.owner = None <=> m.depth = 0

\* _progress_nolock() is active exactly when one thread is inside it, and that
\* thread owns prog_mtx (every caller locks it first); an uncaught exception
\* leaves the mutex locked for good.
ProgInv ==
  /\ MutexInv(prog_mtx)
  /\ \A t \in Threads : pc[t] \in InPcs =>
       prog_mtx.owner = t /\ ppc \notin {"none", "thrown"}
  /\ ppc \notin {"none", "thrown"} =>
       prog_mtx.owner \in Threads /\ pc[prog_mtx.owner] \in InPcs
  /\ ppc = "thrown" =>
       prog_mtx.owner \in Threads /\ pc[prog_mtx.owner] = "thrown"

\* The progress thread locks prog_mtx once and only around progressExec().
ExecInv ==
  /\ pc[Progress] = "exec" => prog_mtx.owner = Progress /\ ppc = "none"
  /\ prog_mtx.owner = Progress =>
       prog_mtx.depth = 1 /\ pc[Progress] \in {"exec", "in_exec", "thrown"}

\* A command is in the hand of _progress_nolock() only between taking it out of
\* one container and putting it into the next.
HandInv ==
  /\ ppc \in {"complete", "submit"} => hand \in Ids
  /\ ppc \notin {"complete", "submit"} => hand = INVALID
  /\ ppc = "complete" => rep # <<>> /\ Head(rep).id = hand

\* submit_mtx is held by a VH submission until its notifyAll(); only a VE
\* submission calls progress() on the way there.
SubmitInv ==
  /\ MutexInv(submit_mtx)
  /\ submit_mtx.owner # Progress
  /\ \A t \in App : pc[t] \in {"progress", "try", "in_progress"} => ~isVH(arg[t])
  /\ \A t \in App : pc[t] = "notify" /\ isVH(arg[t]) => submit_mtx.owner = t

\* A call carries an issued ID from the moment it has one.
ArgInv ==
  /\ \A t \in App : pc[t] \in IdPcs => arg[t] # INVALID
  /\ \A t \in App : arg[t] # INVALID => arg[t] < seq_no

\* close() begins when nobody is in a call, and destroys the URPC peer when
\* the progress thread has ended.
CloseInv ==
  /\ terminateFlag => \A t \in App : pc[t] \in {"idle", "join", "close", "closed"}
  /\ \A t \in App : pc[t] \in {"join", "close"} => terminateFlag
  /\ \A t \in App : pc[t] = "close" => pc[Progress] = "exited"

\* The control state of all threads, locks included.
Control == PcInv /\ ProgInv /\ ExecInv /\ SubmitInv /\ ArgInv /\ CloseInv

\* The type invariant with all of this is inductive.
TypeInv == TypeOK /\ Control /\ HandInv

\* Submitted IDs have been issued; the ID of a thread that is about to push
\* has not been submitted and is the thread's own.
LogInv ==
  /\ \A i \in Elems(log) : i < seq_no
  /\ \A t \in App : pc[t] = "push" => arg[t] \notin Elems(log)
  /\ \A t, u \in App : pc[t] = "push" /\ pc[u] = "push" /\ arg[t] = arg[u] => t = u

IInv == TypeInv /\ LogInv /\ OnePlace
-----------------------------------------------------------------------------
(***************************************************************************)
(* The order of the commands and what is on the wire.                      *)
(***************************************************************************)
\* Command i was submitted before command j, in a log l; the commands, or the
\* replies, in a sequence s are in the order of submission.
Before(l, i, j) == \E m, n \in DOMAIN l : m < n /\ l[m] = i /\ l[n] = j
Sorted(l, s) == \A m, n \in DOMAIN s : m < n => Before(l, s[m], s[n])
SortedReplies(l, s) == \A m, n \in DOMAIN s : m < n => Before(l, s[m].id, s[n].id)

ReplyIds(s) == {s[n].id : n \in DOMAIN s}

\* The command that is being submitted.
Sending == IF ppc = "submit" THEN {hand} ELSE {}

\* The reply ring, the command ring, the hand and the request queue, one after
\* the other, hold commands in the order of submission.
OrderInv ==
  /\ Distinct(log)
  /\ SortedReplies(log, rep) /\ Sorted(log, chan) /\ Sorted(log, request)
  /\ \A i \in ReplyIds(rep), j \in Elems(chan) : Before(log, i, j)
  /\ \A i \in WireIds, j \in Elems(request) \cup Sending : Before(log, i, j)
  /\ \A i \in Sending, j \in Elems(request) : Before(log, i, j)
  /\ WireIds \subseteq Elems(log)

\* A submitted command has a result exactly when it has left the queue, the hand
\* of _progress_nolock() and the in-flight map.
Live == Elems(request) \cup InHand \cup inflight
StatusInv ==
  \A i \in Ids : status[i] = "UNFINISHED" <=> (i \in Live \/ i \notin Elems(log))

\* The in-flight map and the rings; they part only when the context has exited,
\* and a command in flight is on the wire until close() destroys the peer.
WireInv ==
  /\ ppc \in {"cancel_req", "cancel_fli"} => state = "EXIT"
  /\ \A t \in App : pc[t] = "closed" => terminateFlag /\ pc[Progress] = "exited"
  /\ (\A t \in App : pc[t] # "closed") => inflight \subseteq WireIds
  /\ WireMatchesInFlight

StreamInv == IInv /\ OrderInv /\ StatusInv /\ WireInv

-----------------------------------------------------------------------------
(***************************************************************************)
(* What a call may rely on.                                                *)
(***************************************************************************)
\* The ID of a command stays outstanding until the command is destroyed.
ClaimInv ==
  \A i \in Ids : i < seq_no /\ kind[i] # "NOWAIT" /\ i \notin retired => i \in rem_reqid

\* A command that was executed was the oldest one without a result ...
Executed ==
  \A i \in Elems(log) : status[i] \in {"OK", "EXCEPTION"} =>
    \A j \in Ids : Before(log, j, i) => status[j] # "UNFINISHED"

\* ... and a VH command fails only when the context exits.
FailedVH == \A i \in Ids : isVH(i) /\ status[i] = "ERROR" => state = "EXIT"

\* A thread pushes a command it has issued itself.
PushInv == \A t \in App : pc[t] = "push" => owner[arg[t]] = t

IsSync(t) == arg[t] # INVALID /\ kind[arg[t]] = "SYNC"

\* Nobody but the thread in synchronize() knows the ID of its command.
SyncInv ==
  /\ \A t \in App : IsSync(t) =>
       pc[t] \notin {"peek_try", "in_peek", "peek_result"} /\ arg[t] \notin retired
  /\ \A t, u \in App : IsSync(t) /\ arg[u] = arg[t] => u = t

CallInv ==
  StreamInv /\ ClaimInv /\ Executed /\ FailedVH /\ PushInv /\ SyncInv /\ BlockContiguous

\* On the way to notifyAll(), with a request just pushed or put back.
OnTheWay == {"progress", "try", "in_progress", "notify", "wait_notify"}
WakeInv ==
  pc[Progress] = "asleep" /\ request # <<>> => \E t \in App : pc[t] \in OnTheWay

PeekPcs == {"peek_try", "in_peek", "peek_result"}

\* Nobody peeks, the VE process neither raises an exception nor dies, and every
\* command is sent or fails for good ...
Calm == "peek" \notin Calls /\ Faults \subseteq {"senderr"}

\* ... so that the context ends by close() only, behind the progress thread.
CalmInv ==
  /\ \A t \in App : pc[t] \notin PeekPcs
  /\ survival /\ \A n \in DOMAIN rep : ~rep[n].exc
  /\ state = "EXIT" \/ child # "alive" => terminateFlag /\ pc[Progress] = "exited"

CalmWakeInv == Calm => CalmInv /\ WakeInv
=============================================================================
