--------------------------- MODULE ProcHandleInv ----------------------------
(***************************************************************************)
(* The inductive invariants behind the theorems about ProcHandle: the ring *)
(* of the main context (IInv), the vector of contexts (VectorInv), and the *)
(* URPC peers and the VE threads that serve them (PeerInv).                *)
(***************************************************************************)
EXTENDS ProcHandle

IsSeq(s) == s \in Seq(Range(s))

Pushed == {"wait", "drive", "block", "peek"}
Waits(t) == pc[t] \in Pushed \cup {"push"}
Syncs(t) == Waits(t) /\ rq[t].op = "SYNC"
Peering(t) == pc[t] \in {"attach", "reply"}

TypeInv ==
  /\ pc = [t \in App |-> pc[t]] /\ rq = [t \in App |-> rq[t]]
  /\ res = [t \in App |-> res[t]] /\ new = [t \in App |-> new[t]]
  /\ child = "alive" => IsSeq(request) /\ IsSeq(inflight) /\ IsSeq(chan) /\ IsSeq(rep)

\* Who holds which mutex.
LockInv(t) ==
  /\ pc[t] \in {"open", "closing", "exit", "exit_closing"} => ctx_mutex = t
  /\ Waits(t) /\ rq[t].op = "PCI" => ctx_mutex = t
  /\ Syncs(t) \/ Peering(t) \/ pc[t] = "flag" => ctx_mutex = t /\ submit_mtx = t

\* A SYNC has an answer only when the queues are empty, but for the first
\* request of a process that has no context yet.
SyncInv(t) ==
  child = "alive" /\ Syncs(t) =>
    /\ pc[t] = "push" => res[t] = <<>> /\ rq[t].by = t
    /\ res[t] # <<>> /\ ctx # <<>> => request = <<>> /\ inflight = <<>>

\* The NEWPEER of thread t is all there is on the way to or from the VE.
Alone(t) ==
  /\ request = <<>> /\ inflight = <<>>
  /\ \/ chan = <<>> /\ Len(rep) <= 1
     \/ rep = <<>> /\ chan = <<Request("NEWPEER", Null, new[t])>>

\* The request with ID 0 has been issued.
Numbered(t) ==
  \/ pc[t] \in {"close", "closing", "exit_closing", "attach", "reply", "flag"}
  \/ pc[t] \in Pushed /\ rq[t].op = "SYNC"

ThreadInv(t) ==
  /\ LockInv(t) /\ SyncInv(t)
  /\ child = "alive" /\ Peering(t) => Alone(t)
  /\ child = "alive" /\ Numbered(t) => seq_no = 1

StateInv ==
  /\ child = "alive" => state # "EXIT" /\ (ctx # <<>> => seq_no = 1)
  /\ child = "alive" /\ vpc # "poll" => chan # <<>>
  /\ stuck => prog_mtx \in App

\* A SYNC that somebody waits for is the last of the queue.
SyncLast(q, i) ==
  q[i].op = "SYNC" /\ q[i].by # Null =>
    /\ i = Len(q) /\ q[i].by \in App
    /\ pc[q[i].by] \in Pushed /\ rq[q[i].by].op = "SYNC" /\ res[q[i].by] = <<>>

QueueInv ==
  child = "alive" =>
    /\ ~stuck => \A i \in 1 .. Len(request) : SyncLast(request, i)
    /\ \A i \in 1 .. Len(inflight) : inflight[i].op # "SYNC"

\* The commands in flight are those in the two rings, in order.
Ordered(cmds, r, c) ==
  /\ Len(cmds) = Len(r) + Len(c)
  /\ \A i \in 1 .. Len(r) : r[i].to = cmds[i]
  /\ \A i \in 1 .. Len(c) : c[i] = cmds[Len(r) + i]

WireInv ==
  child = "alive" /\ (\A t \in App : ~Peering(t)) => Ordered(inflight, rep, chan)

IInv == TypeInv /\ StateInv /\ QueueInv /\ WireInv /\ \A t \in App : ThreadInv(t)

-----------------------------------------------------------------------------
Opening(t) == pc[t] \in {"attach", "reply", "flag"}
Closing(t) == pc[t] \in {"close", "closing", "exit_closing"}
Exiting(t) == pc[t] \in {"exit", "exit_closing"}
Pinned == core[Main] >= 0
InCtx(c) == \E i \in 1 .. Len(ctx) : ctx[i] = c

\* The main context comes first, then the others in the order of their peers
\* and, if they are pinned, of their cores.
CtxInv ==
  /\ made \in 0 .. NCtx /\ ctx \in Seq(0 .. made)
  /\ core \in [0 .. NCtx -> -1 .. NCtx] /\ core[Main] \in {-1, 0}
  /\ \A i \in 1 .. Len(ctx) :
       (ctx[i] = Main <=> i = 1) /\ core[ctx[i]] \in IF Pinned THEN 0 .. ctx[i] ELSE {-1}
  /\ \A i, j \in 1 .. Len(ctx) : i < j =>
       ctx[i] < ctx[j] /\ (Pinned => core[ctx[i]] < core[ctx[j]])

\* The context being opened is the newest and not in the vector yet; one being
\* closed is in it, and in the hands of one thread.
HoldInv(t) ==
  /\ Opening(t) => new[t] = made /\ made >= 1 /\ ctx # <<>> /\ ~InCtx(made)
  /\ Closing(t) => new[t] # Main /\ InCtx(new[t])
  /\ Exiting(t) => \A u \in App \ {t} : pc[u] = "idle"
  /\ Closing(t) => \A u \in App \ {t} : Closing(u) => new[u] # new[t]

VectorInv == CtxInv /\ \A t \in App : HoldInv(t)

-----------------------------------------------------------------------------
\* NEWPEER goes past the queues.
Usual(q) == q = Request(q.op, q.by, q.a) /\ q.op # "NEWPEER"
OpsInv ==
  /\ \A t \in App : Usual(rq[t])
  /\ child = "alive" =>
       /\ \A i \in 1 .. Len(request) : request[i].op # "NEWPEER"
       /\ \A i \in 1 .. Len(inflight) : inflight[i].op # "NEWPEER"

\* Once an exception has left prog_mtx locked, no SYNC is answered any more.
StuckInv ==
  child = "alive" /\ stuck => seq_no = 1 /\ \A t \in App : Syncs(t) => res[t] = <<>>

\* newpeer_handler() works for the context being opened.
FrameInv ==
  /\ IF vpc = "poll" THEN frame = Null ELSE frame = made /\ \E t \in App : Peering(t)
  /\ vpc = "create" => thr[made] = "none"

\* Its reply says whether there is a thread; the worker may take it away.
ReplyInv(t) ==
  Peering(t) =>
    /\ chan # <<>> /\ vpc # "reply" => thr[made] = "none"
    /\ ~stuck => chan # <<>> \/ rep # <<>>
    /\ rep # <<>> /\ Head(rep).val = 1 => thr[made] = "none"

\* A thread that has not read its argument is that of the newest peer, and
\* one that serves a peer is that of a context open or being opened.
LoopInv(c) ==
  /\ c > made => thr[c] = "none"
  /\ thr[c] = "created" => c = made /\ (stuck \/ \E t \in App : Opening(t))
  /\ peer[c] = "flagged" => thr[c] = "loop"
  /\ ~stuck /\ thr[c] \in {"created", "loop"} /\ peer[c] # "left" =>
       InCtx(c) \/ (c = made /\ \E t \in App : Opening(t))

Served(c) ==
  \/ peer[c] = "flagged" /\ thr[c] = "loop"
  \/ peer[c] = "exit" /\ thr[c] \in {"loop", "gone"}

PeerStates == {"none", "created", "attached", "flagged", "exit", "left", "destroyed"}

PeerInv ==
  /\ peer \in [Peers -> PeerStates] /\ thr \in [Peers -> {"none", "created", "loop", "gone"}]
  /\ OpsInv /\ StuckInv
  /\ child = "alive" /\ ~crashed =>
       /\ FrameInv /\ (\A t \in App : ReplyInv(t)) /\ \A c \in Peers : LoopInv(c)
       /\ \A c \in Peers : InCtx(c) => Served(c)
       /\ \A t \in App : pc[t] \in {"closing", "exit_closing"} => peer[new[t]] = "exit"
=============================================================================
