-------------------------- MODULE AsyncTransferInv ---------------------------
(***************************************************************************)
(* The inductive invariant behind the theorems about AsyncTransfer: the    *)
(* commands of the context stand in its rings and queues in the order of   *)
(* their IDs, those of one request form chains, and the result of a        *)
(* command is taken by its successor in the chain, by the VH command of a  *)
(* large call or by the waiting thread.                                    *)
(***************************************************************************)
EXTENDS AsyncTransfer

Issued == 0 .. (seq_no - 1)
RepIds == {rep[n].id : n \in DOMAIN rep}
Pending == Elems(request) \cup inflight
Increasing(s) == \A m, n \in DOMAIN s : m < n => s[m] < s[n]

\* Once the context has exited and cancelled its commands.
Over == state = "EXIT" /\ driver # "cancelling"

\* The rings and the queue, one after the other, are in the order of the IDs;
\* an EXCEPTION is the last reply.
QueueInv ==
  /\ Increasing(request) /\ Increasing(chan)
  /\ \A m, n \in DOMAIN rep : m < n => rep[m].id < rep[n].id
  /\ \A i \in RepIds, j \in Elems(chan) : i < j
  /\ \A i \in RepIds \cup Elems(chan), j \in Elems(request) : i < j
  /\ Elems(request) \cup Elems(chan) \cup RepIds \subseteq Issued
  /\ inflight = IF Over THEN {} ELSE Elems(chan) \cup RepIds
  /\ state = "EXIT" => rep = <<>> /\ child # "alive"
  /\ driver # "running" => state = "EXIT"
  /\ \A n \in DOMAIN rep : rep[n].exc => n = Len(rep) /\ child = "exited"
  /\ Over => \A c \in Elems(request) : cmd[c].op = "finish"
  /\ \A c \in Elems(chan) \cup RepIds : cmd[c].op \notin {"empty", "finish"}

-----------------------------------------------------------------------------
\* The commands of thread t, and those of one kind.
Of(t) == {c \in Issued : cmd[c].t = t}
Chain(t, o) == {c \in Of(t) : cmd[c].op = o}
Top(t, o, c) == c \in Chain(t, o) /\ \A d \in Chain(t, o) : d <= c

Fragments == {"send", "recv"}

\* What a command r of each kind belongs to.
Suits(r, t) ==
  /\ r.op = "send" => req[t].op = "write" \/ (isLarge(t) /\ req[t].in)
  /\ r.op = "recv" => req[t].op = "read" \/ (isLarge(t) /\ req[t].out)
  /\ r.op = "call" => /\ req[t].op = "call" /\ r.lo = 0
                      /\ r.hi = IF isLarge(t) THEN MaxStack ELSE req[t].size
  /\ r.op = "finish" => isLarge(t)
  /\ r.op = "empty" => req[t].op # "call" /\ req[t].size = 0 /\ r.hi = 0

\* The commands of a thread that may precede one of each kind.
Earlier(o) ==
  IF o \in {"send", "call"} THEN {"send"}
  ELSE IF o \in {"recv", "finish"} THEN {"send", "call", "recv"} ELSE {}

\* A fragment follows its predecessor without a gap.
CommandInv(c, t) ==
  LET o == cmd[c].op
      p == cmd[c].prev
  IN  /\ Suits(cmd[c], t)
      /\ \A d \in Of(t) : d < c => cmd[d].op \in Earlier(o)
      /\ o \notin Fragments => p = INVALID
      /\ o \in Fragments =>
           /\ base(t) <= cmd[c].lo /\ cmd[c].lo < cmd[c].hi /\ cmd[c].hi <= req[t].size
           /\ IF p = INVALID THEN cmd[c].lo = base(t) /\ \A d \in Chain(t, o) : c <= d
              ELSE /\ p \in Chain(t, o) /\ p < c /\ cmd[p].hi = cmd[c].lo
                   /\ \A d \in Chain(t, o) : d < c => d <= p

\* While a large call is being submitted nobody else submits.
Contiguous(t) ==
  /\ isLarge(t) => \A c, d \in Of(t), e \in Issued : c < e /\ e < d => e \in Of(t)
  /\ submit_mtx = t => \A c \in Of(t), e \in Issued : c < e => e \in Of(t)

OpsAt(l) ==
  IF l = "idle" THEN {}
  ELSE IF l \in {"write", "call"} THEN {"send"}
  ELSE IF l \in {"read", "finish"} THEN {"send", "call", "recv"}
  ELSE IF l = "failed" THEN {"send", "recv"} ELSE Ops

Dir(t) == IF pc[t] = "write" THEN "send" ELSE "recv"

\* What thread t has submitted, and when it holds submit_mtx.
PlaceInv(t) ==
  /\ \A c \in Of(t) : cmd[c].op \in OpsAt(pc[t])
  /\ submit_mtx = t <=> isLarge(t) /\ pc[t] \in {"write", "call", "read", "finish"}
  /\ pc[t] = "write" => req[t].op = "write" \/ (isLarge(t) /\ req[t].in)
  /\ pc[t] = "read" => req[t].op = "read" \/ (isLarge(t) /\ req[t].out)
  /\ pc[t] = "call" => req[t].op = "call"
  /\ pc[t] = "finish" => isLarge(t)

\* The loop over the fragments goes on where its last fragment ends.
FragInv(t) ==
  /\ prev[t] # INVALID => pc[t] \in {"write", "read"}
  /\ pc[t] = "call" /\ isLarge(t) => rsize[t] = total(t)
  /\ pc[t] \in {"write", "read"} =>
       IF prev[t] = INVALID THEN rsize[t] = total(t) /\ Chain(t, Dir(t)) = {}
       ELSE Top(t, Dir(t), prev[t]) /\ cmd[prev[t]].hi = req[t].size - rsize[t]

\* The parts of a request are the last commands of their chains.
PartsInv(t) ==
  /\ pc[t] \in {"idle", "write"} => parts[t].write = INVALID
  /\ pc[t] \in {"idle", "write", "call"} => parts[t].call = INVALID
  /\ pc[t] \in {"idle", "write", "call", "read"} => parts[t].read = INVALID
  /\ parts[t].write # INVALID =>
       Top(t, "send", parts[t].write) /\ cmd[parts[t].write].hi = req[t].size
  /\ parts[t].call # INVALID => parts[t].call \in Chain(t, "call")
  /\ parts[t].read # INVALID =>
       Top(t, "recv", parts[t].read) /\ cmd[parts[t].read].hi = req[t].size

\* The ID returned to the application is that of the last command.
RetInv(t) ==
  pc[t] \in {"wait", "done"} =>
    /\ ret[t] \in Of(t) /\ \A d \in Of(t) : d <= ret[t]
    /\ IF isLarge(t) THEN cmd[ret[t]].op = "finish"
       ELSE IF req[t].op = "call" THEN cmd[ret[t]].op = "call"
       ELSE cmd[ret[t]].op \in Fragments \cup {"empty"} /\ cmd[ret[t]].hi = req[t].size

ThreadInv(t) == PlaceInv(t) /\ FragInv(t) /\ PartsInv(t) /\ RetInv(t)

ChainInv ==
  /\ \A c \in Issued : cmd[c].t \in App
  /\ \A t \in App : Contiguous(t) /\ ThreadInv(t) /\ \A c \in Of(t) : CommandInv(c, t)

-----------------------------------------------------------------------------
\* An ID is outstanding until its result has been taken.
DoneInv ==
  /\ rem_reqid = Pending \cup completion /\ Pending \cap completion = {}
  /\ completion \subseteq Issued
  /\ \A c \in Ids : status[c] = "UNFINISHED" <=> c \in Pending \/ c \notin Issued

PartSet(t) == {parts[t].write, parts[t].call, parts[t].read} \ {INVALID}

\* Whoever is to take a result will find its ID.
TakeInv ==
  /\ \A c \in Pending : cmd[c].prev # INVALID => cmd[c].prev \in rem_reqid
  /\ \A t \in App :
       /\ prev[t] # INVALID => prev[t] \in rem_reqid
       /\ isLarge(t) /\ deletes[t] = 0 => PartSet(t) \subseteq rem_reqid
       /\ pc[t] = "wait" => ret[t] \in rem_reqid
       /\ pc[t] = "done" => ret[t] \notin rem_reqid /\ outcome[t] = status[ret[t]]

\* The commands that delete the stack image.
Deletes(c) == cmd[c].op = "finish" \/ simpleCall(c)

DeleteInv ==
  /\ \A t \in App : deletes[t] # 0 =>
       deletes[t] = 1 /\ pc[t] \in {"wait", "done"} /\ Of(t) \cap Pending = {}
  /\ \A t \in App : \A c \in Of(t) : Deletes(c) /\ status[c] = "OK" => deletes[t] = 1

\* A command that succeeded has taken the results of the others, all good.
GoodInv ==
  \A t \in App : \A c, d \in Of(t) : status[c] = "OK" =>
    /\ cmd[c].op \in Fragments /\ cmd[d].op = cmd[c].op /\ d < c =>
         d \notin rem_reqid /\ status[d] = "OK"
    /\ cmd[c].op = "finish" /\ d \in PartSet(t) => d \notin rem_reqid /\ status[d] = "OK"

ResultInv == DoneInv /\ TakeInv /\ DeleteInv /\ GoodInv

-----------------------------------------------------------------------------
\* Commands the VE has not seen.
Unseen == Elems(request) \cup Elems(chan)
Failed(d) == status[d] \in {"ERROR", "EXCEPTION"} \/ \E n \in DOMAIN rep : rep[n].id = d /\ rep[n].exc
BytesOf(c) == Bytes(cmd[c].lo, cmd[c].hi)

\* Nothing outside the request is stored.
RangeInv ==
  /\ \A t \in App : onVE[t] \cup buffer[t] \subseteq Bytes(0, req[t].size)
  /\ \A c \in Issued : \A n \in DOMAIN rep : rep[n].id = c => rep[n].data \subseteq BytesOf(c)

\* A fragment of a transfer that was executed has moved its bytes, and one
\* that succeeded tells of all bytes up to its end.
StoreInv ==
  \A t \in App : \A c \in Of(t) :
    /\ cmd[c].op = "send" /\ req[t].op = "write" =>
         /\ \A n \in DOMAIN rep : rep[n].id = c /\ ~rep[n].exc => BytesOf(c) \subseteq onVE[t]
         /\ status[c] = "OK" => Bytes(0, cmd[c].hi) \subseteq onVE[t]
    /\ cmd[c].op = "recv" /\ req[t].op = "read" =>
         /\ \A n \in DOMAIN rep : rep[n].id = c /\ ~rep[n].exc => rep[n].data = BytesOf(c)
         /\ status[c] = "OK" => Bytes(0, cmd[c].hi) \subseteq buffer[t]

\* The fragments up to c leave no gap.
CoverInv ==
  \A t \in App : \A c \in Of(t) : cmd[c].op \in Fragments =>
    \A x \in Bytes(base(t), cmd[c].hi) : \E d \in Chain(t, cmd[c].op) : d <= c /\ x \in BytesOf(d)

-----------------------------------------------------------------------------
\* What has succeeded was executed before what the VE has not seen.
SeenInv ==
  \A d \in Issued : cmd[d].op \notin {"empty", "finish"} /\ status[d] = "OK" => \A c \in Unseen : d < c

\* Until the function runs, the fragments that arrived are on the stack: no
\* other call comes between them and the function.
BeforeInv(t) ==
  Chain(t, "call") \subseteq Unseen =>
    /\ ran[t] = "no"
    /\ Chain(t, "call") # {} \/ submit_mtx = t =>
         \A d \in Chain(t, "send") \ Unseen : Failed(d) \/ BytesOf(d) \subseteq onVE[t]

\* Once it ran, on part of its stack image only if a fragment failed, what it
\* left is there until it has been read.
RanInv(t) ==
  ran[t] # "no" =>
    /\ Chain(t, "call") # {} /\ \A e \in Chain(t, "call"), c \in Unseen : e < c
    /\ ran[t] = "partial" => /\ isLarge(t) /\ req[t].in
                             /\ parts[t].write = INVALID \/ \E d \in Chain(t, "send") : Failed(d)
    /\ pc[t] = "read" \/ Chain(t, "recv") \cap Unseen # {} => onVE[t] = Bytes(0, req[t].size)
    /\ \A c \in Chain(t, "recv") :
         /\ \A n \in DOMAIN rep : rep[n].id = c /\ ~rep[n].exc => rep[n].data = BytesOf(c)
         /\ status[c] = "OK" => Bytes(base(t), cmd[c].hi) \subseteq buffer[t]

\* The reply to CALL, and where its data go.
CalledInv(t) ==
  \A c \in Chain(t, "call") :
    /\ \A n \in DOMAIN rep : rep[n].id = c /\ ~rep[n].exc =>
         ran[t] # "no" /\ (req[t].out => rep[n].data = BytesOf(c))
    /\ status[c] = "OK" =>
         /\ ran[t] # "no"
         /\ req[t].out => IF isLarge(t) THEN BytesOf(c) \subseteq buffer[t] ELSE outArgs[t] = BytesOf(c)

\* The VH command of a large call hands the whole stack image over.
ImageInv(t) ==
  \A c \in Chain(t, "finish") : status[c] = "OK" /\ Submitted(t) /\ req[t].out =>
    outArgs[t] = Bytes(0, req[t].size)

CallInv ==
  /\ CoverInv /\ SeenInv
  /\ \A t \in App : req[t].op = "call" => BeforeInv(t) /\ RanInv(t) /\ CalledInv(t) /\ ImageInv(t)
=============================================================================
