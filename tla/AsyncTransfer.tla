---------------------------- MODULE AsyncTransfer ----------------------------
(***************************************************************************)
(* Memory transfers and calls with large stack images (AsyncTransfer.cpp,  *)
(* Context::doCallAsync): one request of the application becomes a chain   *)
(* of commands of the context, and the result of the request is put        *)
(* together from theirs.                                                   *)
(*                                                                         *)
(* Every application thread makes one request and waits for it.  The       *)
(* context below the requests is the one of module Context with a round of *)
(* _progress_nolock() taken as one step: what matters here is what happens *)
(* between two commands of a chain.  Bytes are numbered from the start of  *)
(* the transfer or of the stack image.                                     *)
(***************************************************************************)
EXTENDS CommQueue

CONSTANTS App,        \* application threads
          None,       \* no thread
          Requests,   \* requests a thread may make
          PartSend,   \* PART_SENDFRAG (4 MB)
          PartSmall,  \* fragment size for small URPC buffers (1 MB)
          CutSize,    \* default cutsz (2 MB)
          Align,      \* alignment of ALIGN8B
          MaxCmd,     \* urpc_max_send_cmd_size()
          MaxStack,   \* stack bytes one CALL command can carry
          Slots,      \* slots of the URPC ring
          Faults      \* faults of the environment that may happen

\* asyncWriteMem(), asyncReadMem(), callAsync(); copied_in and copied_out say
\* which way the stack image of a call travels
RequestType ==
  [op : {"write", "read", "call"}, size : Nat, in : BOOLEAN, out : BOOLEAN]

ASSUME TransferAssumption ==
  /\ None \notin App
  /\ Requests \subseteq RequestType
  /\ MaxStack \in Nat \ {0} /\ Slots \in Nat \ {0}
  /\ Faults \subseteq {"exception", "kill", "senderr"}

\* what the code's sizes satisfy, with URPC buffers of two megabytes or more;
\* below 6 a cutsz makes fragments of no bytes
ASSUME SizeAssumption ==
  /\ {PartSend, PartSmall, CutSize, Align, MaxCmd} \subseteq Nat \ {0}
  /\ 2 * Align <= PartSmall /\ PartSmall <= PartSend
  /\ CutSize \in 6 .. (2 * PartSmall)
  /\ 2 * PartSmall <= MaxCmd

VARIABLES state,       \* veo_context_state: RUNNING or EXIT
          seq_no,      \* next request ID
          rem_reqid,   \* IDs whose result has not been picked up
          submit_mtx,  \* its owner
          driver,      \* the progress thread: running, cancelling or exited
          cmd,         \* the command behind every ID
          chan, rep,   \* URPC rings: commands sent, replies sent back
          child,       \* the VE process
          req,         \* request of every thread
          pc,          \* control state of every thread
          rsize, prev, \* loop variables of asyncReadMem(), asyncWriteMem()
          parts,       \* doCallAsync(): writereq, callreq, readreq
          ret,         \* request ID returned to the application
          outcome,     \* status the application got for it
          onVE,        \* bytes of the request that VE memory holds
          ran,         \* did the VE function run, and on which stack bytes
          buffer,      \* bytes from the VE in the host buffer or stack image
          outArgs,     \* bytes of the stack image handed to the OUT arguments
          deletes      \* how often the stack image was deleted

ctxVars == <<state, seq_no, rem_reqid, submit_mtx>>
veVars == <<chan, rep, child>>
loopVars == <<rsize, prev, parts>>
retVars == <<ret, outcome>>
dataVars == <<onVE, ran, buffer, outArgs, deletes>>
vars == <<comqVars, ctxVars, driver, cmd, veVars, req, pc, loopVars, retVars, dataVars>>

\* a fragment, the CALL command, the VH commands of an empty transfer and of
\* a large call; lo .. hi - 1 are the bytes it moves
Ops == {"send", "recv", "call", "empty", "finish"}
CmdType == [op : Ops, t : App \cup {None}, lo : Nat, hi : Nat, prev : Ids \cup {INVALID}]
Pcs == {"idle", "write", "call", "read", "finish", "wait", "done", "failed"}
Bytes(lo, hi) == lo .. (hi - 1)
PartIds == [write : Ids \cup {INVALID}, call : Ids \cup {INVALID}, read : Ids \cup {INVALID}]
NoParts == [write |-> INVALID, call |-> INVALID, read |-> INVALID]

TypeOK ==
  /\ CommQueueType
  /\ state \in {"RUNNING", "EXIT"}
  /\ seq_no \in 0 .. NReq /\ rem_reqid \subseteq Ids
  /\ submit_mtx \in App \cup {None}
  /\ driver \in {"running", "cancelling", "exited"}
  /\ cmd \in [Ids -> CmdType]
  /\ chan \in Seq(Ids) /\ rep \in Seq([id : Ids, exc : BOOLEAN, data : SUBSET Nat])
  /\ child \in {"alive", "exited", "killed"}
  /\ req \in [App -> RequestType] /\ pc \in [App -> Pcs]
  /\ rsize \in [App -> Nat] /\ prev \in [App -> Ids \cup {INVALID}]
  /\ parts \in [App -> PartIds]
  /\ ret \in [App -> Ids \cup {INVALID}] /\ outcome \in [App -> Statuses]
  /\ onVE \in [App -> SUBSET Nat] /\ buffer \in [App -> SUBSET Nat]
  /\ ran \in [App -> {"no", "partial", "full"}]
  /\ outArgs \in [App -> SUBSET Nat] /\ deletes \in [App -> Nat]

Init ==
  /\ CommQueueInit
  /\ state = "RUNNING" /\ seq_no = 0 /\ rem_reqid = {} /\ submit_mtx = None
  /\ driver = "running"
  /\ cmd = [i \in Ids |-> [op |-> "empty", t |-> None, lo |-> 0, hi |-> 0, prev |-> INVALID]]
  /\ chan = <<>> /\ rep = <<>> /\ child = "alive"
  /\ req \in [App -> Requests] /\ pc = [t \in App |-> "idle"]
  /\ rsize = [t \in App |-> 0] /\ prev = [t \in App |-> INVALID]
  /\ parts = [t \in App |-> NoParts]
  /\ ret = [t \in App |-> INVALID] /\ outcome = [t \in App |-> "UNFINISHED"]
  /\ onVE = [t \in App |-> {}] /\ ran = [t \in App |-> "no"]
  /\ buffer = [t \in App |-> {}] /\ outArgs = [t \in App |-> {}]
  /\ deletes = [t \in App |-> 0]

-----------------------------------------------------------------------------
(***************************************************************************)
(* The size of the fragments.                                              *)
(***************************************************************************)
\* mutant: the alignment rounds down
ALIGN8BDown(n) == Align * (n \div Align)

ALIGN8B(n) == Align * ((n + Align - 1) \div Align)

\* VEO_SENDFRAG, VEO_RECVFRAG, VEO_SENDCUT and VEO_RECVCUT are not set
defaultFrag == IF MaxCmd < 2 * PartSend THEN PartSmall ELSE PartSend

\* maxfrag of asyncWriteMem() for a transfer of size bytes
writeFrag(size) ==
  IF size >= 5 * defaultFrag THEN defaultFrag
  ELSE IF size > CutSize THEN ALIGN8B(size \div 4)
  ELSE IF size > CutSize \div 2 THEN ALIGN8B(size \div 3)
  ELSE IF size > CutSize \div 3 THEN ALIGN8B(size \div 2)
  ELSE ALIGN8B(size)

\* maxfrag of asyncReadMem()
readFrag(size) ==
  IF size >= 5 * defaultFrag THEN defaultFrag
  ELSE IF size > CutSize THEN ALIGN8B(size \div 5)
  ELSE IF size > CutSize \div 2 THEN ALIGN8B(size \div 4)
  ELSE IF size > CutSize \div 3 THEN ALIGN8B(size \div 2)
  ELSE ALIGN8B(size)

maxfrag(dir, size) == IF dir = "send" THEN writeFrag(size) ELSE readFrag(size)

\* mutant: the last fragment is not cut to what is left
fragmentUncut(dir, size, left) == maxfrag(dir, size)

\* psz of one iteration of the loop, with rsize bytes of size left
fragment(dir, size, left) ==
  IF left <= maxfrag(dir, size) THEN left ELSE maxfrag(dir, size)

-----------------------------------------------------------------------------
(***************************************************************************)
(* The application threads.                                                *)
(***************************************************************************)
is_alive == state # "EXIT" /\ child # "exited"

\* mutant: doCallAsync() does not hold submit_mtx, nor do the submitters
canSubmitAlways(t) == seq_no < NReq

\* mutant: submit_mtx is not recursive; a call that holds it adds no part
canSubmitNotRecursive(t) == submit_mtx = None /\ seq_no < NReq

\* submit_mtx can be taken (it is recursive) and an ID is left
canSubmit(t) == submit_mtx \in {t, None} /\ seq_no < NReq

\* issueRequestID() and pushRequest() of a new command
submit(c) ==
  /\ seq_no' = seq_no + 1
  /\ rem_reqid' = rem_reqid \cup {seq_no}
  /\ cmd' = [cmd EXCEPT ![seq_no] = c]
  /\ pushRequest(seq_no)

command(o, t, lo, hi, p) == [op |-> o, t |-> t, lo |-> lo, hi |-> hi, prev |-> p]

\* the condition of doCallAsync() for its simple case is the negation
isLarge(t) == req[t].op = "call" /\ (req[t].in \/ req[t].out) /\ req[t].size > MaxStack

\* first byte that the fragments of t's request transfer, and their number
base(t) == IF req[t].op = "call" THEN MaxStack ELSE 0
total(t) == req[t].size - base(t)

\* what the application calls: an empty transfer is one VH command, a large
\* call takes submit_mtx for all of its parts
Start(t) ==
  /\ pc[t] = "idle"
  /\ IF ~is_alive
     THEN /\ pc' = [pc EXCEPT ![t] = "failed"]
          /\ UNCHANGED <<comqVars, ctxVars, cmd, loopVars, ret>>
     ELSE IF req[t].op # "call" /\ req[t].size = 0
     THEN /\ canSubmit(t)
          /\ submit(command("empty", t, 0, 0, INVALID))
          /\ ret' = [ret EXCEPT ![t] = seq_no]
          /\ pc' = [pc EXCEPT ![t] = "wait"]
          /\ UNCHANGED <<inflight, completion, status, terminateFlag, state, submit_mtx,
                         loopVars>>
     ELSE /\ isLarge(t) => submit_mtx = None
          /\ submit_mtx' = IF isLarge(t) THEN t ELSE submit_mtx
          /\ rsize' = IF req[t].op # "call" \/ isLarge(t)
                      THEN [rsize EXCEPT ![t] = total(t)] ELSE rsize
          /\ pc' = [pc EXCEPT ![t] = IF req[t].op # "call" THEN req[t].op
                                     ELSE IF isLarge(t) /\ req[t].in THEN "write" ELSE "call"]
          /\ UNCHANGED <<comqVars, state, seq_no, rem_reqid, cmd, prev, parts, ret>>
  /\ UNCHANGED <<driver, veVars, req, outcome, dataVars>>

\* the chain of fragments of thread t ends with request ID id
EndChain(t, id) ==
  /\ prev' = [prev EXCEPT ![t] = INVALID]
  /\ rsize' = [rsize EXCEPT ![t] = total(t)]
  /\ parts' = IF pc[t] = "write" THEN [parts EXCEPT ![t].write = id]
                                 ELSE [parts EXCEPT ![t].read = id]
  /\ ret' = IF req[t].op = "call" THEN ret ELSE [ret EXCEPT ![t] = id]
  /\ pc' = [pc EXCEPT ![t] =
              IF req[t].op = "call" THEN IF @ = "write" THEN "call" ELSE "finish"
              ELSE IF id = INVALID THEN "failed" ELSE "wait"]

\* mutant: every fragment is taken for the first of its chain
chainedToNone(t) == INVALID

\* the request a new fragment depends on
chainedTo(t) == prev[t]

\* one iteration of the loop: sendBuffAsync() or recvBuffAsync() of the next
\* fragment, chained to the previous one
Fragment(t) ==
  LET dir == IF pc[t] = "write" THEN "send" ELSE "recv"
      psz == fragment(dir, total(t), rsize[t])
      lo == req[t].size - rsize[t]
  IN  /\ pc[t] \in {"write", "read"} /\ is_alive /\ canSubmit(t)
      /\ submit(command(dir, t, lo, lo + psz, chainedTo(t)))
      /\ IF psz = rsize[t]
         THEN EndChain(t, seq_no)
         ELSE /\ rsize' = [rsize EXCEPT ![t] = @ - psz]
              /\ prev' = [prev EXCEPT ![t] = seq_no]
              /\ UNCHANGED <<pc, parts, ret>>
      /\ UNCHANGED <<inflight, completion, status, terminateFlag, state, submit_mtx, driver,
                     veVars, req, outcome, dataVars>>

\* the context has died since the last iteration: the chain is given up, its
\* first fragments stay submitted
ChainFails(t) ==
  /\ pc[t] \in {"write", "read"} /\ ~is_alive
  /\ EndChain(t, INVALID)
  /\ UNCHANGED <<comqVars, ctxVars, driver, cmd, veVars, req, outcome, dataVars>>

\* simpleCallAsync(), the whole of a simple call and the middle of a large one
CallStep(t) ==
  /\ pc[t] = "call"
  /\ IF is_alive
     THEN /\ canSubmit(t)
          /\ submit(command("call", t, 0, IF isLarge(t) THEN MaxStack ELSE req[t].size, INVALID))
     ELSE UNCHANGED <<seq_no, rem_reqid, cmd, request>>
  /\ LET id == IF is_alive THEN seq_no ELSE INVALID
     IN  /\ parts' = [parts EXCEPT ![t].call = id]
         /\ ret' = IF isLarge(t) THEN ret ELSE [ret EXCEPT ![t] = id]
         /\ pc' = [pc EXCEPT ![t] = IF ~isLarge(t)
                                    THEN IF id = INVALID THEN "failed" ELSE "wait"
                                    ELSE IF req[t].out THEN "read" ELSE "finish"]
  /\ UNCHANGED <<inflight, completion, status, terminateFlag, state, submit_mtx, driver,
                 veVars, req, rsize, prev, outcome, dataVars>>

\* the end of doCallAsync(): the VH command that collects the results is
\* submitted whatever became of the parts
Finish(t) ==
  /\ pc[t] = "finish" /\ canSubmit(t)
  /\ submit(command("finish", t, 0, 0, INVALID))
  /\ submit_mtx' = None
  /\ ret' = [ret EXCEPT ![t] = seq_no]
  /\ pc' = [pc EXCEPT ![t] = "wait"]
  /\ UNCHANGED <<inflight, completion, status, terminateFlag, state, driver, veVars, req,
                 loopVars, outcome, dataVars>>

\* callWaitResult() of the request
Wait(t) ==
  /\ pc[t] = "wait" /\ ret[t] \in completion
  /\ takeCompletion(ret[t])
  /\ rem_reqid' = rem_reqid \ {ret[t]}
  /\ outcome' = [outcome EXCEPT ![t] = status[ret[t]]]
  /\ pc' = [pc EXCEPT ![t] = "done"]
  /\ UNCHANGED <<request, inflight, status, terminateFlag, state, seq_no, submit_mtx, driver,
                 cmd, veVars, req, loopVars, ret, dataVars>>

-----------------------------------------------------------------------------
(***************************************************************************)
(* The rounds of _progress_nolock(), with the submit and result functions  *)
(* of the commands.                                                        *)
(***************************************************************************)
isVH(c) == cmd[c].op \in {"empty", "finish"}

\* _peekResult() of a part; a part that was never submitted counts as good
peek(id) ==
  IF id = INVALID THEN "OK"
  ELSE IF id \notin rem_reqid THEN "ERROR"
  ELSE IF id \in completion THEN status[id] ELSE "UNFINISHED"

\* the IDs among ids whose results _peekResult() takes
claimed(ids) == ids \cap rem_reqid \cap completion

\* submit functions of the fragments and of CALL; a negative return code of
\* urpc_generic_send() completes the command with an error
SubmitVE ==
  LET c == Head(request)
  IN  /\ driver # "cancelling" /\ rep = <<>> /\ Len(chan) < Slots
      /\ request # <<>> /\ ~isVH(c)
      /\ tryPopRequest
      /\ \/ /\ chan' = Append(chan, c)
            /\ pushInFlight(c)
            /\ UNCHANGED <<completion, status>>
         \/ /\ "senderr" \in Faults
            /\ setResult(c, "ERROR")
            /\ pushCompletion(c)
            /\ UNCHANGED <<chan, inflight>>
      /\ UNCHANGED <<terminateFlag, ctxVars, driver, cmd, rep, child, req, pc, loopVars,
                     retVars, dataVars>>

\* the parts in the order in which the first bad status decides
partsInOrder(t) == <<parts[t].write, parts[t].call, parts[t].read>>

\* status the VH command of a large call reports
collected(t) ==
  LET p == partsInOrder(t)
      bad == {n \in DOMAIN p : peek(p[n]) # "OK"}
  IN  IF bad = {} THEN "OK" ELSE peek(p[CHOOSE n \in bad : \A m \in bad : n <= m])

\* mutant: a VH command does not wait for the commands in flight
vhReadyEarly == driver = "running"

\* VH commands run in the progress thread, with nothing in flight
vhReady == driver = "running" /\ emptyInFlight

SubmitVH ==
  LET c == Head(request)
      t == cmd[c].t
      last == cmd[c].op = "finish"
      ids == IF last THEN claimed(Elems(partsInOrder(t))) ELSE {}
  IN  /\ rep = <<>> /\ Len(chan) < Slots /\ vhReady
      /\ request # <<>> /\ isVH(c)
      /\ tryPopRequest
      /\ setResult(c, IF last THEN collected(t) ELSE "OK")
      /\ completion' = (completion \ ids) \cup {c}
      /\ rem_reqid' = rem_reqid \ ids
      /\ outArgs' = IF last /\ req[t].out /\ peek(parts[t].read) = "OK"
                    THEN [outArgs EXCEPT ![t] = buffer[t]] ELSE outArgs
      /\ deletes' = IF last THEN [deletes EXCEPT ![t] = @ + 1] ELSE deletes
      /\ UNCHANGED <<inflight, terminateFlag, state, seq_no, submit_mtx, driver, cmd, veVars,
                     req, pc, loopVars, retVars, onVE, ran, buffer>>

\* status that the result function of command c sets: a fragment passes on the
\* status of the one before it
resultStatus(c, exc) == IF exc THEN "EXCEPTION" ELSE peek(cmd[c].prev)

\* the result function of RECVBUFF finds no data in an EXCEPTION reply and
\* returns before it looks at the previous fragment
peeks(c, exc) == cmd[c].op \in {"send", "recv"} /\ ~(exc /\ cmd[c].op = "recv")

\* the result function hands the stack image to the OUT arguments and deletes
\* its own; in a large call it only copies it (stack_ is not null)
simpleCall(c) == cmd[c].op = "call" /\ ~isLarge(cmd[c].t)

Recv ==
  LET c == Head(rep).id
      exc == Head(rep).exc
      t == cmd[c].t
      ids == IF peeks(c, exc) THEN claimed({cmd[c].prev}) ELSE {}
  IN  /\ driver # "cancelling" /\ rep # <<>>
      /\ rep' = Tail(rep)
      /\ popInFlight(c)
      /\ setResult(c, resultStatus(c, exc))
      /\ completion' = (completion \ ids) \cup {c}
      /\ rem_reqid' = rem_reqid \ ids
      /\ buffer' = IF exc \/ simpleCall(c) THEN buffer ELSE [buffer EXCEPT ![t] = @ \cup Head(rep).data]
      /\ outArgs' = IF exc \/ ~simpleCall(c) THEN outArgs ELSE [outArgs EXCEPT ![t] = Head(rep).data]
      /\ deletes' = IF simpleCall(c) THEN [deletes EXCEPT ![t] = @ + 1] ELSE deletes
      /\ state' = IF exc THEN "EXIT" ELSE state
      /\ driver' = IF exc THEN "cancelling" ELSE driver
      /\ UNCHANGED <<request, terminateFlag, seq_no, submit_mtx, cmd, chan, child, req, pc,
                     loopVars, retVars, onVE, ran>>

\* cancelAll() after an exception
CancelAll ==
  LET gone == Elems(request) \cup inflight
  IN  /\ driver = "cancelling"
      /\ completion' = completion \cup gone
      /\ status' = [i \in Ids |-> IF i \in gone THEN "ERROR" ELSE status[i]]
      /\ request' = <<>> /\ inflight' = {}
      /\ driver' = "running"
      /\ UNCHANGED <<terminateFlag, ctxVars, cmd, veVars, req, pc, loopVars, retVars, dataVars>>

\* an idle round finds that the VE process has ended
IdleRound ==
  /\ driver = "running" /\ child # "alive" /\ rep = <<>> /\ request = <<>>
  /\ Len(chan) < Slots /\ state = "RUNNING"
  /\ state' = "EXIT"
  /\ driver' = "cancelling"
  /\ UNCHANGED <<comqVars, seq_no, rem_reqid, submit_mtx, cmd, veVars, req, pc, loopVars,
                 retVars, dataVars>>

\* progress_main() leaves its loop once the queues are empty
ProgressExit ==
  /\ driver = "running" /\ state = "EXIT" /\ ~isActive
  /\ driver' = "exited"
  /\ UNCHANGED <<comqVars, ctxVars, cmd, veVars, req, pc, loopVars, retVars, dataVars>>

-----------------------------------------------------------------------------
(***************************************************************************)
(* The VE process: sendbuff_handler(), recvbuff_handler(), call_handler(). *)
(***************************************************************************)
\* the stack images of all calls lie at the same place of the VE stack
sameStack(t, u) == req[t].op = "call" /\ req[u].op = "call"

\* VE memory after bytes of t's request were stored
stored(t, bytes) ==
  [u \in App |-> IF u = t THEN onVE[u] \cup bytes
                 ELSE IF sameStack(t, u) THEN onVE[u] \ bytes ELSE onVE[u]]

\* VE memory after t's function ran: it has used the stack, and left its
\* results in the part that travels back
called(t) ==
  [u \in App |-> IF u = t THEN Bytes(0, req[t].size)
                 ELSE IF sameStack(t, u) THEN {} ELSE onVE[u]]

\* the bytes that the reply to command c carries
replyData(c) ==
  LET t == cmd[c].t
      b == Bytes(cmd[c].lo, cmd[c].hi)
  IN  CASE cmd[c].op = "recv" -> IF req[t].op = "call" THEN b \cap onVE[t] ELSE b
        [] cmd[c].op = "call" -> IF req[t].out THEN b ELSE {}
        [] OTHER -> {}

VEHandle ==
  LET c == Head(chan)
      t == cmd[c].t
      b == Bytes(cmd[c].lo, cmd[c].hi)
  IN  /\ child = "alive" /\ chan # <<>> /\ Len(rep) < Slots
      /\ chan' = Tail(chan)
      /\ rep' = Append(rep, [id |-> c, exc |-> FALSE, data |-> replyData(c)])
      /\ onVE' = CASE cmd[c].op = "send" -> stored(t, b)
                   [] cmd[c].op = "call" -> called(t)
                   [] OTHER -> onVE
      /\ ran' = IF cmd[c].op # "call" THEN ran
                ELSE [ran EXCEPT ![t] =
                        IF req[t].in /\ stored(t, b)[t] # Bytes(0, req[t].size)
                        THEN "partial" ELSE "full"]
      /\ UNCHANGED <<comqVars, ctxVars, driver, cmd, child, req, pc, loopVars, retVars,
                     buffer, outArgs, deletes>>

\* a signal while a command runs: reply EXCEPTION, set the flag, exit
VEException ==
  /\ "exception" \in Faults /\ child = "alive" /\ chan # <<>> /\ Len(rep) < Slots
  /\ chan' = Tail(chan)
  /\ rep' = Append(rep, [id |-> Head(chan), exc |-> TRUE, data |-> {}])
  /\ child' = "exited"
  /\ UNCHANGED <<comqVars, ctxVars, driver, cmd, req, pc, loopVars, retVars, dataVars>>

VEKilled ==
  /\ "kill" \in Faults /\ child = "alive"
  /\ child' = "killed"
  /\ UNCHANGED <<comqVars, ctxVars, driver, cmd, chan, rep, req, pc, loopVars, retVars,
                 dataVars>>

-----------------------------------------------------------------------------
RequestStep(t) ==
  Start(t) \/ Fragment(t) \/ ChainFails(t) \/ CallStep(t) \/ Finish(t) \/ Wait(t)
Drive == SubmitVE \/ SubmitVH \/ Recv \/ CancelAll \/ IdleRound \/ ProgressExit

Next ==
  \/ \E t \in App : RequestStep(t)
  \/ Drive
  \/ VEHandle \/ VEException \/ VEKilled

\* the threads and the VE process are scheduled; faults need not happen
Fairness ==
  /\ \A t \in App : WF_vars(RequestStep(t))
  /\ WF_vars(Drive) /\ WF_vars(VEHandle)

Spec == Init /\ [][Next]_vars
FairSpec == Spec /\ Fairness

-----------------------------------------------------------------------------
(***************************************************************************)
(* Properties.                                                             *)
(***************************************************************************)
Succeeded(t) == pc[t] = "done" /\ outcome[t] = "OK"

\* A transfer whose wait returned OK has moved every byte: the status of the
\* last fragment stands for the whole chain, though each earlier fragment's
\* result was taken by its successor (sendBuffAsync(), recvBuffAsync()).
TransferComplete ==
  \A t \in App : Succeeded(t) =>
    CASE req[t].op = "write" -> onVE[t] = Bytes(0, req[t].size)
      [] req[t].op = "read" -> buffer[t] = Bytes(0, req[t].size)
      [] OTHER -> TRUE

\* A call whose wait returned OK was executed, on the whole stack image, and
\* its OUT arguments hold what the function left there (doCallAsync()).
CallComplete ==
  \A t \in App : Succeeded(t) /\ req[t].op = "call" =>
    /\ ran[t] = "full"
    /\ req[t].out => outArgs[t] = Bytes(0, req[t].size)

\* no part of a large call was refused because the context had died meanwhile
Submitted(t) ==
  isLarge(t) => /\ req[t].in => parts[t].write # INVALID
                /\ parts[t].call # INVALID
                /\ req[t].out => parts[t].read # INVALID

\* The same for a call all of whose parts were submitted, whatever became of
\* them: the VH command of doCallAsync() reports the first failure.
SubmittedCallComplete ==
  \A t \in App : Succeeded(t) /\ req[t].op = "call" /\ Submitted(t) =>
    /\ ran[t] = "full"
    /\ req[t].out => outArgs[t] = Bytes(0, req[t].size)

\* the commands that will read or write the stack image of a call
UsesStack(t) ==
  {c \in Elems(request) \cup inflight : c < seq_no /\ cmd[c].t = t /\ req[t].op = "call"}

\* The stack image of a call is deleted at most once, and no command that is
\* still to be submitted or answered refers to it (the delete[] in the result
\* function of simpleCallAsync() and in the VH command of doCallAsync()).
StackDeletedLast ==
  \A t \in App : deletes[t] > 0 => deletes[t] = 1 /\ UsesStack(t) = {}

\* Whoever takes the results of other commands finds them finished: when the
\* reply to a fragment is processed, and when the VH command of a large call
\* runs, _peekResult() never answers UNFINISHED, and it answers "unknown ID"
\* to nobody.
ResultsReady ==
  /\ rep # <<>> /\ cmd[Head(rep).id].prev # INVALID =>
       cmd[Head(rep).id].prev \in completion \cap rem_reqid
  /\ \A c \in Elems(request) : c = Head(request) /\ cmd[c].op = "finish" /\ vhReady =>
       Elems(partsInOrder(cmd[c].t)) \ {INVALID} \subseteq completion \cap rem_reqid

\* Nothing is left behind by requests that succeeded in all parts: every ID of a chain has
\* been taken by its successor and every stack image was deleted.
NothingLeft ==
  (\A t \in App : Succeeded(t) /\ Submitted(t)) =>
    /\ rem_reqid = {} /\ completion = {} /\ ~isActive
    /\ \A t \in App : req[t].op = "call" => deletes[t] = 1

\* Every fragment that is submitted fits into one URPC command, which
\* recvbuff_handler() requires ("must fit into one URPC transfer").
FragmentsFit ==
  \A c \in Ids : c < seq_no /\ cmd[c].op \in {"send", "recv"} =>
    cmd[c].hi - cmd[c].lo \in 1 .. MaxCmd

\* a thread in the loop over the fragments, or of a large call that will enter
\* it again, has something left to transfer
LoopInv ==
  \A t \in App : pc[t] \in {"write", "read"} \/ (pc[t] = "call" /\ isLarge(t)) =>
    rsize[t] \in 1 .. total(t)

\* inductive strengthening of TypeOK and FragmentsFit
TransferInv == TypeOK /\ LoopInv /\ FragmentsFit

\* As long as the VE process lives, every request returns to the application:
\* the loop over the fragments ends, the chain is executed and the last result
\* arrives.
RequestsReturn ==
  \A t \in App : <>(pc[t] \in {"done", "failed"} \/ child # "alive")
=============================================================================
