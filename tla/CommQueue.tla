------------------------------ MODULE CommQueue ------------------------------
(***************************************************************************)
(* The three command containers of one VEO context (Command.hpp,           *)
(* Command.cpp): the request deque, the map of commands in flight on the   *)
(* VE and the map of completed commands, with the operations that move a   *)
(* command from one to the next.  A command is named by its request ID; a  *)
(* CmdPtr is a unique_ptr, so a container holds the command itself.  Every *)
(* operation below runs under req_fli_mtx or under the map's own mutex and *)
(* is one atomic step, except cancelAll, which takes no lock for its two   *)
(* loops and is therefore two operators.                                   *)
(***************************************************************************)
EXTENDS Integers, Sequences, FiniteSets

CONSTANT NReq                 \* bound on the request IDs issued in a behaviour

ASSUME NReqAssumption == NReq \in Nat

Ids == 0 .. (NReq - 1)

\* VEO_REQUEST_ID_INVALID, also the null CmdPtr
INVALID == -1

Statuses == {"UNFINISHED", "OK", "EXCEPTION", "ERROR"}

VARIABLES request,            \* BlockingQueue request
          inflight,           \* BlockingMap inflight, keyed by URPC request
          completion,         \* BlockingMap completion, keyed by request ID
          status,             \* Command::status of every command
          terminateFlag       \* set once, by terminate()

comqVars == <<request, inflight, completion, status, terminateFlag>>

\* the set of elements of a sequence
Elems(s) == {s[i] : i \in DOMAIN s}

\* no element of a sequence occurs twice
Distinct(s) == \A m, n \in DOMAIN s : s[m] = s[n] => m = n

CommQueueInit ==
  /\ request = <<>>
  /\ inflight = {}
  /\ completion = {}
  /\ status = [i \in Ids |-> "UNFINISHED"]
  /\ terminateFlag = FALSE

CommQueueType ==
  /\ request \in Seq(Ids)
  /\ inflight \subseteq Ids
  /\ completion \subseteq Ids
  /\ status \in [Ids -> Statuses]
  /\ terminateFlag \in BOOLEAN

-----------------------------------------------------------------------------
emptyInFlight == inflight = {}

isActive == inflight # {} \/ request # <<>>

pushRequest(c) == request' = Append(request, c)

\* mutant: a command that could not be submitted is queued last
pushRequestFrontAppends(c) == request' = Append(request, c)

pushRequestFront(c) == request' = <<c>> \o request

tryPopRequest == request' = Tail(request)

pushInFlight(c) == inflight' = inflight \cup {c}

\* mutant: tryFindNoWait() without the erase
popInFlightKeeps(c) == UNCHANGED inflight

popInFlight(c) == inflight' = inflight \ {c}

\* insert into the completion map; notify_all wakes every waitCompletion(),
\* which re-tests its condition, so a waiter is simply enabled by the insert
pushCompletion(c) == completion' = completion \cup {c}

\* peekCompletion() and waitCompletion() move the command out of the map
takeCompletion(c) == completion' = completion \ {c}

setResult(c, s) == status' = [status EXCEPT ![c] = s]

\* mutant: waitRequest() tests the in-flight map only
waitRequestIgnoresRequests == inflight = {} /\ ~terminateFlag

\* waitRequest() puts the progress thread to sleep under this condition; it is
\* an if and not a while, so a wake-up returns whatever the queues hold
waitRequestSleeps ==
  request = <<>> /\ inflight = {} /\ ~terminateFlag

\* mutant: the test of notifyAll() inverted
notifiesInverted == request = <<>>

\* notifyAll() signals req_fli_cond only if there is a request to submit
notifies == request # <<>>

\* first loop of cancelAll(): drain the request deque into completion
cancelRequests ==
  /\ completion' = completion \cup Elems(request)
  /\ status' = [i \in Ids |-> IF i \in Elems(request) THEN "ERROR" ELSE status[i]]
  /\ request' = <<>>

\* mutant: cancelAll() without its second loop
cancelInFlightSkipped == UNCHANGED <<completion, status, inflight>>

\* second loop of cancelAll(): drain the in-flight map into completion
cancelInFlight ==
  /\ completion' = completion \cup inflight
  /\ status' = [i \in Ids |-> IF i \in inflight THEN "ERROR" ELSE status[i]]
  /\ inflight' = {}

terminate == terminateFlag' = TRUE
=============================================================================
