---------------------------- MODULE CommandStream ----------------------------
(***************************************************************************)
(* What a VEO context promises about its commands, whichever threads drive *)
(* it: commands are submitted one after the other, finish in the order of  *)
(* submission (README.md: requests of a context are executed in order),    *)
(* may fail at any time, and are destroyed once, after they have finished. *)
(***************************************************************************)
EXTENDS Integers, Sequences

CONSTANT Ids

VARIABLES log,      \* commands in the order of submission
          result,   \* UNFINISHED, OK, EXCEPTION or ERROR
          retired   \* commands whose result has been consumed or dropped

streamVars == <<log, result, retired>>

Submitted == {log[n] : n \in DOMAIN log}

Init ==
  /\ log = <<>>
  /\ result = [i \in Ids |-> "UNFINISHED"]
  /\ retired = {}

Submit ==
  \E i \in Ids \ Submitted :
    /\ log' = Append(log, i)
    /\ UNCHANGED <<result, retired>>

\* the oldest unfinished command is executed; the host learns its result and
\* may drop the command at once (nowait)
Finish ==
  \E n \in DOMAIN log, r \in {"OK", "EXCEPTION"} :
    /\ result[log[n]] = "UNFINISHED"
    /\ \A m \in 1 .. (n - 1) : result[log[m]] # "UNFINISHED"
    /\ result' = [result EXCEPT ![log[n]] = r]
    /\ retired' \in {retired, retired \cup {log[n]}}
    /\ UNCHANGED log

\* some unfinished commands are given up
Fail ==
  \E S \in SUBSET {i \in Submitted : result[i] = "UNFINISHED"} :
    /\ result' = [i \in Ids |-> IF i \in S THEN "ERROR" ELSE result[i]]
    /\ UNCHANGED <<log, retired>>

\* a finished command is consumed, once
Consume ==
  \E i \in Submitted \ retired :
    /\ result[i] # "UNFINISHED"
    /\ retired' = retired \cup {i}
    /\ UNCHANGED <<log, result>>

Next == Submit \/ Finish \/ Fail \/ Consume

Spec == Init /\ [][Next]_streamVars
=============================================================================
