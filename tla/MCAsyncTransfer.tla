--------------------------- MODULE MCAsyncTransfer ---------------------------
(***************************************************************************)
(* Instances of AsyncTransfer for TLC.  The sizes are the program's scaled *)
(* down: 4 stands for a megabyte.                                          *)
(***************************************************************************)
EXTENDS AsyncTransferInv

Transfer(o, n) == [op |-> o, size |-> n, in |-> FALSE, out |-> FALSE]
Call(n, i, o) == [op |-> "call", size |-> n, in |-> i, out |-> o]

\* an empty transfer and chains of two and three fragments, a call whose stack
\* image fits into one command and one that needs a transfer each way
MixedRequests ==
  {Transfer("read", 0), Transfer("write", 4), Transfer("read", 5),
   Call(3, FALSE, TRUE), Call(6, TRUE, TRUE)}

\* a write and a call with a large stack image
SomeRequests == {Transfer("write", 2), Call(6, TRUE, FALSE)}
=============================================================================
