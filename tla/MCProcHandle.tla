---------------------------- MODULE MCProcHandle ----------------------------
(***************************************************************************)
(* Instances of ProcHandle for TLC.                                        *)
(***************************************************************************)
EXTENDS ProcHandleInv, TLC

openClose == [calls |-> {"open", "close"}, max |-> 6, dies |-> TRUE]
contextCalls == [calls |-> {"open", "close", "pci", "sym", "exit"}, max |-> 4, dies |-> TRUE]
libraryCalls == [calls |-> {"load", "unload", "sym"}, max |-> 4, dies |-> FALSE]
vedmaCalls == [calls |-> {"load", "unload", "dma"}, max |-> 3, dies |-> TRUE]

Workload == {openClose, contextCalls, libraryCalls, vedmaCalls}
OpenSym == {[calls |-> {"open", "sym"}, max |-> 3, dies |-> FALSE]}

\* two of the three symbols getVEDMASyms() looks up
PostAndPoll == <<"ve_dma_post", "ve_dma_poll">>

\* threads, libraries and handles are interchangeable
Symmetry == Permutations(App) \cup Permutations(Libs) \cup Permutations(LibHandles)
=============================================================================
