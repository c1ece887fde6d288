----------------------------- MODULE MCMcpProxy -----------------------------
(* Small instances of McpProxy.                                             *)
EXTENDS McpProxy

\* A gate that only hangs, over a store that may fail; and one that raises, with callers
\* that give up.
MCFaultModels == {{"store fails"}, {"gate raises", "caller cancels"}}
MCRaisingGate == {{"gate raises"}}
MCHangingSave == {{"save hangs"}}
============================================================================
