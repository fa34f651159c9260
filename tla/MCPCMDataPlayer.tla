--------------------------- MODULE MCPCMDataPlayer ---------------------------
(***************************************************************************)
(* PCMDataPlayer with two threads.                                         *)
(***************************************************************************)
EXTENDS PCMDataPlayer

CONSTANTS th1, th2

MCThreads == {th1, th2}
=============================================================================
