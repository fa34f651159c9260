--------------------------- MODULE MCPCMFilePlayer ---------------------------
(***************************************************************************)
(* PCMFilePlayer with a short file.                                        *)
(***************************************************************************)
EXTENDS PCMFilePlayer
=============================================================================
