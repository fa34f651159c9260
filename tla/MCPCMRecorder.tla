---------------------------- MODULE MCPCMRecorder ----------------------------
(***************************************************************************)
(* PCMRecorder with short minutes.                                         *)
(***************************************************************************)
EXTENDS PCMRecorder
=============================================================================
