--------------------------- MODULE MCXMSTTManager ---------------------------
(***************************************************************************)
(* XMSTTManager with a few actions and tasks.                              *)
(***************************************************************************)
EXTENDS XMSTTManager

CONSTANTS a1, a2, a3, k1, k2, k3

MCActions == {a1, a2, a3}
MCTasks == {k1, k2, k3}
=============================================================================
