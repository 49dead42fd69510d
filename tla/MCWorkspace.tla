----------------------------- MODULE MCWorkspace -----------------------------
(* A small instance of Workspace for TLC: see the .cfg for its bounds. *)
EXTENDS Workspace
=============================================================================
