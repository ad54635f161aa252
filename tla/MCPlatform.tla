----------------------------- MODULE MCPlatform -----------------------------
(***************************************************************************)
(* Two API handlers and two dashboard requests at a time.                  *)
(***************************************************************************)
EXTENDS Platform
=============================================================================
