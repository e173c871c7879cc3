--------------------------- MODULE MCWsExecutors ---------------------------
(***************************************************************************)
(* A small instance of WsExecutors: a v5 service and a spot service.       *)
(***************************************************************************)
EXTENDS WsExecutors

CONSTANTS u1
MCLocked == {1}
=============================================================================
