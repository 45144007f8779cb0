-------------------------- MODULE MCServiceManager ---------------------------
(* One or two processes that manage the service.                            *)
EXTENDS ServiceManager
=============================================================================
