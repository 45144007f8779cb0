-------------------------- MODULE MCRouterLifecycle --------------------------
(* A silent, a half and a full volume: the first one is no gain at all.     *)
EXTENDS RouterLifecycle

SomeVolumes == {0, 50, 100}
=============================================================================
