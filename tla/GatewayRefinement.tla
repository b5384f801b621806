-------------------------- MODULE GatewayRefinement --------------------------
(* The gateway implements SessionLifecycle: where a session is, read off   *)
(* the pool and the handlers, moves only along the abstract life cycle.    *)
EXTENDS Gateway

LifeOf(e) ==
  IF Active(e) THEN "mapped"
  ELSE IF IsEvicted(e) THEN "evicted"
  ELSE IF \E t \in Task : Reloads(t, e) THEN "reloading"
  ELSE IF issued[e] # Nil THEN "gone"
  ELSE "unissued"

Lifecycle == INSTANCE SessionLifecycle
               WITH life <- [e \in Ext |-> LifeOf(e)], sid <- issued

(* Every step of the gateway is a step of the life cycle or leaves it      *)
(* alone: no session is reloaded twice at once, revived after close, purge *)
(* or a failed reload, or moved to another backend session.                *)
ImplementsLifecycle == Lifecycle!Spec

(* A reload never hangs: the handler that took an evicted session maps it  *)
(* again or drops it.                                                      *)
ReloadEnds ==
  \A e \in Ext : (LifeOf(e) = "reloading") ~> (LifeOf(e) # "reloading")

=============================================================================
