-------------------------- MODULE PriorityDispatch --------------------------
(***************************************************************************)
(* What the execution engine promises to those who submit requests, with   *)
(* its threads, its lock and its condition variable left out: requests are *)
(* executed one at a time, each at most once and only after it was         *)
(* submitted, never one while a more urgent one is queued; at most one     *)
(* more is begun after the service was told to stop; and it is turned on   *)
(* again only when the last execution is over.                             *)
(***************************************************************************)
EXTENDS Naturals

VARIABLES
  mode,       (* "on", "closing" (one more may begin) or "off"  *)
  queued,     (* the requests that wait                         *)
  executing,  (* the request that is being executed, as a set   *)
  executed    (* the requests whose execution is over           *)

dispatchVars == <<mode, queued, executing, executed>>

Init ==
  /\ mode = "off"
  /\ queued = {}
  /\ executing = {}
  /\ executed = {}

Submit(r) ==
  /\ r \notin queued \cup executing \cup executed
  /\ queued' = queued \cup {r}
  /\ UNCHANGED <<mode, executing, executed>>

Begin(r) ==
  /\ mode # "off"
  /\ executing = {}
  /\ \A other \in queued : r.priority <= other.priority
  /\ queued' = queued \ {r}
  /\ executing' = {r}
  /\ mode' = IF mode = "closing" THEN "off" ELSE mode
  /\ UNCHANGED executed

Finish ==
  /\ executing # {}
  /\ executed' = executed \cup executing
  /\ executing' = {}
  /\ UNCHANGED <<mode, queued>>

TurnOn ==
  /\ mode = "off"
  /\ executing = {}
  /\ mode' = "on"
  /\ UNCHANGED <<queued, executing, executed>>

TurnOff ==
  /\ mode \in {"on", "closing"}
  /\ mode' \in {"closing", "off"}
  /\ UNCHANGED <<queued, executing, executed>>

Next ==
  \/ \E r \in queued' : Submit(r)
  \/ \E r \in queued : Begin(r)
  \/ Finish
  \/ TurnOn
  \/ TurnOff

Spec == Init /\ [][Next]_dispatchVars

(* A request that waits while the service is on is executed, unless the    *)
(* service is told to stop first.                                          *)
Served(ids) ==
  \A id \in ids :
    (mode = "on" /\ \E r \in queued : r.orderId = id)
      ~> (mode # "on" \/ \E r \in executed : r.orderId = id)
=============================================================================
