---------------------------- MODULE RegistryCalls ----------------------------
(***************************************************************************)
(* What the IPC promises a process that makes one call at a time, without  *)
(* saying how: a request takes effect at most once, at one moment after it *)
(* was made, or is refused without effect; a call succeeds only after its  *)
(* own request took effect and was granted, unless the connection it uses  *)
(* has lost step; a call that fails may have had its effect, may still     *)
(* have it later, or never.  IPCChannel is shown to implement this module. *)
(***************************************************************************)
EXTENDS IPCRegistry

CONSTANT Requests

VARIABLES
  entries,  \* what the service keeps
  up,       \* the service runs
  number,   \* of the call made last
  result,   \* of that call; "pending" until it returns
  asked,    \* requests that may still take effect
  answers,  \* what became of those that did
  astray    \* the connection in use has lost step

vars == <<entries, up, number, result, asked, answers, astray>>

Init ==
  /\ entries = {} /\ up = TRUE
  /\ number = 0 /\ result = "none"
  /\ asked = {} /\ answers = {}
  /\ astray = FALSE

Ask(r) ==
  /\ result # "pending"
  /\ number' = number + 1 /\ result' = "pending"
  /\ asked' = asked \union {[id |-> number', request |-> r]}
  /\ UNCHANGED <<entries, up, answers, astray>>

\* A request takes effect, and is no longer asked.
Take(q) ==
  /\ up /\ q \in asked
  /\ asked' \subseteq asked \ {q}
  /\ answers' = answers \union {[id |-> q.id, status |-> StatusOf(entries, q.request)]}
  /\ entries' = After(entries, q.request)
  /\ UNCHANGED <<up, number, result, astray>>

\* Requests are lost, without effect: one that was read without its payload is
\* answered so, as are bytes that are no request.  Either may be the end of
\* the connection's step.
Refuse(n, status) ==
  /\ up /\ status # "OK"
  /\ asked' \subseteq asked
  /\ answers' = answers \union {[id |-> n, status |-> status]}
  /\ astray => astray'
  /\ UNCHANGED <<entries, up, number, result>>

Succeed ==
  /\ result = "pending" /\ (astray \/ [id |-> number, status |-> "OK"] \in answers)
  /\ result' = "OK"
  /\ answers' \subseteq answers
  /\ UNCHANGED <<entries, up, number, asked, astray>>

\* Whether or not the request has taken effect, or still will.
Fail ==
  /\ result = "pending" /\ result' = "error"
  /\ asked' \subseteq asked /\ answers' \subseteq answers
  /\ astray => astray'
  /\ UNCHANGED <<entries, up, number>>

\* Requests and answers are lost, as their connection is.
Lose ==
  /\ asked' \subseteq asked /\ answers' \subseteq answers
  /\ UNCHANGED <<entries, up, number, result, astray>>

\* Another connection.
Renew ==
  /\ result # "pending"
  /\ astray' = FALSE
  /\ UNCHANGED <<entries, up, number, result, asked, answers>>

\* The process ends and takes with it what nobody has seen.
Vanish ==
  /\ result' = "none" /\ astray' = FALSE
  /\ asked' \subseteq asked /\ answers' \subseteq answers
  /\ UNCHANGED <<entries, up, number>>

\* The service ends with all it keeps.
Die ==
  /\ up /\ up' = FALSE /\ entries' = {}
  /\ asked' \subseteq asked /\ answers' \subseteq answers
  /\ astray => astray'
  /\ UNCHANGED <<number, result>>

Next ==
  \/ \E r \in Requests : Ask(r)
  \/ \E q \in asked : Take(q)
  \/ \E n \in 0..number, status \in Statuses : Refuse(n, status)
  \/ Succeed \/ Fail \/ Lose \/ Renew \/ Vanish \/ Die

Spec == Init /\ [][Next]_vars

=============================================================================
