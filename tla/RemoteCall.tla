----------------------------- MODULE RemoteCall -----------------------------
(***************************************************************************)
(* What an application expects of a call to the other processor: the       *)
(* handler runs at most once for each call, and only while the application *)
(* is in this call; the application goes on with the response of that run, *)
(* or at once, knowing that nothing was sent.  A call that gets lost does  *)
(* not return.  Nothing but a handler changes what the server keeps.       *)
(***************************************************************************)
CONSTANT Changing     \* statements whose handlers change what the server keeps

VARIABLES at,         \* the statement of the application
          phase,      \* how far its call is
          store       \* what the server keeps for the application

Init == phase = "idle"

Ask    == phase = "idle" /\ phase' = "asked" /\ UNCHANGED <<at, store>>

Serve  == /\ phase = "asked" /\ phase' = "served" /\ UNCHANGED at
          /\ store' # store => at \in Changing

Answer == phase = "served" /\ phase' = "answered" /\ UNCHANGED <<at, store>>

Return == phase = "answered" /\ phase' = "idle" /\ UNCHANGED store

(* No call is made, or it is refused.                                      *)
GoOn   == phase = "idle" /\ UNCHANGED <<phase, store>>

(* Something is lost, or never was sent: the application waits for ever.   *)
Lose   == phase \in {"idle", "asked", "served"} /\ phase' = "lost" /\ UNCHANGED <<at, store>>

Next == Ask \/ Serve \/ Answer \/ Return \/ GoOn \/ Lose

Safety == Init /\ [][Next]_<<at, phase, store>>
=============================================================================
