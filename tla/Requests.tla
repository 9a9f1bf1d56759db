------------------------------ MODULE Requests ------------------------------
(***************************************************************************)
(* What the HTTP service of the master promises about one request, with no *)
(* worker, queue, callback or lock in it: it is read, refused or given to  *)
(* its route once, answered at most once and only to the connection that   *)
(* asked, and its storage is given back once, when no route can still be   *)
(* using it.                                                               *)
(*                                                                         *)
(* HttpServer is shown to implement this module.                           *)
(***************************************************************************)

CONSTANTS Requests,   \* the requests that may arrive
          Conns,      \* the connections they arrive on
          NoConn      \* "the client went away"

VARIABLES
    status,   \* how far the request is
    client    \* the connection an answer would go to, or NoConn

rvars == <<status, client>>

Init ==
    /\ status = [r \in Requests |-> "unborn"]
    /\ client = [r \in Requests |-> NoConn]

Move(r, from, to) ==
    /\ status[r] \in from
    /\ status' = [status EXCEPT ![r] = to]

(* A request arrives. *)
Accept(r, c) ==
    /\ Move(r, {"unborn"}, "reading")
    /\ client' = [client EXCEPT ![r] = c]

(* A request that no route has to see (a method that is not served) arrives. *)
AcceptRefused(r, c) ==
    /\ Move(r, {"unborn"}, "answerable")
    /\ client' = [client EXCEPT ![r] = c]

(* A request without a body goes to its route at once. *)
AcceptSubmitted(r, c) ==
    /\ Move(r, {"unborn"}, "submitted")
    /\ client' = [client EXCEPT ![r] = c]

(* The whole body is there, or was too large for any route. *)
Submit(r) == Move(r, {"reading"}, "submitted") /\ UNCHANGED client
Refuse(r) == Move(r, {"reading"}, "answerable") /\ UNCHANGED client

(* The route is run, and what it produced is taken over: it can be answered *)
(* while there is somebody to answer, else the request is over.             *)
Start(r) == Move(r, {"submitted"}, "routed") /\ UNCHANGED client
Finish(r) ==
    /\ client[r] # NoConn
    /\ Move(r, {"routed"}, "answerable")
    /\ UNCHANGED client
FinishUnwanted(r) ==
    /\ client[r] = NoConn
    /\ Move(r, {"routed"}, "over")
    /\ UNCHANGED client

(* The answer is written to the connection that asked. *)
Answer(r) ==
    /\ client[r] # NoConn
    /\ Move(r, {"answerable"}, "over")
    /\ client' = [client EXCEPT ![r] = NoConn]

(* Clients go away, one or (when the service stops) many at once. What is   *)
(* with a route stays until the route is done with it, the rest is over.    *)
Vanish(S) ==
    /\ \A r \in S : client[r] # NoConn
    /\ client' = [r \in Requests |-> IF r \in S THEN NoConn ELSE client[r]]
    /\ status' = [r \in Requests |->
                     IF r \in S /\ status[r] \in {"reading", "answerable"}
                     THEN "over" ELSE status[r]]

Next ==
    \/ \E r \in Requests, c \in Conns :
          \/ Accept(r, c)
          \/ AcceptRefused(r, c)
          \/ AcceptSubmitted(r, c)
    \/ \E r \in Requests :
          \/ Submit(r)
          \/ Refuse(r)
          \/ Start(r)
          \/ Finish(r)
          \/ FinishUnwanted(r)
          \/ Answer(r)
    \/ \E S \in SUBSET Requests : Vanish(S)

Spec == Init /\ [][Next]_rvars

=============================================================================
