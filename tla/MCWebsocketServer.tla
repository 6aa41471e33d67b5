------------------------- MODULE MCWebsocketServer -------------------------
(***************************************************************************)
(* The servers, with requests as messages that a handler answers, and what *)
(* the handlers do, with requests that arrive whole: two layers that share *)
(* no state, so that each is explored with the other at rest.              *)
(***************************************************************************)
EXTENDS WebsocketServer, Administration

VARIABLE layer

all_vars == <<vars, admin_vars, layer>>

MCInit ==
    /\ Init /\ AdminInit
    /\ \/ layer = "connections" /\ tokens = {}
       \/ layer = "requests" /\ kind = "https" /\ Len(available) = Cardinality(Objects)

MCNext ==
    /\ layer' = layer
    /\ \/ layer = "connections" /\ Next /\ UNCHANGED admin_vars
       \/ layer = "requests" /\ AdminNext /\ UNCHANGED vars

MCSpec == MCInit /\ [][MCNext]_all_vars

\* Clients differ in nothing but what Init lets each of them ask for.
Symmetry == Permutations(Clients)
=============================================================================
