----------------------------- MODULE Responder -----------------------------
(***************************************************************************)
(* What app/cms_server/bc_func.c promises the machines on its networks:    *)
(* requests are taken from each network in the order they came in, and a   *)
(* request is answered at most once, on the network it came from and to    *)
(* the port it was sent from.                                              *)
(***************************************************************************)
EXTENDS Naturals, Sequences

CONSTANTS Ifs, Ports, Requests, Nothing

VARIABLES
  rx,    \* requests each network has brought and nobody has taken
  hand,  \* <<network, port>> of the request being answered, or Nothing
  wire   \* <<network, port>> of the reply just sent, or Nothing

respVars == <<rx, hand, wire>>

RespInit == rx = [d \in Ifs |-> <<>>] /\ hand = Nothing /\ wire = Nothing

Come(d, r) ==
  /\ rx' = [rx EXCEPT ![d] = Append(@, r)]
  /\ UNCHANGED <<hand, wire>>

\* The oldest request of a network is taken, to be answered or not.
Take(d) ==
  /\ rx[d] # <<>> /\ hand = Nothing
  /\ rx' = [rx EXCEPT ![d] = Tail(@)]
  /\ hand' \in {Nothing, <<d, Head(rx[d]).port>>}
  /\ UNCHANGED wire

Reply == hand # Nothing /\ wire' = hand /\ hand' = Nothing /\ UNCHANGED rx
Forget == hand' = Nothing /\ UNCHANGED <<rx, wire>>
Sent == wire' = Nothing /\ UNCHANGED <<rx, hand>>

\* The service ends; what has not been taken is lost.
Shut == rx' = [d \in Ifs |-> <<>>] /\ UNCHANGED <<hand, wire>>

RespNext ==
  \/ \E d \in Ifs : Take(d) \/ \E r \in Requests : Come(d, r)
  \/ Reply \/ Forget \/ Sent \/ Shut

RespSpec == RespInit /\ [][RespNext]_respVars
=============================================================================
