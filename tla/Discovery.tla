----------------------------- MODULE Discovery -----------------------------
(***************************************************************************)
(* bc_ipaddr, app/bc_ipaddr/udp_func.c: one program, started as a client   *)
(* that broadcasts "ipaddr get" to port 11000 every five seconds, or as a  *)
(* server that broadcasts its addresses to the port a request came from.   *)
(* Both run the same receive thread.                                       *)
(*                                                                         *)
(* The client keeps the result of its last write in the variable it takes  *)
(* the length of the next request from.                                    *)
(*                                                                         *)
(* The network is external: each copy of a broadcast may be lost, and a    *)
(* socket drops what comes when it holds QueueSize datagrams.              *)
(*                                                                         *)
(* An operator whose name ends in Fault is a deliberately wrong form of    *)
(* the definition that follows it.                                         *)
(***************************************************************************)
EXTENDS Integers, Sequences

CONSTANTS
  Clients, Servers,  \* processes, each alone on its host
  Crowded,           \* those whose host has more than EthNetNum interfaces
  QueueSize          \* bound: datagrams a socket holds

Procs == Clients \cup Servers
Asking == 10  \* bytes of "ipaddr get"

ASSUME DiscoveryAssumption ==
  /\ Clients \cap Servers = {}
  /\ Crowded \subseteq Procs /\ QueueSize \in Nat \ {0}

VARIABLES
  state,     \* "new", "up" or "dead"
  ret,       \* main's variable of that name, in each client
  inbox,     \* what each socket holds
  asker,     \* the processes the receive thread owes a reply, by their port
  answered   \* history: servers each client has heard

vars == <<state, ret, inbox, asker, answered>>

(***************************************************************************)
(* Datagrams are requests, empty ones, and lists of addresses; a port is   *)
(* named by those who have it.                                             *)
(***************************************************************************)
Datagrams == [text : {"ask", "addrs"}, from : Procs]
             \cup [text : {"empty"}, from : Clients]
PortOf(p) == IF p \in Clients THEN Clients ELSE Servers

Init ==
  /\ state = [p \in Procs |-> "new"] /\ ret = [c \in Clients |-> Asking]
  /\ inbox = [p \in Procs |-> <<>>] /\ asker = [p \in Procs |-> {}]
  /\ answered = [c \in Clients |-> {}]

(***************************************************************************)
(* netdev_file_parse puts every interface, "lo" too, into EthNetNum slots; *)
(* the name of one more lands on dev_num, which the next loop then         *)
(* follows.  A socket that cannot be made or bound is a NULL pointer for   *)
(* the receive thread.                                                     *)
(***************************************************************************)
Start(p) ==
  /\ state[p] = "new" /\ p \notin Crowded
  /\ state' = [state EXCEPT ![p] = "up"]
  /\ UNCHANGED <<ret, inbox, asker, answered>>

StartFails(p) ==
  /\ state[p] = "new"
  /\ state' = [state EXCEPT ![p] = "dead"]
  /\ UNCHANGED <<ret, inbox, asker, answered>>

\* A broadcast reaches the sockets in R that have room.
Sent(d, R) ==
  inbox' = [p \in Procs |->
              IF p \in R /\ state[p] = "up" /\ Len(inbox[p]) < QueueSize
              THEN Append(inbox[p], d) ELSE inbox[p]]

(***************************************************************************)
(* udp_write returns what sendto took, 0 when the socket is not ready in   *)
(* time, and -1 when sendto fails; a length of -1 is never sent.           *)
(***************************************************************************)
Length(r) == IF r = Asking THEN "ask" ELSE "empty"

Taken(r) == r

Ask(c, R) ==
  /\ state[c] = "up" /\ ret[c] >= 0
  /\ Sent([text |-> Length(ret[c]), from |-> c], R)
  /\ ret' = [ret EXCEPT ![c] = Taken(@)]
  /\ UNCHANGED <<state, asker, answered>>

AskFails(c, r) ==
  /\ state[c] = "up"
  /\ ret' = [ret EXCEPT ![c] = r]
  /\ UNCHANGED <<state, inbox, asker, answered>>

\* recv_func: an empty datagram, and one that is no request, is passed over.
IsRequest(d) == d.text = "ask"

Recv(p) ==
  /\ state[p] = "up" /\ asker[p] = {} /\ inbox[p] # <<>>
  /\ LET d == Head(inbox[p]) IN
       /\ asker' = [asker EXCEPT ![p] = IF IsRequest(d) THEN PortOf(d.from) ELSE {}]
       /\ answered' = IF p \in Clients /\ d.text = "addrs"
                      THEN [answered EXCEPT ![p] = @ \cup {d.from}] ELSE answered
  /\ inbox' = [inbox EXCEPT ![p] = Tail(@)]
  /\ UNCHANGED <<state, ret>>

ReplyPortFault(p) == PortOf(p)
ReplyPort(p) == asker[p]

Reply(p, R) ==
  /\ state[p] = "up" /\ asker[p] # {}
  /\ Sent([text |-> "addrs", from |-> p], R \cap ReplyPort(p))
  /\ asker' = [asker EXCEPT ![p] = {}]
  /\ UNCHANGED <<state, ret, answered>>

Kill(p) ==
  /\ state[p] = "up"
  /\ state' = [state EXCEPT ![p] = "dead"]
  /\ inbox' = [inbox EXCEPT ![p] = <<>>] /\ asker' = [asker EXCEPT ![p] = {}]
  /\ UNCHANGED <<ret, answered>>

Next ==
  \/ \E p \in Procs : Start(p) \/ StartFails(p) \/ Recv(p) \/ Kill(p)
  \/ \E p \in Procs, R \in SUBSET Procs : Reply(p, R)
  \/ \E c \in Clients, R \in SUBSET Servers : Ask(c, R)
  \/ \E c \in Clients, r \in {0, -1} : AskFails(c, r)

Spec == Init /\ [][Next]_vars

(***************************************************************************)
(* The threads run, and a copy of a broadcast is not lost for ever.        *)
(***************************************************************************)
HasRoom(p) == Len(inbox[p]) < QueueSize
AskReaches(c, s) ==
  HasRoom(s) /\ ret[c] = Asking /\ \E R \in SUBSET Servers : s \in R /\ Ask(c, R)
ReplyReaches(s, c) ==
  HasRoom(c) /\ c \in ReplyPort(s) /\ \E R \in SUBSET Procs : c \in R /\ Reply(s, R)

FairSpec ==
  /\ Spec
  /\ \A p \in Procs : WF_vars(Recv(p)) /\ WF_vars(\E R \in SUBSET Procs : Reply(p, R))
  /\ \A c \in Clients, s \in Servers :
       SF_vars(AskReaches(c, s)) /\ SF_vars(ReplyReaches(s, c))

-----------------------------------------------------------------------------
(***************************************************************************)
(* A client comes to hear every server, whatever is lost on the way,       *)
(* unless one of its own writes has failed once: after that it never asks  *)
(* again (udp_func.c:301-312).                                             *)
(***************************************************************************)
Answered ==
  \A c \in Clients, s \in Servers :
    (state[c] = "up" /\ state[s] = "up") ~>
      (\/ s \in answered[c] \/ ret[c] # Asking
       \/ state[c] = "dead" \/ state[s] = "dead")
=============================================================================
