------------------------------ MODULE Mailbox ------------------------------
(***************************************************************************)
(* What libs/msg/ipc_msg.c promises its users: a message a sender has      *)
(* written is handed to one receiver instance at most once, those of one   *)
(* sender to one instance in the order they were sent, and a message is    *)
(* lost only when the instance that holds it dies, or when it was sent to  *)
(* one that had died.                                                      *)
(***************************************************************************)
EXTENDS Naturals, Sequences

CONSTANTS Senders, Instances, MaxSends

VARIABLES
  last,      \* number of each sender's last message
  inflight,  \* messages written to each instance and not yet handed over
  got,       \* messages each instance has handed to its callback, in order
  down       \* instances that have died

boxVars == <<last, inflight, got, down>>

BoxInit ==
  /\ last = [s \in Senders |-> 0]
  /\ inflight = [i \in Instances |-> {}]
  /\ got = [i \in Instances |-> <<>>]
  /\ down = {}

\* A send that failed uses up a number.
Post(s, n, i) ==
  /\ n > last[s] /\ i \notin down
  /\ last' = [last EXCEPT ![s] = n]
  /\ inflight' = [inflight EXCEPT ![i] = @ \cup {<<s, n>>}]
  /\ UNCHANGED <<got, down>>

\* The socket of a dead instance is still open in a child of it.
PostToDead(s, n, i) ==
  /\ n > last[s] /\ i \in down
  /\ last' = [last EXCEPT ![s] = n]
  /\ UNCHANGED <<inflight, got, down>>

HandOver(s, n, i) ==
  /\ <<s, n>> \in inflight[i]
  /\ \A k \in 1..(n - 1) : <<s, k>> \notin inflight[i]
  /\ inflight' = [inflight EXCEPT ![i] = @ \ {<<s, n>>}]
  /\ got' = [got EXCEPT ![i] = Append(@, <<s, n>>)]
  /\ UNCHANGED <<last, down>>

Die(i) ==
  /\ i \notin down
  /\ down' = down \cup {i}
  /\ inflight' = [inflight EXCEPT ![i] = {}]
  /\ UNCHANGED <<last, got>>

BoxNext ==
  \E i \in Instances :
    \/ Die(i)
    \/ \E s \in Senders : \E n \in 1..MaxSends[s] :
         Post(s, n, i) \/ PostToDead(s, n, i) \/ HandOver(s, n, i)

BoxSpec == BoxInit /\ [][BoxNext]_boxVars

(***************************************************************************)
(* What its users may rely on: a message is handed over once, by one       *)
(* instance alone, and only if it was sent; those of one sender come to an *)
(* instance in the order they were sent.                                   *)
(***************************************************************************)
HandedOnce ==
  \A i, j \in Instances : \A a \in 1..Len(got[i]) : \A b \in 1..Len(got[j]) :
    got[i][a] = got[j][b] => i = j /\ a = b
InSendOrder ==
  \A i \in Instances : \A a, b \in 1..Len(got[i]) :
    a < b /\ got[i][a][1] = got[i][b][1] => got[i][a][2] < got[i][b][2]
OnlyPosted ==
  \A i \in Instances : \A a \in 1..Len(got[i]) :
    \E s \in Senders : got[i][a][1] = s /\ got[i][a][2] \in 1..last[s]
=============================================================================
