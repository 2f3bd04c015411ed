---------------------------- MODULE BoundedFifo ----------------------------
(***************************************************************************)
(* What libs/msg/itc_msg.c promises the threads of a process: a first-in   *)
(* first-out buffer of whole messages, each taken by exactly one receiver. *)
(***************************************************************************)
EXTENDS Naturals, Sequences

CONSTANTS Senders, Receivers, Values, Capacity

VARIABLES
  buf,   \* the messages, <<sender, value>>
  taken  \* the message each receiver took last, <<>> before its first

fifoVars == <<buf, taken>>

FifoInit == buf = <<>> /\ taken = [r \in Receivers |-> <<>>]

Put(s, v) ==
  /\ Len(buf) < Capacity
  /\ buf' = Append(buf, <<s, v>>)
  /\ UNCHANGED taken

Get(r) ==
  /\ buf # <<>>
  /\ buf' = Tail(buf)
  /\ taken' = [taken EXCEPT ![r] = Head(buf)]

\* The buffer is released and another one made.
Renew == buf' = <<>> /\ UNCHANGED taken

FifoNext ==
  \/ \E s \in Senders, v \in Values : Put(s, v)
  \/ \E r \in Receivers : Get(r)
  \/ Renew

FifoSpec == FifoInit /\ [][FifoNext]_fifoVars
=============================================================================
