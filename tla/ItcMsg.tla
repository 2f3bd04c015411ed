------------------------------- MODULE ItcMsg -------------------------------
(***************************************************************************)
(* Messages between the threads of a process, libs/msg/itc_msg.c: a pipe   *)
(* that carries messages of one size, and a semaphore around the write.    *)
(*                                                                         *)
(* The pipe is external.  A message (132 bytes) is below PIPE_BUF, so a    *)
(* write is whole or waits for room, and a read takes one whole message.   *)
(* sem_wait may return early when a signal handler runs; its result is not *)
(* looked at.                                                              *)
(*                                                                         *)
(* A message is its sender and one of a few values.  An operator whose     *)
(* name ends in Fault is a deliberately wrong form of the definition that  *)
(* follows it.                                                             *)
(***************************************************************************)
EXTENDS Naturals, Sequences, FiniteSets

CONSTANTS
  Senders,    \* threads that call itc_msg_send
  Receivers,  \* threads that call itc_msg_recv; one may do both
  Values,     \* contents told apart
  Capacity,   \* messages the pipe holds
  MaxSignals  \* bound: how many waits a signal interrupts

ASSUME ItcAssumption == Capacity \in Nat \ {0} /\ MaxSignals \in Nat

Threads == Senders \cup Receivers

VARIABLES
  open,        \* between itc_msg_init and itc_msg_release
  lock,        \* value of the semaphore
  pipe,        \* messages in the pipe
  pc,          \* next step of each thread
  val,         \* what it is sending
  taken,       \* message each receiver read last
  interrupted  \* history: how many waits were interrupted

vars == <<open, lock, pipe, pc, val, taken, interrupted>>

Init ==
  /\ open = FALSE /\ lock = 0 /\ pipe = <<>>
  /\ pc = [p \in Threads |-> "idle"]
  /\ val \in [Senders -> Values]
  /\ taken = [r \in Receivers |-> <<>>]
  /\ interrupted = 0

\* itc_msg_init; when pipe or sem_init fails nothing remains.
Create ==
  /\ ~open
  /\ open' = TRUE /\ lock' = 1 /\ pipe' = <<>>
  /\ UNCHANGED <<pc, val, taken, interrupted>>

\* itc_msg_release frees the handle: its caller has to know that no thread
\* is inside a call.
Release ==
  /\ open /\ \A p \in Threads : pc[p] = "idle"
  /\ open' = FALSE /\ pipe' = <<>>
  /\ UNCHANGED <<lock, pc, val, taken, interrupted>>

(***************************************************************************)
(* itc_msg_send.  A message that is too long is refused and changes        *)
(* nothing.                                                                *)
(***************************************************************************)
SendBegin(s, v) ==
  /\ open /\ pc[s] = "idle"
  /\ pc' = [pc EXCEPT ![s] = "wait"]
  /\ val' = [val EXCEPT ![s] = v]
  /\ UNCHANGED <<open, lock, pipe, taken, interrupted>>

SemWait(s) ==
  /\ pc[s] = "wait" /\ lock > 0
  /\ lock' = lock - 1
  /\ pc' = [pc EXCEPT ![s] = "write"]
  /\ UNCHANGED <<open, pipe, val, taken, interrupted>>

SemInterrupted(s) ==
  /\ interrupted < MaxSignals
  /\ pc[s] = "wait" /\ lock = 0
  /\ pc' = [pc EXCEPT ![s] = "write"]
  /\ interrupted' = interrupted + 1
  /\ UNCHANGED <<open, lock, pipe, val, taken>>

InsertFault(s) == <<<<s, val[s]>>>> \o pipe
Insert(s) == Append(pipe, <<s, val[s]>>)

Room == Len(pipe) < Capacity

Write(s) ==
  /\ pc[s] = "write" /\ Room
  /\ pipe' = Insert(s)
  /\ pc' = [pc EXCEPT ![s] = "post"]
  /\ UNCHANGED <<open, lock, val, taken, interrupted>>

PostedFault == lock
Posted == lock + 1

SemPost(s) ==
  /\ pc[s] = "post"
  /\ lock' = Posted
  /\ pc' = [pc EXCEPT ![s] = "idle"]
  /\ UNCHANGED <<open, pipe, val, taken, interrupted>>

(***************************************************************************)
(* itc_msg_recv takes no lock.                                             *)
(***************************************************************************)
RecvBegin(r) ==
  /\ open /\ pc[r] = "idle"
  /\ pc' = [pc EXCEPT ![r] = "read"]
  /\ UNCHANGED <<open, lock, pipe, val, taken, interrupted>>

Read(r) ==
  /\ pc[r] = "read" /\ pipe # <<>>
  /\ pipe' = Tail(pipe)
  /\ taken' = [taken EXCEPT ![r] = Head(pipe)]
  /\ pc' = [pc EXCEPT ![r] = "idle"]
  /\ UNCHANGED <<open, lock, val, interrupted>>

SendStep(s) == SemWait(s) \/ SemInterrupted(s) \/ Write(s) \/ SemPost(s)
RecvStep(r) == RecvBegin(r) \/ Read(r)

Next ==
  \/ Create \/ Release
  \/ \E s \in Senders : SendStep(s) \/ \E v \in Values : SendBegin(s, v)
  \/ \E r \in Receivers : RecvStep(r)

Spec == Init /\ [][Next]_vars

(***************************************************************************)
(* A thread that can go on all the time does, and a thread that only       *)
(* receives keeps receiving.  Nothing hands the semaphore or the room in   *)
(* the pipe to the thread that has waited longest: another may come first. *)
(***************************************************************************)
FairSpec ==
  /\ Spec
  /\ \A s \in Senders :
       WF_vars(SemWait(s)) /\ WF_vars(Write(s)) /\ WF_vars(SemPost(s))
  /\ \A r \in Receivers \ Senders : WF_vars(RecvStep(r))

-----------------------------------------------------------------------------
Message == Senders \X Values

\* Every variable has its type; the pipe holds at most Capacity messages and
\* every interrupted wait may raise the semaphore by one above 1.
TypeOK ==
  /\ open \in BOOLEAN /\ interrupted \in 0..MaxSignals
  /\ lock \in 0..(interrupted + 1)
  /\ pipe \in Seq(Message) /\ Len(pipe) <= Capacity
  /\ pc \in [Threads -> {"idle", "wait", "write", "post", "read"}]
  /\ val \in [Senders -> Values]
  /\ taken \in [Receivers -> Message \cup {<<>>}]

(***************************************************************************)
(* At most one thread is between sem_wait and sem_post, as long as no wait *)
(* was interrupted (itc_msg.c:51-55).                                      *)
(***************************************************************************)
Holding(p) == pc[p] \in {"write", "post"}
MutualExclusion ==
  interrupted = 0 => \A p, q \in Threads : Holding(p) /\ Holding(q) => p = q

(***************************************************************************)
(* Senders and receivers see a bounded first-in first-out buffer of whole  *)
(* messages, also when an interrupted sem_wait lets two of them in         *)
(* (itc_msg.c:42-67).                                                      *)
(***************************************************************************)
Fifo == INSTANCE BoundedFifo WITH buf <- pipe
ImplementsFifo == Fifo!FifoSpec

(***************************************************************************)
(* Nobody waits on everybody: as long as one thread does nothing but       *)
(* receive, a send returns or, if it never does, others sent in its place  *)
(* again and again: the semaphore is given back on every way through the   *)
(* call, though its holder may have to wait for room (itc_msg.c:51-55).    *)
(***************************************************************************)
Sending(s) == pc[s] \in {"wait", "write", "post"}
Sent(s) == pc[s] = "post"
SendsReturn ==
  \A s \in Senders :
    Sending(s) ~> ~Sending(s) \/ \E q \in Senders \ {s} : Sent(q)
=============================================================================
