------------------------------- MODULE IpcMsg -------------------------------
(***************************************************************************)
(* Messages between processes, libs/msg/ipc_msg.c.  A receiver binds a     *)
(* stream socket to a path that carries its name and serves one connection *)
(* at a time; a sender makes a new connection for every message.           *)
(*                                                                         *)
(* One path is modelled, with the receiver instances that are started      *)
(* under its name one after the other or at the same time.  The kernel's   *)
(* sockets are external: connect enters the connection in the listener's   *)
(* queue and returns before it is accepted, sleeps while the queue is full *)
(* and then looks the path up again; a write to a connection whose peer is *)
(* gone kills the sender with SIGPIPE.  A child that the receiver started  *)
(* with system() (cms-svr's recovery script) has copies of its sockets:    *)
(* while the child runs, a receiver that died goes on being connected to,  *)
(* and nobody reads.                                                       *)
(*                                                                         *)
(* A message is its sender and its number; its bytes are left out.  An     *)
(* operator whose name ends in Fault is a deliberately wrong form of the   *)
(* definition that follows it.                                             *)
(***************************************************************************)
EXTENDS Naturals, SequencesExt

CONSTANTS
  Senders,    \* sending processes
  Instances,  \* receiver processes started under the same name
  MaxSends,   \* bound: messages of each sender
  Backlog,    \* second argument of listen, 1 in the source
  FdLimit,    \* descriptors a sender can leak before socket() fails
  NoOne       \* not an instance

ASSUME IpcAssumption ==
  /\ MaxSends \in [Senders -> Nat \ {0}] /\ Backlog \in Nat /\ FdLimit \in Nat \ {0}
  /\ NoOne \notin Instances

VARIABLES
  owner,    \* instance whose socket the path names, or NoOne
  inst,     \* state of each instance
  queue,    \* its connections not yet accepted
  cur,      \* the connection it serves
  pc,       \* next step of each sender
  at,       \* the instance its connection leads to, or whose queue it awaits
  seq,      \* number of its last message
  leaked,   \* sockets it has not closed
  written,  \* messages written
  got,      \* messages handed to each instance's callback
  shared    \* history: instances whose life overlapped another's

Msgs == UNION {{s} \X (1..MaxSends[s]) : s \in Senders}
NoMsg == <<>>

receivers == <<owner, inst, queue, cur, got, shared>>
senders == <<pc, at, seq, leaked, written>>
vars == <<receivers, senders>>

Alive(i) == inst[i] \notin {"new", "orphaned", "dead"}
Listening(i) == inst[i] \in {"listening", "reading", "loaded"}
\* Its socket takes connections; in an orphaned one nobody accepts them.
Open(i) == Listening(i) \/ inst[i] = "orphaned"
Holds(i, m) == m = cur[i] \/ m \in ToSet(queue[i])
Conn(s) == <<s, seq[s]>>
\* The client's end is open only while sock_send is between connect and close.
HungUp(m) == ~(m = Conn(m[1]) /\ pc[m[1]] \in {"write", "close"})

Init ==
  /\ owner = NoOne
  /\ inst = [i \in Instances |-> "new"]
  /\ queue = [i \in Instances |-> <<>>]
  /\ cur = [i \in Instances |-> NoMsg]
  /\ pc = [s \in Senders |-> "idle"]
  /\ at = [s \in Senders |-> NoOne]
  /\ seq = [s \in Senders |-> 0]
  /\ leaked = [s \in Senders |-> 0]
  /\ written = {}
  /\ got = [i \in Instances |-> <<>>]
  /\ shared = {}

(***************************************************************************)
(* sock_init: unlink whatever the path names, bind, listen.  On failure    *)
(* the socket is closed and a wrong path unlinked; the caller is left      *)
(* without a handle and does not receive.                                  *)
(***************************************************************************)
Unlink(i) ==
  /\ inst[i] = "new"
  /\ inst' = [inst EXCEPT ![i] = "unlinked"]
  /\ owner' = NoOne
  /\ shared' = LET others == {j \in Instances : Alive(j)}
               IN  shared \cup others \cup (IF others = {} THEN {} ELSE {i})
  /\ UNCHANGED <<queue, cur, got, senders>>

\* ... an occupied path is left alone and the error not looked at.
BoundFault(i) ==
  /\ inst' = [inst EXCEPT ![i] = "bound"]
  /\ owner' = IF \E j \in Instances : inst[j] = "dead" THEN owner ELSE i
Bound(i) ==
  /\ inst' = [inst EXCEPT ![i] = IF owner = NoOne THEN "bound" ELSE "dead"]
  /\ owner' = IF owner = NoOne THEN i ELSE owner

Bind(i) ==
  /\ inst[i] = "unlinked"
  /\ Bound(i)
  /\ UNCHANGED <<queue, cur, got, shared, senders>>

Listen(i) ==
  /\ inst[i] = "bound"
  /\ \E result \in {"listening", "dead"} : inst' = [inst EXCEPT ![i] = result]
  /\ UNCHANGED <<owner, queue, cur, got, shared, senders>>

(***************************************************************************)
(* ipc_msg_listen: accept, one read, the callback if the read returned     *)
(* anything, close.                                                        *)
(***************************************************************************)
TakeConnFault(i) ==
  /\ cur' = [cur EXCEPT ![i] = Last(queue[i])]
  /\ queue' = [queue EXCEPT ![i] = Front(@)]
TakeConn(i) ==
  /\ cur' = [cur EXCEPT ![i] = Head(queue[i])]
  /\ queue' = [queue EXCEPT ![i] = Tail(@)]

Accept(i) ==
  /\ inst[i] = "listening" /\ queue[i] # <<>>
  /\ inst' = [inst EXCEPT ![i] = "reading"]
  /\ TakeConn(i)
  /\ UNCHANGED <<owner, got, shared, senders>>

HasDataFault(m) == m \in written /\ ~HungUp(m)
HasData(m) == m \in written

ReadMsg(i) ==
  /\ inst[i] = "reading" /\ HasData(cur[i])
  /\ inst' = [inst EXCEPT ![i] = "loaded"]
  /\ UNCHANGED <<owner, queue, cur, got, shared, senders>>

\* The sender went away without writing: read returns 0.
ReadEnd(i) ==
  /\ inst[i] = "reading" /\ ~HasData(cur[i]) /\ HungUp(cur[i])
  /\ inst' = [inst EXCEPT ![i] = "listening"]
  /\ cur' = [cur EXCEPT ![i] = NoMsg]
  /\ UNCHANGED <<owner, queue, got, shared, senders>>

Callback(i) ==
  /\ inst[i] = "loaded"
  /\ inst' = [inst EXCEPT ![i] = "listening"]
  /\ got' = [got EXCEPT ![i] = Append(@, cur[i])]
  /\ cur' = [cur EXCEPT ![i] = NoMsg]
  /\ UNCHANGED <<owner, queue, shared, senders>>

\* The path outlives the process.
Crash(i) ==
  /\ Alive(i)
  /\ inst' = [inst EXCEPT ![i] = "dead"]
  /\ queue' = [queue EXCEPT ![i] = <<>>]
  /\ cur' = [cur EXCEPT ![i] = NoMsg]
  /\ UNCHANGED <<owner, got, shared, senders>>

\* It dies while a child runs.  The child has the listening socket, and the
\* connection being served if that was accepted before the child was started.
CrashWithChild(i) ==
  /\ Listening(i)
  /\ inst' = [inst EXCEPT ![i] = "orphaned"]
  /\ \E kept \in {NoMsg, cur[i]} : cur' = [cur EXCEPT ![i] = kept]
  /\ UNCHANGED <<owner, queue, got, shared, senders>>

ChildEnds(i) ==
  /\ inst[i] = "orphaned"
  /\ inst' = [inst EXCEPT ![i] = "dead"]
  /\ queue' = [queue EXCEPT ![i] = <<>>]
  /\ cur' = [cur EXCEPT ![i] = NoMsg]
  /\ UNCHANGED <<owner, got, shared, senders>>

(***************************************************************************)
(* sock_send.                                                              *)
(***************************************************************************)
Socket(s) ==
  /\ pc[s] = "idle" /\ seq[s] < MaxSends[s]
  /\ leaked[s] < FdLimit
  /\ seq' = [seq EXCEPT ![s] = @ + 1]
  /\ pc' = [pc EXCEPT ![s] = "connect"]
  /\ UNCHANGED <<at, leaked, written, receivers>>

\* socket() fails: the call returns -1.
SocketFails(s) ==
  /\ pc[s] = "idle" /\ seq[s] < MaxSends[s]
  /\ leaked[s] = FdLimit
  /\ seq' = [seq EXCEPT ![s] = @ + 1]
  /\ UNCHANGED <<pc, at, leaked, written, receivers>>

Reachable == owner # NoOne /\ Open(owner)
Full(i) == Len(queue[i]) > Backlog

Connect(s) ==
  /\ pc[s] = "connect" /\ Reachable /\ ~Full(owner)
  /\ pc' = [pc EXCEPT ![s] = "write"]
  /\ at' = [at EXCEPT ![s] = owner]
  /\ queue' = [queue EXCEPT ![owner] = Append(@, Conn(s))]
  /\ UNCHANGED <<seq, leaked, written, owner, inst, cur, got, shared>>

ConnectSleeps(s) ==
  /\ pc[s] = "connect" /\ Reachable /\ Full(owner)
  /\ pc' = [pc EXCEPT ![s] = "asleep"]
  /\ at' = [at EXCEPT ![s] = owner]
  /\ UNCHANGED <<seq, leaked, written, receivers>>

MayWakeFault(i) == ~Full(i) /\ Open(i)
MayWake(i) == ~Full(i) \/ ~Open(i)

ConnectWakes(s) ==
  /\ pc[s] = "asleep" /\ MayWake(at[s])
  /\ pc' = [pc EXCEPT ![s] = "connect"]
  /\ at' = [at EXCEPT ![s] = NoOne]
  /\ UNCHANGED <<seq, leaked, written, receivers>>

\* connect fails: the call returns -1 and leaves the socket open.
ConnectRefused(s) ==
  /\ pc[s] = "connect" /\ ~Reachable
  /\ pc' = [pc EXCEPT ![s] = "idle"]
  /\ leaked' = [leaked EXCEPT ![s] = @ + 1]
  /\ UNCHANGED <<at, seq, written, receivers>>

Write(s) ==
  /\ pc[s] = "write" /\ Holds(at[s], Conn(s))
  /\ pc' = [pc EXCEPT ![s] = "close"]
  /\ written' = written \cup {Conn(s)}
  /\ UNCHANGED <<at, seq, leaked, receivers>>

WriteKills(s) ==
  /\ pc[s] = "write" /\ ~Holds(at[s], Conn(s))
  /\ pc' = [pc EXCEPT ![s] = "dead"]
  /\ at' = [at EXCEPT ![s] = NoOne]
  /\ UNCHANGED <<seq, leaked, written, receivers>>

Close(s) ==
  /\ pc[s] = "close"
  /\ pc' = [pc EXCEPT ![s] = "idle"]
  /\ at' = [at EXCEPT ![s] = NoOne]
  /\ UNCHANGED <<seq, leaked, written, receivers>>

\* One that dies between two calls is one that never calls again.
SenderCrash(s) ==
  /\ pc[s] \notin {"idle", "dead"}
  /\ pc' = [pc EXCEPT ![s] = "dead"]
  /\ at' = [at EXCEPT ![s] = NoOne]
  /\ UNCHANGED <<seq, leaked, written, receivers>>

StartStep(i) == Unlink(i) \/ Bind(i) \/ Listen(i)
ServeStep(i) == Accept(i) \/ ReadMsg(i) \/ ReadEnd(i) \/ Callback(i)
SendStep(s) ==
  \/ Connect(s) \/ ConnectSleeps(s) \/ ConnectWakes(s) \/ ConnectRefused(s)
  \/ Write(s) \/ WriteKills(s) \/ Close(s)

Next ==
  \/ \E i \in Instances :
       \/ StartStep(i) \/ ServeStep(i)
       \/ Crash(i) \/ CrashWithChild(i) \/ ChildEnds(i)
  \/ \E s \in Senders :
       Socket(s) \/ SocketFails(s) \/ SendStep(s) \/ SenderCrash(s)

Spec == Init /\ [][Next]_vars

(***************************************************************************)
(* Processes are scheduled: once begun, a send goes on, and a receiver     *)
(* whose callback returns goes on serving.  A script ends.                 *)
(***************************************************************************)
FairSpec ==
  /\ Spec
  /\ \A i \in Instances : WF_vars(ServeStep(i)) /\ WF_vars(ChildEnds(i))
  /\ \A s \in Senders : WF_vars(SendStep(s))

-----------------------------------------------------------------------------
(***************************************************************************)
(* The detailed specification implements the mailbox: delivery at most     *)
(* once, in order for one sender and one instance, loss only by the death  *)
(* of the receiver, or by being sent to a dead one whose child still holds *)
(* the socket (ipc_msg.c:49-93, 131-145; gpio_key_wtd.c:79).               *)
(***************************************************************************)
Numbers(s) == {0} \cup {n \in 1..MaxSends[s] : <<s, n>> \in written}
Inflight(i) == {m \in written : inst[i] # "orphaned" /\ Holds(i, m)}

Box == INSTANCE Mailbox WITH
  last <- [s \in Senders |-> Max(Numbers(s))],
  inflight <- [i \in Instances |-> Inflight(i)],
  down <- {i \in Instances : inst[i] \in {"orphaned", "dead"}}

ImplementsMailbox == Box!BoxSpec

(***************************************************************************)
(* A receiver that listens is the one senders reach, unless another        *)
(* instance of the same name was started during its life: a restart after  *)
(* a crash always takes the path over (ipc_msg.c:25-34, 43-44).            *)
(***************************************************************************)
OnlyOverlapHides ==
  \A i \in Instances : Listening(i) /\ i \notin shared => owner = i

(***************************************************************************)
(* Every send returns, or kills its process: a full queue, a receiver that *)
(* dies, with or without a child that keeps its socket open, and a sender  *)
(* that dies before it writes block nobody for ever (ipc_msg.c:57-64,      *)
(* 84-91).                                                                 *)
(***************************************************************************)
SendsReturn ==
  \A s \in Senders :
    pc[s] \in {"connect", "asleep", "write", "close"} ~> pc[s] \in {"idle", "dead"}

(***************************************************************************)
(* A written message is handed to the callback unless its receiver dies    *)
(* (ipc_msg.c:131-145).                                                    *)
(***************************************************************************)
WrittenIsHandedOver ==
  \A i \in Instances, m \in Msgs :
    (m \in written /\ Holds(i, m)) ~> (m \in ToSet(got[i]) \/ ~Alive(i))
=============================================================================
