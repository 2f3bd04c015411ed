---------------------------- MODULE IpcMsgProofs ----------------------------
(***************************************************************************)
(* Proofs about the messages between processes.  First the library         *)
(* (IpcMsg), for any number of senders, receiver instances and messages    *)
(* and any backlog: connections are served in the order they were made and *)
(* each leads to one instance, so the sockets implement the mailbox; and   *)
(* only an instance that overlapped another can be hidden.  Then a message *)
(* that travels there, cmdline's (CmdLine), for any number of cells: the   *)
(* receiver reads the words that were typed.                               *)
(***************************************************************************)
EXTENDS IpcMsg, CmdLine, SequenceTheorems, WellFoundedInduction, TLAPS

InstStates == {"new", "unlinked", "bound", "listening", "reading", "loaded",
               "orphaned", "dead"}
SendStates == {"idle", "connect", "asleep", "write", "close", "dead"}

ReceiverTypes ==
  /\ owner \in Instances \cup {NoOne}
  /\ inst \in [Instances -> InstStates]
  /\ queue \in [Instances -> Seq(Msgs)]
  /\ cur \in [Instances -> Msgs \cup {NoMsg}]
  /\ got \in [Instances -> Seq(Msgs)]
  /\ shared \subseteq Instances

SenderTypes ==
  /\ pc \in [Senders -> SendStates]
  /\ at \in [Senders -> Instances \cup {NoOne}]
  /\ seq \in [Senders -> Nat]
  /\ written \subseteq Msgs
  /\ \A s \in Senders :
       /\ seq[s] <= MaxSends[s]
       /\ pc[s] \in {"connect", "asleep", "write", "close"} => seq[s] > 0
       /\ pc[s] \in {"asleep", "write", "close"} => at[s] \in Instances

(***************************************************************************)
(* What an instance holds by the step it has come to.                      *)
(***************************************************************************)
Empty(i) == queue[i] = <<>> /\ cur[i] = NoMsg
HeldInv ==
  \A i \in Instances :
    /\ inst[i] \in {"new", "unlinked", "bound", "dead"} => Empty(i)
    /\ inst[i] = "listening" => cur[i] = NoMsg
    /\ inst[i] \in {"reading", "loaded"} => cur[i] # NoMsg
    /\ inst[i] = "loaded" => cur[i] \in written

(***************************************************************************)
(* A message that is held or written is not newer than its sender's last;  *)
(* that one is held by nobody before connect, by the instance it was       *)
(* connected to alone before write, and not written before then.           *)
(***************************************************************************)
Fresh(s) ==
  /\ pc[s] \in {"connect", "asleep", "write"} => Conn(s) \notin written
  /\ pc[s] \in {"connect", "asleep"} => \A i \in Instances : ~Holds(i, Conn(s))
  /\ pc[s] = "write" => \A i \in Instances : Holds(i, Conn(s)) => i = at[s]

FreshInv ==
  /\ \A i \in Instances, m \in Msgs : Holds(i, m) => m[2] <= seq[m[1]]
  /\ \A m \in written : m[2] <= seq[m[1]]
  /\ \A s \in Senders : Fresh(s)

(***************************************************************************)
(* An instance holds the messages of one sender in the order of their      *)
(* numbers, the one it serves first.                                       *)
(***************************************************************************)
Before(m, n) == m[1] = n[1] => m[2] < n[2]
OrderInv ==
  \A i \in Instances :
    /\ \A k \in DOMAIN queue[i] :
         \A j \in 1..(k - 1) : Before(queue[i][j], queue[i][k])
    /\ cur[i] # NoMsg => \A k \in DOMAIN queue[i] : Before(cur[i], queue[i][k])

(***************************************************************************)
(* Every sender has a last written message, or none.                       *)
(***************************************************************************)
Largest(S, n) == n \in S /\ \A k \in S : n >= k
LastInv == \A s \in Senders : \E n \in Numbers(s) : Largest(Numbers(s), n)

IpcInv ==
  ReceiverTypes /\ SenderTypes /\ HeldInv /\ FreshInv /\ OrderInv /\ LastInv

(***************************************************************************)
(* Who could be hidden.                                                    *)
(***************************************************************************)
ShareInv ==
  /\ inst \in [Instances -> InstStates] /\ shared \subseteq Instances
  /\ \A i, j \in Instances : Alive(i) /\ Alive(j) /\ i # j => i \in shared
  /\ \A i \in Instances :
       inst[i] = "bound" \/ Listening(i) => i \in shared \/ owner = i

-----------------------------------------------------------------------------
(***************************************************************************)
(* Messages, and the set of messages in a queue.                           *)
(***************************************************************************)
LEMMA MsgFacts ==
  ASSUME NEW m \in Msgs
  PROVE  /\ m[1] \in Senders /\ m[2] \in 1..MaxSends[m[1]] /\ m = <<m[1], m[2]>>
         /\ m[2] \in Nat \ {0}
         /\ m # NoMsg
<1>1. PICK s \in Senders : m \in {s} \X (1..MaxSends[s])
  BY DEF Msgs
<1>2. PICK n \in 1..MaxSends[s] : m = <<s, n>>
  BY <1>1
<1>3. MaxSends[s] \in Nat
  BY IpcAssumption
<1> QED BY <1>2, <1>3 DEF NoMsg

LEMMA MsgIs ==
  ASSUME NEW s \in Senders, NEW n \in 1..MaxSends[s]
  PROVE  <<s, n>> \in Msgs
BY DEF Msgs

LEMMA ToSetEmpty == ToSet(<<>>) = {}
BY DEF ToSet

LEMMA ToSetAppend ==
  ASSUME NEW S, NEW q \in Seq(S), NEW e \in S
  PROVE  ToSet(Append(q, e)) = ToSet(q) \cup {e}
<1>1. /\ DOMAIN q = 1..Len(q) /\ Len(q) \in Nat
      /\ DOMAIN Append(q, e) = 1..(Len(q) + 1)
      /\ \A k \in 1..Len(q) : Append(q, e)[k] = q[k]
      /\ Append(q, e)[Len(q) + 1] = e
  BY LenProperties, AppendProperties
<1> QED BY <1>1 DEF ToSet

LEMMA ToSetTail ==
  ASSUME NEW S, NEW q \in Seq(S), q # <<>>
  PROVE  ToSet(q) = {Head(q)} \cup ToSet(Tail(q))
<1>1. /\ DOMAIN q = 1..Len(q) /\ Len(q) \in Nat \ {0} /\ Head(q) = q[1]
      /\ DOMAIN Tail(q) = 1..(Len(q) - 1)
      /\ \A k \in 1..(Len(q) - 1) : Tail(q)[k] = q[k + 1]
  BY LenProperties, HeadTailProperties, EmptySeq
<1>2. \A k \in 1..Len(q) : k # 1 => k - 1 \in 1..(Len(q) - 1) /\ q[k] = Tail(q)[k - 1]
  BY <1>1
<1>3. ToSet(q) \subseteq {Head(q)} \cup ToSet(Tail(q))
  <2>1. ASSUME NEW k \in 1..Len(q)
        PROVE  q[k] \in {Head(q)} \cup ToSet(Tail(q))
    <3>1. CASE k = 1 BY <1>1, <3>1
    <3>2. CASE k # 1 BY <1>1, <1>2, <3>2 DEF ToSet
    <3> QED BY <3>1, <3>2
  <2>2. ToSet(q) = {q[k] : k \in 1..Len(q)}
    BY <1>1 DEF ToSet
  <2> QED BY <2>1, <2>2
<1>4. ToSet(Tail(q)) \subseteq ToSet(q) /\ Head(q) \in ToSet(q)
  BY <1>1 DEF ToSet
<1> QED BY <1>3, <1>4

(***************************************************************************)
(* The steps of an instance and of a sender.                               *)
(***************************************************************************)
ReceiverStep(i) ==
  StartStep(i) \/ ServeStep(i) \/ Crash(i) \/ CrashWithChild(i) \/ ChildEnds(i)
SenderStep(s) == Socket(s) \/ SocketFails(s) \/ SendStep(s) \/ SenderCrash(s)

LEMMA StepCases ==
  ASSUME [Next]_vars
  PROVE  \/ \E i \in Instances : ReceiverStep(i) /\ UNCHANGED senders
         \/ \E s \in Senders :
              /\ SenderStep(s)
              /\ UNCHANGED <<owner, inst, cur, got, shared>>
              /\ UNCHANGED queue \/ Connect(s)
         \/ UNCHANGED vars
<1>1. ASSUME NEW i \in Instances, ReceiverStep(i) PROVE UNCHANGED senders
  BY <1>1 DEF ReceiverStep, StartStep, ServeStep, Unlink, Bind, Listen, Accept,
              ReadMsg, ReadEnd, Callback, Crash, CrashWithChild, ChildEnds
<1>2. ASSUME NEW s \in Senders, SenderStep(s)
      PROVE  /\ UNCHANGED <<owner, inst, cur, got, shared>>
             /\ UNCHANGED queue \/ Connect(s)
  BY <1>2 DEF SenderStep, SendStep, Socket, SocketFails, Connect, ConnectSleeps,
              ConnectWakes, ConnectRefused, Write, WriteKills, Close, SenderCrash,
              receivers
<1> QED BY <1>1, <1>2 DEF Next, ReceiverStep, SenderStep

LEMMA ConnFacts ==
  ASSUME SenderTypes, NEW s \in Senders,
         pc[s] \in {"connect", "asleep", "write", "close"}
  PROVE  Conn(s) \in Msgs /\ Conn(s)[1] = s /\ Conn(s)[2] = seq[s]
<1>1. seq[s] \in 1..MaxSends[s]
  <2>1. seq[s] \in Nat /\ seq[s] <= MaxSends[s] /\ seq[s] > 0
    BY DEF SenderTypes
  <2>2. MaxSends[s] \in Nat
    BY IpcAssumption
  <2> QED BY <2>1, <2>2
<1> QED BY <1>1, MsgIs DEF Conn

LEMMA SenderTypesStep == ASSUME SenderTypes, ReceiverTypes, [Next]_vars
                         PROVE  SenderTypes'
<1> USE DEF SenderTypes, SendStates
<1>1. ASSUME UNCHANGED senders PROVE SenderTypes'
  BY <1>1 DEF senders
<1>2. ASSUME NEW s \in Senders, SenderStep(s) PROVE SenderTypes'
  <2>1. MaxSends[s] \in Nat
    BY IpcAssumption
  <2>2. CASE Socket(s) \/ SocketFails(s)
    BY <2>1, <2>2 DEF Socket, SocketFails
  <2>3. CASE Connect(s) \/ ConnectSleeps(s)
    <3>1. owner \in Instances
      BY <2>3 DEF Connect, ConnectSleeps, Reachable, ReceiverTypes
    <3> QED BY <2>3, <3>1 DEF Connect, ConnectSleeps
  <2>4. CASE ConnectWakes(s) \/ ConnectRefused(s)
    BY <2>4 DEF ConnectWakes, ConnectRefused
  <2>5. CASE Write(s)
    BY <2>5, ConnFacts DEF Write
  <2>6. CASE WriteKills(s) \/ Close(s) \/ SenderCrash(s)
    BY <2>6 DEF WriteKills, Close, SenderCrash
  <2> QED BY <1>2, <2>2, <2>3, <2>4, <2>5, <2>6 DEF SenderStep, SendStep
<1> QED BY <1>1, <1>2, StepCases DEF vars

LEMMA ReceiverTypesStep == ASSUME ReceiverTypes, SenderTypes, HeldInv, [Next]_vars
                           PROVE  ReceiverTypes'
<1> USE DEF ReceiverTypes, InstStates
<1>1. ASSUME NEW i \in Instances, ReceiverStep(i) PROVE ReceiverTypes'
  <2>1. CASE StartStep(i)
    BY <2>1 DEF StartStep, Unlink, Bind, Bound, Listen
  <2>2. CASE Accept(i)
    <3>1. Head(queue[i]) \in Msgs /\ Tail(queue[i]) \in Seq(Msgs)
      BY <2>2, HeadTailProperties DEF Accept
    <3> QED BY <2>2, <3>1 DEF Accept, TakeConn
  <2>3. CASE Callback(i)
    <3>1. cur[i] \in Msgs /\ Append(got[i], cur[i]) \in Seq(Msgs)
      BY <2>3, AppendProperties DEF Callback, HeldInv
    <3> QED BY <2>3, <3>1 DEF Callback
  <2>4. CASE ReadMsg(i) \/ ReadEnd(i)
    BY <2>4 DEF ReadMsg, ReadEnd
  <2>5. CASE Crash(i) \/ CrashWithChild(i) \/ ChildEnds(i)
    <3>1. <<>> \in Seq(Msgs)
      BY EmptySeq
    <3> QED BY <2>5, <3>1 DEF Crash, CrashWithChild, ChildEnds
  <2> QED BY <1>1, <2>1, <2>2, <2>3, <2>4, <2>5 DEF ReceiverStep, ServeStep
<1>2. ASSUME NEW s \in Senders, Connect(s) PROVE ReceiverTypes'
  <2>1. owner \in Instances /\ Append(queue[owner], Conn(s)) \in Seq(Msgs)
    BY <1>2, ConnFacts, AppendProperties DEF Connect, Reachable
  <2> QED BY <1>2, <2>1 DEF Connect
<1>3. ASSUME UNCHANGED <<owner, inst, cur, got, shared, queue>>
      PROVE  ReceiverTypes'
  BY <1>3
<1> QED BY <1>1, <1>2, <1>3, StepCases DEF vars, receivers

LEMMA HeldStep == ASSUME ReceiverTypes, SenderTypes, HeldInv, [Next]_vars
                  PROVE  HeldInv'
<1> USE DEF HeldInv, Empty
<1>1. ASSUME NEW i \in Instances, ReceiverStep(i), UNCHANGED senders PROVE HeldInv'
  <2> USE <1>1 DEF ReceiverTypes, senders
  <2>1. CASE StartStep(i)
    BY <2>1 DEF StartStep, Unlink, Bind, Bound, Listen
  <2>2. CASE Accept(i)
    <3>1. Head(queue[i]) # NoMsg
      BY <2>2, HeadTailProperties, MsgFacts DEF Accept
    <3> QED BY <2>2, <3>1 DEF Accept, TakeConn
  <2>3. CASE Callback(i) \/ ReadMsg(i) \/ ReadEnd(i)
    BY <2>3 DEF Callback, ReadMsg, ReadEnd, HasData
  <2>4. CASE Crash(i)
    BY <2>4 DEF Crash
  <2>5. CASE CrashWithChild(i)
    BY <2>5 DEF CrashWithChild
  <2>6. CASE ChildEnds(i)
    BY <2>6 DEF ChildEnds
  <2> QED BY <2>1, <2>2, <2>3, <2>4, <2>5, <2>6 DEF ReceiverStep, ServeStep
<1>2. ASSUME NEW s \in Senders, SenderStep(s), UNCHANGED <<inst, cur>>,
             UNCHANGED queue \/ Connect(s)
      PROVE  HeldInv'
  <2>1. written \subseteq written'
    BY <1>2 DEF SenderStep, SendStep, Socket, SocketFails, Connect,
                ConnectSleeps, ConnectWakes, ConnectRefused, Write, WriteKills,
                Close, SenderCrash
  <2>2. CASE UNCHANGED queue
    BY <1>2, <2>1, <2>2
  <2>3. CASE Connect(s)
    <3>1. /\ owner \in Instances
          /\ inst[owner] \notin {"new", "unlinked", "bound", "dead"}
      BY <2>3 DEF Connect, Reachable, Open, Listening, ReceiverTypes
    <3> QED BY <1>2, <2>1, <2>3, <3>1 DEF Connect, ReceiverTypes
  <2> QED BY <1>2, <2>2, <2>3
<1>3. CASE UNCHANGED vars
  BY <1>3 DEF vars, receivers, senders
<1> QED BY <1>1, <1>2, <1>3, StepCases

(***************************************************************************)
(* Holds grows only by connect, and accept leaves it as it is.             *)
(***************************************************************************)
LEMMA HoldsStep ==
  ASSUME ReceiverTypes, SenderTypes, HeldInv, [Next]_vars,
         NEW j \in Instances, NEW m \in Msgs, Holds(j, m)'
  PROVE  \/ Holds(j, m)
         \/ \E s \in Senders : Connect(s) /\ j = owner /\ m = Conn(s)
<1> USE DEF Holds
<1>1. m # NoMsg
  BY MsgFacts
<1>2. ASSUME NEW i \in Instances, ReceiverStep(i) PROVE Holds(j, m)
  <2> USE DEF ReceiverTypes
  <2>1. CASE StartStep(i)
    BY <2>1 DEF StartStep, Unlink, Bind, Bound, Listen
  <2>2. CASE Accept(i)
    <3>1. ToSet(queue[i]) = {Head(queue[i])} \cup ToSet(Tail(queue[i]))
      BY <2>2, ToSetTail DEF Accept
    <3> QED BY <2>2, <3>1 DEF Accept, TakeConn
  <2>3. CASE ReadMsg(i) \/ ReadEnd(i) \/ Callback(i)
    BY <1>1, <2>3 DEF ReadMsg, ReadEnd, Callback
  <2>4. CASE Crash(i) \/ ChildEnds(i)
    BY <1>1, <2>4, ToSetEmpty DEF Crash, ChildEnds
  <2>5. CASE CrashWithChild(i)
    BY <1>1, <2>5 DEF CrashWithChild
  <2> QED BY <1>2, <2>1, <2>2, <2>3, <2>4, <2>5 DEF ReceiverStep, ServeStep
<1>3. ASSUME UNCHANGED <<queue, cur>> PROVE Holds(j, m)
  BY <1>3
<1>4. ASSUME NEW s \in Senders, Connect(s), UNCHANGED cur
      PROVE  Holds(j, m) \/ (j = owner /\ m = Conn(s))
  <2>1. ToSet(Append(queue[owner], Conn(s))) = ToSet(queue[owner]) \cup {Conn(s)}
    BY <1>4, ConnFacts, ToSetAppend DEF Connect, Reachable, ReceiverTypes
  <2> QED BY <1>4, <2>1 DEF Connect, ReceiverTypes
<1> QED BY <1>2, <1>3, <1>4, StepCases DEF vars, receivers

LEMMA FreshStep ==
  ASSUME ReceiverTypes, SenderTypes, HeldInv, FreshInv, [Next]_vars
  PROVE  FreshInv'
<1> DEFINE Sending(t) == pc[t] \in {"connect", "asleep", "write"}
<1>1. /\ \A t \in Senders : Sending(t) => Conn(t) \in Msgs /\ Conn(t)[1] = t
      /\ \A t \in Senders : Sending(t)' => Conn(t)' \in Msgs /\ Conn(t)'[1] = t
  <2>1. \A t \in Senders : Sending(t) => Conn(t) \in Msgs /\ Conn(t)[1] = t
    BY ConnFacts
  <2>2. ASSUME NEW t \in Senders, Sending(t)'
        PROVE  Conn(t)' \in Msgs /\ Conn(t)'[1] = t
    <3>1. seq'[t] \in Nat /\ seq'[t] > 0 /\ seq'[t] <= MaxSends[t]
      BY <2>2, SenderTypesStep DEF SenderTypes
    <3>2. MaxSends[t] \in Nat
      BY IpcAssumption
    <3>3. seq'[t] \in 1..MaxSends[t]
      BY <3>1, <3>2
    <3> QED BY <3>3, MsgIs DEF Conn
  <2> QED BY <2>1, <2>2
<1>2. ASSUME UNCHANGED <<seq, written, pc, at>>,
             \A j \in Instances, m \in Msgs : Holds(j, m)' => Holds(j, m)
      PROVE  FreshInv'
  <2>1. \A t \in Senders : Fresh(t)'
    BY <1>1, <1>2 DEF FreshInv, Fresh, Conn
  <2> QED BY <1>2, <2>1 DEF FreshInv
<1>3. ASSUME NEW i \in Instances, ReceiverStep(i), UNCHANGED senders
      PROVE  FreshInv'
  <2>1. ~ \E s \in Senders : Connect(s)
    BY <1>3 DEF Connect, senders, SenderTypes
  <2> QED BY <1>2, <1>3, <2>1, HoldsStep DEF senders
<1>4. ASSUME NEW s \in Senders, SenderStep(s), UNCHANGED cur,
             UNCHANGED queue \/ Connect(s)
      PROVE  FreshInv'
  <2>1. ASSUME ~Connect(s), NEW i \in Instances, NEW m
        PROVE  Holds(i, m)' = Holds(i, m)
    BY <1>4, <2>1 DEF Holds
  <2>2. ASSUME NEW i \in Instances, NEW m \in Msgs, Holds(i, m)'
        PROVE  Holds(i, m) \/ (Connect(s) /\ i = owner /\ m = Conn(s))
    <3>1. CASE Connect(s)
      <4>1. \A t \in Senders : Connect(t) => t = s
        BY <3>1 DEF Connect, SenderTypes
      <4> QED BY <2>2, <3>1, <4>1, HoldsStep
    <3>2. CASE ~Connect(s)
      BY <2>1, <2>2, <3>2
    <3> QED BY <3>1, <3>2
  <2>3. /\ seq' \in [Senders -> Nat] /\ seq[s] <= seq'[s]
        /\ \A t \in Senders \ {s} :
             seq'[t] = seq[t] /\ pc'[t] = pc[t] /\ at'[t] = at[t]
        /\ UNCHANGED written \/ (Write(s) /\ written' = written \cup {Conn(s)})
    BY <1>4 DEF SenderStep, SendStep, Socket, SocketFails, Connect,
                ConnectSleeps, ConnectWakes, ConnectRefused, Write, WriteKills,
                Close, SenderCrash, SenderTypes
  <2>4. ASSUME NEW t \in Senders \ {s} PROVE Fresh(t)'
    <3>1. Conn(t)' = Conn(t) /\ Conn(t) # Conn(s)
      BY <2>3 DEF Conn
    <3> QED BY <1>1, <2>2, <2>3, <3>1 DEF FreshInv, Fresh
  <2>5. ASSUME NEW i \in Instances, NEW m \in Msgs, Holds(i, m)'
        PROVE  m[2] <= seq'[m[1]]
    <3>1. m[1] \in Senders /\ m[2] \in Nat
      BY MsgFacts
    <3>2. CASE Holds(i, m)
      <4>1. m[2] <= seq[m[1]] /\ seq[m[1]] <= seq'[m[1]]
        BY <2>3, <3>1, <3>2 DEF FreshInv, SenderTypes
      <4> QED BY <2>3, <3>1, <4>1 DEF SenderTypes
    <3>3. CASE Connect(s) /\ m = Conn(s)
      BY <2>3, <3>1, <3>3 DEF Connect, Conn, SenderTypes
    <3> QED BY <2>2, <2>5, <3>2, <3>3
  <2>6. ASSUME NEW m \in written' PROVE m[2] <= seq'[m[1]]
    <3>1. CASE m \in written
      <4>1. m[1] \in Senders /\ m[2] \in Nat /\ m[2] <= seq[m[1]]
        BY <3>1, MsgFacts DEF FreshInv, SenderTypes
      <4> QED BY <2>3, <4>1 DEF SenderTypes
    <3>2. CASE Write(s) /\ m = Conn(s)
      BY <2>3, <3>2 DEF Write, Conn, SenderTypes
    <3> QED BY <2>3, <2>6, <3>1, <3>2
  <2>7. Fresh(s)'
    <3>1. CASE Socket(s)
      <4>1. /\ pc'[s] = "connect" /\ Conn(s)' = <<s, seq[s] + 1>>
            /\ UNCHANGED <<queue, cur, written>>
        BY <3>1 DEF Socket, Conn, SenderTypes, receivers
      <4>2. \A i \in Instances : \A m : Holds(i, m)' = Holds(i, m)
        BY <4>1 DEF Holds
      <4>3. Conn(s)' \in Msgs
        BY <1>1, <4>1
      <4>4. Conn(s)' \notin written /\ \A i \in Instances : ~Holds(i, Conn(s)')
        BY <4>1, <4>3 DEF FreshInv, SenderTypes
      <4>5. Conn(s)' \notin written' /\ \A i \in Instances : ~Holds(i, Conn(s))'
        BY <4>1, <4>2, <4>4
      <4> QED BY <4>1, <4>5 DEF Fresh
    <3>2. CASE Connect(s)
      <4>1. /\ pc[s] = "connect" /\ pc'[s] = "write" /\ Conn(s)' = Conn(s)
            /\ at'[s] = owner /\ UNCHANGED written
        BY <3>2 DEF Connect, Conn, SenderTypes
      <4>2. Conn(s) \in Msgs /\ Conn(s) \notin written
        BY <1>1, <4>1 DEF FreshInv, Fresh
      <4>3. \A i \in Instances : Holds(i, Conn(s))' => i = owner
        BY <2>2, <4>1, <4>2 DEF FreshInv, Fresh
      <4> QED BY <4>1, <4>2, <4>3 DEF Fresh
    <3>3. CASE ConnectSleeps(s) \/ ConnectWakes(s)
      <4>1. /\ pc[s] \in {"connect", "asleep"} /\ pc'[s] \in {"connect", "asleep"}
            /\ UNCHANGED <<queue, cur, written, seq>>
        BY <3>3 DEF ConnectSleeps, ConnectWakes, SenderTypes, receivers
      <4>2. Conn(s)' = Conn(s) /\ \A i \in Instances : \A m : Holds(i, m)' = Holds(i, m)
        BY <4>1 DEF Conn, Holds
      <4> QED BY <4>1, <4>2 DEF FreshInv, Fresh
    <3>4. CASE ConnectRefused(s) \/ WriteKills(s) \/ Close(s) \/ SenderCrash(s)
      BY <3>4 DEF ConnectRefused, WriteKills, Close, SenderCrash, Fresh,
                  SenderTypes
    <3>5. CASE Write(s) \/ SocketFails(s)
      BY <3>5 DEF Write, SocketFails, Fresh, SenderTypes
    <3> QED BY <1>4, <3>1, <3>2, <3>3, <3>4, <3>5 DEF SenderStep, SendStep
  <2> QED BY <2>4, <2>5, <2>6, <2>7 DEF FreshInv
<1>5. CASE UNCHANGED vars
  BY <1>2, <1>5 DEF vars, receivers, senders, Holds
<1> QED BY <1>3, <1>4, <1>5, StepCases

(***************************************************************************)
(* A new connection is behind what its instance holds; serving the oldest  *)
(* connection keeps the rest in order.                                     *)
(***************************************************************************)
LEMMA BehindHeld ==
  ASSUME SenderTypes, FreshInv, NEW s \in Senders, pc[s] = "connect",
         NEW i \in Instances, NEW m \in Msgs, Holds(i, m)
  PROVE  Before(m, Conn(s))
<1>1. m[2] <= seq[m[1]] /\ m # Conn(s)
  BY DEF FreshInv, Fresh
<1>2. m = <<m[1], m[2]>> /\ m[2] \in Nat
  BY MsgFacts
<1> QED BY <1>1, <1>2 DEF Before, Conn, SenderTypes

InOrder(q) == \A k \in DOMAIN q : \A j \in 1..(k - 1) : Before(q[j], q[k])

LEMMA InOrderTail ==
  ASSUME NEW q \in Seq(Msgs), q # <<>>, InOrder(q)
  PROVE  /\ InOrder(Tail(q))
         /\ \A k \in DOMAIN Tail(q) : Before(Head(q), Tail(q)[k])
<1>1. /\ DOMAIN q = 1..Len(q) /\ Len(q) \in Nat \ {0} /\ Head(q) = q[1]
      /\ DOMAIN Tail(q) = 1..(Len(q) - 1)
      /\ \A k \in 1..(Len(q) - 1) : Tail(q)[k] = q[k + 1]
  BY LenProperties, HeadTailProperties, EmptySeq
<1>2. ASSUME NEW k \in 1..(Len(q) - 1), NEW j \in 1..(k - 1)
      PROVE  Before(Tail(q)[j], Tail(q)[k])
  <2>1. k + 1 \in 1..Len(q) /\ j + 1 \in 1..((k + 1) - 1) /\ j \in 1..(Len(q) - 1)
    BY <1>1
  <2>2. Before(q[j + 1], q[k + 1])
    BY <1>1, <2>1 DEF InOrder
  <2> QED BY <1>1, <2>1, <2>2
<1>3. ASSUME NEW k \in 1..(Len(q) - 1) PROVE Before(q[1], Tail(q)[k])
  <2>1. k + 1 \in 1..Len(q) /\ 1 \in 1..((k + 1) - 1)
    BY <1>1
  <2> QED BY <1>1, <2>1 DEF InOrder
<1> QED BY <1>1, <1>2, <1>3 DEF InOrder

LEMMA InOrderAppend ==
  ASSUME NEW q \in Seq(Msgs), NEW m \in Msgs, InOrder(q),
         \A k \in DOMAIN q : Before(q[k], m)
  PROVE  InOrder(Append(q, m))
<1>1. /\ DOMAIN q = 1..Len(q) /\ Len(q) \in Nat
      /\ DOMAIN Append(q, m) = 1..(Len(q) + 1)
      /\ \A k \in 1..Len(q) : Append(q, m)[k] = q[k]
      /\ Append(q, m)[Len(q) + 1] = m
  BY LenProperties, AppendProperties
<1>2. ASSUME NEW k \in 1..(Len(q) + 1), NEW j \in 1..(k - 1)
      PROVE  Before(Append(q, m)[j], Append(q, m)[k])
  <2>1. j \in 1..Len(q)
    BY <1>1
  <2>2. CASE k = Len(q) + 1
    BY <1>1, <2>1, <2>2
  <2>3. CASE k \in 1..Len(q)
    BY <1>1, <2>1, <2>3 DEF InOrder
  <2> QED BY <1>1, <2>2, <2>3
<1> QED BY <1>1, <1>2 DEF InOrder

LEMMA OrderStep ==
  ASSUME ReceiverTypes, SenderTypes, HeldInv, FreshInv, OrderInv, [Next]_vars
  PROVE  OrderInv'
<1> DEFINE Ordered(i) ==
             /\ InOrder(queue[i])
             /\ cur[i] # NoMsg => \A k \in DOMAIN queue[i] : Before(cur[i], queue[i][k])
<1>1. /\ \A i \in Instances : Ordered(i)
      /\ (\A i \in Instances : Ordered(i)') => OrderInv'
  BY DEF OrderInv, InOrder
<1>2. InOrder(<<>>)
  BY DEF InOrder
<1>3. ASSUME NEW i \in Instances, ReceiverStep(i) PROVE \A j \in Instances : Ordered(j)'
  <2> USE DEF ReceiverTypes
  <2>1. CASE StartStep(i) \/ ReadMsg(i)
    <3>1. UNCHANGED <<queue, cur>>
      BY <2>1 DEF StartStep, Unlink, Bind, Bound, Listen, ReadMsg
    <3> QED BY <1>1, <3>1
  <2>2. CASE Accept(i)
    <3>1. /\ queue' = [queue EXCEPT ![i] = Tail(@)]
          /\ cur' = [cur EXCEPT ![i] = Head(queue[i])] /\ queue[i] # <<>>
      BY <2>2 DEF Accept, TakeConn
    <3>2. Ordered(i)'
      BY <1>1, <3>1, InOrderTail
    <3> QED BY <1>1, <3>1, <3>2
  <2>3. CASE ReadEnd(i) \/ Callback(i)
    BY <1>1, <2>3 DEF ReadEnd, Callback
  <2>4. CASE Crash(i) \/ ChildEnds(i)
    BY <1>1, <1>2, <2>4 DEF Crash, ChildEnds
  <2>5. CASE CrashWithChild(i)
    BY <1>1, <2>5 DEF CrashWithChild
  <2> QED BY <1>3, <2>1, <2>2, <2>3, <2>4, <2>5 DEF ReceiverStep, ServeStep
<1>4. ASSUME NEW s \in Senders, NEW o \in Instances, o = owner,
             Connect(s), UNCHANGED cur
      PROVE  \A j \in Instances : Ordered(j)'
  <2>1. /\ queue[o] \in Seq(Msgs) /\ Conn(s) \in Msgs
        /\ pc[s] = "connect"
        /\ queue' = [queue EXCEPT ![o] = Append(@, Conn(s))]
    BY <1>4, ConnFacts DEF Connect, Reachable, ReceiverTypes
  <2>2. \A k \in DOMAIN queue[o] :
          queue[o][k] \in Msgs /\ Before(queue[o][k], Conn(s))
    <3>1. ASSUME NEW k \in DOMAIN queue[o]
          PROVE  queue[o][k] \in Msgs /\ Holds(o, queue[o][k])
      BY <2>1, ElementOfSeq, LenProperties DEF Holds, ToSet
    <3> QED BY <2>1, <3>1, BehindHeld
  <2>3. InOrder(Append(queue[o], Conn(s)))
    BY <1>1, <2>1, <2>2, InOrderAppend
  <2>4. ASSUME cur[o] # NoMsg,
               NEW k \in DOMAIN Append(queue[o], Conn(s))
        PROVE  Before(cur[o], Append(queue[o], Conn(s))[k])
    <3>1. Before(cur[o], Conn(s))
      BY <2>1, <2>4, BehindHeld DEF ReceiverTypes, Holds
    <3>2. \A n \in DOMAIN queue[o] : Before(cur[o], queue[o][n])
      BY <1>1, <2>1, <2>4
    <3>3. /\ DOMAIN queue[o] = 1..Len(queue[o]) /\ Len(queue[o]) \in Nat
          /\ DOMAIN Append(queue[o], Conn(s)) = 1..(Len(queue[o]) + 1)
          /\ \A n \in 1..Len(queue[o]) :
               Append(queue[o], Conn(s))[n] = queue[o][n]
          /\ Append(queue[o], Conn(s))[Len(queue[o]) + 1] = Conn(s)
      BY <2>1, LenProperties, AppendProperties
    <3> QED BY <3>1, <3>2, <3>3
  <2>5. /\ queue'[o] = Append(queue[o], Conn(s))
        /\ \A j \in Instances \ {o} : queue'[j] = queue[j]
    BY <2>1 DEF ReceiverTypes
  <2>6. Ordered(o)'
    BY <1>4, <2>1, <2>3, <2>4, <2>5
  <2> QED BY <1>1, <1>4, <2>1, <2>5, <2>6
<1>5. ASSUME UNCHANGED <<queue, cur>> PROVE \A j \in Instances : Ordered(j)'
  BY <1>1, <1>5
<1>6. \A j \in Instances : Ordered(j)'
  <2>1. \A s \in Senders : Connect(s) => owner \in Instances
    BY DEF Connect, Reachable, ReceiverTypes
  <2> QED BY <1>3, <1>4, <1>5, <2>1, StepCases DEF vars, receivers
<1> QED BY <1>1, <1>6

(***************************************************************************)
(* What write does to the numbers of the written messages.                 *)
(***************************************************************************)
LEMMA NumbersType == ASSUME NEW s \in Senders PROVE Numbers(s) \subseteq Nat
<1>1. MaxSends[s] \in Nat
  BY IpcAssumption
<1> QED BY <1>1 DEF Numbers

LEMMA MaxIs ==
  ASSUME NEW S \in SUBSET Nat, NEW n, Largest(S, n)
  PROVE  Max(S) = n
<1>1. Max(S) \in S /\ \A k \in S : Max(S) >= k
  BY DEF Max, Largest
<1>2. n \in Nat /\ Max(S) \in Nat /\ Max(S) >= n /\ n >= Max(S)
  BY <1>1 DEF Largest
<1> QED BY <1>2

LEMMA WriteNumbers ==
  ASSUME SenderTypes, FreshInv, NEW s \in Senders, Write(s)
  PROVE  /\ Numbers(s)' = Numbers(s) \cup {seq[s]}
         /\ \A k \in Numbers(s) : k < seq[s]
         /\ \A t \in Senders \ {s} : Numbers(t)' = Numbers(t)
<1>1. /\ pc[s] = "write" /\ written' = written \cup {<<s, seq[s]>>}
      /\ seq[s] \in Nat \ {0} /\ seq[s] \in 1..MaxSends[s]
  BY IpcAssumption DEF Write, Conn, SenderTypes
<1>2. ASSUME NEW k \in Numbers(s) PROVE k < seq[s]
  <2>1. k \in Nat
    BY NumbersType
  <2>2. CASE k = 0
    BY <1>1, <2>2
  <2>3. CASE <<s, k>> \in written
    <3>1. k <= seq[s]
      BY <2>3 DEF FreshInv
    <3>2. k # seq[s]
      BY <1>1, <2>3 DEF FreshInv, Fresh, Conn
    <3> QED BY <1>1, <2>1, <3>1, <3>2
  <2> QED BY <2>2, <2>3 DEF Numbers
<1>3. Numbers(s)' = Numbers(s) \cup {seq[s]}
  <2>1. \A k \in 1..MaxSends[s] :
          <<s, k>> \in written' <=> <<s, k>> \in written \/ k = seq[s]
    BY <1>1
  <2> QED BY <1>1, <2>1 DEF Numbers
<1>4. \A t \in Senders \ {s} : Numbers(t)' = Numbers(t)
  BY <1>1 DEF Numbers
<1> QED BY <1>2, <1>3, <1>4

LEMMA WrittenStep ==
  ASSUME [Next]_vars
  PROVE  UNCHANGED written \/ \E s \in Senders : Write(s)
<1>1. ASSUME NEW s \in Senders, SenderStep(s) PROVE UNCHANGED written \/ Write(s)
  BY <1>1 DEF SenderStep, SendStep, Socket, SocketFails, Connect, ConnectSleeps,
              ConnectWakes, ConnectRefused, WriteKills, Close, SenderCrash
<1> QED BY <1>1, StepCases DEF vars, senders

LEMMA LastStep ==
  ASSUME SenderTypes, FreshInv, LastInv, [Next]_vars
  PROVE  LastInv'
<1>1. CASE UNCHANGED written
  BY <1>1 DEF LastInv, Numbers
<1>2. ASSUME NEW s \in Senders, Write(s) PROVE LastInv'
  <2>1. \A k \in Numbers(s)' : seq[s] >= k
    BY <1>2, WriteNumbers, NumbersType DEF SenderTypes
  <2>2. Largest(Numbers(s)', seq[s])
    BY <1>2, <2>1, WriteNumbers DEF Largest
  <2> QED BY <1>2, <2>2, WriteNumbers DEF LastInv
<1> QED BY <1>1, <1>2, WrittenStep

LEMMA IpcInductive == Spec => []IpcInv
<1>1. Init => IpcInv
  <2> SUFFICES ASSUME Init PROVE IpcInv
    OBVIOUS
  <2> USE DEF Init
  <2>1. ReceiverTypes
    BY EmptySeq DEF ReceiverTypes, InstStates
  <2>2. SenderTypes
    BY IpcAssumption DEF SenderTypes, SendStates
  <2>3. HeldInv
    BY DEF HeldInv, Empty
  <2>4. \A i \in Instances, m \in Msgs : ~Holds(i, m)
    BY MsgFacts, ToSetEmpty DEF Holds
  <2>5. FreshInv
    BY <2>4 DEF FreshInv, Fresh
  <2>6. OrderInv
    BY DEF OrderInv
  <2>7. LastInv
    BY DEF LastInv, Largest, Numbers
  <2> QED BY <2>1, <2>2, <2>3, <2>5, <2>6, <2>7 DEF IpcInv
<1>2. IpcInv /\ [Next]_vars => IpcInv'
  BY SenderTypesStep, ReceiverTypesStep, HeldStep, FreshStep, OrderStep, LastStep
  DEF IpcInv
<1> QED BY <1>1, <1>2, PTL DEF Spec

-----------------------------------------------------------------------------
(***************************************************************************)
(* OnlyOverlapHides: the path leads to the instance that listens, unless   *)
(* another lived at the same time (ipc_msg.c:25-34).                       *)
(***************************************************************************)
THEOREM Hiding == Spec => []OnlyOverlapHides
<1> USE DEF Alive, Listening
<1>1. Init => ShareInv
  BY DEF Init, ShareInv, InstStates
<1>2. ShareInv /\ [Next]_vars => ShareInv'
  <2> SUFFICES ASSUME ShareInv, [Next]_vars PROVE ShareInv'
    OBVIOUS
  <2> USE DEF ShareInv, InstStates
  <2>1. ASSUME NEW i \in Instances, Unlink(i) PROVE ShareInv'
    <3> DEFINE others == {j \in Instances : Alive(j)}
    <3>1. /\ inst[i] = "new" /\ inst' = [inst EXCEPT ![i] = "unlinked"]
          /\ others \subseteq shared' /\ shared \subseteq shared'
          /\ shared' \subseteq Instances
          /\ others # {} => i \in shared'
      BY <2>1 DEF Unlink
    <3> QED BY <3>1
  <2>2. ASSUME NEW i \in Instances, Bind(i) PROVE ShareInv'
    BY <2>2 DEF Bind, Bound
  <2>3. ASSUME NEW i \in Instances, Listen(i) \/ ServeStep(i) PROVE ShareInv'
    BY <2>3 DEF Listen, ServeStep, Accept, ReadMsg, ReadEnd, Callback
  <2>4. ASSUME NEW i \in Instances,
               Crash(i) \/ CrashWithChild(i) \/ ChildEnds(i)
        PROVE  ShareInv'
    BY <2>4 DEF Crash, CrashWithChild, ChildEnds
  <2>5. ASSUME UNCHANGED <<owner, inst, shared>> PROVE ShareInv'
    BY <2>5
  <2> QED BY <2>1, <2>2, <2>3, <2>4, <2>5, StepCases
          DEF ReceiverStep, StartStep, vars, receivers
<1>3. ShareInv => OnlyOverlapHides
  BY DEF ShareInv, OnlyOverlapHides
<1> QED BY <1>1, <1>2, <1>3, PTL DEF Spec

(***************************************************************************)
(* The steps of the mailbox, one lemma for each kind of step.  Down is the *)
(* mapping of its variable down.                                           *)
(***************************************************************************)
Down == {i \in Instances : inst[i] \in {"orphaned", "dead"}}

LEMMA InflightIs ==
  ASSUME IpcInv, NEW i \in Instances
  PROVE  /\ i \in Down => Inflight(i) = {}
         /\ \A m \in Inflight(i) : m \in Msgs /\ m # NoMsg
<1>1. \A m \in written : m \in Msgs /\ m # NoMsg
  BY MsgFacts DEF IpcInv, SenderTypes
<1> QED BY <1>1, ToSetEmpty
        DEF IpcInv, Down, Inflight, Holds, HeldInv, Empty

\* The numbers of the last messages stay when nothing is written.
LEMMA LastStays ==
  ASSUME UNCHANGED written
  PROVE  \A s \in Senders : Numbers(s)' = Numbers(s)
BY DEF Numbers

LEMMA DieMaps ==
  ASSUME IpcInv, NEW i \in Instances, i \notin Down, Down' = Down \cup {i},
         UNCHANGED <<written, got>>,
         Inflight(i)' = {},
         \A j \in Instances \ {i} : Inflight(j)' = Inflight(j)
  PROVE  Box!Die(i)
BY LastStays DEF Box!Die, Down

LEMMA HandOverMaps ==
  ASSUME IpcInv, NEW i \in Instances, Callback(i)
  PROVE  \E s \in Senders : \E n \in 1..MaxSends[s] : Box!HandOver(s, n, i)
<1>1. /\ inst[i] = "loaded" /\ cur[i] \in written /\ cur[i] \in Msgs
      /\ inst' = [inst EXCEPT ![i] = "listening"]
      /\ cur' = [cur EXCEPT ![i] = NoMsg]
      /\ got' = [got EXCEPT ![i] = Append(@, cur[i])]
      /\ UNCHANGED <<queue, written>>
  BY DEF Callback, IpcInv, HeldInv, SenderTypes, senders
<1>2. PICK s \in Senders : \E n \in 1..MaxSends[s] : cur[i] = <<s, n>>
  BY <1>1, MsgFacts
<1>3. PICK n \in 1..MaxSends[s] : cur[i] = <<s, n>>
  BY <1>2
<1>4. \A k \in DOMAIN queue[i] : Before(cur[i], queue[i][k])
  BY <1>1, MsgFacts DEF IpcInv, OrderInv
<1>5. n \in Nat /\ MaxSends[s] \in Nat
  BY IpcAssumption
<1>6. ASSUME NEW k \in 1..n PROVE <<s, k>> \notin ToSet(queue[i])
  BY <1>3, <1>4, <1>5 DEF ToSet, Before
<1>7. <<s, n>> \in Inflight(i)
  BY <1>1, <1>3 DEF Inflight, Holds
<1>8. \A k \in 1..(n - 1) : <<s, k>> \notin Inflight(i)
  BY <1>3, <1>5, <1>6 DEF Inflight, Holds
<1>9. Inflight(i)' = Inflight(i) \ {<<s, n>>}
  <2>1. /\ inst'[i] # "orphaned" /\ inst[i] # "orphaned"
        /\ cur'[i] = NoMsg /\ queue'[i] = queue[i]
    BY <1>1 DEF IpcInv, ReceiverTypes
  <2>2. NoMsg \notin written
    BY MsgFacts DEF IpcInv, SenderTypes
  <2>3. <<s, n>> \notin ToSet(queue[i])
    BY <1>5, <1>6
  <2> QED BY <1>1, <1>3, <2>1, <2>2, <2>3 DEF Inflight, Holds
<1>10. \A j \in Instances \ {i} : Inflight(j)' = Inflight(j)
  BY <1>1 DEF Inflight, Holds, IpcInv, ReceiverTypes
<1>11. Down' = Down
  BY <1>1 DEF Down, IpcInv, ReceiverTypes
<1>12. Box!HandOver(s, n, i)
  BY <1>1, <1>3, <1>7, <1>8, <1>9, <1>10, <1>11, LastStays
  DEF Box!HandOver, Down
<1> QED BY <1>12

LEMMA PostMaps ==
  ASSUME IpcInv, NEW s \in Senders, Write(s), UNCHANGED receivers
  PROVE  \E n \in 1..MaxSends[s], i \in Instances :
           Box!Post(s, n, i) \/ Box!PostToDead(s, n, i)
<1>1. PICK n \in 1..MaxSends[s] : n = seq[s]
  BY IpcAssumption DEF Write, IpcInv, SenderTypes
<1>2. PICK i \in Instances : i = at[s]
  BY DEF Write, IpcInv, SenderTypes
<1>3. /\ Conn(s) = <<s, n>> /\ Holds(i, Conn(s))
      /\ written' = written \cup {<<s, n>>}
      /\ UNCHANGED <<inst, queue, cur, got>>
  BY <1>1, <1>2 DEF Write, Conn, receivers
<1>4. \A j \in Instances : Holds(j, <<s, n>>) => j = i
  BY <1>3, <1>2 DEF Write, IpcInv, FreshInv, Fresh
<1>5. /\ \A t \in Senders : \E k \in Nat : Largest(Numbers(t), k)
      /\ Max(Numbers(s)) < n /\ Max(Numbers(s)') = n
      /\ \A t \in Senders \ {s} : Numbers(t)' = Numbers(t)
  <2>1. PICK k \in Numbers(s) : Largest(Numbers(s), k)
    BY DEF IpcInv, LastInv
  <2>2. Max(Numbers(s)) = k /\ k < n
    BY <1>1, <2>1, NumbersType, MaxIs, WriteNumbers DEF IpcInv
  <2>3. Numbers(s)' \in SUBSET Nat /\ Largest(Numbers(s)', n)
    BY <1>1, <2>1, NumbersType, WriteNumbers DEF IpcInv, Largest, SenderTypes
  <2>4. Max(Numbers(s)') = n
    BY <2>3, MaxIs
  <2> QED BY <2>2, <2>4, WriteNumbers, NumbersType DEF IpcInv, LastInv
<1>6. \A j \in Instances : \A m : Holds(j, m)' = Holds(j, m)
  BY <1>3 DEF Holds
<1>7. \A j \in Instances \ {i} : Inflight(j)' = Inflight(j)
  BY <1>3, <1>4, <1>6 DEF Inflight
<1>8. CASE inst[i] = "orphaned"
  <2>1. Inflight(i)' = {} /\ Inflight(i) = {} /\ i \in Down
    BY <1>3, <1>8 DEF Inflight, Down
  <2>2. Box!PostToDead(s, n, i)
    BY <1>3, <1>5, <1>7, <2>1 DEF Box!PostToDead, Down
  <2> QED BY <1>3, <2>2
<1>9. CASE inst[i] # "orphaned"
  <2>1. Inflight(i)' = Inflight(i) \cup {<<s, n>>}
    BY <1>3, <1>6, <1>9 DEF Inflight
  <2>2. i \notin Down
    <3>1. inst[i] # "dead"
      BY <1>3, MsgFacts, ToSetEmpty, ConnFacts
      DEF Write, Holds, IpcInv, HeldInv, Empty
    <3> QED BY <1>9, <3>1 DEF Down
  <2>3. Box!Post(s, n, i)
    BY <1>3, <1>5, <1>7, <2>1, <2>2 DEF Box!Post, Down
  <2> QED BY <1>3, <2>3
<1> QED BY <1>8, <1>9

(***************************************************************************)
(* A step of the sockets that neither writes, nor hands over, nor ends a   *)
(* receiver changes nothing in the mailbox.                                *)
(***************************************************************************)
LEMMA StutterMaps ==
  ASSUME UNCHANGED <<written, got>>, Down' = Down,
         \A i \in Instances : Inflight(i)' = Inflight(i)
  PROVE  UNCHANGED Box!boxVars
BY LastStays DEF Box!boxVars, Down

LEMMA ReceiverMaps ==
  ASSUME IpcInv, NEW i \in Instances, ReceiverStep(i), UNCHANGED senders
  PROVE  Box!BoxNext \/ UNCHANGED Box!boxVars
<1> USE DEF IpcInv, ReceiverTypes, senders
<1>1. NoMsg \notin written /\ \A m \in written : m \in Msgs
  BY MsgFacts DEF SenderTypes
<1>2. Box!Die(i) => Box!BoxNext
  BY DEF Box!BoxNext
<1>3. ASSUME UNCHANGED <<queue, cur, got>>, Empty(i),
             i \notin Down, inst' = [inst EXCEPT ![i] = "dead"]
      PROVE  Box!Die(i)
  <2>1. Inflight(i)' = {}
    BY <1>1, <1>3, ToSetEmpty DEF Inflight, Holds, Empty
  <2>2. \A j \in Instances \ {i} : Inflight(j)' = Inflight(j)
    BY <1>3 DEF Inflight, Holds
  <2>3. Down' = Down \cup {i}
    BY <1>3 DEF Down
  <2> QED BY <1>3, <2>1, <2>2, <2>3, DieMaps
<1>4. CASE Unlink(i)
  <2>1. \A j \in Instances : Inflight(j)' = Inflight(j)
    BY <1>4 DEF Unlink, Inflight, Holds
  <2>2. Down' = Down
    BY <1>4 DEF Unlink, Down
  <2> QED BY <1>4, <2>1, <2>2, StutterMaps DEF Unlink
<1>5. CASE Bind(i) \/ Listen(i)
  <2>1. /\ inst[i] \in {"unlinked", "bound"} /\ Empty(i) /\ i \notin Down
        /\ UNCHANGED <<queue, cur, got>>
        /\ \E step \in {"bound", "listening", "dead"} :
             inst' = [inst EXCEPT ![i] = step]
    BY <1>5 DEF Bind, Bound, Listen, HeldInv, Down
  <2>2. CASE inst' = [inst EXCEPT ![i] = "dead"]
    BY <1>2, <1>3, <2>1, <2>2
  <2>3. CASE inst' # [inst EXCEPT ![i] = "dead"]
    <3>1. PICK step \in {"bound", "listening"} : inst' = [inst EXCEPT ![i] = step]
      BY <2>1, <2>3
    <3>2. \A j \in Instances : Inflight(j)' = Inflight(j)
      BY <2>1, <3>1 DEF Inflight, Holds
    <3>3. Down' = Down
      BY <2>1, <3>1 DEF Down
    <3> QED BY <2>1, <3>2, <3>3, StutterMaps
  <2> QED BY <2>2, <2>3
<1>6. CASE Accept(i)
  <2>1. /\ inst[i] = "listening" /\ cur[i] = NoMsg /\ queue[i] # <<>>
        /\ inst' = [inst EXCEPT ![i] = "reading"]
        /\ cur' = [cur EXCEPT ![i] = Head(queue[i])]
        /\ queue' = [queue EXCEPT ![i] = Tail(@)] /\ UNCHANGED got
    BY <1>6 DEF Accept, TakeConn, HeldInv
  <2>2. ToSet(queue[i]) = {Head(queue[i])} \cup ToSet(Tail(queue[i]))
    BY <2>1, ToSetTail
  <2>3. Inflight(i)' = Inflight(i)
    BY <1>1, <2>1, <2>2 DEF Inflight, Holds
  <2>4. \A j \in Instances \ {i} : Inflight(j)' = Inflight(j)
    BY <2>1 DEF Inflight, Holds
  <2>5. Down' = Down
    BY <2>1 DEF Down
  <2> QED BY <2>1, <2>3, <2>4, <2>5, StutterMaps
<1>7. CASE ReadMsg(i)
  <2>1. \A j \in Instances : Inflight(j)' = Inflight(j)
    BY <1>7 DEF ReadMsg, Inflight, Holds
  <2>2. Down' = Down
    BY <1>7 DEF ReadMsg, Down
  <2> QED BY <1>7, <2>1, <2>2, StutterMaps DEF ReadMsg
<1>8. CASE ReadEnd(i)
  <2>1. cur[i] \notin written
    BY <1>8 DEF ReadEnd, HasData
  <2>2. \A j \in Instances : Inflight(j)' = Inflight(j)
    BY <1>1, <1>8, <2>1 DEF ReadEnd, Inflight, Holds
  <2>3. Down' = Down
    BY <1>8 DEF ReadEnd, Down
  <2> QED BY <1>8, <2>2, <2>3, StutterMaps DEF ReadEnd
<1>9. CASE Callback(i)
  BY <1>9, HandOverMaps DEF Box!BoxNext
<1>10. CASE Crash(i)
  <2>1. /\ i \notin Down /\ inst' = [inst EXCEPT ![i] = "dead"]
        /\ queue' = [queue EXCEPT ![i] = <<>>]
        /\ cur' = [cur EXCEPT ![i] = NoMsg] /\ UNCHANGED got
    BY <1>10 DEF Crash, Alive, Down
  <2>2. Inflight(i)' = {}
    BY <1>1, <2>1, ToSetEmpty DEF Inflight, Holds
  <2>3. \A j \in Instances \ {i} : Inflight(j)' = Inflight(j)
    BY <2>1 DEF Inflight, Holds
  <2>4. Down' = Down \cup {i}
    BY <2>1 DEF Down
  <2> QED BY <1>2, <2>1, <2>2, <2>3, <2>4, DieMaps
<1>11. CASE CrashWithChild(i)
  <2>1. PICK kept \in {NoMsg, cur[i]} :
          /\ i \notin Down /\ inst' = [inst EXCEPT ![i] = "orphaned"]
          /\ cur' = [cur EXCEPT ![i] = kept] /\ UNCHANGED <<queue, got>>
    BY <1>11 DEF CrashWithChild, Listening, Down
  <2>2. Inflight(i)' = {}
    BY <2>1 DEF Inflight
  <2>3. \A j \in Instances \ {i} : Inflight(j)' = Inflight(j)
    BY <2>1 DEF Inflight, Holds
  <2>4. Down' = Down \cup {i}
    BY <2>1 DEF Down
  <2> QED BY <1>2, <2>1, <2>2, <2>3, <2>4, DieMaps
<1>12. CASE ChildEnds(i)
  <2>1. /\ inst[i] = "orphaned" /\ inst' = [inst EXCEPT ![i] = "dead"]
        /\ queue' = [queue EXCEPT ![i] = <<>>]
        /\ cur' = [cur EXCEPT ![i] = NoMsg] /\ UNCHANGED got
    BY <1>12 DEF ChildEnds
  <2>2. Inflight(i) = {} /\ Inflight(i)' = {}
    BY <1>1, <2>1, ToSetEmpty DEF Inflight, Holds
  <2>3. \A j \in Instances \ {i} : Inflight(j)' = Inflight(j)
    BY <2>1 DEF Inflight, Holds
  <2>4. Down' = Down
    BY <2>1 DEF Down
  <2> QED BY <2>1, <2>2, <2>3, <2>4, StutterMaps
<1> QED
  BY <1>4, <1>5, <1>6, <1>7, <1>8, <1>9, <1>10, <1>11, <1>12
  DEF ReceiverStep, StartStep, ServeStep

LEMMA SenderMaps ==
  ASSUME IpcInv, NEW s \in Senders, SenderStep(s),
         UNCHANGED <<owner, inst, cur, got, shared>>,
         UNCHANGED queue \/ Connect(s)
  PROVE  Box!BoxNext \/ UNCHANGED Box!boxVars
<1>1. Down' = Down
  BY DEF Down
<1>2. CASE Write(s)
  <2>1. UNCHANGED receivers
    BY <1>2 DEF Write
  <2> QED BY <1>2, <2>1, PostMaps DEF Box!BoxNext
<1>3. CASE Connect(s)
  <2>1. /\ UNCHANGED written /\ Conn(s) \in Msgs /\ Conn(s) \notin written
        /\ queue[owner] \in Seq(Msgs) /\ owner \in Instances
        /\ queue' = [queue EXCEPT ![owner] = Append(@, Conn(s))]
    BY <1>3, ConnFacts
    DEF Connect, Reachable, IpcInv, ReceiverTypes, FreshInv, Fresh
  <2>2. ToSet(Append(queue[owner], Conn(s))) = ToSet(queue[owner]) \cup {Conn(s)}
    BY <2>1, ToSetAppend
  <2>3. \A i \in Instances : Inflight(i)' = Inflight(i)
    BY <2>1, <2>2 DEF Inflight, Holds, IpcInv, ReceiverTypes
  <2> QED BY <1>1, <2>1, <2>3, StutterMaps
<1>4. CASE ~Write(s) /\ ~Connect(s)
  <2>1. UNCHANGED written
    BY <1>4 DEF SenderStep, SendStep, Socket, SocketFails, ConnectSleeps,
                ConnectWakes, ConnectRefused, WriteKills, Close, SenderCrash
  <2>2. \A i \in Instances : Inflight(i)' = Inflight(i)
    BY <1>4, <2>1 DEF Inflight, Holds
  <2> QED BY <1>1, <2>1, <2>2, StutterMaps
<1> QED BY <1>2, <1>3, <1>4

(***************************************************************************)
(* ImplementsMailbox: whatever dies and whatever outlives it, a written    *)
(* message is handed over at most once, in its sender's order, and lost    *)
(* only by the death of its receiver, or by being sent to a dead one whose *)
(* child still holds the socket (ipc_msg.c:49-93, 131-145).                *)
(***************************************************************************)
THEOREM MailboxRefinement == Spec => ImplementsMailbox
<1>1. Init => Box!BoxInit
  <2> SUFFICES ASSUME Init PROVE Box!BoxInit
    OBVIOUS
  <2>1. \A s \in Senders : Max(Numbers(s)) = 0
    <3>1. \A s \in Senders : Numbers(s) = {0}
      BY DEF Init, Numbers
    <3>2. Largest({0}, 0)
      BY DEF Largest
    <3> QED BY <3>1, <3>2, MaxIs
  <2>2. \A i \in Instances : Inflight(i) = {}
    BY DEF Init, Inflight
  <2> QED BY <2>1, <2>2 DEF Init, Box!BoxInit
<1>2. IpcInv /\ [Next]_vars => [Box!BoxNext]_(Box!boxVars)
  <2> SUFFICES ASSUME IpcInv, [Next]_vars
               PROVE  Box!BoxNext \/ UNCHANGED Box!boxVars
    OBVIOUS
  <2>1. CASE UNCHANGED vars
    <3>1. Down' = Down /\ \A i \in Instances : Inflight(i)' = Inflight(i)
      BY <2>1 DEF vars, receivers, senders, Down, Inflight, Holds
    <3> QED BY <2>1, <3>1, StutterMaps DEF vars, receivers, senders
  <2> QED BY <2>1, ReceiverMaps, SenderMaps, StepCases
<1> QED BY <1>1, <1>2, IpcInductive, PTL
        DEF Spec, ImplementsMailbox, Box!BoxSpec

-----------------------------------------------------------------------------
(***************************************************************************)
(* What users of the mailbox may rely on, and so, by MailboxRefinement,    *)
(* users of the sockets.  LastNo and Flying are the mappings of the        *)
(* mailbox's variables last and inflight.                                  *)
(***************************************************************************)
LastNo == [s \in Senders |-> Max(Numbers(s))]
Flying == [i \in Instances |-> Inflight(i)]

(***************************************************************************)
(* A message in flight is in flight to one instance, has been handed over  *)
(* by none, and is younger than what its instance has got from its sender. *)
(***************************************************************************)
MailTypes ==
  /\ LastNo \in [Senders -> Nat]
  /\ Flying \in [Instances -> SUBSET (Senders \X Nat)]
  /\ got \in [Instances -> Seq(Senders \X Nat)]
Posted ==
  \A i \in Instances :
    /\ \A m \in Flying[i] : m[2] \in 1..LastNo[m[1]]
    /\ \A a \in 1..Len(got[i]) : got[i][a][2] \in 1..LastNo[got[i][a][1]]
Apart ==
  \A i, j \in Instances :
    /\ i # j => Flying[i] \cap Flying[j] = {}
    /\ \A a \in 1..Len(got[j]) : got[j][a] \notin Flying[i]
    /\ i # j => \A a \in 1..Len(got[i]) : \A b \in 1..Len(got[j]) :
                  got[i][a] # got[j][b]
Younger ==
  \A i \in Instances : \A m \in Flying[i] : \A a \in 1..Len(got[i]) :
    got[i][a][1] = m[1] => got[i][a][2] < m[2]

MailInv == MailTypes /\ Posted /\ Apart /\ Younger /\ Box!InSendOrder

\* The sequence behind each instance, one message longer.
LEMMA GotLonger ==
  ASSUME MailTypes, NEW i \in Instances, NEW m \in Senders \X Nat,
         got' = [got EXCEPT ![i] = Append(@, m)]
  PROVE  /\ got' \in [Instances -> Seq(Senders \X Nat)]
         /\ Len(got[i]) \in Nat /\ Len(got'[i]) = Len(got[i]) + 1
         /\ got'[i][Len(got[i]) + 1] = m
         /\ \A a \in 1..Len(got[i]) : got'[i][a] = got[i][a]
         /\ \A j \in Instances \ {i} : got'[j] = got[j]
BY DEF MailTypes

LEMMA PostKeeps ==
  ASSUME MailInv, NEW s \in Senders, NEW n \in Nat, NEW i \in Instances,
         n > LastNo[s], LastNo' = [LastNo EXCEPT ![s] = n], got' = got,
         \/ Flying' = [Flying EXCEPT ![i] = @ \cup {<<s, n>>}]
         \/ Flying' = Flying
  PROVE  MailInv'
<1>1. /\ \A r \in Senders : LastNo[r] \in Nat /\ LastNo[r] <= LastNo'[r]
      /\ LastNo'[s] = n /\ LastNo' \in [Senders -> Nat]
  BY DEF MailInv, MailTypes
<1>2. /\ Flying' \in [Instances -> SUBSET (Senders \X Nat)]
      /\ \A j \in Instances : \A m \in Flying'[j] :
           m \in Flying[j] \/ (j = i /\ m = <<s, n>>)
  BY DEF MailInv, MailTypes
<1>3. /\ \A j \in Instances : \A m \in Flying[j] : m \in Senders \X Nat
      /\ \A j \in Instances : \A a \in 1..Len(got[j]) : got[j][a] \in Senders \X Nat
  BY DEF MailInv, MailTypes
\* Everything older than the new message has a smaller number.
<1>4. /\ \A j \in Instances : \A m \in Flying[j] : m[1] = s => m[2] < n
      /\ \A j \in Instances : \A a \in 1..Len(got[j]) :
           got[j][a][1] = s => got[j][a][2] < n
  BY <1>1, <1>3 DEF MailInv, Posted
<1>5. MailTypes'
  BY <1>1, <1>2 DEF MailInv, MailTypes
<1>6. Posted'
  <2>1. ASSUME NEW j \in Instances, NEW m \in Flying'[j]
        PROVE  m[2] \in 1..LastNo'[m[1]]
    BY <1>1, <1>2, <1>3 DEF MailInv, Posted
  <2>2. ASSUME NEW j \in Instances, NEW a \in 1..Len(got[j])
        PROVE  got[j][a][2] \in 1..LastNo'[got[j][a][1]]
    BY <1>1, <1>3 DEF MailInv, Posted
  <2> QED
    BY <2>1, <2>2 DEF Posted
<1>7. Apart'
  <2> SUFFICES ASSUME NEW j \in Instances, NEW k \in Instances
               PROVE  /\ j # k => Flying'[j] \cap Flying'[k] = {}
                      /\ \A a \in 1..Len(got[k]) : got[k][a] \notin Flying'[j]
                      /\ j # k => \A a \in 1..Len(got[j]) : \A b \in 1..Len(got[k]) :
                                    got[j][a] # got[k][b]
    BY DEF Apart
  <2>1. j # k => Flying'[j] \cap Flying'[k] = {}
    <3>1. <<s, n>> \notin Flying[j] /\ <<s, n>> \notin Flying[k]
      BY <1>4
    <3> QED
      BY <1>2, <3>1 DEF MailInv, Apart
  <2>2. ASSUME NEW a \in 1..Len(got[k]) PROVE got[k][a] \notin Flying'[j]
    <3>1. got[k][a] # <<s, n>>
      BY <1>3, <1>4
    <3> QED
      BY <1>2, <3>1 DEF MailInv, Apart
  <2> QED
    BY <2>1, <2>2 DEF MailInv, Apart
<1>8. Younger'
  BY <1>2, <1>4 DEF MailInv, Younger
<1>9. Box!InSendOrder'
  BY DEF MailInv, Box!InSendOrder
<1> QED
  BY <1>5, <1>6, <1>7, <1>8, <1>9 DEF MailInv

LEMMA HandOverKeeps ==
  ASSUME MailInv, NEW s \in Senders, NEW n \in Nat, NEW i \in Instances,
         <<s, n>> \in Flying[i],
         \A k \in 1..(n - 1) : <<s, k>> \notin Flying[i],
         LastNo' = LastNo, Flying' = [Flying EXCEPT ![i] = @ \ {<<s, n>>}],
         got' = [got EXCEPT ![i] = Append(@, <<s, n>>)]
  PROVE  MailInv'
<1> DEFINE l == Len(got[i])
<1>1. /\ got' \in [Instances -> Seq(Senders \X Nat)]
      /\ l \in Nat /\ Len(got'[i]) = l + 1 /\ got'[i][l + 1] = <<s, n>>
      /\ \A a \in 1..l : got'[i][a] = got[i][a]
      /\ \A j \in Instances \ {i} : got'[j] = got[j]
  <2>1. <<s, n>> \in Senders \X Nat
    OBVIOUS
  <2> QED
    BY <2>1, GotLonger DEF MailInv
<1>2. /\ Flying' \in [Instances -> SUBSET (Senders \X Nat)]
      /\ Flying'[i] = Flying[i] \ {<<s, n>>}
      /\ \A j \in Instances \ {i} : Flying'[j] = Flying[j]
  BY DEF MailInv, MailTypes
<1> HIDE DEF l
<1>3. \A a \in 1..Len(got'[i]) : a \in 1..l \/ a = l + 1
  BY <1>1
<1>4. /\ \A j \in Instances : \A m \in Flying[j] : m \in Senders \X Nat
      /\ \A j \in Instances : \A a \in 1..Len(got[j]) : got[j][a] \in Senders \X Nat
      /\ LastNo \in [Senders -> Nat]
  BY DEF MailInv, MailTypes
<1>5. n \in 1..LastNo[s]
  BY DEF MailInv, Posted
<1>6. MailTypes'
  BY <1>1, <1>2 DEF MailInv, MailTypes
<1>7. Posted'
  <2> SUFFICES ASSUME NEW j \in Instances
               PROVE  /\ \A m \in Flying'[j] : m[2] \in 1..LastNo[m[1]]
                      /\ \A a \in 1..Len(got'[j]) :
                           got'[j][a][2] \in 1..LastNo[got'[j][a][1]]
    BY DEF Posted
  <2>1. CASE j = i
    BY <1>1, <1>2, <1>3, <1>5, <2>1 DEF MailInv, Posted, l
  <2>2. CASE j # i
    BY <1>1, <1>2, <2>2 DEF MailInv, Posted
  <2> QED
    BY <2>1, <2>2
<1>8. Apart'
  <2>1. ASSUME NEW j \in Instances, NEW k \in Instances, j # k
        PROVE  Flying'[j] \cap Flying'[k] = {}
    BY <1>2, <2>1 DEF MailInv, Apart
  <2>2. ASSUME NEW j \in Instances, NEW k \in Instances,
               NEW a \in 1..Len(got'[k])
        PROVE  got'[k][a] \notin Flying'[j]
    <3>1. CASE k = i /\ a = l + 1
      BY <1>1, <1>2, <3>1 DEF MailInv, Apart
    <3>2. CASE k # i \/ a \in 1..l
      <4>1. a \in 1..Len(got[k]) /\ got'[k][a] = got[k][a]
        BY <1>1, <3>2 DEF l
      <4> QED
        BY <1>2, <4>1 DEF MailInv, Apart
    <3> QED
      BY <1>3, <3>1, <3>2
  <2>3. ASSUME NEW j \in Instances, NEW k \in Instances, j # k,
               NEW a \in 1..Len(got'[j]), NEW b \in 1..Len(got'[k])
        PROVE  got'[j][a] # got'[k][b]
    <3>1. \A c \in 1..Len(got[j]) : got[j][c] \notin Flying[i]
      BY DEF MailInv, Apart
    <3>2. \A c \in 1..Len(got[k]) : got[k][c] \notin Flying[i]
      BY DEF MailInv, Apart
    <3>3. CASE j = i /\ a = l + 1
      BY <1>1, <2>3, <3>2, <3>3
    <3>4. CASE k = i /\ b = l + 1
      BY <1>1, <2>3, <3>1, <3>4
    <3>5. CASE (j # i \/ a \in 1..l) /\ (k # i \/ b \in 1..l)
      <4>1. /\ a \in 1..Len(got[j]) /\ got'[j][a] = got[j][a]
            /\ b \in 1..Len(got[k]) /\ got'[k][b] = got[k][b]
        BY <1>1, <3>5 DEF l
      <4> QED
        BY <2>3, <4>1 DEF MailInv, Apart
    <3> QED
      BY <1>3, <3>3, <3>4, <3>5
  <2> QED
    BY <2>1, <2>2, <2>3 DEF Apart
\* What is still in flight from the same sender is younger.
<1>9. \A m \in Flying'[i] : m[1] = s => n < m[2]
  <2> SUFFICES ASSUME NEW m \in Flying'[i], m[1] = s PROVE n < m[2]
    OBVIOUS
  <2>1. m \in Flying[i] /\ m # <<s, n>> /\ m = <<s, m[2]>> /\ m[2] \in Nat
    BY <1>2, <1>4
  <2>2. m[2] \in 1..LastNo[s]
    BY <2>1 DEF MailInv, Posted
  <2> QED
    BY <1>4, <2>1, <2>2
<1>10. Younger'
  <2> SUFFICES ASSUME NEW j \in Instances, NEW m \in Flying'[j],
                      NEW a \in 1..Len(got'[j]), got'[j][a][1] = m[1]
               PROVE  got'[j][a][2] < m[2]
    BY DEF Younger
  <2>1. CASE j = i /\ a = l + 1
    BY <1>1, <1>9, <2>1
  <2>2. CASE j # i \/ a \in 1..l
    <3>1. a \in 1..Len(got[j]) /\ got'[j][a] = got[j][a] /\ m \in Flying[j]
      BY <1>1, <1>2, <2>2 DEF l
    <3> QED
      BY <3>1 DEF MailInv, Younger
  <2> QED
    BY <1>3, <2>1, <2>2
<1>11. Box!InSendOrder'
  <2> SUFFICES ASSUME NEW j \in Instances, NEW a \in 1..Len(got'[j]),
                      NEW b \in 1..Len(got'[j]), a < b,
                      got'[j][a][1] = got'[j][b][1]
               PROVE  got'[j][a][2] < got'[j][b][2]
    BY DEF Box!InSendOrder
  <2>1. CASE j = i /\ b = l + 1
    <3>1. a \in 1..l /\ got'[i][a] = got[i][a]
      BY <1>1, <2>1
    <3>2. a \in 1..Len(got[i]) /\ got[i][a][1] = s
      BY <1>1, <2>1, <3>1 DEF l
    <3>3. got[i][a][2] < <<s, n>>[2]
      BY <3>2 DEF MailInv, Younger
    <3> QED
      BY <1>1, <2>1, <3>1, <3>3
  <2>2. CASE j # i \/ b \in 1..l
    <3>1. /\ a \in 1..Len(got[j]) /\ got'[j][a] = got[j][a]
          /\ b \in 1..Len(got[j]) /\ got'[j][b] = got[j][b]
      BY <1>1, <2>2 DEF l
    <3> QED
      BY <3>1 DEF MailInv, Box!InSendOrder
  <2> QED
    BY <1>3, <2>1, <2>2
<1> QED
  BY <1>6, <1>7, <1>8, <1>10, <1>11 DEF MailInv

LEMMA DieKeeps ==
  ASSUME MailInv, NEW i \in Instances, LastNo' = LastNo, got' = got,
         Flying' = [Flying EXCEPT ![i] = {}]
  PROVE  MailInv'
<1>1. /\ Flying' \in [Instances -> SUBSET (Senders \X Nat)]
      /\ \A j \in Instances : Flying'[j] \subseteq Flying[j]
  BY DEF MailInv, MailTypes
<1>2. MailTypes' /\ Posted' /\ Younger'
  BY <1>1 DEF MailInv, MailTypes, Posted, Younger
<1>3. Apart'
  BY <1>1 DEF MailInv, Apart
<1> QED
  BY <1>2, <1>3 DEF MailInv, Box!InSendOrder

LEMMA MailInductive == Box!BoxSpec => []MailInv
<1>1. Box!BoxInit => MailInv
  <2> SUFFICES ASSUME Box!BoxInit PROVE MailInv
    OBVIOUS
  <2>1. /\ LastNo = [s \in Senders |-> 0]
        /\ Flying = [i \in Instances |-> {}]
        /\ got = [i \in Instances |-> <<>>]
    BY DEF Box!BoxInit, LastNo, Flying
  <2>2. \A i \in Instances : Len(got[i]) = 0 /\ got[i] \in Seq(Senders \X Nat)
    BY <2>1
  <2> HIDE DEF LastNo, Flying
  <2> QED
    BY <2>1, <2>2 DEF MailInv, MailTypes, Posted, Apart, Younger, Box!InSendOrder
<1>2. MailInv /\ [Box!BoxNext]_(Box!boxVars) => MailInv'
  <2> SUFFICES ASSUME MailInv, [Box!BoxNext]_(Box!boxVars) PROVE MailInv'
    OBVIOUS
  <2>1. CASE UNCHANGED Box!boxVars
    <3>1. LastNo' = LastNo /\ Flying' = Flying /\ got' = got
      BY <2>1 DEF Box!boxVars, LastNo, Flying
    <3> QED
      BY <3>1 DEF MailInv, MailTypes, Posted, Apart, Younger, Box!InSendOrder
  <2>2. ASSUME NEW i \in Instances, Box!Die(i) PROVE MailInv'
    <3>1. LastNo' = LastNo /\ got' = got /\ Flying' = [Flying EXCEPT ![i] = {}]
      BY <2>2 DEF Box!Die, LastNo, Flying
    <3> QED
      BY <3>1, DieKeeps
  <2>3. ASSUME NEW i \in Instances, NEW s \in Senders, NEW n \in 1..MaxSends[s],
               Box!Post(s, n, i) \/ Box!PostToDead(s, n, i)
        PROVE  MailInv'
    <3>1. /\ n > LastNo[s] /\ LastNo' = [LastNo EXCEPT ![s] = n] /\ got' = got
          /\ \/ Flying' = [Flying EXCEPT ![i] = @ \cup {<<s, n>>}]
             \/ Flying' = Flying
      BY <2>3 DEF Box!Post, Box!PostToDead, LastNo, Flying
    <3>2. n \in Nat
      BY IpcAssumption DEF IpcAssumption
    <3> QED
      BY <3>1, <3>2, PostKeeps
  <2>4. ASSUME NEW i \in Instances, NEW s \in Senders, NEW n \in 1..MaxSends[s],
               Box!HandOver(s, n, i)
        PROVE  MailInv'
    <3>1. /\ <<s, n>> \in Flying[i]
          /\ \A k \in 1..(n - 1) : <<s, k>> \notin Flying[i]
          /\ LastNo' = LastNo /\ Flying' = [Flying EXCEPT ![i] = @ \ {<<s, n>>}]
          /\ got' = [got EXCEPT ![i] = Append(@, <<s, n>>)]
      BY <2>4 DEF Box!HandOver, LastNo, Flying
    <3>2. n \in Nat
      BY IpcAssumption DEF IpcAssumption
    <3> QED
      BY <3>1, <3>2, HandOverKeeps
  <2> QED
    BY <2>1, <2>2, <2>3, <2>4 DEF Box!BoxNext
<1> QED
  BY <1>1, <1>2, PTL DEF Box!BoxSpec

(***************************************************************************)
(* However senders and receivers are killed and started again, and however *)
(* instances overlap: no callback gets a message twice, no two instances   *)
(* get the same one, and nobody gets one that was not written; messages of *)
(* one sender come to an instance in the order they were sent              *)
(* (ipc_msg.c:49-93, 131-145).                                             *)
(***************************************************************************)
THEOREM Delivered ==
  Spec => [](Box!HandedOnce /\ Box!InSendOrder /\ Box!OnlyPosted)
<1>1. MailInv => Box!HandedOnce
  <2> SUFFICES ASSUME MailInv, NEW i \in Instances, NEW j \in Instances,
                      NEW a \in 1..Len(got[i]), NEW b \in 1..Len(got[j]),
                      got[i][a] = got[j][b]
               PROVE  i = j /\ a = b
    BY DEF Box!HandedOnce
  <2>1. i = j
    BY DEF MailInv, Apart
  <2>2. got[i][a] \in Senders \X Nat /\ Len(got[i]) \in Nat
    BY DEF MailInv, MailTypes
  <2>3. ~(a < b) /\ ~(b < a)
    BY <2>1, <2>2 DEF MailInv, Box!InSendOrder
  <2> QED
    BY <2>1, <2>2, <2>3
<1>2. MailInv => Box!OnlyPosted
  <2> SUFFICES ASSUME MailInv, NEW i \in Instances, NEW a \in 1..Len(got[i])
               PROVE  \E s \in Senders : /\ got[i][a][1] = s
                                         /\ got[i][a][2] \in 1..LastNo[s]
    BY DEF Box!OnlyPosted, LastNo
  <2>1. got[i][a][1] \in Senders
    BY DEF MailInv, MailTypes
  <2> QED
    BY <2>1 DEF MailInv, Posted
<1>3. MailInv => Box!InSendOrder
  BY DEF MailInv
<1> QED
  BY <1>1, <1>2, <1>3, MailInductive, MailboxRefinement, PTL DEF ImplementsMailbox

-----------------------------------------------------------------------------
(***************************************************************************)
(* A user of the messages: cmdline and the receiver of its words           *)
(* (CmdLine), for any number of cells and of arguments.                    *)
(***************************************************************************)
CmdTypes ==
  /\ cmdPc \in {"args", "usage", "init", "save", "send", "done", "dead"}
  /\ args \in Seq(Lengths)
  /\ saved \in Nat /\ num \in Nat
  /\ listed \in Seq(Seq(SUBSET Nat))

(***************************************************************************)
(* The words are one fewer than the cells, since the target's name is not  *)
(* one of them.                                                            *)
(***************************************************************************)
FitInv == cmdPc \notin {"args", "usage"} => Len(args) \in 1..CellNum

SavedInv ==
  /\ cmdPc \in {"args", "usage", "init"} => saved = 0
  /\ cmdPc = "save" => saved <= Intact
  /\ IF cmdPc \in {"send", "done", "dead"}
     THEN saved = Intact /\ num = NumAfter
     ELSE num = 0

(***************************************************************************)
(* A cell holds its word, or nothing yet.                                  *)
(***************************************************************************)
Entry(j) ==
  IF Words[j] = "empty" THEN Blank ELSE [from |-> j, ends |-> Words[j] = "short"]
CellInv ==
  cells = [j \in 1..(CellNum + 1) |->
             IF j <= saved THEN Entry(j)
             ELSE IF j = CellNum + 1 /\ num # 0 THEN Digits ELSE Blank]

(***************************************************************************)
(* What is on its way is what has been saved, for nothing is saved later.  *)
(***************************************************************************)
SentInv ==
  sent # <<>> => cmdPc = "done" /\ sent = <<[cells |-> cells, num |-> num]>>

CmdInv == CmdTypes /\ FitInv /\ SavedInv /\ CellInv /\ SentInv /\ LinesAsTyped

(***************************************************************************)
(* A nonempty set of naturals has a least member.                          *)
(***************************************************************************)
LEMMA Least ==
  ASSUME NEW T \in SUBSET Nat, T # {}
  PROVE  \E m \in T : \A n \in T : m <= n
<1>1. PICK m \in T : \A n \in T : <<n, m>> \notin OpToRel(<, Nat)
  BY NatLessThanWellFounded, WFMin
<1>2. \A n \in T : ~(n < m)
  BY <1>1 DEF OpToRel
<1> QED
  BY <1>2

LEMMA WordsAre ==
  ASSUME args \in Seq(Lengths), Len(args) >= 1
  PROVE  /\ Len(Words) \in Nat /\ Len(Words) = Len(args) - 1
         /\ \A j \in 1..Len(Words) : Words[j] \in Lengths
  BY DEF Words

(***************************************************************************)
(* Intact is what its name says.                                           *)
(***************************************************************************)
LEMMA IntactIs ==
  ASSUME args \in Seq(Lengths), Len(args) >= 1
  PROVE  /\ Intact \in 0..Len(Words)
         /\ \A j \in 1..Intact : Words[j] # "long"
         /\ Intact = Len(Words) \/ Words[Intact + 1] = "long"
<1> DEFINE Ends == {n \in 0..Len(Words) : n = Len(Words) \/ Words[n + 1] = "long"}
<1>1. Ends \in SUBSET Nat /\ Len(Words) \in Ends
  BY WordsAre
<1>2. PICK m \in Ends : \A n \in Ends : m <= n
  BY <1>1, Least
<1>3. \A j \in 1..m : Words[j] # "long"
  <2> SUFFICES ASSUME NEW j \in 1..m, Words[j] = "long" PROVE FALSE
    OBVIOUS
  <2>1. j - 1 \in Ends
    BY <1>1, WordsAre
  <2>2. m <= j - 1
    BY <1>2, <2>1
  <2>3. m \in Nat /\ j \in 1..m
    BY <1>1
  <2> QED
    BY <2>2, <2>3
<1>4. \E n \in 0..Len(Words) :
        /\ \A j \in 1..n : Words[j] # "long"
        /\ n = Len(Words) \/ Words[n + 1] = "long"
  BY <1>2, <1>3
<1> QED
  BY <1>4 DEF Intact

(***************************************************************************)
(* While words are saved there is a cell behind the next one, and it is    *)
(* not yet cmd_num: the NUL of a word as long as its cell lands there.     *)
(***************************************************************************)
LEMMA CellBehind ==
  ASSUME CmdAssumption, CmdTypes, FitInv, SavedInv,
         cmdPc \notin {"args", "usage", "init"}
  PROVE  /\ Len(Words) \in Nat /\ Len(Words) < CellNum /\ CellNum \in Nat
         /\ Intact \in 0..Len(Words) /\ saved <= Intact
<1>1. Len(args) \in 1..CellNum /\ args \in Seq(Lengths)
  BY DEF FitInv, CmdTypes
<1>2. CellNum \in Nat
  BY DEF CmdAssumption
<1>3. Len(args) >= 1
  BY <1>1, <1>2
<1>4. Len(Words) \in Nat /\ Len(Words) < CellNum
  BY <1>1, <1>2, <1>3, WordsAre
<1>5. Intact \in 0..Len(Words)
  BY <1>1, <1>3, IntactIs
<1>6. cmdPc = "save" \/ cmdPc \in {"send", "done", "dead"}
  BY DEF CmdTypes
<1> QED
  BY <1>2, <1>4, <1>5, <1>6 DEF SavedInv, CmdTypes

(***************************************************************************)
(* What the receiver reads from a cell: the word of it, and on into the    *)
(* next cell if no NUL ends it.                                            *)
(***************************************************************************)
LEMMA ReadOn ==
  ASSUME CellNum \in Nat, NEW j \in 1..CellNum
  PROVE  /\ Head(sent).cells[j].ends => ReadFrom(j) = {j}
         /\ ~Head(sent).cells[j].ends => ReadFrom(j) = {j} \cup ReadFrom(j + 1)
<1>1. ASSUME Head(sent).cells[j].ends PROVE ReadFrom(j) = {j}
  <2>1. \A k \in j..(CellNum + 1) : k # j => j \in j..(k - 1)
    OBVIOUS
  <2>2. j \in j..(CellNum + 1) /\ j..(j - 1) = {}
    OBVIOUS
  <2> QED
    BY <1>1, <2>1, <2>2 DEF ReadFrom
<1>2. ASSUME ~Head(sent).cells[j].ends
      PROVE  ReadFrom(j) = {j} \cup ReadFrom(j + 1)
  <2>1. \A k : k \in j..(CellNum + 1) <=> k = j \/ k \in (j + 1)..(CellNum + 1)
    OBVIOUS
  <2>2. \A k \in (j + 1)..(CellNum + 1) :
          \A l : l \in j..(k - 1) <=> l = j \/ l \in (j + 1)..(k - 1)
    OBVIOUS
  <2>3. j..(j - 1) = {}
    OBVIOUS
  <2>4. \A k : k \in ReadFrom(j) <=> k = j \/ k \in ReadFrom(j + 1)
    BY <1>2, <2>1, <2>2, <2>3 DEF ReadFrom
  <2> QED
    BY <2>4
<1> QED
  BY <1>1, <1>2

(***************************************************************************)
(* Hence every line is the word that was typed.                            *)
(***************************************************************************)
LEMMA LineIs ==
  ASSUME CmdInv, sent # <<>>, NEW j \in 1..num
  PROVE  Line(j) = Own(j) \cup (IF RunsOn(j) THEN Line(j + 1) ELSE {})
<1>1. cmdPc = "done" /\ Head(sent) = [cells |-> cells, num |-> num]
  BY DEF CmdInv, SentInv
<1>2. /\ Len(Words) \in Nat /\ Len(Words) < CellNum /\ CellNum \in Nat
      /\ Intact \in 0..Len(Words) /\ saved <= Intact
  BY <1>1, CellBehind, CmdAssumption DEF CmdInv
<1>3. saved = Len(Words) /\ num = Len(Words)
  BY <1>1, <1>2 DEF CmdInv, CmdTypes, SavedInv, NumAfter
<1>4. \A k \in 1..num : cells[k] = Entry(k)
  BY <1>2, <1>3 DEF CmdInv, CellInv
<1>5. cells[num + 1] = Blank
  BY <1>2, <1>3 DEF CmdInv, CellInv
<1>6. Words[j] \in {"empty", "short", "full"}
  <2>1. Len(args) >= 1 /\ args \in Seq(Lengths)
    BY <1>1, <1>2 DEF CmdInv, CmdTypes, FitInv
  <2>2. Intact = Len(Words)
    BY <1>2, <1>3
  <2>3. Words[j] # "long"
    BY <1>3, <2>1, <2>2, IntactIs
  <2> QED
    BY <1>3, <2>1, <2>3, WordsAre DEF Lengths
<1>7. j \in 1..CellNum /\ j # 0
  BY <1>2, <1>3
<1>8. CASE Words[j] = "empty"
  <2>1. cells[j] = [from |-> 0, ends |-> TRUE]
    BY <1>4, <1>8 DEF Entry, Blank
  <2>2. ReadFrom(j) = {j}
    BY <1>1, <1>2, <1>7, <2>1, ReadOn
  <2> QED
    BY <1>1, <1>8, <2>1, <2>2 DEF Line, Own, RunsOn
<1>9. CASE Words[j] = "short"
  <2>1. cells[j] = [from |-> j, ends |-> TRUE]
    BY <1>4, <1>9 DEF Entry
  <2>2. ReadFrom(j) = {j}
    BY <1>1, <1>2, <1>7, <2>1, ReadOn
  <2> QED
    BY <1>1, <1>7, <1>9, <2>1, <2>2 DEF Line, Own, RunsOn
<1>10. CASE Words[j] = "full"
  <2>1. cells[j] = [from |-> j, ends |-> FALSE]
    BY <1>4, <1>10 DEF Entry
  <2>2. ReadFrom(j) = {j} \cup ReadFrom(j + 1)
    BY <1>1, <1>2, <1>7, <2>1, ReadOn
  <2>3. Line(j) = {j} \cup Line(j + 1)
    BY <1>1, <1>7, <2>1, <2>2 DEF Line
  <2>4. CASE j < Len(Words)
    BY <1>10, <2>3, <2>4 DEF Own, RunsOn
  <2>5. CASE j = Len(Words)
    <3>1. j + 1 \in 1..CellNum /\ cells[j + 1] = [from |-> 0, ends |-> TRUE]
      BY <1>2, <1>3, <1>5, <2>5 DEF Blank
    <3>2. ReadFrom(j + 1) = {j + 1}
      BY <1>1, <1>2, <3>1, ReadOn
    <3>3. Line(j + 1) = {}
      BY <1>1, <3>1, <3>2 DEF Line
    <3> QED
      BY <1>2, <1>10, <2>3, <2>5, <3>3 DEF Own, RunsOn
  <2> QED
    BY <1>2, <1>3, <2>4, <2>5
<1> QED
  BY <1>6, <1>8, <1>9, <1>10

(***************************************************************************)
(* Every step preserves CmdInv.  A step that prints nothing has only to    *)
(* keep what stands in the cells.                                          *)
(***************************************************************************)
LEMMA QuietStep ==
  ASSUME CmdInv, UNCHANGED <<args, listed>>, CmdTypes', FitInv', SavedInv',
         CellInv', SentInv'
  PROVE  CmdInv'
BY DEF CmdInv, LinesAsTyped, Own, RunsOn, Words

LEMMA SaveWordStep == ASSUME CmdInv, SaveWord PROVE CmdInv'
<1>1. /\ Len(Words) \in Nat /\ Len(Words) < CellNum /\ CellNum \in Nat
      /\ Intact \in 0..Len(Words) /\ saved < Intact
      /\ Len(args) >= 1 /\ args \in Seq(Lengths) /\ saved \in Nat /\ num = 0
  BY CellBehind, CmdAssumption DEF CmdInv, CmdTypes, FitInv, SavedInv, SaveWord
<1>2. /\ cmdPc = "save" /\ saved' = saved + 1
      /\ UNCHANGED <<cmdPc, args, hdl, num, sent, listed>>
      /\ Words' = Words /\ Intact' = Intact
  BY DEF SaveWord, Words, Intact
<1>3. Words[saved + 1] \in {"empty", "short", "full"}
  BY <1>1, IntactIs, WordsAre DEF Lengths
<1>4. cells = [j \in 1..(CellNum + 1) |-> IF j <= saved THEN Entry(j) ELSE Blank]
  BY <1>1 DEF CmdInv, CellInv
<1>5. cells' = [j \in 1..(CellNum + 1) |->
                  IF j <= saved + 1 THEN Entry(j) ELSE Blank]
  <2> DEFINE f == [j \in 1..(CellNum + 1) |-> Entry(j)]
             row == [j \in 1..(CellNum + 1) |->
                       IF j <= saved + 1 THEN f[j] ELSE Blank]
  <2>1. saved + 1 \in 1..(CellNum + 1) /\ saved + 2 \in 1..(CellNum + 1)
    BY <1>1
  <2>2. cells = [j \in 1..(CellNum + 1) |-> IF j <= saved THEN f[j] ELSE Blank]
    BY <1>4
  <2>3. f[saved + 1] = Entry(saved + 1)
    BY <2>1
  <2> HIDE DEF f
  <2>4. /\ [cells EXCEPT ![saved + 1] = f[saved + 1]] = row
        /\ [cells EXCEPT ![saved + 1] = f[saved + 1], ![saved + 2] = Blank] = row
    <3>1. \A j \in 1..(CellNum + 1) :
            [cells EXCEPT ![saved + 1] = f[saved + 1]][j] = row[j]
      BY <1>1, <2>1, <2>2
    <3>2. [cells EXCEPT ![saved + 1] = f[saved + 1]] = row
      BY <2>2, <3>1
    <3>3. row[saved + 2] = Blank
      BY <1>1, <2>1
    <3>4. \A j \in 1..(CellNum + 1) : [row EXCEPT ![saved + 2] = Blank][j] = row[j]
      BY <3>3
    <3>5. [row EXCEPT ![saved + 2] = Blank] = row
      BY <3>4
    <3> QED
      BY <3>2, <3>5
  <2>5. cells' = Copied(saved + 1, Words[saved + 1])
    BY DEF SaveWord
  <2>6. CASE Words[saved + 1] \in {"empty", "short"}
    <3>1. cells' = [cells EXCEPT ![saved + 1] = Entry(saved + 1)]
      BY <2>5, <2>6 DEF Copied, Entry
    <3> QED
      BY <2>3, <2>4, <3>1 DEF f
  <2>7. CASE Words[saved + 1] = "full"
    <3>1. Entry(saved + 1) = [from |-> saved + 1, ends |-> FALSE]
      BY <2>7 DEF Entry
    <3>2. saved + 1 + 1 = saved + 2
      BY <1>1
    <3>3. cells' = [cells EXCEPT ![saved + 1] = Entry(saved + 1),
                                 ![saved + 2] = Blank]
      BY <2>5, <2>7, <3>1, <3>2 DEF Copied
    <3> QED
      BY <2>3, <2>4, <3>3 DEF f
  <2> QED
    BY <1>3, <2>6, <2>7
<1>6. CellInv'
  <2>1. \A j : Entry(j)' = Entry(j)
    BY <1>2 DEF Entry
  <2> QED
    BY <1>1, <1>2, <1>5, <2>1 DEF CellInv
<1>7. CmdTypes' /\ FitInv'
  BY <1>1, <1>2 DEF CmdInv, CmdTypes, FitInv
<1>8. SavedInv'
  BY <1>1, <1>2 DEF CmdInv, SavedInv
<1>9. SentInv'
  BY <1>2 DEF CmdInv, SentInv
<1> QED
  BY <1>2, <1>6, <1>7, <1>8, <1>9, QuietStep

LEMMA SaveEndsStep == ASSUME CmdInv, SaveEnds PROVE CmdInv'
<1>1. /\ Len(Words) \in Nat /\ Len(Words) < CellNum /\ CellNum \in Nat
      /\ saved = Intact /\ saved \in 0..Len(Words) /\ num = 0
  BY CellBehind, CmdAssumption DEF CmdInv, CmdTypes, SavedInv, SaveEnds
<1>2. /\ cmdPc = "save" /\ cmdPc' = "send" /\ num' = NumAfter
      /\ UNCHANGED <<args, hdl, saved, sent, listed>>
      /\ Words' = Words /\ Intact' = Intact
  BY DEF SaveEnds, Words, Intact
<1>3. NumAfter' = NumAfter /\ NumAfter \in Nat
  BY <1>1, <1>2 DEF NumAfter
<1>4. CellInv'
  <2>1. \A j : Entry(j)' = Entry(j)
    BY <1>2 DEF Entry
  <2>2. cells = [j \in 1..(CellNum + 1) |->
                   IF j <= saved THEN Entry(j) ELSE Blank]
    BY <1>1 DEF CmdInv, CellInv
  <2>3. cells' = IF num' = 0 THEN cells ELSE [cells EXCEPT ![CellNum + 1] = Digits]
    BY DEF SaveEnds
  <2>4. CASE num' = 0
    BY <1>2, <2>1, <2>2, <2>3, <2>4 DEF CellInv
  <2>5. CASE num' # 0
    <3> DEFINE full == [j \in 1..(CellNum + 1) |->
                          IF j <= saved THEN Entry(j)
                          ELSE IF j = CellNum + 1 THEN Digits ELSE Blank]
    <3>1. cells' = [cells EXCEPT ![CellNum + 1] = Digits]
      BY <2>3, <2>5
    <3>2. ~(CellNum + 1 <= saved)
      BY <1>1
    <3>3. \A j \in 1..(CellNum + 1) :
            [cells EXCEPT ![CellNum + 1] = Digits][j] = full[j]
      BY <2>2, <3>2
    <3>4. cells' = full
      BY <2>2, <3>1, <3>3
    <3> QED
      BY <1>2, <2>1, <2>5, <3>4 DEF CellInv
  <2> QED
    BY <2>4, <2>5
<1>5. CmdTypes' /\ FitInv'
  BY <1>2, <1>3 DEF CmdInv, CmdTypes, FitInv
<1>6. SavedInv'
  BY <1>1, <1>2, <1>3 DEF SavedInv
<1>7. SentInv'
  BY <1>2 DEF CmdInv, SentInv
<1> QED
  BY <1>2, <1>4, <1>5, <1>6, <1>7, QuietStep

LEMMA OtherCmdSteps ==
  ASSUME CmdInv, CheckArgs \/ IpcInit \/ Send \/ SendCrashes PROVE CmdInv'
<1>1. UNCHANGED <<args, cells, num, saved, listed>>
  BY DEF CheckArgs, IpcInit, Send, SendCrashes
<1>2. /\ Words' = Words /\ Intact' = Intact /\ NumAfter' = NumAfter
      /\ \A j : Entry(j)' = Entry(j)
  BY <1>1 DEF Words, Intact, NumAfter, Entry
<1>3. CellInv'
  BY <1>1, <1>2 DEF CmdInv, CellInv
<1>4. CmdTypes'
  BY <1>1 DEF CmdInv, CmdTypes, CheckArgs, IpcInit, Send, SendCrashes
<1>5. FitInv'
  <2>1. CASE CheckArgs
    <3>1. Len(args) \in Nat
      BY DEF CmdInv, CmdTypes
    <3>2. CASE Accepted(Len(args) + 1)
      <4>1. Len(args) \in 1..CellNum
        BY <3>1, <3>2, CmdAssumption DEF Accepted, CmdAssumption
      <4> QED
        BY <1>1, <4>1 DEF FitInv
    <3>3. CASE ~Accepted(Len(args) + 1)
      BY <2>1, <3>3 DEF CheckArgs, FitInv
    <3> QED
      BY <3>2, <3>3
  <2>2. CASE IpcInit \/ Send \/ SendCrashes
    BY <1>1, <2>2 DEF CmdInv, FitInv, IpcInit, Send, SendCrashes
  <2> QED
    BY <2>1, <2>2
<1>6. SavedInv'
  <2>1. CASE CheckArgs
    BY <1>1, <1>2, <2>1 DEF CmdInv, SavedInv, CheckArgs
  <2>2. CASE IpcInit
    <3>1. Len(args) >= 1 /\ args \in Seq(Lengths)
      BY <2>2, CmdAssumption DEF CmdInv, CmdTypes, FitInv, IpcInit, CmdAssumption
    <3>2. 0 <= Intact
      BY <3>1, IntactIs, WordsAre
    <3> QED
      BY <1>1, <1>2, <2>2, <3>2 DEF CmdInv, SavedInv, IpcInit
  <2>3. CASE Send \/ SendCrashes
    BY <1>1, <1>2, <2>3 DEF CmdInv, SavedInv, Send, SendCrashes
  <2> QED
    BY <2>1, <2>2, <2>3
<1>7. SentInv'
  BY <1>1 DEF CmdInv, SentInv, CheckArgs, IpcInit, Send, SendCrashes
<1> QED
  BY <1>1, <1>3, <1>4, <1>5, <1>6, <1>7, QuietStep

(***************************************************************************)
(* The receiver prints num lines, none if a word was too long.             *)
(***************************************************************************)
LEMMA ParseStep == ASSUME CmdInv, Parse PROVE CmdInv'
<1> DEFINE list == [j \in 1..num |-> Line(j)]
<1>1. /\ sent # <<>> /\ cmdPc = "done"
      /\ Head(sent) = [cells |-> cells, num |-> num]
  BY DEF CmdInv, SentInv, Parse
<1>2. /\ listed' = Append(listed, list) /\ sent' = <<>>
      /\ UNCHANGED <<cmdPc, args, hdl, cells, num, saved>>
  <2>1. Head(sent).num = num
    BY <1>1
  <2> QED
    BY <2>1 DEF Parse
<1>3. /\ Len(Words) \in Nat /\ Len(Words) < CellNum /\ CellNum \in Nat
      /\ Intact \in 0..Len(Words) /\ saved = Intact /\ num = NumAfter
      /\ Len(args) >= 1 /\ args \in Seq(Lengths)
  BY <1>1, <1>2, CellBehind, CmdAssumption DEF CmdInv, CmdTypes, FitInv, SavedInv
<1>4. num = IF \E j \in 1..Len(Words) : Words[j] = "long" THEN 0 ELSE Len(Words)
  BY <1>3, IntactIs DEF NumAfter
<1>5. num \in Nat /\ num <= Len(Words)
  BY <1>3, <1>4
<1>6. list \in Seq(SUBSET Nat) /\ Len(list) = num
  <2>1. ASSUME NEW j \in 1..num PROVE Line(j) \in SUBSET Nat
    <3>1. ASSUME NEW k \in 1..(CellNum + 1) PROVE cells[k].from \in Nat
      <4>1. CmdAssumption
        BY CmdAssumption
      <4> QED
        BY <3>1, <4>1 DEF CmdInv, CellInv, Entry, Blank, Digits, CmdAssumption
    <3>2. ReadFrom(j) \subseteq 1..(CellNum + 1)
      BY <1>3, <1>5 DEF ReadFrom
    <3> QED
      BY <1>1, <1>2, <3>1, <3>2 DEF Line
  <2> QED
    BY <1>5, <2>1
<1>7. \A j \in 1..num :
        list[j] = Own(j) \cup (IF RunsOn(j) THEN list[j + 1] ELSE {})
  <2> SUFFICES ASSUME NEW j \in 1..num
               PROVE  list[j] = Own(j) \cup (IF RunsOn(j) THEN list[j + 1] ELSE {})
    OBVIOUS
  <2>1. Line(j) = Own(j) \cup (IF RunsOn(j) THEN Line(j + 1) ELSE {})
    BY <1>1, <1>2, LineIs
  <2>2. RunsOn(j) => j + 1 \in 1..num
    BY <1>3, <1>4, <1>5 DEF RunsOn
  <2> QED
    BY <2>1, <2>2
<1> HIDE DEF list
<1>8. /\ Words' = Words /\ Intact' = Intact /\ NumAfter' = NumAfter
      /\ \A j : Entry(j)' = Entry(j) /\ Own(j)' = Own(j) /\ RunsOn(j)' = RunsOn(j)
  BY <1>1, <1>2 DEF Words, Intact, NumAfter, Entry, Own, RunsOn
<1>9. listed \in Seq(Seq(SUBSET Nat)) /\ listed' \in Seq(Seq(SUBSET Nat))
  BY <1>1, <1>2, <1>6 DEF CmdInv, CmdTypes
<1>10. LinesAsTyped'
  <2> SUFFICES ASSUME NEW n \in 1..Len(listed')
               PROVE  /\ Len(listed'[n]) =
                           IF \E j \in 1..Len(Words) : Words[j] = "long" THEN 0
                           ELSE Len(Words)
                      /\ \A j \in 1..Len(listed'[n]) :
                           listed'[n][j] =
                             Own(j) \cup (IF RunsOn(j) THEN listed'[n][j + 1] ELSE {})
    BY <1>8 DEF LinesAsTyped
  <2>1. CASE n \in 1..Len(listed)
    <3>1. listed'[n] = listed[n]
      BY <1>1, <1>2, <1>9, <2>1
    <3> QED
      BY <2>1, <3>1 DEF CmdInv, LinesAsTyped
  <2>2. CASE n = Len(listed) + 1
    <3>1. listed'[n] = list
      BY <1>1, <1>2, <1>9, <2>2
    <3> QED
      BY <1>4, <1>6, <1>7, <3>1
  <2> QED
    BY <1>1, <1>2, <1>9, <2>1, <2>2
<1>11. CmdTypes' /\ FitInv'
  BY <1>1, <1>2, <1>9 DEF CmdInv, CmdTypes, FitInv
<1>12. SavedInv' /\ CellInv' /\ SentInv'
  BY <1>1, <1>2, <1>8 DEF CmdInv, SavedInv, CellInv, SentInv
<1> QED
  BY <1>10, <1>11, <1>12 DEF CmdInv

LEMMA CmdInductive == CmdSpec => []CmdInv
<1>1. ASSUME CmdInit PROVE CmdInv
  <2>1. args \in Seq(Lengths)
    <3>1. PICK n \in 0..MaxArgs : args \in [1..n -> Lengths]
      BY <1>1 DEF CmdInit
    <3> QED
      BY <3>1, CmdAssumption DEF CmdAssumption
  <2>2. CmdTypes /\ FitInv /\ SavedInv /\ SentInv
    BY <1>1, <2>1 DEF CmdInit, CmdTypes, FitInv, SavedInv, SentInv
  <2>3. CellInv
    BY <1>1, CmdAssumption DEF CmdInit, CellInv, CmdAssumption
  <2>4. LinesAsTyped
    BY <1>1 DEF CmdInit, LinesAsTyped
  <2> QED
    BY <2>2, <2>3, <2>4 DEF CmdInv
<1>2. CmdInv /\ [CmdNext]_cmdVars => CmdInv'
  <2>1. ASSUME CmdInv, UNCHANGED cmdVars PROVE CmdInv'
    <3>1. UNCHANGED <<cmdPc, args, hdl, cells, num, saved, sent, listed>>
      BY <2>1 DEF cmdVars
    <3>2. Words' = Words /\ Intact' = Intact /\ NumAfter' = NumAfter
          /\ \A j : Entry(j)' = Entry(j)
      BY <3>1 DEF Words, Intact, NumAfter, Entry
    <3>3. CmdTypes' /\ FitInv'
      BY <2>1, <3>1 DEF CmdInv, CmdTypes, FitInv
    <3>4. SavedInv' /\ CellInv' /\ SentInv'
      BY <2>1, <3>1, <3>2 DEF CmdInv, SavedInv, CellInv, SentInv
    <3> QED
      BY <2>1, <3>1, <3>3, <3>4, QuietStep
  <2> QED
    BY <2>1, SaveWordStep, SaveEndsStep, OtherCmdSteps, ParseStep DEF CmdNext
<1> QED
  BY <1>1, <1>2, PTL DEF CmdSpec

(***************************************************************************)
(* A word is copied only into cells of the message: also one as long as    *)
(* its cell ends in front of cmd_num (cmdline.c:38-46, 58).                *)
(***************************************************************************)
CopiesFit == cmdPc = "save" /\ saved < Intact => saved + 2 \in 1..CellNum

THEOREM Copies == CmdSpec => []CopiesFit
<1>1. CmdInv => CopiesFit
  BY CellBehind, CmdAssumption DEF CmdInv, CmdTypes, CopiesFit
<1> QED
  BY <1>1, CmdInductive, PTL

(***************************************************************************)
(* The receiver lists what was typed.                                      *)
(***************************************************************************)
THEOREM Typed == CmdSpec => []LinesAsTyped
BY CmdInductive, PTL DEF CmdInv
=============================================================================
