-------------------------- MODULE BroadcastProofs --------------------------
(***************************************************************************)
(* Proofs about Broadcast, for any device lists, slots, addresses and      *)
(* ports and any traffic: the table of devices is made once, before the    *)
(* first socket is bound and the thread is started, and is only read from  *)
(* then on.                                                                *)
(***************************************************************************)
EXTENDS Broadcast, FiniteSetTheorems, SequenceTheorems, WellFoundedInduction,
        TLAPS

Lives == {"none", "parse", "refresh", "bind", "failed", "running", "stopping",
          "released"}

TableTypes ==
  /\ life \in Lives /\ file \in Files /\ dirty \subseteq Garbage
  /\ corrupt \in BOOLEAN
  /\ devs \in Seq(Ifs) /\ ips \in Seq(Words)
  /\ Len(ips) = Len(devs) /\ next \in Nat \ {0}

NetTypes ==
  /\ addr \in [Ifs -> Addrs \cup {Nothing}] /\ changed \subseteq Ifs
  /\ socks \subseteq Ifs /\ rx \in [Ifs -> Seq(Datagrams)]

(***************************************************************************)
(* Each slot has a device of its own, from a line already read.            *)
(***************************************************************************)
Parsed(k) == life = "parse" => k < next
TableInv ==
  /\ \A j \in DOMAIN devs :
       \E k \in DOMAIN file : Parsed(k) /\ devs[j] = file[k]
  /\ IsInjective(devs)
  /\ life = "none" => next = 1 /\ devs = <<>> /\ ~corrupt
  /\ corrupt => dirty # {} \/ Len(devs) > Slots

(***************************************************************************)
(* A socket belongs to a slot net_dev_release will come to.                *)
(***************************************************************************)
SockInv ==
  /\ life \in {"none", "parse", "refresh", "failed", "released"} => socks = {}
  /\ life \in {"bind", "running", "stopping"} => socks \subseteq Released

(***************************************************************************)
(* The thread lives when the table is complete, and works on slots in use. *)
(***************************************************************************)
ThreadInv ==
  /\ thread \in {"none", "test", "select", "recv", "write", "ended"}
  /\ thread # "none" => life \in {"running", "stopping", "released"}
  /\ life = "released" => thread = "ended"
  /\ thread = "recv" => ready \in DOMAIN devs
  /\ thread = "write" => seq \in DOMAIN devs
  /\ rem \in Ports /\ clobbered \in BOOLEAN
  /\ wire \in Replies \cup {Nothing}
  /\ wire # Nothing => thread # "none" /\ wire.list = ips

(***************************************************************************)
(* A slot holds what malloc left in it until the lookup puts the address   *)
(* of its own device there.                                                *)
(***************************************************************************)
TrueSlots ==
  \A j \in DOMAIN devs :
    ips[j] \in {addr[devs[j]], Leftover} \/ devs[j] \in changed

BcInv == TableTypes /\ NetTypes /\ TableInv /\ SockInv /\ ThreadInv /\ TrueSlots

-----------------------------------------------------------------------------
(***************************************************************************)
(* The least element of a set of numbers, and sequences that grow.         *)
(***************************************************************************)
LEMMA Least ==
  ASSUME NEW S \in SUBSET Nat, S # {}
  PROVE  Min(S) \in S
<1> DEFINE Less == {ss \in Nat \X Nat : ss[1] < ss[2]}
<1>1. IsWellFoundedOn(Less, Nat)
  BY NatLessThanWellFounded DEF OpToRel
<1>2. PICK x \in S : \A y \in S : <<y, x>> \notin Less
  <2> HIDE DEF Less
  <2> QED BY <1>1, WFMin
<1>3. ASSUME NEW y \in S PROVE x <= y
  <2>1. <<y, x>> \in Nat \X Nat /\ <<y, x>>[1] = y /\ <<y, x>>[2] = x
    OBVIOUS
  <2>2. ~(y < x)
    BY <1>2, <2>1
  <2> QED BY <2>2
<1> QED BY <1>3 DEF Min

LEMMA FileFacts ==
  ASSUME TableTypes
  PROVE  /\ file \in Seq(Ifs \cup Ignored) /\ DOMAIN file = 1..Len(file)
         /\ Len(file) \in Nat /\ IsInjective(file)
         /\ DOMAIN devs = 1..Len(devs) /\ DOMAIN ips = 1..Len(devs)
         /\ Len(devs) \in Nat
         /\ \A j \in DOMAIN devs : devs[j] \in Ifs
BY BroadcastAssumption, LenProperties, ElementOfSeq DEF TableTypes

LEMMA GrownTable ==
  ASSUME TableTypes, ParseLine, Listed(file[next])
  PROVE  /\ file[next] \in Ifs /\ next \in DOMAIN file
         /\ devs' \in Seq(Ifs) /\ DOMAIN devs' = 1..(Len(devs) + 1)
         /\ Len(devs') = Len(devs) + 1
         /\ \A j \in DOMAIN devs : devs'[j] = devs[j]
         /\ devs'[Len(devs) + 1] = file[next]
         /\ ips' \in Seq(Words) /\ Len(ips') = Len(ips) + 1
         /\ \A j \in DOMAIN ips : ips'[j] = ips[j]
         /\ ips'[Len(ips) + 1] = Leftover
<1>1. next \in DOMAIN file /\ file[next] \in Ifs
  BY FileFacts, ElementOfSeq DEF ParseLine, Listed, TableTypes
<1>2. devs' = Append(devs, file[next]) /\ ips' = Append(ips, Leftover)
  BY DEF ParseLine
<1>3. /\ devs' \in Seq(Ifs) /\ Len(devs') = Len(devs) + 1
      /\ \A j \in 1..Len(devs) : devs'[j] = devs[j]
      /\ devs'[Len(devs) + 1] = file[next]
  BY <1>1, <1>2, AppendProperties DEF TableTypes
<1>4. /\ ips' \in Seq(Words) /\ Len(ips') = Len(ips) + 1
      /\ \A j \in 1..Len(ips) : ips'[j] = ips[j]
      /\ ips'[Len(ips) + 1] = Leftover
  <2>1. Leftover \in Words
    BY DEF Leftover, Words
  <2> QED BY <1>2, <2>1, AppendProperties DEF TableTypes
<1>5. DOMAIN devs' = 1..(Len(devs) + 1)
  BY <1>3, LenProperties
<1>6. DOMAIN ips = 1..Len(ips)
  BY LenProperties DEF TableTypes
<1> QED BY <1>1, <1>3, <1>4, <1>5, <1>6, FileFacts

(***************************************************************************)
(* What each kind of step leaves alone.                                    *)
(***************************************************************************)
LEMMA StepCases ==
  ASSUME [Next]_vars
  PROVE  \/ SetupStep /\ UNCHANGED <<addr, changed, ready, seq, rem, wire, clobbered>>
         \/ ThreadStep /\ UNCHANGED <<setup, addr, socks, changed>>
         \/ (Stop \/ Join) /\ UNCHANGED <<file, dirty, corrupt, devs, ips, next,
                                          addr, changed, server>>
         \/ (\E d \in Ifs, m \in Datagrams : Arrive(d, m))
              /\ UNCHANGED <<setup, addr, socks, changed, server>>
         \/ (\E d \in Ifs, a \in Addrs \cup {Nothing} : SetAddr(d, a))
              /\ UNCHANGED <<setup, socks, rx, server>>
         \/ UNCHANGED vars
<1>1. SetupStep => UNCHANGED <<addr, changed, ready, seq, rem, wire, clobbered>>
  BY DEF SetupStep, Malloc, ParseLine, ParseEnds, RefreshOne, RefreshEnds,
         BindOne, BindFails, CreateThread, CreateFails, net, server
<1>2. ThreadStep => UNCHANGED <<setup, addr, socks, changed>>
  BY DEF ThreadStep, TestFlag, Select, SelectEmpty, Recv, RecvFails, Write,
         WriteFails, net
<1>3. Stop \/ Join =>
        UNCHANGED <<file, dirty, corrupt, devs, ips, next, addr, changed, server>>
  BY DEF Stop, Join, net
<1>4. \A d \in Ifs : \A m \in Datagrams :
        Arrive(d, m) => UNCHANGED <<setup, addr, socks, changed, server>>
  BY DEF Arrive
<1>5. \A d \in Ifs : \A a \in Addrs \cup {Nothing} :
        SetAddr(d, a) => UNCHANGED <<setup, socks, rx, server>>
  BY DEF SetAddr
<1> QED BY <1>1, <1>2, <1>3, <1>4, <1>5 DEF Next

LEMMA TableTypesStep == ASSUME TableTypes, NetTypes, [Next]_vars PROVE TableTypes'
<1> USE DEF TableTypes, Lives
<1>1. CASE Malloc
  BY <1>1 DEF Malloc
<1>2. CASE ParseLine
  <2>1. corrupt' \in BOOLEAN
    BY <1>2 DEF ParseLine
  <2>2. CASE Listed(file[next])
    BY <1>2, <2>1, <2>2, GrownTable DEF ParseLine
  <2>3. CASE ~Listed(file[next])
    BY <1>2, <2>3 DEF ParseLine
  <2> QED BY <2>2, <2>3
<1>3. CASE ParseEnds
  <2>1. corrupt' \in BOOLEAN
    BY <1>3 DEF ParseEnds
  <2> QED BY <1>3, <2>1 DEF ParseEnds
<1>4. CASE RefreshOne
  <2>1. LookedUp \in Words /\ next \in 1..Len(ips)
    BY <1>4, FileFacts DEF RefreshOne, LookedUp, Slot, NetTypes, Words
  <2>2. ips' \in Seq(Words) /\ Len(ips') = Len(ips)
    <3>1. ips' = ips \/ ips' = [ips EXCEPT ![next] = LookedUp]
      BY <1>4 DEF RefreshOne
    <3> QED BY <2>1, <3>1, ExceptSeq
  <2> QED BY <1>4, <2>2 DEF RefreshOne
<1>5. CASE RefreshEnds \/ BindOne \/ BindFails \/ CreateThread \/ CreateFails
  <2>1. corrupt' \in BOOLEAN
    BY <1>5 DEF RefreshEnds, BindOne, BindFails, CreateThread, CreateFails
  <2> QED BY <1>5, <2>1
          DEF RefreshEnds, BindOne, BindFails, CreateThread, CreateFails
<1>6. CASE Stop \/ Join
  BY <1>6 DEF Stop, Join
<1>7. CASE UNCHANGED setup
  BY <1>7 DEF setup
<1> QED BY <1>1, <1>2, <1>3, <1>4, <1>5, <1>6, <1>7, StepCases
        DEF SetupStep, vars

LEMMA NetTypesStep ==
  ASSUME TableTypes, NetTypes, ThreadInv, [Next]_vars
  PROVE  NetTypes'
<1> USE DEF NetTypes
<1>1. CASE NetDevRelease /\ UNCHANGED <<addr, changed>>
  <2>1. <<>> \in Seq(Datagrams)
    BY EmptySeq
  <2> QED BY <1>1, <2>1 DEF NetDevRelease
<1>2. CASE BindOne
  BY <1>2, FileFacts DEF BindOne, Slot
<1>3. CASE UNCHANGED net
  BY <1>3 DEF net
<1>4. ASSUME NEW d \in Ifs, NEW m \in Datagrams, Arrive(d, m) PROVE NetTypes'
  <2>1. Append(rx[d], m) \in Seq(Datagrams)
    BY AppendProperties
  <2> QED BY <1>4, <2>1 DEF Arrive
<1>5. ASSUME NEW d \in Ifs, NEW a \in Addrs \cup {Nothing}, SetAddr(d, a)
      PROVE  NetTypes'
  BY <1>5 DEF SetAddr
<1>6. CASE Recv
  <2>1. devs[ready] \in Ifs /\ rx[devs[ready]] # <<>>
    BY <1>6, FileFacts DEF Recv, ThreadInv
  <2>2. Tail(rx[devs[ready]]) \in Seq(Datagrams)
    BY <2>1, HeadTailProperties
  <2> QED BY <1>6, <2>1, <2>2 DEF Recv
<1>7. SetupStep => \/ BindOne \/ UNCHANGED net
                   \/ NetDevRelease /\ UNCHANGED <<addr, changed>>
  BY DEF SetupStep, Malloc, ParseLine, ParseEnds, RefreshOne, RefreshEnds,
         BindFails, CreateThread, CreateFails
<1>8. ThreadStep => Recv \/ UNCHANGED net
  BY DEF ThreadStep, TestFlag, Select, SelectEmpty, RecvFails, Write, WriteFails
<1>9. (Stop => UNCHANGED net) /\ (Join => NetDevRelease /\ UNCHANGED <<addr, changed>>)
  BY DEF Stop, Join
<1> QED BY <1>1, <1>2, <1>3, <1>4, <1>5, <1>6, <1>7, <1>8, <1>9 DEF Next, vars

LEMMA TableStep == ASSUME TableTypes, TableInv, [Next]_vars PROVE TableInv'
<1> USE DEF TableInv, Parsed
<1>1. CASE Malloc
  BY <1>1 DEF Malloc
<1>2. CASE ParseLine /\ ~Listed(file[next])
  <2>1. UNCHANGED <<life, file, dirty, corrupt, devs>> /\ next' = next + 1
    BY <1>2 DEF ParseLine
  <2>2. life = "parse" /\ next \in Nat
    BY <1>2 DEF ParseLine, TableTypes
  <2> QED BY <2>1, <2>2, FileFacts
<1>3. CASE ParseLine /\ Listed(file[next])
  <2>1. /\ life = "parse" /\ next' = next + 1 /\ next \in Nat
        /\ UNCHANGED <<life, file, dirty>>
        /\ corrupt' => dirty # {} \/ Overrun(Len(devs'))
    BY <1>3 DEF ParseLine, TableTypes
  <2>2. \A j \in DOMAIN devs' :
          \E k \in DOMAIN file : k < next + 1 /\ devs'[j] = file[k]
    BY <1>3, <2>1, GrownTable, FileFacts
  <2>3. \A j \in DOMAIN devs : devs[j] # file[next]
    BY <1>3, <2>1, GrownTable, FileFacts DEF IsInjective
  <2>4. IsInjective(devs')
    BY <1>3, <2>3, GrownTable, FileFacts DEF IsInjective
  <2> QED BY <2>1, <2>2, <2>4 DEF Overrun
<1>4. CASE ParseEnds
  BY <1>4 DEF ParseEnds
<1>5. CASE BindFails
  BY <1>5 DEF BindFails
<1>6. CASE \/ RefreshOne \/ RefreshEnds \/ BindOne \/ CreateThread \/ CreateFails
           \/ Stop \/ Join
  <2>1. life' \notin {"none", "parse"} /\ UNCHANGED <<file, dirty, corrupt, devs>>
    BY <1>6 DEF RefreshOne, RefreshEnds, BindOne, CreateThread, CreateFails,
                Stop, Join
  <2> QED BY <2>1
<1>7. CASE UNCHANGED setup
  BY <1>7 DEF setup
<1> QED BY <1>1, <1>2, <1>3, <1>4, <1>5, <1>6, <1>7, StepCases
        DEF SetupStep, vars

LEMMA SockStep ==
  ASSUME TableTypes, NetTypes, SockInv, ThreadInv, [Next]_vars
  PROVE  SockInv'
<1> USE DEF SockInv, Released
<1>1. CASE Malloc \/ ParseLine \/ ParseEnds \/ RefreshOne
  <2>1. /\ life' \in {"parse", "refresh"} /\ UNCHANGED socks
        /\ life \in {"none", "parse", "refresh"}
    BY <1>1 DEF Malloc, ParseLine, ParseEnds, RefreshOne, net
  <2> QED BY <2>1
<1>2. CASE RefreshEnds
  BY <1>2 DEF RefreshEnds, net
<1>3. CASE BindOne
  <2>1. /\ life = "bind" /\ life' = "bind" /\ next' = next + 1 /\ UNCHANGED devs
        /\ socks' = socks \cup {devs[next]} /\ next \in Nat \ {0}
    BY <1>3 DEF BindOne, TableTypes
  <2>2. \A j \in 1..(next - 1) : j \in 1..((next + 1) - 1)
    BY <2>1
  <2>3. next \in 1..((next + 1) - 1)
    BY <2>1
  <2> QED BY <2>1, <2>2, <2>3
<1>4. CASE BindFails \/ CreateFails \/ Join
  <2>1. socks' = socks \ Released /\ life' \in {"failed", "released"}
        /\ life \in {"bind", "stopping"}
    BY <1>4 DEF BindFails, CreateFails, Join, NetDevRelease
  <2> QED BY <2>1
<1>5. CASE CreateThread \/ Stop
  BY <1>5 DEF CreateThread, Stop, net
<1>6. CASE UNCHANGED <<life, devs, next, socks>>
  BY <1>6
<1> QED BY <1>1, <1>2, <1>3, <1>4, <1>5, <1>6, StepCases
        DEF SetupStep, vars, setup, net

LEMMA ThreadInvStep ==
  ASSUME TableTypes, NetTypes, ThreadInv, [Next]_vars
  PROVE  ThreadInv'
<1> USE DEF ThreadInv
<1>1. CASE thread = "none" /\ UNCHANGED server /\ life' # "released"
  BY <1>1 DEF server
<1>2. CASE CreateThread
  BY <1>2 DEF CreateThread
<1>3. CASE TestFlag
  BY <1>3 DEF TestFlag, setup
<1>4. CASE Select
  <2>1. Ready \in SUBSET Nat /\ Ready # {} /\ Ready \subseteq DOMAIN devs
    BY <1>4, FileFacts DEF Select, Ready, Slot
  <2>2. ready' \in DOMAIN devs
    BY <1>4, <2>1, Least DEF Select, Pick
  <2> QED BY <1>4, <2>2 DEF Select, setup
<1>5. CASE Recv
  <2>1. devs[ready] \in Ifs /\ rx[devs[ready]] # <<>>
    BY <1>5, FileFacts DEF Recv
  <2>2. Head(rx[devs[ready]]).port \in Ports
    <3>1. Head(rx[devs[ready]]) \in Datagrams
      BY <2>1, HeadTailProperties DEF NetTypes
    <3> QED BY <3>1 DEF Datagrams
  <2>3. 1 \in DOMAIN devs
    BY <1>5, FileFacts DEF Recv
  <2>4. /\ seq' \in DOMAIN devs /\ rem' \in Ports
        /\ thread = "recv" /\ thread' \in {"test", "write"}
        /\ UNCHANGED <<setup, ready, wire>>
    BY <1>5, <2>2, <2>3 DEF Recv, ReplySlot
  <2>5. clobbered' \in BOOLEAN
    BY <1>5 DEF Recv
  <2> QED BY <2>4, <2>5 DEF setup
<1>6. CASE Write
  <2>1. /\ thread = "write" /\ thread' = "test" /\ devs[seq] \in Ifs
        /\ wire' = [dev |-> devs[seq], port |-> rem, list |-> ips]
        /\ UNCHANGED <<setup, rem, clobbered>>
    BY <1>6, FileFacts DEF Write
  <2>2. wire' \in Replies /\ wire'.list = ips
    BY <2>1 DEF Replies, TableTypes
  <2> QED BY <2>1, <2>2 DEF setup
<1>7. CASE SelectEmpty \/ RecvFails \/ WriteFails
  BY <1>7 DEF SelectEmpty, RecvFails, WriteFails, setup
<1>8. CASE Stop
  BY <1>8 DEF Stop, server
<1>9. CASE Join
  BY <1>9 DEF Join, server
<1>10. CASE UNCHANGED <<server, life, devs, ips>>
  BY <1>10 DEF server
<1>11. SetupStep =>
         \/ CreateThread
         \/ thread = "none" /\ UNCHANGED server /\ life' # "released"
  BY DEF SetupStep, Malloc, ParseLine, ParseEnds, RefreshOne, RefreshEnds,
         BindOne, BindFails, CreateFails
<1> QED BY <1>1, <1>2, <1>3, <1>4, <1>5, <1>6, <1>7, <1>8, <1>9, <1>10, <1>11,
           StepCases DEF ThreadStep, vars, setup, net

LEMMA TrueStep ==
  ASSUME TableTypes, NetTypes, TableInv, TrueSlots, [Next]_vars
  PROVE  TrueSlots'
<1> USE DEF TrueSlots, Leftover
<1>1. CASE Malloc
  <2>1. devs' = <<>>
    BY <1>1 DEF Malloc, TableInv
  <2> QED BY <2>1, EmptySeq
<1>2. CASE ParseLine
  <2>0. UNCHANGED <<dirty, addr, changed>>
    BY <1>2 DEF ParseLine, net
  <2>1. CASE Listed(file[next])
    <3>1. ASSUME NEW j \in DOMAIN devs'
          PROVE  \/ ips'[j] \in {addr[devs'[j]], Leftover}
                 \/ devs'[j] \in changed
      <4>1. CASE j \in DOMAIN devs
        BY <1>2, <2>1, <4>1, GrownTable, FileFacts
      <4>2. CASE j = Len(devs) + 1
        BY <1>2, <2>1, <4>2, GrownTable, FileFacts DEF TableTypes
      <4> QED BY <1>2, <2>1, <3>1, <4>1, <4>2, GrownTable, FileFacts
    <3> QED BY <2>0, <3>1
  <2>2. CASE ~Listed(file[next])
    BY <1>2, <2>0, <2>2 DEF ParseLine
  <2> QED BY <2>1, <2>2
<1>3. CASE RefreshOne
  <2>1. /\ UNCHANGED <<dirty, devs, addr, changed>>
        /\ ips' = ips \/ ips' = [ips EXCEPT ![next] = addr[devs[next]]]
    BY <1>3 DEF RefreshOne, LookedUp, net
  <2> QED BY <2>1, FileFacts
<1>4. CASE \/ ParseEnds \/ RefreshEnds \/ BindOne \/ BindFails
           \/ CreateThread \/ CreateFails \/ Stop \/ Join
  BY <1>4 DEF ParseEnds, RefreshEnds, BindOne, BindFails, CreateThread,
              CreateFails, Stop, Join, net
<1>5. ASSUME NEW d \in Ifs, NEW a \in Addrs \cup {Nothing}, SetAddr(d, a)
      PROVE  TrueSlots'
  <2>1. /\ addr' = [addr EXCEPT ![d] = a] /\ changed' = changed \cup {d}
        /\ UNCHANGED <<dirty, devs, ips>>
    BY <1>5 DEF SetAddr, setup
  <2>2. \A j \in DOMAIN devs : devs[j] # d => addr'[devs[j]] = addr[devs[j]]
    BY <2>1, FileFacts DEF NetTypes
  <2> QED BY <2>1, <2>2
<1>6. CASE UNCHANGED <<setup, addr, changed>>
  BY <1>6 DEF setup
<1> QED BY <1>1, <1>2, <1>3, <1>4, <1>5, <1>6, StepCases
        DEF SetupStep, vars, net

LEMMA BcInductive == Spec => []BcInv
<1>1. Init => BcInv
  <2> SUFFICES ASSUME Init PROVE BcInv
    OBVIOUS
  <2> USE DEF Init
  <2>1. TableTypes
    <3>1. devs \in Seq(Ifs) /\ Len(devs) = 0
      BY EmptySeq
    <3>2. ips \in Seq(Words) /\ Len(ips) = 0
      BY EmptySeq
    <3>3. corrupt \in BOOLEAN
      OBVIOUS
    <3> QED BY <3>1, <3>2, <3>3 DEF TableTypes, Lives
  <2>2. TableInv /\ TrueSlots
    BY DEF TableInv, IsInjective, TrueSlots
  <2>3. SockInv /\ ThreadInv
    BY DEF SockInv, ThreadInv
  <2>4. NetTypes
    <3>1. <<>> \in Seq(Datagrams)
      BY EmptySeq
    <3> QED BY <3>1 DEF NetTypes
  <2> QED BY <2>1, <2>2, <2>3, <2>4 DEF BcInv
<1>2. BcInv /\ [Next]_vars => BcInv'
  BY TableTypesStep, NetTypesStep, TableStep, SockStep, ThreadInvStep, TrueStep
  DEF BcInv
<1> QED BY <1>1, <1>2, PTL DEF Spec

-----------------------------------------------------------------------------
(***************************************************************************)
(* The table, the loops over it and the queues stay within their limits.   *)
(***************************************************************************)
End == (IF life = "parse" THEN Len(file) ELSE Len(devs)) + 1
BoundInv ==
  /\ ~corrupt => Len(devs) <= Slots
  /\ next <= End
  /\ \A d \in Ifs : Len(rx[d]) <= RxMax
  /\ ready \in 1..(Len(devs) + 1) /\ seq \in 1..(Len(devs) + 1)

LEMMA QueueBound ==
  ASSUME BcInv, BoundInv, [Next]_vars, NEW d \in Ifs
  PROVE  Len(rx'[d]) <= RxMax
<1> USE DEF BoundInv
<1>1. rx[d] \in Seq(Datagrams) /\ Len(rx[d]) \in Nat /\ RxMax \in Nat
  BY LenProperties, BroadcastAssumption DEF BcInv, NetTypes
<1>2. CASE UNCHANGED rx
  BY <1>2
<1>3. CASE BindFails \/ CreateFails \/ Join
  <2>1. rx'[d] = rx[d] \/ rx'[d] = <<>>
    BY <1>3 DEF BindFails, CreateFails, Join, NetDevRelease
  <2>2. Len(<<>>) = 0
    BY EmptySeq
  <2> QED BY <1>1, <2>1, <2>2
<1>4. CASE Recv
  <2>1. rx'[d] = rx[d] \/ (rx[d] # <<>> /\ rx'[d] = Tail(rx[d]))
    BY <1>4 DEF Recv, BcInv, NetTypes
  <2>2. CASE rx'[d] = rx[d]
    BY <2>2
  <2>3. CASE rx[d] # <<>> /\ rx'[d] = Tail(rx[d])
    <3>1. Len(Tail(rx[d])) = Len(rx[d]) - 1
      BY <1>1, <2>3, HeadTailProperties
    <3> QED BY <1>1, <2>3, <3>1
  <2> QED BY <2>1, <2>2, <2>3
<1>5. ASSUME NEW e \in Ifs, NEW m \in Datagrams, Arrive(e, m)
      PROVE  Len(rx'[d]) <= RxMax
  <2>1. \/ rx'[d] = rx[d]
        \/ (Len(rx[d]) < RxMax /\ rx'[d] = Append(rx[d], m))
    BY <1>5 DEF Arrive, BcInv, NetTypes
  <2>2. Len(Append(rx[d], m)) = Len(rx[d]) + 1
    BY <1>1, AppendProperties
  <2> QED BY <1>1, <2>1, <2>2
<1> QED
  BY <1>2, <1>3, <1>4, <1>5, StepCases
  DEF SetupStep, Malloc, ParseLine, ParseEnds, RefreshOne, RefreshEnds, BindOne,
      CreateThread, ThreadStep, TestFlag, Select, SelectEmpty, RecvFails, Write,
      WriteFails, Stop, net, vars

LEMMA BoundStep ==
  ASSUME BcInv, BoundInv, [Next]_vars
  PROVE  BoundInv'
<1> USE DEF BoundInv, End
<1>0. /\ Len(devs) \in Nat /\ Len(file) \in Nat /\ next \in Nat \ {0}
      /\ DOMAIN devs = 1..Len(devs) /\ Slots \in Nat \ {0}
  BY FileFacts, BroadcastAssumption DEF BcInv, TableTypes
<1>1. \A d \in Ifs : Len(rx'[d]) <= RxMax
  BY QueueBound
<1>2. CASE SetupStep
  <2>0. ready' = ready /\ seq' = seq
    BY <1>2, StepCases DEF SetupStep, Malloc, ParseLine, ParseEnds, RefreshOne,
       RefreshEnds, BindOne, BindFails, CreateThread, CreateFails, server
  <2>1. CASE Malloc
    BY <1>0, <1>1, <2>0, <2>1 DEF Malloc, BcInv, TableInv
  <2>2. CASE ParseLine
    <3>1. CASE Listed(file[next])
      <4>1. Len(devs') = Len(devs) + 1
        BY <2>2, <3>1, GrownTable DEF BcInv
      <4>2. ~corrupt' => Len(devs') <= Slots
        <5>1. Len(devs') > Slots => corrupt'
          BY <2>2, <3>1 DEF ParseLine, Overrun
        <5> QED BY <1>0, <4>1, <5>1
      <4> QED BY <1>0, <1>1, <2>0, <2>2, <4>1, <4>2 DEF ParseLine
    <3>2. CASE ~Listed(file[next])
      BY <1>0, <1>1, <2>0, <2>2, <3>2 DEF ParseLine
    <3> QED BY <3>1, <3>2
  <2>3. CASE ParseEnds
    BY <1>0, <1>1, <2>0, <2>3 DEF ParseEnds
  <2>4. CASE RefreshOne \/ BindOne
    BY <1>0, <1>1, <2>0, <2>4 DEF RefreshOne, BindOne, Slot
  <2>5. CASE RefreshEnds \/ BindFails \/ CreateThread \/ CreateFails
    BY <1>0, <1>1, <2>0, <2>5
    DEF RefreshEnds, BindFails, CreateThread, CreateFails
  <2> QED BY <1>2, <2>1, <2>2, <2>3, <2>4, <2>5 DEF SetupStep
<1>3. CASE ThreadStep
  <2>1. UNCHANGED <<life, file, corrupt, devs, next>>
    BY <1>3, StepCases DEF ThreadStep, TestFlag, Select, SelectEmpty, Recv,
       RecvFails, Write, WriteFails, setup
  <2>2. ready' \in 1..(Len(devs) + 1)
    <3>1. CASE Select
      <4>1. Ready \in SUBSET Nat /\ Ready # {}
        BY <1>0, <3>1 DEF Select, Ready, Slot
      <4>2. Min(Ready) \in Ready
        BY <4>1, Least
      <4> QED BY <1>0, <3>1, <4>2 DEF Select, Pick, Ready, Slot
    <3>2. CASE ~Select
      BY <1>3, <3>2 DEF ThreadStep, TestFlag, SelectEmpty, Recv, RecvFails,
         Write, WriteFails
    <3> QED BY <3>1, <3>2
  <2>3. seq' \in 1..(Len(devs) + 1)
    BY <1>0, <1>3 DEF ThreadStep, TestFlag, Select, SelectEmpty, Recv, ReplySlot,
       RecvFails, Write, WriteFails
  <2> QED BY <1>1, <2>1, <2>2, <2>3
<1>4. CASE Stop \/ Join
  BY <1>1, <1>4 DEF Stop, Join, server
<1>5. CASE UNCHANGED <<setup, server>>
  BY <1>1, <1>5 DEF setup, server
<1> QED BY <1>2, <1>3, <1>4, <1>5, StepCases DEF vars

(***************************************************************************)
(* Type correctness: unless memory is corrupt the table holds one address  *)
(* per device and no more devices than slots, and every loop over it and   *)
(* every slot the thread remembers stays in range (bc_func.h:8-26).        *)
(***************************************************************************)
THEOREM TypeCorrect == Spec => []TypeOK
<1>1. Init => BoundInv
  <2> SUFFICES ASSUME Init PROVE BoundInv
    OBVIOUS
  <2>1. Len(<<>>) = 0
    BY EmptySeq
  <2>2. file \in Seq(Ifs \cup Ignored)
    BY BroadcastAssumption DEF Init
  <2>3. Len(file) \in Nat
    BY <2>2, LenProperties
  <2> QED BY <2>1, <2>3, BroadcastAssumption DEF Init, BoundInv, End
<1>2. BcInv /\ BoundInv => TypeOK
  <2> SUFFICES ASSUME BcInv, BoundInv PROVE TypeOK
    OBVIOUS
  <2>1. devs \in Seq(Ifs \cup Ignored)
    BY SeqMonotonic DEF BcInv, TableTypes
  <2>2. next \in 1..End
    BY FileFacts DEF BcInv, TableTypes, BoundInv, End
  <2>3. corrupt \in BOOLEAN
    BY DEF BcInv, TableTypes
  <2>4. clobbered \in BOOLEAN
    BY DEF BcInv, ThreadInv
  <2> QED BY <2>1, <2>2, <2>3, <2>4
          DEF BcInv, BoundInv, End, TableTypes, NetTypes, ThreadInv, Lives, TypeOK
<1>3. BcInv /\ BoundInv /\ [Next]_vars => BoundInv'
  BY BoundStep
<1> QED BY <1>1, <1>2, <1>3, BcInductive, PTL DEF Spec

(***************************************************************************)
(* CorruptOnlyIf: with zeroed memory the table overflows only when more    *)
(* interfaces are listed than it has slots, and no failure of the start    *)
(* frees what was never bound (bc_func.c:75-102, 201-264).                 *)
(***************************************************************************)
THEOREM Overflow == Spec => []CorruptOnlyIf
<1>1. BcInv => CorruptOnlyIf
  <2> SUFFICES ASSUME BcInv, corrupt, dirty = {}
               PROVE  Cardinality(ToSet(file) \cap Ifs) > Slots
    BY DEF CorruptOnlyIf
  <2> DEFINE Listing == ToSet(file) \cap Ifs
  <2>1. /\ DOMAIN file = 1..Len(file) /\ Len(file) \in Nat
        /\ DOMAIN devs = 1..Len(devs) /\ Len(devs) \in Nat
        /\ \A j \in DOMAIN devs : devs[j] \in Ifs
    BY FileFacts DEF BcInv
  <2>2. IsFiniteSet(Listing)
    <3>1. IsFiniteSet(1..Len(file))
      BY <2>1, FS_Interval
    <3>2. file \in Surjection(1..Len(file), ToSet(file))
      BY <2>1, FileFacts DEF BcInv, Surjection, ToSet
    <3>3. IsFiniteSet(ToSet(file))
      BY <3>1, <3>2, FS_Surjection
    <3> QED BY <3>3, FS_Subset
  <2>3. devs \in Injection(1..Len(devs), Listing)
    <3>1. devs \in [1..Len(devs) -> Listing]
      BY <2>1 DEF BcInv, TableInv, TableTypes, ToSet
    <3> QED BY <3>1 DEF Injection, BcInv, TableInv
  <2>4. Cardinality(1..Len(devs)) <= Cardinality(Listing)
    <3> HIDE DEF Listing
    <3> QED BY <2>2, <2>3, FS_Injection
  <2>5. Cardinality(1..Len(devs)) = Len(devs)
    <3>1. Cardinality(1..Len(devs)) =
            IF 1 > Len(devs) THEN 0 ELSE Len(devs) - 1 + 1
      <4>1. 1 \in Int /\ Len(devs) \in Int
        BY <2>1
      <4> QED BY <4>1, FS_Interval
    <3> QED BY <2>1, <3>1
  <2>6. Cardinality(Listing) \in Nat
    BY <2>2, FS_CardinalityType
  <2>7. Len(devs) > Slots
    BY DEF BcInv, TableInv
  <2> QED BY <2>1, <2>4, <2>5, <2>6, <2>7, BroadcastAssumption
<1> QED BY <1>1, BcInductive, PTL

(***************************************************************************)
(* NoSocketLeft: however far the start came, and whenever the service is   *)
(* stopped, every socket it bound is closed (bc_func.c:201-230, 258-277).  *)
(***************************************************************************)
THEOREM SocketsClosed == Spec => []NoSocketLeft
<1>1. BcInv => NoSocketLeft
  BY DEF BcInv, SockInv, NoSocketLeft
<1> QED BY <1>1, BcInductive, PTL

(***************************************************************************)
(* RepliesTruthful: no reply gives a device an address that is not its     *)
(* own, unless that has been changed since the start; where a lookup       *)
(* failed it carries what malloc left (bc_func.c:21-56, 104-114, 236).     *)
(***************************************************************************)
THEOREM Truthful == Spec => []RepliesTruthful
<1>1. BcInv => RepliesTruthful
  BY FileFacts
  DEF BcInv, ThreadInv, TrueSlots, RepliesTruthful, Slot
<1> QED BY <1>1, BcInductive, PTL

(***************************************************************************)
(* ImplementsResponder: until a full buffer is read, each step is one of   *)
(* the responder's or changes nothing in it: one reply at most to a        *)
(* request, on its network and to its port (bc_func.c:116-199).            *)
(***************************************************************************)
THEOREM ResponderRefinement == Spec => ImplementsResponder
<1>1. Init => Resp!RespInit
  BY DEF Init, Resp!RespInit
<1>2. BcInv /\ [Next]_vars => [clobbered' \/ Resp!RespNext]_(Resp!respVars)
  <2> SUFFICES ASSUME BcInv, [Next]_vars, ~clobbered'
               PROVE  Resp!RespNext \/ UNCHANGED Resp!respVars
    OBVIOUS
  <2> USE DEF Resp!RespNext, Resp!respVars
  <2>0. /\ \A j \in DOMAIN devs, p \in Ports : <<devs[j], p>> # Nothing
        /\ Nothing \notin Replies /\ <<>> \in Seq(Datagrams)
    BY FileFacts, BroadcastAssumption, EmptySeq DEF BcInv
  <2>1. ASSUME NetDevRelease, socks' = {}, UNCHANGED <<thread, wire>>,
               thread # "write"
        PROVE  Resp!Shut
    BY <2>1 DEF NetDevRelease, Resp!Shut
  <2>2. CASE SetupStep
    <3>1. thread = "none" /\ thread' # "write" /\ UNCHANGED wire
      BY <2>2 DEF BcInv, ThreadInv, SetupStep, Malloc, ParseLine, ParseEnds,
                  RefreshOne, RefreshEnds, BindOne, BindFails, CreateThread,
                  CreateFails, server
    <3>2. CASE BindFails \/ CreateFails
      <4>1. NetDevRelease /\ socks' = {} /\ UNCHANGED <<thread, wire>>
        BY <3>2 DEF BindFails, CreateFails, NetDevRelease, BcInv, SockInv, server
      <4> QED BY <2>1, <3>1, <4>1
    <3>3. CASE ~BindFails /\ ~CreateFails
      <4>1. UNCHANGED rx
        BY <2>2, <3>3 DEF SetupStep, Malloc, ParseLine, ParseEnds, RefreshOne,
                          RefreshEnds, BindOne, CreateThread, net
      <4> QED BY <3>1, <4>1
    <3> QED BY <3>2, <3>3
  <2>3. CASE Recv
    <3>1. PICK d \in Ifs : d = devs[ready]
      BY <2>3, FileFacts DEF Recv, BcInv, ThreadInv
    <3>2. /\ thread = "recv" /\ rx[d] # <<>>
          /\ rx' = [rx EXCEPT ![d] = Tail(@)] /\ rem' = Head(rx[d]).port
          /\ thread' \in {"test", "write"} /\ UNCHANGED <<devs, wire>>
          /\ seq' = ready
      BY <2>3, <3>1 DEF Recv, ReplySlot, setup
    <3>3. Resp!Take(d)
      BY <3>1, <3>2 DEF Resp!Take
    <3> QED BY <3>3
  <2>4. CASE Write
    <3>1. /\ thread = "write" /\ thread' = "test" /\ UNCHANGED rx
          /\ seq \in DOMAIN devs /\ rem \in Ports
          /\ wire' = [dev |-> devs[seq], port |-> rem, list |-> ips]
      BY <2>4 DEF Write, net, BcInv, ThreadInv
    <3>2. wire' # Nothing /\ wire'.dev = devs[seq] /\ wire'.port = rem
      <4>1. devs[seq] \in Ifs /\ ips \in Seq(Words)
        BY <3>1, FileFacts DEF BcInv, TableTypes
      <4>2. wire' \in Replies
        BY <3>1, <4>1 DEF Replies
      <4> QED BY <2>0, <3>1, <4>2
    <3>3. Resp!Reply
      BY <2>0, <3>1, <3>2 DEF Resp!Reply
    <3> QED BY <3>3
  <2>5. CASE WriteFails
    BY <2>5 DEF WriteFails, net, Resp!Forget
  <2>6. CASE TestFlag
    BY <2>6 DEF TestFlag, net, Resp!Sent
  <2>7. CASE Select \/ SelectEmpty \/ RecvFails
    BY <2>7 DEF Select, SelectEmpty, RecvFails, net
  <2>8. CASE Stop
    BY <2>8 DEF Stop, net, server
  <2>9. CASE Join
    <3>1. NetDevRelease /\ socks' = {} /\ UNCHANGED <<thread, wire>> /\ thread = "ended"
      BY <2>9 DEF Join, NetDevRelease, BcInv, SockInv, server
    <3> QED BY <2>1, <3>1
  <2>10. ASSUME NEW d \in Ifs, NEW m \in Datagrams, Arrive(d, m)
         PROVE  Resp!RespNext
    BY <2>10 DEF Arrive, setup, server, Resp!Come
  <2>11. CASE UNCHANGED <<setup, rx, server>>
    BY <2>11 DEF setup, server
  <2> QED BY <2>2, <2>3, <2>4, <2>5, <2>6, <2>7, <2>8, <2>9, <2>10, <2>11,
             StepCases DEF ThreadStep, vars, net
<1> QED BY <1>1, <1>2, BcInductive, PTL DEF Spec, ImplementsResponder
=============================================================================
