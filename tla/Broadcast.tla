----------------------------- MODULE Broadcast -----------------------------
(***************************************************************************)
(* The address service of cms_server, app/cms_server/bc_func.c over        *)
(* udp_func.c.  At the start it lists the network devices, notes their     *)
(* addresses and binds one UDP socket to each; a thread then answers every *)
(* "ipaddr get" with the list, broadcast on the device the request came    *)
(* from, to the port it was sent from.                                     *)
(*                                                                         *)
(* The network, the kernel's receive queues and /proc/net/dev are          *)
(* external.  A datagram is its kind and its port: "get" is the request,   *)
(* "long" the request in a datagram that fills the 512-byte buffer (the    *)
(* NUL put behind it lands on whatever the build placed next, seq at       *)
(* worst), "other" anything else, an empty datagram included.              *)
(*                                                                         *)
(* An operator whose name ends in Fault is a deliberately wrong form of    *)
(* the definition that follows it.                                         *)
(***************************************************************************)
EXTENDS Naturals, SequencesExt

CONSTANTS
  Ifs,      \* interfaces the service is for
  Ignored,  \* those it skips: lo, usb0 and names too long for their column
  Files,    \* what /proc/net/dev may list, <<>> if it cannot be opened
  Slots,    \* ETH_NET_NUM, 4 in the source
  Addrs,    \* addresses an interface may be given while the server runs
  Ports,    \* ports requests come from
  MaxChanged, \* bound: interfaces whose address changes meanwhile
  RxMax,    \* bound: datagrams the kernel keeps for a socket
  Garbage,  \* fields of tpBC_INFO that malloc may leave dirty
  Junk,     \* a dirty ip_addr; it ends at a NUL in hdl or fd at the latest
  Nothing   \* no address; no reply

Words == Addrs \cup {Nothing, Junk}
Replies == [dev : Ifs, port : Ports, list : Seq(Words)]

\* The kernel lists each device once.
ASSUME BroadcastAssumption ==
  /\ Slots \in Nat \ {0} /\ RxMax \in Nat \ {0} /\ MaxChanged \in Nat
  /\ Files \subseteq Seq(Ifs \cup Ignored) /\ Ifs \cap Ignored = {}
  /\ \A f \in Files : IsInjective(f)
  /\ Garbage \subseteq {"dev_num", "hdl", "ip_addr"}
  /\ Junk \notin Addrs \cup {Nothing}
  /\ Nothing \notin Addrs \cup (Ifs \X Ports) \cup Replies

VARIABLES
  life,     \* where the service is between bc_func_init and _release
  file,     \* what /proc/net/dev lists
  dirty,    \* fields malloc left dirty
  corrupt,  \* memory has been overwritten, or a wild pointer freed
  devs,     \* net_dev of each slot in use
  ips,      \* ip_addr of each slot
  next,     \* line netdev_file_parse reads; j of devs_ipaddr_refresh, net_dev_init
  addr,     \* address each interface really has
  socks,    \* interfaces with a bound socket
  rx,       \* datagrams waiting in them
  thread,   \* next step of recv_func
  ready,    \* the slot comm_read found ready
  seq,      \* its local variables seq
  rem,      \*   and rem.rem_port
  wire,     \* reply that has just gone out
  changed,  \* history: interfaces whose address changed since the start
  clobbered \* history: a full buffer has been terminated

setup == <<life, file, dirty, corrupt, devs, ips, next>>
net == <<addr, socks, rx, changed>>
server == <<thread, ready, seq, rem, wire, clobbered>>
vars == <<setup, net, server>>

Datagrams == [kind : {"get", "long", "other"}, port : Ports]
Slot == 1..Len(devs)

Init ==
  /\ life = "none" /\ file \in Files /\ dirty = {} /\ corrupt = FALSE
  /\ devs = <<>> /\ ips = <<>> /\ next = 1
  /\ addr \in [Ifs -> Addrs \cup {Nothing}] /\ changed = {}
  /\ \A d \in Ifs \ ToSet(file) : addr[d] = Nothing
  /\ socks = {} /\ rx = [d \in Ifs |-> <<>>]
  /\ thread = "none" /\ ready = 1 /\ seq = 1 /\ rem \in Ports
  /\ wire = Nothing /\ clobbered = FALSE

(***************************************************************************)
(* bc_func_init.  The block comes from malloc as it is; dev_num is counted *)
(* up from what it holds, past the end of devs if the file is long enough. *)
(***************************************************************************)
Malloc ==
  /\ life = "none"
  /\ life' = "parse"
  /\ dirty' \in SUBSET Garbage
  /\ UNCHANGED <<file, corrupt, devs, ips, next, net, server>>

Leftover == IF "ip_addr" \in dirty THEN Junk ELSE Nothing

ListedFault(d) == TRUE
Listed(d) == d \notin Ignored

Overrun(n) == n > Slots

\* netdev_file_parse, line by line.
ParseLine ==
  /\ ~corrupt /\ life = "parse" /\ next <= Len(file)
  /\ next' = next + 1
  /\ \/ /\ ~Listed(file[next])
        /\ UNCHANGED <<corrupt, devs, ips>>
     \/ /\ Listed(file[next])
        /\ devs' = Append(devs, file[next]) /\ ips' = Append(ips, Leftover)
        /\ corrupt' = ("dev_num" \in dirty \/ Overrun(Len(devs')))
  /\ UNCHANGED <<life, file, dirty, net, server>>

\* The loops that follow trust dev_num, also if no line was a device's.
ParseEnds ==
  /\ ~corrupt /\ life = "parse" /\ next > Len(file)
  /\ life' = "refresh" /\ next' = 1
  /\ corrupt' = ("dev_num" \in dirty)
  /\ UNCHANGED <<file, dirty, devs, ips, net, server>>

\* devs_ipaddr_refresh.  A lookup may fail, and does if there is no address:
\* the slot then keeps what malloc left in it.
LookedUpFault == addr[devs[1]]
LookedUp == addr[devs[next]]

RefreshOne ==
  /\ ~corrupt /\ life = "refresh" /\ next \in Slot
  /\ \/ /\ LookedUp # Nothing
        /\ ips' = [ips EXCEPT ![next] = LookedUp]
     \/ UNCHANGED ips
  /\ next' = next + 1
  /\ UNCHANGED <<life, file, dirty, corrupt, devs, net, server>>

RefreshEnds ==
  /\ ~corrupt /\ life = "refresh" /\ next \notin Slot
  /\ life' = "bind" /\ next' = 1
  /\ UNCHANGED <<file, dirty, corrupt, devs, ips, net, server>>

\* net_dev_init: one udp_init per slot ...
BindOne ==
  /\ ~corrupt /\ life = "bind" /\ next \in Slot
  /\ socks' = socks \cup {devs[next]}
  /\ next' = next + 1
  /\ UNCHANGED <<life, file, dirty, corrupt, devs, ips, addr, rx, changed, server>>

\* net_dev_release closes every slot whose handle is not NULL.
ReleasedFault == {devs[j] : j \in 1..(next - 2)}
Released == {devs[j] : j \in 1..(next - 1)}

NetDevRelease ==
  /\ socks' = socks \ Released
  /\ rx' = [d \in Ifs |-> IF d \in socks' THEN rx[d] ELSE <<>>]

\* ... a failure releases all of them, those never reached included.
BindFails ==
  /\ ~corrupt /\ life = "bind" /\ next \in Slot
  /\ life' = "failed"
  /\ corrupt' = ("hdl" \in dirty /\ next < Len(devs))
  /\ NetDevRelease
  /\ UNCHANGED <<file, dirty, devs, ips, next, addr, changed, server>>

CreateThread ==
  /\ ~corrupt /\ life = "bind" /\ next \notin Slot
  /\ life' = "running" /\ thread' = "test"
  /\ UNCHANGED <<file, dirty, corrupt, devs, ips, next, net, ready, seq, rem,
                 wire, clobbered>>

CreateFails ==
  /\ ~corrupt /\ life = "bind" /\ next \notin Slot
  /\ life' = "failed"
  /\ NetDevRelease
  /\ UNCHANGED <<file, dirty, corrupt, devs, ips, next, addr, changed, server>>

(***************************************************************************)
(* The network.  A datagram for a full queue is dropped by the kernel.     *)
(***************************************************************************)
Arrive(d, m) ==
  /\ d \in socks /\ Len(rx[d]) < RxMax
  /\ rx' = [rx EXCEPT ![d] = Append(@, m)]
  /\ UNCHANGED <<setup, addr, socks, changed, server>>

SetAddr(d, a) ==
  /\ life # "none" /\ d \in ToSet(file) /\ addr[d] # a
  /\ Cardinality(changed \cup {d}) <= MaxChanged
  /\ addr' = [addr EXCEPT ![d] = a]
  /\ changed' = changed \cup {d}
  /\ UNCHANGED <<setup, socks, rx, server>>

(***************************************************************************)
(* recv_func, with comm_read and udp_block_read.                           *)
(***************************************************************************)
FlagFault == life \in {"running", "stopping"}
Flag == life = "running"

TestFlag ==
  /\ thread = "test"
  /\ thread' = IF Flag THEN "select" ELSE "ended"
  /\ wire' = Nothing
  /\ UNCHANGED <<setup, net, ready, seq, rem, clobbered>>

\* The first slot that is ready is served, and only that.
Ready == {j \in Slot : rx[devs[j]] # <<>>}
PickFault(S) == Max(S)
Pick(S) == Min(S)

Select ==
  /\ thread = "select" /\ Ready # {}
  /\ thread' = "recv"
  /\ ready' = Pick(Ready)
  /\ UNCHANGED <<setup, net, seq, rem, wire, clobbered>>

\* After 1.1 s.
SelectEmpty ==
  /\ thread = "select" /\ Ready = {}
  /\ thread' = "test"
  /\ UNCHANGED <<setup, net, ready, seq, rem, wire, clobbered>>

ReplySlotFault == seq
ReplySlot == ready

Recv ==
  /\ thread = "recv" /\ rx[devs[ready]] # <<>>
  /\ LET m == Head(rx[devs[ready]]) IN
       /\ rx' = [rx EXCEPT ![devs[ready]] = Tail(@)]
       /\ rem' = m.port
       /\ thread' = IF m.kind = "other" THEN "test" ELSE "write"
       /\ seq' \in IF m.kind = "long" THEN {ReplySlot, 1} ELSE {ReplySlot}
       /\ clobbered' = (clobbered \/ m.kind = "long")
  /\ UNCHANGED <<setup, addr, socks, changed, ready, wire>>

\* An error the socket had pending; the queue is left alone.
RecvFails ==
  /\ thread = "recv"
  /\ thread' = "test"
  /\ seq' = ready
  /\ UNCHANGED <<setup, net, ready, rem, wire, clobbered>>

\* build_ipaddr_string and udp_write.
Write ==
  /\ thread = "write"
  /\ thread' = "test"
  /\ wire' = [dev |-> devs[seq], port |-> rem, list |-> ips]
  /\ UNCHANGED <<setup, net, ready, seq, rem, clobbered>>

\* No room within 1.1 s, or sendto fails: the result is not looked at.
WriteFails ==
  /\ thread = "write"
  /\ thread' = "test"
  /\ UNCHANGED <<setup, net, ready, seq, rem, wire, clobbered>>

(***************************************************************************)
(* bc_func_release.                                                        *)
(***************************************************************************)
Stop ==
  /\ life = "running"
  /\ life' = "stopping"
  /\ UNCHANGED <<file, dirty, corrupt, devs, ips, next, net, server>>

Join ==
  /\ life = "stopping" /\ thread = "ended"
  /\ life' = "released"
  /\ NetDevRelease
  /\ UNCHANGED <<file, dirty, corrupt, devs, ips, next, addr, changed, server>>

SetupStep ==
  \/ Malloc \/ ParseLine \/ ParseEnds \/ RefreshOne \/ RefreshEnds
  \/ BindOne \/ BindFails \/ CreateThread \/ CreateFails

ThreadStep ==
  \/ TestFlag \/ Select \/ SelectEmpty \/ Recv \/ RecvFails
  \/ Write \/ WriteFails

Next ==
  \/ SetupStep \/ ThreadStep \/ Stop \/ Join
  \/ \E d \in Ifs :
       \/ \E m \in Datagrams : Arrive(d, m)
       \/ \E a \in Addrs \cup {Nothing} : SetAddr(d, a)

Spec == Init /\ [][Next]_vars

(***************************************************************************)
(* The thread is scheduled.  A pending error is reported once, so          *)
(* RecvFails cannot keep the thread from a datagram for ever.              *)
(***************************************************************************)
FairSpec ==
  /\ Spec
  /\ WF_vars(ThreadStep) /\ WF_vars(Join)
  /\ SF_vars(Recv)

-----------------------------------------------------------------------------
\* Every variable has its type; unless memory is corrupt there is one address
\* per device and no more devices than slots (bc_func.h:8-26).
TypeOK ==
  /\ life \in {"none", "parse", "refresh", "bind", "failed", "running",
               "stopping", "released"}
  /\ file \in Files /\ dirty \subseteq Garbage /\ corrupt \in BOOLEAN
  /\ devs \in Seq(Ifs \cup Ignored)
  /\ ips \in Seq(Words) /\ Len(ips) = Len(devs)
  /\ ~corrupt => Len(devs) <= Slots
  /\ next \in 1..((IF life = "parse" THEN Len(file) ELSE Len(devs)) + 1)
  /\ addr \in [Ifs -> Addrs \cup {Nothing}] /\ changed \subseteq Ifs
  /\ socks \subseteq Ifs
  /\ \A d \in Ifs : rx[d] \in Seq(Datagrams) /\ Len(rx[d]) <= RxMax
  /\ thread \in {"none", "test", "select", "recv", "write", "ended"}
  /\ ready \in 1..(Len(devs) + 1)
  /\ seq \in 1..(Len(devs) + 1) /\ rem \in Ports
  /\ wire \in Replies \cup {Nothing} /\ clobbered \in BOOLEAN

(***************************************************************************)
(* With zeroed memory and no more served interfaces than slots, no failure *)
(* at any point of the start corrupts memory: a partly bound table is      *)
(* released without touching what was never bound, and lo and usb0 take no *)
(* slot (bc_func.c:75-102, 201-264).                                       *)
(***************************************************************************)
CorruptOnlyIf ==
  corrupt => dirty # {} \/ Cardinality(ToSet(file) \cap Ifs) > Slots

(***************************************************************************)
(* A start that fails at any step, and a stop at any moment, leave no      *)
(* socket bound (bc_func.c:201-230, 258-277).                              *)
(***************************************************************************)
NoSocketLeft == life \in {"failed", "released"} => socks = {}

(***************************************************************************)
(* As long as no full buffer was read, the service implements the          *)
(* responder: one reply at most to a request, on its network and to its    *)
(* port, whatever arrives on the other devices meanwhile                   *)
(* (bc_func.c:116-199).                                                    *)
(***************************************************************************)
Resp == INSTANCE Responder WITH
  Requests <- Datagrams,
  hand <- IF thread = "write" THEN <<devs[seq], rem>> ELSE Nothing,
  wire <- IF wire = Nothing THEN Nothing ELSE <<wire.dev, wire.port>>

ImplementsResponder ==
  Resp!RespInit /\ [][clobbered' \/ Resp!RespNext]_Resp!respVars

(***************************************************************************)
(* No device is reported with an address it does not have, another         *)
(* device's for one, unless its own was changed since the server started.  *)
(* Where a lookup failed at the start the reply carries, for good, what    *)
(* malloc had left in the record: the empty word if that was clean         *)
(* (bc_func.c:21-56, 104-114, 236).                                        *)
(***************************************************************************)
RepliesTruthful ==
  wire # Nothing =>
    \A j \in Slot :
      \/ wire.list[j] \in {addr[devs[j]], Leftover}
      \/ devs[j] \in changed

(***************************************************************************)
(* bc_func_release returns, however busy the networks are: the thread      *)
(* notices the flag (bc_func.c:170, 266-277).                              *)
(***************************************************************************)
ReleaseReturns == life = "stopping" ~> life = "released"

(***************************************************************************)
(* Service is by priority: a device with a datagram waiting is not left    *)
(* for ever provided the devices before it fall silent, however busy those *)
(* behind it are; before them nothing is promised (bc_func.c:143-151).     *)
(***************************************************************************)
Served(j) == Recv /\ ready = j
LowerSlotFirst ==
  \A j \in 1..Slots :
    <>[](life = "running" /\ j \in Ready /\ Min(Ready) = j)
      => []<><<Served(j)>>_vars
=============================================================================
