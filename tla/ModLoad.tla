------------------------------ MODULE ModLoad ------------------------------
(***************************************************************************)
(* Loading and unloading the drivers that only register platform devices:  *)
(* modules/gpmcnet/gpmc_net.c, modules/ch438/ch438_dev.c and               *)
(* modules/hx_key/hx_key.c.  The first two take chip selects of the GPMC   *)
(* and put their devices into the memory behind them; none of the three    *)
(* looks at every result, and gpmc_net at none.                            *)
(*                                                                         *)
(* Device n of the GPMC drivers lies behind chip select n; device 4 is the *)
(* recover key.  The GPMC and the platform bus are external: a chip select *)
(* that is taken is refused; releasing one that is not taken, or           *)
(* unregistering a device that is not registered, is an oops (BUG() in     *)
(* gpmc_cs_free), and what the machine does after it is not modelled.      *)
(*                                                                         *)
(* An operator whose name ends in Fault is a deliberately wrong form of    *)
(* the definition that follows it.                                         *)
(***************************************************************************)
EXTENDS Naturals, Sequences

Mods == {"gpmc_net", "ch438", "hx_key"}
Devices == 1..4
ChipSelects == 1..3
Owner(n) == IF n <= 2 THEN "gpmc_net" ELSE IF n = 3 THEN "ch438" ELSE "hx_key"

VARIABLES
  stage,     \* "out", "loading", "in" or "unloading", for each module
  left,      \* the calls the running init or exit has still to make
  taken,     \* chip selects that are reserved
  bus,       \* devices that are registered
  memory,    \* static data of the modules: has the device its addresses
  kernel,    \* "up" or "dead"
  denied,    \* history: chip selects and devices refused since the insmod
  leaked     \* history: chip selects an insmod that failed has kept

loadVars == <<stage, left, taken, bus, memory, kernel, denied, leaked>>

Op == [call : {"request", "register", "unregister", "free"}, n : Devices]
Calls(call, ns) == [i \in DOMAIN ns |-> [call |-> call, n |-> ns[i]]]

(***************************************************************************)
(* What init and exit of each module call, in order.                       *)
(***************************************************************************)
InitCalls(m) ==
  CASE m = "gpmc_net" -> Calls("request", <<1, 2>>) \o Calls("register", <<1, 2>>)
    [] m = "ch438"    -> Calls("request", <<3>>) \o Calls("register", <<3>>)
    [] m = "hx_key"   -> Calls("register", <<4>>)

ExitCallsFault(m) ==
  CASE m = "gpmc_net" -> Calls("free", <<1, 2>>) \o Calls("unregister", <<1, 2>>)
    [] m = "ch438"    -> Calls("free", <<3>>) \o Calls("unregister", <<3>>)
    [] m = "hx_key"   -> Calls("unregister", <<4>>)
ExitCallsLeakFault(m) ==
  CASE m = "gpmc_net" -> Calls("unregister", <<1>>) \o Calls("unregister", <<2>>)
    [] m = "ch438"    -> Calls("unregister", <<3>>)
    [] m = "hx_key"   -> Calls("unregister", <<4>>)
ExitCalls(m) ==
  CASE m = "gpmc_net" -> Calls("unregister", <<1>>) \o Calls("free", <<1>>)
                           \o Calls("unregister", <<2>>) \o Calls("free", <<2>>)
    [] m = "ch438"    -> Calls("unregister", <<3>>) \o Calls("free", <<3>>)
    [] m = "hx_key"   -> Calls("unregister", <<4>>)

LoadInit ==
  /\ stage = [m \in Mods |-> "out"] /\ left = [m \in Mods |-> <<>>]
  /\ taken = {} /\ bus = {} /\ memory = {} /\ kernel = "up"
  /\ denied = {} /\ leaked = {}

Of(m) == {n \in Devices : Owner(n) = m}
Idle(m) == kernel = "up" /\ left[m] = <<>>
AtCall(m, call, n) ==
  kernel = "up" /\ left[m] # <<>> /\ Head(left[m]) = [call |-> call, n |-> n]

\* A module that is loaded has its static data as it was compiled.
Insmod(m) ==
  /\ Idle(m) /\ stage[m] = "out"
  /\ stage' = [stage EXCEPT ![m] = "loading"]
  /\ left' = [left EXCEPT ![m] = InitCalls(m)]
  /\ memory' = memory \ Of(m) /\ denied' = denied \ Of(m)
  /\ UNCHANGED <<taken, bus, kernel, leaked>>

Rmmod(m) ==
  /\ Idle(m) /\ stage[m] = "in"
  /\ stage' = [stage EXCEPT ![m] = "unloading"]
  /\ left' = [left EXCEPT ![m] = ExitCalls(m)]
  /\ UNCHANGED <<taken, bus, memory, kernel, denied, leaked>>

Done(m) ==
  /\ Idle(m) /\ stage[m] \in {"loading", "unloading"}
  /\ stage' = [stage EXCEPT ![m] = IF @ = "loading" THEN "in" ELSE "out"]
  /\ UNCHANGED <<left, taken, bus, memory, kernel, denied, leaked>>

Called(m) == left' = [left EXCEPT ![m] = Tail(@)]

(***************************************************************************)
(* gs_init and gn_init: the addresses are filled in only if the chip       *)
(* select was granted; the callers go on in either case.                   *)
(***************************************************************************)
Request(m, n) ==
  /\ AtCall(m, "request", n) /\ n \notin taken
  /\ Called(m)
  /\ taken' = taken \cup {n} /\ memory' = memory \cup {n}
  /\ UNCHANGED <<stage, bus, kernel, denied, leaked>>

RequestRefused(m, n) ==
  /\ AtCall(m, "request", n)
  /\ Called(m)
  /\ denied' = denied \cup {n}
  /\ UNCHANGED <<stage, taken, bus, memory, kernel, leaked>>

\* gs_init writes through the mapping of the chip without a look at it: the
\* kernel dies there if it was refused.
MappingRefused(m, n) ==
  /\ AtCall(m, "request", n) /\ n \notin taken /\ m = "ch438"
  /\ taken' = taken \cup {n}
  /\ kernel' = "dead"
  /\ UNCHANGED <<stage, left, bus, memory, denied, leaked>>

Register(m, n) ==
  /\ AtCall(m, "register", n) /\ n \notin bus
  /\ Called(m)
  /\ bus' = bus \cup {n}
  /\ UNCHANGED <<stage, taken, memory, kernel, denied, leaked>>

(***************************************************************************)
(* gpmc_net does not look; ch438 and hx_key return the error, and ch438    *)
(* keeps its chip select.                                                  *)
(***************************************************************************)
ReturnsFault(m) == FALSE
Returns(m) == m # "gpmc_net"

RegisterFails(m, n) ==
  /\ AtCall(m, "register", n)
  /\ denied' = denied \cup {n}
  /\ IF Returns(m)
     THEN /\ stage' = [stage EXCEPT ![m] = "out"]
          /\ left' = [left EXCEPT ![m] = <<>>]
          /\ leaked' = leaked \cup (taken \cap Of(m))
     ELSE Called(m) /\ UNCHANGED <<stage, leaked>>
  /\ UNCHANGED <<taken, bus, memory, kernel>>

Unregister(m, n) ==
  /\ AtCall(m, "unregister", n) /\ n \in bus
  /\ Called(m)
  /\ bus' = bus \ {n}
  /\ UNCHANGED <<stage, taken, memory, kernel, denied, leaked>>

CsFree(m, n) ==
  /\ AtCall(m, "free", n) /\ n \in taken
  /\ Called(m)
  /\ taken' = taken \ {n} /\ leaked' = leaked \ {n}
  /\ UNCHANGED <<stage, bus, memory, kernel, denied>>

\* device_del on a device that was never added; BUG() in gpmc_cs_free.
Dies(m, n) ==
  /\ \/ AtCall(m, "unregister", n) /\ n \notin bus
     \/ AtCall(m, "free", n) /\ n \notin taken
  /\ kernel' = "dead"
  /\ UNCHANGED <<stage, left, taken, bus, memory, denied, leaked>>

Reboot ==
  /\ stage' = [m \in Mods |-> "out"] /\ left' = [m \in Mods |-> <<>>]
  /\ taken' = {} /\ bus' = {} /\ memory' = {} /\ kernel' = "up"
  /\ denied' = {} /\ leaked' = {}

CallStep(m, n) ==
  \/ Request(m, n) \/ RequestRefused(m, n) \/ MappingRefused(m, n)
  \/ Register(m, n) \/ RegisterFails(m, n)
  \/ Unregister(m, n) \/ CsFree(m, n) \/ Dies(m, n)

LoadNext ==
  \/ \E m \in Mods : Insmod(m) \/ Rmmod(m) \/ Done(m)
                     \/ \E n \in Devices : CallStep(m, n)
  \/ Reboot

LoadSpec == LoadInit /\ [][LoadNext]_loadVars

-----------------------------------------------------------------------------
(***************************************************************************)
(* No device is on the bus with addresses behind a chip select that was    *)
(* given back, whatever was refused before (ch438_dev.c:396-400,           *)
(* gpmc_net.c:259-267).                                                    *)
(***************************************************************************)
NoFreedMemory == bus \cap memory \subseteq taken

(***************************************************************************)
(* rmmod ends the kernel only when insmod was refused something and did    *)
(* not tell; insmod does only inside gs_init of ch438, once the chip       *)
(* select is its own; the recover key never does (gpmc_net.c:249-256,      *)
(* ch438_dev.c:318-366, 389).                                              *)
(***************************************************************************)
InsideGsInit ==
  /\ stage["ch438"] = "loading" /\ left["ch438"] = InitCalls("ch438")
  /\ 3 \in taken
DiesOnlyUntold ==
  kernel = "dead" =>
    \/ InsideGsInit
    \/ \E m \in Mods \ {"hx_key"} :
         stage[m] = "unloading" /\ denied \cap Of(m) # {}

(***************************************************************************)
(* A chip select stays taken without its module only when the registration *)
(* of the UARTs failed: no order of loading and unloading leaks one        *)
(* (ch438_dev.c:389-393).                                                  *)
(***************************************************************************)
NoLeak ==
  \A n \in taken : stage[Owner(n)] = "out" => n = 3 /\ n \in leaked
=============================================================================
