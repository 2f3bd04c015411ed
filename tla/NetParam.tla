------------------------------ MODULE NetParam ------------------------------
(***************************************************************************)
(* The network parameters over many boots: plat_start, net_para_set.sh and *)
(* cms-flag-file-check.sh of install_dir/shell, with the recover key's     *)
(* param-disk-format.sh emptying the parameter disk while the board runs.  *)
(*                                                                         *)
(* Every interface may have an address and a mask file in /opt/param.  An  *)
(* interface without an address file gets its default address and the      *)
(* shipped file, which says the same, is copied there.  /opt/param is a    *)
(* disk of its own; when that cannot be mounted the same names lead into   *)
(* the directory below the mount point.                                    *)
(*                                                                         *)
(* External: the mount at boot, the page cache (a power cut keeps, loses   *)
(* or empties each file not yet synced), ifconfig, the programs that save  *)
(* parameters, and whether a driver brings its interface up.  The mac file *)
(* and the value of the mask do not touch the address and are left out.    *)
(*                                                                         *)
(* An operator whose name ends in Fault is a deliberately wrong form of    *)
(* the definition that follows it.                                         *)
(***************************************************************************)
EXTENDS Naturals, FiniteSets

CONSTANTS
  NetNum,  \* interfaces eth0, eth1, ...: 4 in the source
  Late,    \* those whose driver is loaded by plat_start and may fail to
  Saves    \* files that programs write

Ifs == 0..(NetNum - 1)

ASSUME NetAssumption ==
  /\ NetNum \in Nat \ {0} /\ Late \subseteq Ifs
  /\ Saves \subseteq Ifs \X {"ipaddr", "mask"}

VARIABLES
  phase,    \* where the boot is, "off" without power
  at,       \* next interface of net_para_set.sh
  idx,      \* its NET_IDX
  present,  \* interfaces that exist
  ip,       \* address of each interface
  mounted,  \* the parameter disk is mounted
  whole,    \* it has a file system
  rec,      \* next step of a recovery
  mem,      \* content of each file as programs see it
  disk      \* content that outlives a power cut

VARIABLES
  sealed,   \* history: layers synced since every interface has its file there
  known,    \* history: address last set from each layer, unless written since
  emptied,  \* history: layers in which a power cut has emptied a file
  fresh     \* history: what was done to the disk since its last recovery

booting == <<phase, at, idx, present, ip>>
recovery == <<mounted, whole, rec>>
history == <<sealed, known, emptied, fresh>>
vars == <<booting, recovery, mem, disk, history>>

\* Contents of a file; any larger number is the default address of a network.
None == 0
Empty == 1
User == 2

Flag == <<NetNum, "ppc9404">>
Addr(i) == <<i, "ipaddr">>
Mask(i) == <<i, "mask">>
Names == {Addr(i) : i \in Ifs} \cup Saves \cup {Flag}
Content(l, n) == IF n \in Names THEN mem[l][n] ELSE None
Blank == [n \in Names |-> None]

Layers == {"disk", "below"}
Layer == IF mounted THEN "disk" ELSE "below"
Unsynced == {u \in Layers \X Names : mem[u[1]][u[2]] # disk[u[1]][u[2]]}

Init ==
  /\ phase = "off" /\ at = 0 /\ idx = 167 /\ present = {}
  /\ ip = [i \in Ifs |-> None]
  /\ mounted = FALSE /\ whole \in BOOLEAN /\ rec = "none"
  /\ mem = [l \in Layers |-> Blank] /\ disk = mem
  /\ sealed = {} /\ emptied = {} /\ fresh = "no"
  /\ known = [l \in Layers |-> [i \in Ifs |-> None]]

(***************************************************************************)
(* plat_start: the disk is mounted and the drivers are loaded.             *)
(***************************************************************************)
Boot ==
  /\ phase = "off"
  /\ phase' = "net" /\ at' = 0 /\ idx' = 167
  /\ \E up \in SUBSET Late : present' = (Ifs \ Late) \cup up
  /\ mounted' = whole
  /\ fresh' = IF fresh = "formatted" THEN "booted" ELSE fresh
  /\ UNCHANGED <<ip, whole, rec, mem, disk, sealed, known, emptied>>

(***************************************************************************)
(* set_net_param of one interface.  An empty file passes test -f; then the *)
(* arguments move up and ifconfig gets the mask for an address, which the  *)
(* kernel refuses.  An empty mask ends ifconfig with a usage message,      *)
(* after or before it has set the address.                                 *)
(***************************************************************************)
Exists(n) == Content(Layer, n) # None

DefaultFault(i) == idx
Default(i) == 167 + i
Shipped(i) == 167 + i

\* ... with the return that is commented out at line 45.
ChosenFault(i) == IF Exists(Addr(i)) THEN mem[Layer][Addr(i)] ELSE Empty
Chosen(i) == IF Exists(Addr(i)) THEN mem[Layer][Addr(i)] ELSE Default(i)

SetAddr(i, a) ==
  IF i \notin present \/ a = Empty THEN {ip[i]}
  ELSE IF Content(Layer, Mask(i)) = Empty THEN {a, ip[i]} ELSE {a}

SetNetParam ==
  /\ phase = "net" /\ at \in Ifs
  /\ at' = at + 1
  /\ \E a \in SetAddr(at, Chosen(at)) :
       /\ ip' = [ip EXCEPT ![at] = a]
       /\ known' = IF at \in present THEN [known EXCEPT ![Layer][at] = a]
                   ELSE known
  /\ IF Exists(Addr(at))
     THEN UNCHANGED <<mem, idx>>
     ELSE /\ mem' = [mem EXCEPT ![Layer][Addr(at)] = Shipped(at)]
          /\ idx' = idx + 1
  /\ UNCHANGED <<phase, present, recovery, disk, sealed, emptied, fresh>>

\* cms-flag-file-check.sh: the flag file, empty, is created once ...
FlagCheck ==
  /\ phase = "net" /\ at \notin Ifs
  /\ IF Exists(Flag)
     THEN phase' = "up" /\ UNCHANGED mem
     ELSE phase' = "sync" /\ mem' = [mem EXCEPT ![Layer][Flag] = Empty]
  /\ UNCHANGED <<at, idx, present, ip, recovery, disk, history>>

\* ... and then everything is synced.
SyncedFault == [mem EXCEPT ![Layer] = [disk[Layer] EXCEPT ![Flag] = Empty]]
Synced == mem

FlagSync ==
  /\ phase = "sync"
  /\ phase' = "up"
  /\ disk' = Synced
  /\ sealed' = sealed \cup {Layer}
  /\ UNCHANGED <<at, idx, present, ip, recovery, mem, known, emptied, fresh>>

(***************************************************************************)
(* While the board runs: cms-svr's peripheral watchdog thread syncs every  *)
(* two seconds (gpio_key_wtd.c:26), programs save parameters, and the      *)
(* recover key runs umount, format and mount on the parameter disk.        *)
(***************************************************************************)
ServiceSync ==
  /\ phase = "up" /\ disk # mem
  /\ disk' = mem
  /\ sealed' = IF \A i \in Ifs : Exists(Addr(i)) THEN sealed \cup {Layer}
               ELSE sealed
  /\ UNCHANGED <<booting, recovery, mem, known, emptied, fresh>>

Save(n) ==
  /\ phase = "up"
  /\ mem' = [mem EXCEPT ![Layer][n] = User]
  /\ known' = [known EXCEPT ![Layer][n[1]] = None]
  /\ fresh' = IF mounted THEN "no" ELSE fresh
  /\ UNCHANGED <<booting, recovery, disk, sealed, emptied>>

RecoverUmount ==
  /\ phase = "up" /\ rec = "none"
  /\ rec' = "format" /\ mounted' = FALSE
  /\ disk' = [disk EXCEPT !["disk"] = mem["disk"]]
  /\ UNCHANGED <<booting, whole, mem, history>>

FormatFault == [l \in Layers |-> mem[l]]
Format == [mem EXCEPT !["disk"] = Blank]

RecoverFormat ==
  /\ phase = "up" /\ rec = "format"
  /\ rec' = "mount" /\ whole' = FALSE
  /\ mem' = Format
  /\ disk' = [disk EXCEPT !["disk"] = mem'["disk"]]
  /\ sealed' = sealed \ {"disk"} /\ emptied' = emptied \ {"disk"}
  /\ known' = [known EXCEPT !["disk"] = [i \in Ifs |-> None]]
  /\ fresh' = "no"
  /\ UNCHANGED <<booting, mounted>>

RecoverMount ==
  /\ phase = "up" /\ rec = "mount"
  /\ rec' = "none" /\ whole' = TRUE /\ mounted' = TRUE
  /\ fresh' = "formatted"
  /\ UNCHANGED <<booting, mem, disk, sealed, known, emptied>>

(***************************************************************************)
(* The power fails, or the board is shut down in order.                    *)
(***************************************************************************)
Off ==
  /\ phase' = "off" /\ at' = 0 /\ idx' = 167 /\ present' = {}
  /\ ip' = [i \in Ifs |-> None]
  /\ mounted' = FALSE /\ rec' = "none" /\ UNCHANGED whole

\* Some unsynced files are kept, some come back empty, the rest as they were.
PowerCut ==
  /\ phase # "off"
  /\ Off
  /\ \E kept \in SUBSET Unsynced : \E cut \in SUBSET (Unsynced \ kept) :
       /\ disk' = [l \in Layers |-> [n \in Names |->
                    IF <<l, n>> \in kept THEN mem[l][n]
                    ELSE IF <<l, n>> \in cut THEN Empty ELSE disk[l][n]]]
       /\ emptied' = emptied \cup {u[1] : u \in cut}
  /\ mem' = disk'
  /\ known' = [l \in Layers |-> [i \in Ifs |->
                IF {<<l, Addr(i)>>, <<l, Mask(i)>>} \cap Unsynced = {}
                THEN known[l][i] ELSE None]]
  /\ fresh' = IF \A n \in Names : <<"disk", n>> \notin Unsynced THEN fresh
              ELSE "no"
  /\ UNCHANGED sealed

Shutdown ==
  /\ phase = "up"
  /\ Off
  /\ disk' = mem
  /\ UNCHANGED <<mem, history>>

Next ==
  \/ Boot \/ SetNetParam \/ FlagCheck \/ FlagSync \/ ServiceSync
  \/ \E n \in Saves : Save(n)
  \/ RecoverUmount \/ RecoverFormat \/ RecoverMount
  \/ PowerCut \/ Shutdown

Spec == Init /\ [][Next]_vars

-----------------------------------------------------------------------------
(***************************************************************************)
(* An interface does not change its address from one boot to the next      *)
(* unless somebody saved one, the disk was recovered or a cut hit files    *)
(* not yet synced, and whichever files a cut has lost: the default that    *)
(* the first boot sets and the file that later ones read agree             *)
(* (net_para_set.sh:35-46).                                                *)
(***************************************************************************)
StableAddress ==
  [][SetNetParam /\ known[Layer][at] # None
       => ip'[at] \in {known[Layer][at], None}]_vars

(***************************************************************************)
(* The script leaves an interface that exists without an address only if a *)
(* power cut has emptied a file since the disk was last formatted          *)
(* (net_para_set.sh:38-46, 55).                                            *)
(***************************************************************************)
Passed(i) == phase \in {"net", "sync"} /\ i < at /\ i \in present
UnreachableOnlyAfterCut ==
  \A i \in Ifs : Passed(i) /\ ip[i] = None => Layer \in emptied

(***************************************************************************)
(* Once a boot with its flag check is complete, no later power cut, in any *)
(* later boot either, changes an address file that nobody saved to: the    *)
(* one sync seals what the boot copied (cms-flag-file-check.sh:6-10).      *)
(***************************************************************************)
SealedSurvivesCut ==
  [][PowerCut => \A l \in sealed, i \in Ifs :
       mem[l][Addr(i)] # User => disk'[l][Addr(i)] = disk[l][Addr(i)]]_vars

(***************************************************************************)
(* Recovery heals: whatever was saved or emptied before, the boots after   *)
(* a recovery give every interface its default address until something is  *)
(* saved or cut again (param-disk-format.sh:3, recover-disk.sh:30-32).     *)
(***************************************************************************)
RecoverHeals ==
  \A i \in Ifs : Passed(i) /\ mounted /\ fresh = "booted" => ip[i] = Default(i)
=============================================================================
