---------------------------- MODULE RecoverDisk ----------------------------
(***************************************************************************)
(* The scripts that empty a disk, install_dir/shell/recover-disk.sh and    *)
(* its three callers: umount, ubidetach, ubiformat, ubiattach, ubimkvol,   *)
(* mount.  Only ubiattach's result is looked at.  param-disk-format.sh is  *)
(* what the recover key starts; the others are started by hand.            *)
(*                                                                         *)
(* The UBI tools and the kernel behind them are external.  A disk in use   *)
(* is not unmounted, a mounted one not detached, an attached one neither   *)
(* formatted nor attached again; ubiattach gives the lowest free number    *)
(* (0 belongs to the root file system), while ubimkvol and mount go by the *)
(* number the script was given.  After power on, the disks are attached    *)
(* under the numbers the scripts expect.                                   *)
(*                                                                         *)
(* An operator whose name ends in Fault is a deliberately wrong form of    *)
(* the definition that follows it.                                         *)
(***************************************************************************)
EXTENDS Naturals, FiniteSets, FiniteSetsExt

CONSTANTS
  Runs  \* processes that run one of the scripts

(***************************************************************************)
(* The arguments of recover-disk.sh.  A mount point is named by its kind:  *)
(* /opt/param/, /opt/njhx/ or /opt/sun/; the last two share a disk.        *)
(***************************************************************************)
Kinds == {"param", "njhx", "sun"}
Mtds == {8, 9}
Mtd(k) == IF k = "param" THEN 9 ELSE 8
Num(k) == IF k = "param" THEN 2 ELSE 1

VARIABLES
  kind,       \* what each run was started for
  step,       \* its next command
  attached,   \* UBI number of each disk, 0 when it has none
  content,    \* what is on it
  mounts,     \* <<point, disk>>
  busy,       \* mount points some program uses
  collided,   \* history: disks two runs worked on at the same time
  clean       \* history: runs nothing has disturbed

scripts == <<kind, step>>
disks == <<attached, content, mounts, busy>>
history == <<collided, clean>>
vars == <<scripts, disks, history>>

Active == {r \in Runs : step[r] # "idle"}
Mounted(m) == \E k \in Kinds : <<k, m>> \in mounts
Free == {1, 2} \ {attached[m] : m \in Mtds}
\* The disk behind /dev/ubi<n>: none or one.
Behind(n) == {m \in Mtds : attached[m] = n}
HasVolume(m) == content[m] \in {"data", "empty"}

Init ==
  /\ kind \in [Runs -> {"param"}] /\ step = [r \in Runs |-> "idle"]
  /\ attached = [m \in Mtds |-> m - 7] /\ content = [m \in Mtds |-> "data"]
  /\ mounts \in {{<<"param", 9>>, <<k, 8>>} : k \in {"njhx", "sun"}}
  /\ busy = {}
  /\ collided = {} /\ clean = {}

(***************************************************************************)
(* A run is undisturbed when it starts alone, its disk is mounted nowhere  *)
(* else and not in use, and its number will be the lowest free one; and as *)
(* long as nothing else happens to the disks.                              *)
(***************************************************************************)
Quiet(k) ==
  /\ Active = {} /\ k \notin busy
  /\ \A p \in mounts : (p[2] = Mtd(k)) <=> (p[1] = k)
  /\ \A m \in Mtds \ {Mtd(k)} : attached[m] # Num(k)
  /\ Num(k) = 2 => \E m \in Mtds \ {Mtd(k)} : attached[m] = 1

Start(r, k) ==
  /\ step[r] = "idle"
  /\ kind' = [kind EXCEPT ![r] = k]
  /\ step' = [step EXCEPT ![r] = "umount"]
  /\ clean' = IF Quiet(k) THEN {r} ELSE {}
  /\ collided' = IF \E s \in Active : Mtd(kind[s]) = Mtd(k)
                 THEN collided \cup {Mtd(k)} ELSE collided
  /\ UNCHANGED disks

Umount(r) ==
  /\ step[r] = "umount"
  /\ step' = [step EXCEPT ![r] = "detach"]
  /\ \/ /\ kind[r] \notin busy
        /\ \E p \in mounts : p[1] = kind[r] /\ mounts' = mounts \ {p}
     \/ /\ kind[r] \in busy \/ \A p \in mounts : p[1] # kind[r]
        /\ UNCHANGED mounts
  /\ UNCHANGED <<kind, attached, content, busy, history>>

DetachedFault(m) == attached[m]
Detached(m) == IF Mounted(m) THEN attached[m] ELSE 0

Detach(r) ==
  /\ step[r] = "detach"
  /\ step' = [step EXCEPT ![r] = "format"]
  /\ attached' = [attached EXCEPT ![Mtd(kind[r])] = Detached(Mtd(kind[r]))]
  /\ UNCHANGED <<kind, content, mounts, busy, history>>

FormatTargetFault(r) == 8
FormatTarget(r) == Mtd(kind[r])

Format(r) ==
  /\ step[r] = "format" /\ attached[FormatTarget(r)] = 0
  /\ step' = [step EXCEPT ![r] = "formatting"]
  /\ content' = [content EXCEPT ![FormatTarget(r)] = "torn"]
  /\ UNCHANGED <<kind, attached, mounts, busy, history>>

FormatRefused(r) ==
  /\ step[r] = "format" /\ attached[FormatTarget(r)] # 0
  /\ step' = [step EXCEPT ![r] = "attach"]
  /\ UNCHANGED <<kind, disks, history>>

\* Formatting a disk somebody has attached meanwhile leaves it torn.
FormatEnds(r, ok) ==
  /\ step[r] = "formatting"
  /\ step' = [step EXCEPT ![r] = "attach"]
  /\ content' = [content EXCEPT ![FormatTarget(r)] =
                   IF ok /\ attached[FormatTarget(r)] = 0 THEN "blank" ELSE "torn"]
  /\ clean' = IF ok THEN clean ELSE clean \ {r}
  /\ UNCHANGED <<kind, attached, mounts, busy, collided>>

Attach(r) ==
  /\ step[r] = "attach" /\ attached[Mtd(kind[r])] = 0
  /\ step' = [step EXCEPT ![r] = "mkvol"]
  /\ attached' = [attached EXCEPT ![Mtd(kind[r])] = Min(Free)]
  /\ UNCHANGED <<kind, content, mounts, busy, collided, clean>>

\* ubiattach fails: mount_disk returns 1 and the script ends.
AttachFails(r) ==
  /\ step[r] = "attach"
  /\ attached[Mtd(kind[r])] # 0 \/ content[Mtd(kind[r])] = "torn"
  /\ step' = [step EXCEPT ![r] = "done"]
  /\ UNCHANGED <<kind, disks, history>>

\* ubimkvol and mount, on whatever has the number; a volume that exists is
\* kept.
Device(r) == Behind(Num(kind[r]))

Made(m) == IF HasVolume(m) THEN content[m] ELSE "empty"

Mkvol(r) ==
  /\ step[r] = "mkvol"
  /\ step' = [step EXCEPT ![r] = "mount"]
  /\ content' = [m \in Mtds |->
                   IF m \in Device(r) THEN Made(m) ELSE content[m]]
  /\ UNCHANGED <<kind, attached, mounts, busy, history>>

Mount(r) ==
  /\ step[r] = "mount"
  /\ step' = [step EXCEPT ![r] = "done"]
  /\ mounts' = mounts \cup
       {<<kind[r], m>> : m \in {n \in Device(r) : HasVolume(n)}}
  /\ UNCHANGED <<kind, attached, content, busy, history>>

Finish(r) ==
  /\ step[r] = "done"
  /\ step' = [step EXCEPT ![r] = "idle"]
  /\ clean' = clean \ {r}
  /\ UNCHANGED <<kind, disks, collided>>

(***************************************************************************)
(* Programs open files on the disks; the power fails at any moment and     *)
(* comes back.                                                             *)
(***************************************************************************)
Use(k) ==
  /\ k \notin busy /\ \E m \in Mtds : <<k, m>> \in mounts
  /\ busy' = busy \cup {k}
  /\ clean' = {}
  /\ UNCHANGED <<scripts, attached, content, mounts, collided>>

StopUsing(k) ==
  /\ k \in busy
  /\ busy' = busy \ {k}
  /\ UNCHANGED <<scripts, attached, content, mounts, history>>

PowerCycle ==
  /\ step' = [r \in Runs |-> "idle"]
  /\ attached' = [m \in Mtds |-> IF content[m] = "torn" THEN 0 ELSE m - 7]
  /\ mounts' \in {{p \in {<<"param", 9>>, <<k, 8>>} : HasVolume(p[2])} :
                    k \in {"njhx", "sun"}}
  /\ busy' = {} /\ clean' = {} /\ collided' = {}
  /\ UNCHANGED <<kind, content>>

ScriptStep(r) ==
  \/ Umount(r) \/ Detach(r) \/ Format(r) \/ FormatRefused(r)
  \/ \E ok \in BOOLEAN : FormatEnds(r, ok)
  \/ Attach(r) \/ AttachFails(r) \/ Mkvol(r) \/ Mount(r) \/ Finish(r)

Next ==
  \/ \E r \in Runs : ScriptStep(r) \/ \E k \in Kinds : Start(r, k)
  \/ \E k \in Kinds : Use(k) \/ StopUsing(k)
  \/ PowerCycle

Spec == Init /\ [][Next]_vars

-----------------------------------------------------------------------------
\* Every variable has its type; no two disks have the same number
\* (recover-disk.sh:7, 22).
TypeOK ==
  /\ kind \in [Runs -> Kinds]
  /\ step \in [Runs -> {"idle", "umount", "detach", "format", "formatting",
                        "attach", "mkvol", "mount", "done"}]
  /\ attached \in [Mtds -> 0..2]
  /\ \A m, n \in Mtds : attached[m] = attached[n] /\ m # n => attached[m] = 0
  /\ content \in [Mtds -> {"data", "torn", "blank", "empty"}]
  /\ mounts \subseteq Kinds \X Mtds /\ busy \subseteq Kinds
  /\ collided \subseteq Mtds /\ clean \subseteq Runs

(***************************************************************************)
(* No mounted disk is ever formatted, though the script goes on after a    *)
(* failed umount or ubidetach, unless two runs worked on that disk at the  *)
(* same time (recover-disk.sh:18-24, 30-32).                               *)
(***************************************************************************)
MountedIntact ==
  \A m \in Mtds \ collided : Mounted(m) => HasVolume(m)

(***************************************************************************)
(* Whatever an interrupted run, a failed one or a loss of power has left,  *)
(* an undisturbed run mounts its disk, empty (recover-disk.sh:30-32).      *)
(***************************************************************************)
RerunRepairs ==
  \A r \in clean :
    step[r] = "done" =>
      <<kind[r], Mtd(kind[r])>> \in mounts /\ content[Mtd(kind[r])] = "empty"
=============================================================================
