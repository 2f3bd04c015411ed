------------------------- MODULE RecoverDiskProofs -------------------------
(***************************************************************************)
(* Proofs about RecoverDisk, for any number of runs at the same time: what *)
(* protects a mounted disk is that it is attached and an attached one is   *)
(* not formatted; what makes an undisturbed run repair its disk is that it *)
(* is the only one and knows the number ubiattach will choose.             *)
(***************************************************************************)
EXTENDS RecoverDisk, TLAPS

(***************************************************************************)
(* A mounted disk is attached, two runs on one disk have collided, and a   *)
(* disk being formatted by one run alone stays detached.                   *)
(***************************************************************************)
Works(r, m) == step[r] # "idle" /\ Mtd(kind[r]) = m
SafeInv ==
  /\ \A m \in Mtds : Mounted(m) => attached[m] # 0
  /\ \A r, s \in Runs, m \in Mtds \ collided : Works(r, m) /\ Works(s, m) => r = s
  /\ \A r \in Runs, m \in Mtds \ collided :
       step[r] = "formatting" /\ Works(r, m) => attached[m] = 0
  /\ MountedIntact

(***************************************************************************)
(* How far an undisturbed run has come with its disk.                      *)
(***************************************************************************)
NowhereMounted(k) == \A p \in mounts : p[1] # k /\ p[2] # Mtd(k)
NumberWaits(k) ==
  \A m \in Mtds \ {Mtd(k)} :
    attached[m] # Num(k) /\ (Num(k) = 2 => attached[m] = 1)
Progress(k, at) ==
  /\ at = "umount" => \A p \in mounts : (p[2] = Mtd(k)) <=> (p[1] = k)
  /\ at = "detach" => NowhereMounted(k)
  /\ at \in {"format", "formatting", "attach"} => attached[Mtd(k)] = 0
  /\ at \in {"mkvol", "mount"} => attached[Mtd(k)] = Num(k)
  /\ at \in {"attach", "mkvol"} => content[Mtd(k)] = "blank"
  /\ at \in {"mount", "done"} => content[Mtd(k)] = "empty"
  /\ at = "done" => <<k, Mtd(k)>> \in mounts

CleanInv ==
  \A r \in clean :
    /\ Active = {r} /\ kind[r] \notin busy /\ NumberWaits(kind[r])
    /\ Progress(kind[r], step[r])

-----------------------------------------------------------------------------
(***************************************************************************)
(* What the kinds of run and the numbers of the disks are.                 *)
(***************************************************************************)
LEMMA Arguments ==
  ASSUME NEW k \in Kinds
  PROVE  Mtd(k) \in Mtds /\ Num(k) \in {1, 2}
BY DEF Kinds, Mtds, Mtd, Num

LEMMA LowestFree ==
  ASSUME TypeOK, NEW m \in Mtds, attached[m] = 0
  PROVE  /\ Min(Free) \in Free /\ Free \subseteq {1, 2}
         /\ \A n \in Free : Min(Free) <= n
<1>1. Free \subseteq {1, 2}
  BY DEF Free
<1>2. Free # {}
  <2>1. PICK n \in Mtds : Mtds = {m, n}
    BY DEF Mtds
  <2>2. \A i \in {1, 2} : attached[n] # i => i \in Free
    BY <2>1 DEF Free
  <2> QED BY <2>2
<1>3. \E x \in Free : \A y \in Free : x <= y
  <2>1. CASE 1 \in Free
    BY <1>1, <2>1
  <2>2. CASE 1 \notin Free
    <3>1. Free = {2}
      BY <1>1, <1>2, <2>2
    <3> QED BY <3>1
  <2> QED BY <2>1, <2>2
<1> QED BY <1>1, <1>3 DEF Min

LEMMA RestoredTypes ==
  ASSUME TypeOK, PowerCycle
  PROVE  TypeOK'
<1>1. attached' \in [Mtds -> 0..2]
  BY DEF PowerCycle, Mtds, TypeOK
<1>2. \A m, n \in Mtds : attached'[m] = attached'[n] /\ m # n => attached'[m] = 0
  BY DEF PowerCycle, Mtds
<1>3. mounts' \subseteq Kinds \X Mtds
  BY DEF PowerCycle, Kinds, Mtds
<1> QED BY <1>1, <1>2, <1>3 DEF PowerCycle, TypeOK, vars, scripts, disks, history

LEMMA StepTypes ==
  ASSUME TypeOK, NEW r \in Runs, ScriptStep(r)
  PROVE  TypeOK'
<1> USE DEF TypeOK
<1>1. kind[r] \in Kinds /\ Mtd(kind[r]) \in Mtds /\ FormatTarget(r) \in Mtds
  BY Arguments DEF FormatTarget
<1>2. CASE Umount(r)
  BY <1>2 DEF Umount, history
<1>3. CASE Detach(r)
  BY <1>1, <1>3 DEF Detach, Detached, history
<1>4. CASE Format(r) \/ FormatRefused(r)
  BY <1>1, <1>4 DEF Format, FormatRefused, history, disks
<1>5. ASSUME NEW ok \in BOOLEAN, FormatEnds(r, ok) PROVE TypeOK'
  BY <1>1, <1>5 DEF FormatEnds
<1>6. CASE Attach(r)
  <2>1. Min(Free) \in Free /\ Free \subseteq {1, 2}
    BY <1>1, <1>6, LowestFree DEF Attach
  <2>2. \A m \in Mtds : attached[m] # Min(Free)
    BY <2>1 DEF Free
  <2>3. attached' = [attached EXCEPT ![Mtd(kind[r])] = Min(Free)]
    BY <1>6 DEF Attach
  <2>4. attached' \in [Mtds -> 0..2]
    <3>1. Min(Free) \in {1, 2}
      BY <2>1
    <3>2. {1, 2} \subseteq 0..2 /\ attached \in [Mtds -> 0..2]
      OBVIOUS
    <3>3. Min(Free) \in 0..2
      BY <3>1, <3>2
    <3> QED BY <2>3, <3>2, <3>3
  <2>5. \A m, n \in Mtds : attached'[m] = attached'[n] /\ m # n => attached'[m] = 0
    BY <2>2, <2>3, <1>1
  <2> QED BY <1>6, <2>4, <2>5 DEF Attach
<1>7. CASE AttachFails(r)
  BY <1>7 DEF AttachFails, history, disks
<1>8. CASE Mkvol(r)
  BY <1>8 DEF Mkvol, Made, HasVolume, history
<1>9. CASE Mount(r)
  <2>1. {<<kind[r], m>> : m \in {n \in Device(r) : HasVolume(n)}}
          \subseteq Kinds \X Mtds
    BY <1>1 DEF Device, Behind
  <2> QED BY <1>9, <2>1 DEF Mount, history
<1>10. CASE Finish(r)
  BY <1>10 DEF Finish, disks
<1> QED
  BY <1>2, <1>3, <1>4, <1>5, <1>6, <1>7, <1>8, <1>9, <1>10 DEF ScriptStep

LEMMA NextTypes ==
  ASSUME TypeOK, [Next]_vars
  PROVE  TypeOK'
<1>1. ASSUME NEW r \in Runs, NEW k \in Kinds, Start(r, k) PROVE TypeOK'
  BY <1>1, Arguments DEF Start, TypeOK, disks
<1>2. ASSUME NEW k \in Kinds, Use(k) \/ StopUsing(k) PROVE TypeOK'
  BY <1>2 DEF Use, StopUsing, TypeOK, scripts, history
<1>3. CASE UNCHANGED vars
  BY <1>3 DEF vars, scripts, disks, history, TypeOK
<1> QED BY <1>1, <1>2, <1>3, StepTypes, RestoredTypes DEF Next

(***************************************************************************)
(* Every variable keeps its type, and no two disks ever have the same UBI  *)
(* number, however many runs attach and detach disks at the same time.     *)
(***************************************************************************)
THEOREM Types == Spec => []TypeOK
<1>1. Init => TypeOK
  BY DEF Init, TypeOK, Mtds, Kinds
<1> QED BY <1>1, NextTypes, PTL DEF Spec

-----------------------------------------------------------------------------
(***************************************************************************)
(* What a step of one run does to the disks it may mount or format.        *)
(***************************************************************************)
LEMMA StepSafe ==
  ASSUME TypeOK, SafeInv, NEW r \in Runs, ScriptStep(r)
  PROVE  SafeInv'
<1> USE DEF TypeOK, SafeInv, MountedIntact, Mounted, Works
<1>1. kind[r] \in Kinds /\ Mtd(kind[r]) \in Mtds
      /\ FormatTarget(r) = Mtd(kind[r])
  BY Arguments DEF FormatTarget
<1>2. CASE Umount(r)
  BY <1>2 DEF Umount, history, HasVolume
<1>3. CASE Detach(r)
  BY <1>1, <1>3 DEF Detach, Detached, history, HasVolume
<1>4. CASE Format(r)
  BY <1>1, <1>4 DEF Format, history, HasVolume
<1>5. CASE FormatRefused(r)
  BY <1>5 DEF FormatRefused, disks, history, HasVolume
<1>6. ASSUME NEW ok \in BOOLEAN, FormatEnds(r, ok) PROVE SafeInv'
  BY <1>1, <1>6 DEF FormatEnds, HasVolume
<1>7. CASE Attach(r)
  <2>1. Min(Free) # 0
    BY <1>1, <1>7, LowestFree DEF Attach
  <2> QED BY <1>1, <1>7, <2>1 DEF Attach, HasVolume
<1>8. CASE AttachFails(r)
  BY <1>8 DEF AttachFails, disks, history, HasVolume
<1>9. CASE Mkvol(r)
  BY <1>9 DEF Mkvol, Made, history, HasVolume
<1>10. CASE Mount(r)
  <2>1. \A m \in Device(r) : attached[m] # 0
    BY <1>1, Arguments DEF Device, Behind
  <2>2. \A m \in Mtds :
          Mounted(m)' => Mounted(m) \/ (m \in Device(r) /\ HasVolume(m))
    BY <1>10 DEF Mount
  <2> QED BY <1>10, <2>1, <2>2 DEF Mount, history, HasVolume
<1>11. CASE Finish(r)
  BY <1>11 DEF Finish, disks, HasVolume
<1> QED
  BY <1>2, <1>3, <1>4, <1>5, <1>6, <1>7, <1>8, <1>9, <1>10, <1>11
     DEF ScriptStep

LEMMA NextSafe ==
  ASSUME TypeOK, SafeInv, [Next]_vars
  PROVE  SafeInv'
<1> USE DEF TypeOK, SafeInv, MountedIntact, Mounted, Works, HasVolume
<1>1. ASSUME NEW r \in Runs, NEW k \in Kinds, Start(r, k) PROVE SafeInv'
  <2>1. /\ step' = [step EXCEPT ![r] = "umount"] /\ kind' = [kind EXCEPT ![r] = k]
        /\ step[r] = "idle" /\ UNCHANGED <<attached, content, mounts>>
        /\ collided \subseteq collided'
    BY <1>1 DEF Start, disks
  <2>2. ASSUME NEW s \in Runs, s # r, NEW m \in Mtds \ collided',
               Works(r, m)', Works(s, m)'
        PROVE  FALSE
    <3>1. m = Mtd(k) /\ s \in Active /\ Mtd(kind[s]) = Mtd(k)
      BY <2>1, <2>2 DEF Active
    <3> QED BY <1>1, <2>2, <3>1 DEF Start
  <2>3. \A s, t \in Runs, m \in Mtds \ collided' :
          Works(s, m)' /\ Works(t, m)' => s = t
    BY <2>1, <2>2
  <2>4. \A s \in Runs, m \in Mtds \ collided' :
          step'[s] = "formatting" /\ Works(s, m)' => attached'[m] = 0
    BY <2>1
  <2> QED BY <2>1, <2>3, <2>4
<1>2. ASSUME NEW k \in Kinds, Use(k) \/ StopUsing(k) PROVE SafeInv'
  BY <1>2 DEF Use, StopUsing, scripts, history
<1>3. CASE PowerCycle
  <2>1. \A m \in Mtds : Mounted(m)' => content[m] # "torn" /\ HasVolume(m)
    BY <1>3 DEF PowerCycle
  <2>2. \A m \in Mtds : Mounted(m)' => attached'[m] # 0
    BY <1>3, <2>1 DEF PowerCycle, Mtds
  <2> QED BY <1>3, <2>1, <2>2 DEF PowerCycle
<1>4. CASE UNCHANGED vars
  BY <1>4 DEF vars, scripts, disks, history
<1> QED BY <1>1, <1>2, <1>3, <1>4, StepSafe DEF Next

(***************************************************************************)
(* No mounted disk is ever formatted, unless two runs worked on that disk  *)
(* at the same time: for any number of runs, of whatever kinds, started,   *)
(* failing and cut off at any moment.                                      *)
(***************************************************************************)
THEOREM Intact == Spec => []MountedIntact
<1>1. Init => TypeOK /\ SafeInv
  <2>1. Init => TypeOK
    BY DEF Init, TypeOK, Mtds, Kinds
  <2>2. Init => SafeInv
    BY DEF Init, SafeInv, MountedIntact, Mounted, Works, HasVolume, Mtds, Kinds
  <2> QED BY <2>1, <2>2
<1>2. TypeOK /\ SafeInv /\ [Next]_vars => (TypeOK /\ SafeInv)'
  BY NextTypes, NextSafe
<1>3. SafeInv => MountedIntact
  BY DEF SafeInv
<1> QED BY <1>1, <1>2, <1>3, PTL DEF Spec

(***************************************************************************)
(* With one run at a time on a disk nothing is exempt: a mounted disk has  *)
(* its volume, through failures of every command and losses of power, and  *)
(* whatever runs on the other disk.  That is what the recover key does to  *)
(* the parameter disk: SingleRecovery in CmsServerProofs shows that it     *)
(* never has two scripts running, unless two opens of /dev/pulse raced     *)
(* (gpio_key_wtd.c:79).                                                    *)
(***************************************************************************)
OneAt(m) == \A r, s \in Active : Mtd(kind[r]) = m /\ Mtd(kind[s]) = m => r = s

THEOREM AloneIntact ==
  ASSUME NEW m \in Mtds
  PROVE  Spec /\ []OneAt(m) => [](Mounted(m) => HasVolume(m))
<1> DEFINE Apart == m \notin collided
<1>1. Init => Apart
  BY DEF Init
<1>2. TypeOK /\ Apart /\ OneAt(m)' /\ [Next]_vars => Apart'
  <2> SUFFICES ASSUME TypeOK, Apart, OneAt(m)', [Next]_vars PROVE Apart'
    OBVIOUS
  <2>1. ASSUME NEW r \in Runs, NEW k \in Kinds, Start(r, k) PROVE Apart'
    <3> SUFFICES ASSUME NEW s \in Active, Mtd(kind[s]) = m, Mtd(k) = m PROVE FALSE
      BY <2>1 DEF Start
    <3>1. r \notin Active /\ s # r /\ s \in Runs
      BY <2>1 DEF Start, Active
    <3>2. /\ step' = [step EXCEPT ![r] = "umount"]
          /\ kind' = [kind EXCEPT ![r] = k]
      BY <2>1 DEF Start
    <3>3. r \in Active' /\ s \in Active' /\ kind'[r] = k /\ kind'[s] = kind[s]
      BY <3>1, <3>2 DEF Active, TypeOK
    <3> QED BY <3>1, <3>3 DEF OneAt
  <2>2. ASSUME NEW r \in Runs, ScriptStep(r) PROVE Apart'
    BY <2>2 DEF ScriptStep, Umount, Detach, Format, FormatRefused, FormatEnds,
                Attach, AttachFails, Mkvol, Mount, Finish, history
  <2>3. ASSUME NEW k \in Kinds, Use(k) \/ StopUsing(k) PROVE Apart'
    BY <2>3 DEF Use, StopUsing, history
  <2>4. CASE PowerCycle
    BY <2>4 DEF PowerCycle
  <2>5. CASE UNCHANGED vars
    BY <2>5 DEF vars, history
  <2> QED BY <2>1, <2>2, <2>3, <2>4, <2>5 DEF Next
<1>3. Apart /\ MountedIntact => (Mounted(m) => HasVolume(m))
  BY DEF MountedIntact
<1> QED BY <1>1, <1>2, <1>3, Types, Intact, PTL DEF Spec

-----------------------------------------------------------------------------
(***************************************************************************)
(* An undisturbed run is the only one, so every step of a script is its    *)
(* own, and each takes it further.                                         *)
(***************************************************************************)
LEMMA AloneStep ==
  ASSUME TypeOK, CleanInv, NEW r \in Runs, ScriptStep(r), NEW c \in clean'
  PROVE  c \in clean /\ c = r /\ step[c] # "idle"
<1>1. step[r] # "idle" /\ clean' \subseteq clean
  BY DEF ScriptStep, Umount, Detach, Format, FormatRefused, FormatEnds, Attach,
         AttachFails, Mkvol, Mount, Finish, history
<1> QED BY <1>1 DEF CleanInv, Active

LEMMA StepClean ==
  ASSUME TypeOK, CleanInv, NEW r \in Runs, ScriptStep(r)
  PROVE  CleanInv'
<1> SUFFICES ASSUME NEW c \in clean'
             PROVE  /\ Active' = {c} /\ kind'[c] \notin busy'
                    /\ NumberWaits(kind[c])' /\ Progress(kind[c], step[c])'
  BY DEF CleanInv
<1>1. c \in clean /\ c = r /\ c \in Runs
  BY AloneStep
<1> DEFINE k == kind[r]
           d == Mtd(k)
<1>2. /\ Active = {r} /\ k \notin busy /\ NumberWaits(k)
      /\ Progress(k, step[r]) /\ step[r] # "idle"
  BY <1>1, AloneStep DEF CleanInv
<1>3. /\ k \in Kinds /\ d \in Mtds /\ Num(k) \in {1, 2}
      /\ FormatTarget(r) = d
  BY Arguments DEF FormatTarget, TypeOK
<1>4. /\ kind' = kind /\ busy' = busy
      /\ \A s \in Runs : s # r => step'[s] = step[s]
      /\ (step'[r] # "idle" \/ Finish(r))
  BY DEF ScriptStep, Umount, Detach, Format, FormatRefused, FormatEnds, Attach,
         AttachFails, Mkvol, Mount, Finish, disks, TypeOK
<1>5. ~Finish(r)
  BY <1>1 DEF Finish
<1>6. Active' = {c} /\ kind'[c] \notin busy'
  BY <1>1, <1>2, <1>4, <1>5 DEF Active
<1>7. ASSUME attached' = attached PROVE NumberWaits(kind[c])'
  BY <1>1, <1>2, <1>4, <1>7 DEF NumberWaits
<1>8. CASE Umount(r)
  <2>1. step'[r] = "detach" /\ attached' = attached
    BY <1>8 DEF Umount, TypeOK
  <2>2. \A p \in mounts : (p[2] = d) <=> (p[1] = k)
    BY <1>2, <1>8 DEF Umount, Progress
  <2>3. \A p \in mounts' : p[1] # k /\ p[2] # d
    <3>1. \A p \in mounts : p = <<p[1], p[2]>>
      BY DEF TypeOK
    <3> QED BY <1>2, <1>8, <2>2, <3>1 DEF Umount
  <2> QED BY <1>1, <1>4, <1>6, <1>7, <2>1, <2>3 DEF Progress, NowhereMounted
<1>9. CASE Detach(r)
  <2>1. ~Mounted(d) /\ step'[r] = "format"
    BY <1>2, <1>9 DEF Detach, Progress, NowhereMounted, Mounted, TypeOK
  <2>2. attached'[d] = 0 /\ \A m \in Mtds \ {d} : attached'[m] = attached[m]
    BY <1>3, <1>9, <2>1 DEF Detach, Detached, TypeOK
  <2>3. NumberWaits(kind[c])'
    BY <1>1, <1>2, <1>4, <2>2 DEF NumberWaits
  <2> QED BY <1>1, <1>4, <1>6, <2>1, <2>2, <2>3 DEF Progress
<1>10. CASE Format(r)
  <2>1. step'[r] = "formatting" /\ attached' = attached /\ attached[d] = 0
    BY <1>3, <1>10 DEF Format, TypeOK
  <2> QED BY <1>1, <1>4, <1>6, <1>7, <2>1 DEF Progress
<1>11. CASE FormatRefused(r) \/ AttachFails(r)
  BY <1>2, <1>3, <1>11 DEF FormatRefused, AttachFails, Progress
<1>12. ASSUME NEW ok \in BOOLEAN, FormatEnds(r, ok)
       PROVE  NumberWaits(kind[c])' /\ Progress(kind[c], step[c])'
  <2>1. ok /\ step'[r] = "attach" /\ attached' = attached /\ attached[d] = 0
    BY <1>1, <1>2, <1>12 DEF FormatEnds, Progress, TypeOK
  <2>2. content'[d] = "blank"
    BY <1>3, <1>12, <2>1 DEF FormatEnds, TypeOK
  <2> QED BY <1>1, <1>4, <1>7, <2>1, <2>2 DEF Progress
<1>13. CASE Attach(r)
  <2>1. /\ step'[r] = "mkvol" /\ content' = content
        /\ attached' = [attached EXCEPT ![d] = Min(Free)]
        /\ attached[d] = 0 /\ content[d] = "blank"
    BY <1>2, <1>13 DEF Attach, Progress, TypeOK
  <2>2. PICK o \in Mtds : Mtds = {d, o} /\ o # d
    BY <1>3 DEF Mtds
  <2>3. attached[o] # Num(k) /\ (Num(k) = 2 => attached[o] = 1)
    BY <1>2, <2>2 DEF NumberWaits
  <2>4. Free = {1, 2} \ {attached[o]}
    BY <2>1, <2>2 DEF Free
  <2>5. Min(Free) = Num(k)
    <3>1. /\ Min(Free) \in Free /\ Free \subseteq {1, 2}
          /\ \A n \in Free : Min(Free) <= n
      BY <1>3, <2>1, LowestFree
    <3>2. CASE Num(k) = 2
      BY <2>3, <2>4, <3>1, <3>2
    <3>3. CASE Num(k) = 1
      BY <2>3, <2>4, <3>1, <3>3
    <3> QED BY <1>3, <3>2, <3>3
  <2>6. attached'[d] = Num(k) /\ \A m \in Mtds \ {d} : attached'[m] = attached[m]
    BY <1>3, <2>1, <2>5 DEF TypeOK
  <2>7. NumberWaits(kind[c])'
    BY <1>1, <1>2, <1>4, <2>6 DEF NumberWaits
  <2> QED BY <1>1, <1>4, <1>6, <2>1, <2>6, <2>7 DEF Progress
<1>14. CASE Mkvol(r)
  <2>1. /\ step'[r] = "mount" /\ attached' = attached
        /\ attached[d] = Num(k) /\ content[d] = "blank"
    BY <1>2, <1>14 DEF Mkvol, Progress, TypeOK
  <2>2. content'[d] = "empty"
    BY <1>3, <1>14, <2>1 DEF Mkvol, Device, Behind, Made, HasVolume
  <2> QED BY <1>1, <1>4, <1>6, <1>7, <2>1, <2>2 DEF Progress
<1>15. CASE Mount(r)
  <2>1. /\ step'[r] = "done" /\ attached' = attached /\ content' = content
        /\ attached[d] = Num(k) /\ content[d] = "empty"
    BY <1>2, <1>15 DEF Mount, Progress, TypeOK
  <2>2. <<k, d>> \in mounts'
    BY <1>3, <1>15, <2>1 DEF Mount, Device, Behind, HasVolume
  <2> QED BY <1>1, <1>4, <1>6, <1>7, <2>1, <2>2 DEF Progress
<1> QED
  BY <1>5, <1>6, <1>8, <1>9, <1>10, <1>11, <1>12, <1>13, <1>14, <1>15
     DEF ScriptStep

LEMMA NextClean ==
  ASSUME TypeOK, CleanInv, [Next]_vars
  PROVE  CleanInv'
<1>1. ASSUME NEW r \in Runs, NEW k \in Kinds, Start(r, k) PROVE CleanInv'
  <2>1. CASE ~Quiet(k)
    BY <1>1, <2>1 DEF Start, CleanInv
  <2>2. CASE Quiet(k)
    <3>1. clean' = {r} /\ Active' = {r} /\ kind'[r] = k /\ step'[r] = "umount"
      BY <1>1, <2>2 DEF Start, Quiet, Active, TypeOK
    <3>2. k \notin busy' /\ NumberWaits(k)' /\ Progress(k, "umount")'
      <4>1. PICK o \in Mtds : Mtds = {Mtd(k), o}
        BY Arguments DEF Mtds
      <4> QED BY <1>1, <2>2, <4>1
              DEF Start, Quiet, disks, NumberWaits, Progress
    <3> QED BY <3>1, <3>2 DEF CleanInv
  <2> QED BY <2>1, <2>2
<1>2. ASSUME NEW k \in Kinds, Use(k) PROVE CleanInv'
  BY <1>2 DEF Use, CleanInv
<1>3. ASSUME NEW k \in Kinds, StopUsing(k) PROVE CleanInv'
  BY <1>3 DEF StopUsing, CleanInv, scripts, history, Active, NumberWaits,
              Progress, NowhereMounted
<1>4. CASE PowerCycle
  BY <1>4 DEF PowerCycle, CleanInv
<1>5. CASE UNCHANGED vars
  BY <1>5 DEF vars, scripts, disks, history, CleanInv, Active, NumberWaits,
              Progress, NowhereMounted
<1> QED BY <1>1, <1>2, <1>3, <1>4, <1>5, StepClean DEF Next

(***************************************************************************)
(* Whatever an interrupted run, a failed one or a loss of power has left,  *)
(* an undisturbed run ends with its own disk mounted and empty.            *)
(***************************************************************************)
THEOREM Repairs == Spec => []RerunRepairs
<1>1. Init => TypeOK /\ CleanInv
  <2>1. Init => TypeOK
    BY DEF Init, TypeOK, Mtds, Kinds
  <2>2. Init => CleanInv
    BY DEF Init, CleanInv
  <2> QED BY <2>1, <2>2
<1>2. TypeOK /\ CleanInv /\ [Next]_vars => (TypeOK /\ CleanInv)'
  BY NextTypes, NextClean
<1>3. CleanInv => RerunRepairs
  BY DEF CleanInv, Progress, RerunRepairs
<1> QED BY <1>1, <1>2, <1>3, PTL DEF Spec
============================================================================
