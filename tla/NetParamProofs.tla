--------------------------- MODULE NetParamProofs ---------------------------
(***************************************************************************)
(* Proofs about NetParam, for any number of interfaces, any of them loaded *)
(* late and any files that programs save: what a file says, and whether it *)
(* is on the disk, is tied to what each boot made of it, layer by layer.   *)
(***************************************************************************)
EXTENDS NetParam, TLAPS

Types ==
  /\ phase \in {"off", "net", "sync", "up"} /\ at \in Nat
  /\ present \subseteq Ifs /\ ip \in [Ifs -> Nat]
  /\ mounted \in BOOLEAN /\ whole \in BOOLEAN
  /\ rec \in {"none", "format", "mount"}
  /\ mem \in [Layers -> [Names -> Nat]] /\ disk \in [Layers -> [Names -> Nat]]
  /\ sealed \subseteq Layers /\ emptied \subseteq Layers
  /\ known \in [Layers -> [Ifs -> Nat]]
  /\ fresh \in {"no", "formatted", "booted"}

(***************************************************************************)
(* An interface the script has not come to has no address, and one it has  *)
(* dealt with has its file; an address known from a layer is what the file *)
(* there says.                                                             *)
(***************************************************************************)
BootInv ==
  /\ phase = "off" => at = 0
  /\ phase = "sync" => at \notin Ifs
  /\ \A i \in Ifs : i >= at => ip[i] = None
  /\ phase \in {"net", "sync"} =>
       \A i \in Ifs : i < at => mem[Layer][Addr(i)] # None
KnownInv ==
  \A l \in Layers, i \in Ifs :
    known[l][i] # None => mem[l][Addr(i)] = known[l][i]

(***************************************************************************)
(* Only a power cut empties a parameter file, and a layer it has not       *)
(* emptied a file in leaves no interface without an address.               *)
(***************************************************************************)
EmptyInv ==
  \A l \in Layers \ emptied, n \in Names \ {Flag} :
    mem[l][n] # Empty /\ disk[l][n] # Empty

(***************************************************************************)
(* In a sealed layer every interface has its file in memory and on the     *)
(* disk, and both say the same until somebody saves.                       *)
(***************************************************************************)
SealInv ==
  \A l \in sealed, i \in Ifs :
    /\ mem[l][Addr(i)] # None /\ disk[l][Addr(i)] # None
    /\ mem[l][Addr(i)] # User => mem[l][Addr(i)] = disk[l][Addr(i)]

(***************************************************************************)
(* After a recovery the parameter disk holds nothing but default files.    *)
(***************************************************************************)
DefaultsOnly ==
  \A i \in Ifs :
    /\ mem["disk"][Addr(i)] \in {None, Default(i)}
    /\ Content("disk", Mask(i)) = None
HealInv ==
  /\ rec # "none" => phase = "up" /\ ~mounted
  /\ rec = "mount" => mem["disk"] = Blank
  /\ fresh \in {"formatted", "booted"} => DefaultsOnly

NetInv ==
  /\ Types /\ BootInv /\ KnownInv /\ EmptyInv /\ SealInv /\ HealInv
  /\ UnreachableOnlyAfterCut /\ RecoverHeals

-----------------------------------------------------------------------------
(***************************************************************************)
(* The files of the interfaces are all different, and none is the flag.    *)
(***************************************************************************)
LEMMA NameFacts ==
  /\ Flag \in Names /\ Layer \in Layers
  /\ \A i \in Ifs :
       /\ Addr(i) \in Names /\ Addr(i) # Flag /\ Mask(i) # Flag
       /\ \A j \in Ifs : Addr(i) # Mask(j) /\ (Addr(i) = Addr(j) => i = j)
  /\ \A n \in Saves :
       n \in Names /\ n # Flag /\ n[1] \in Ifs /\ n \in {Addr(n[1]), Mask(n[1])}
BY NetAssumption DEF Names, Flag, Addr, Mask, Layer, Layers, Ifs

LEMMA IfFacts ==
  ASSUME NEW i \in Ifs
  PROVE  i \in Nat /\ Default(i) \in Nat /\ Default(i) > User
         /\ Shipped(i) = Default(i)
BY NetAssumption DEF Ifs, Default, Shipped, User

(***************************************************************************)
(* What set_net_param does to the interface it is at.                      *)
(***************************************************************************)
LEMMA OneInterface ==
  ASSUME NetInv, SetNetParam
  PROVE  /\ at \in Ifs /\ ip[at] = None
         /\ Chosen(at) \in Nat \ {None}
         /\ \E a \in SetAddr(at, Chosen(at)) :
              /\ a \in {Chosen(at), None}
              /\ ip' = [ip EXCEPT ![at] = a]
              /\ known' = IF at \in present THEN [known EXCEPT ![Layer][at] = a]
                          ELSE known
              /\ a = None /\ at \in present => Layer \in emptied
         /\ mem'[Layer][Addr(at)] = Chosen(at)
         /\ \A l \in Layers, n \in Names :
              l # Layer \/ n # Addr(at) => mem'[l][n] = mem[l][n]
         /\ mem' \in [Layers -> [Names -> Nat]]
         /\ mem[Layer][Addr(at)] # None => mem' = mem
<1> USE NameFacts, IfFacts
<1>1. at \in Ifs /\ ip[at] = None
  BY DEF SetNetParam, NetInv, Types, BootInv
<1>2. Chosen(at) \in Nat \ {None}
  BY <1>1 DEF Chosen, Exists, Content, NetInv, Types, None, User
<1>3. PICK a \in SetAddr(at, Chosen(at)) :
        /\ ip' = [ip EXCEPT ![at] = a]
        /\ known' = IF at \in present THEN [known EXCEPT ![Layer][at] = a]
                    ELSE known
  BY DEF SetNetParam
<1>4. a \in {Chosen(at), None}
  BY <1>1, <1>3 DEF SetAddr
<1>5. ASSUME a = None, at \in present PROVE Layer \in emptied
  <2>1. CASE Chosen(at) = Empty
    <3>1. mem[Layer][Addr(at)] = Empty
      BY <1>1, <2>1 DEF Chosen, Exists, Content, Empty, User
    <3> QED BY <1>1, <3>1 DEF NetInv, EmptyInv
  <2>2. CASE Chosen(at) # Empty
    <3>1. Content(Layer, Mask(at)) = Empty
      BY <1>2, <1>3, <1>5, <2>2 DEF SetAddr
    <3>2. Mask(at) \in Names /\ mem[Layer][Mask(at)] = Empty
      BY <3>1 DEF Content, Empty, None
    <3> QED BY <1>1, <3>2 DEF NetInv, EmptyInv
  <2> QED BY <2>1, <2>2
<1>6. /\ mem'[Layer][Addr(at)] = Chosen(at)
      /\ \A l \in Layers, n \in Names :
           l # Layer \/ n # Addr(at) => mem'[l][n] = mem[l][n]
      /\ mem' \in [Layers -> [Names -> Nat]]
      /\ mem[Layer][Addr(at)] # None => mem' = mem
  <2>1. CASE Exists(Addr(at))
    BY <1>1, <2>1 DEF SetNetParam, Chosen, NetInv, Types
  <2>2. CASE ~Exists(Addr(at))
    <3>1. mem' = [mem EXCEPT ![Layer][Addr(at)] = Default(at)]
      BY <1>1, <2>2 DEF SetNetParam
    <3>2. mem[Layer][Addr(at)] = None /\ Chosen(at) = Default(at)
      BY <1>1, <2>2 DEF Exists, Content, Chosen
    <3>3. mem \in [Layers -> [Names -> Nat]]
      BY DEF NetInv, Types
    <3> QED BY <1>1, <3>1, <3>2, <3>3
  <2> QED BY <2>1, <2>2
<1> QED BY <1>1, <1>2, <1>3, <1>4, <1>5, <1>6

LEMMA SetStep ==
  ASSUME NetInv, SetNetParam
  PROVE  NetInv'
<1> USE NameFacts, IfFacts
<1>1. PICK a \in SetAddr(at, Chosen(at)) :
        /\ a \in {Chosen(at), None}
        /\ ip' = [ip EXCEPT ![at] = a]
        /\ known' = IF at \in present THEN [known EXCEPT ![Layer][at] = a]
                    ELSE known
        /\ a = None /\ at \in present => Layer \in emptied
  BY OneInterface
<1>2. /\ phase = "net" /\ phase' = phase /\ at \in Ifs /\ at' = at + 1
      /\ present' = present /\ mounted' = mounted /\ whole' = whole
      /\ rec' = rec /\ disk' = disk /\ sealed' = sealed /\ emptied' = emptied
      /\ fresh' = fresh /\ Layer' = Layer
  BY DEF SetNetParam, recovery, Layer
<1>3. /\ Chosen(at) \in Nat \ {None} /\ mem'[Layer][Addr(at)] = Chosen(at)
      /\ \A l \in Layers, n \in Names :
           l # Layer \/ n # Addr(at) => mem'[l][n] = mem[l][n]
      /\ mem' \in [Layers -> [Names -> Nat]]
      /\ mem[Layer][Addr(at)] # None => mem' = mem
  BY OneInterface
<1>4. a \in Nat
  BY <1>1, <1>3 DEF None
<1>5. Types'
  <2>1. ip' \in [Ifs -> Nat] /\ known' \in [Layers -> [Ifs -> Nat]]
    BY <1>1, <1>2, <1>4 DEF NetInv, Types
  <2> QED BY <1>2, <1>3, <2>1 DEF NetInv, Types
<1>6. \A i \in Ifs : i # at => ip'[i] = ip[i]
  BY <1>1 DEF NetInv, Types
<1>7. ip'[at] = a
  BY <1>1, <1>2 DEF NetInv, Types
<1>8. BootInv'
  <2>1. \A i \in Ifs : i >= at' => ip'[i] = None
    BY <1>2, <1>6 DEF NetInv, BootInv
  <2>2. \A i \in Ifs : i < at' => mem'[Layer][Addr(i)] # None
    <3>1. ASSUME NEW i \in Ifs, i < at PROVE mem'[Layer][Addr(i)] # None
      BY <1>2, <1>3, <3>1 DEF NetInv, BootInv
    <3>2. \A i \in Ifs : i < at' => i < at \/ i = at
      BY <1>2
    <3> QED BY <1>3, <3>1, <3>2
  <2> QED BY <1>2, <2>1, <2>2 DEF BootInv
<1>9. KnownInv'
  <2> SUFFICES ASSUME NEW l \in Layers, NEW i \in Ifs, known'[l][i] # None
               PROVE  mem'[l][Addr(i)] = known'[l][i]
    BY DEF KnownInv
  <2>1. CASE l = Layer /\ i = at /\ at \in present
    BY <1>1, <1>2, <1>3, <2>1 DEF NetInv, Types
  <2>2. CASE ~(l = Layer /\ i = at /\ at \in present)
    <3>1. known'[l][i] = known[l][i]
      BY <1>1, <2>2 DEF NetInv, Types
    <3>2. mem[l][Addr(i)] = known[l][i] /\ mem[l][Addr(i)] # None
      BY <3>1 DEF NetInv, KnownInv
    <3>3. mem'[l][Addr(i)] = mem[l][Addr(i)]
      BY <1>2, <1>3, <3>2
    <3> QED BY <3>1, <3>2, <3>3
  <2> QED BY <2>1, <2>2
<1>10. EmptyInv'
  <2> SUFFICES ASSUME NEW l \in Layers \ emptied, NEW n \in Names \ {Flag}
               PROVE  mem'[l][n] # Empty
    BY <1>2 DEF NetInv, EmptyInv
  <2>1. mem[l][n] # Empty
    BY DEF NetInv, EmptyInv
  <2>2. CASE l # Layer \/ n # Addr(at) \/ mem[Layer][Addr(at)] # None
    BY <1>3, <2>1, <2>2
  <2>3. CASE l = Layer /\ n = Addr(at) /\ mem[Layer][Addr(at)] = None
    BY <1>2, <1>3, <2>3 DEF Chosen, Exists, Content, Empty, User
  <2> QED BY <2>2, <2>3
<1>11. SealInv'
  <2> SUFFICES ASSUME NEW l \in sealed, NEW i \in Ifs
               PROVE  mem'[l][Addr(i)] = mem[l][Addr(i)]
    BY <1>2 DEF NetInv, SealInv
  <2>1. mem[l][Addr(i)] # None /\ l \in Layers
    BY DEF NetInv, SealInv, Types
  <2> QED BY <1>2, <1>3, <2>1
<1>12. HealInv'
  <2>1. rec = "none"
    BY <1>2 DEF NetInv, HealInv
  <2>2. ASSUME DefaultsOnly PROVE DefaultsOnly'
    <3> SUFFICES ASSUME NEW i \in Ifs
                 PROVE  /\ mem'["disk"][Addr(i)] \in {None, Default(i)}
                        /\ Content("disk", Mask(i))' = None
      BY DEF DefaultsOnly, Default
    <3>1. "disk" \in Layers
      BY DEF Layers
    <3>2. Content("disk", Mask(i))' = None
      BY <1>2, <1>3, <2>2, <3>1 DEF DefaultsOnly, Content
    <3>3. CASE Layer = "disk" /\ i = at
      BY <1>2, <1>3, <2>2, <3>2, <3>3 DEF DefaultsOnly, Chosen, Exists, Content
    <3>4. CASE ~(Layer = "disk" /\ i = at)
      BY <1>2, <1>3, <2>2, <3>1, <3>2, <3>4 DEF DefaultsOnly
    <3> QED BY <3>3, <3>4
  <2> QED BY <1>2, <2>1, <2>2 DEF NetInv, HealInv
<1>13. UnreachableOnlyAfterCut'
  <2> SUFFICES ASSUME NEW i \in Ifs, i < at + 1, i \in present, ip'[i] = None
               PROVE  Layer \in emptied
    BY <1>2 DEF UnreachableOnlyAfterCut, Passed
  <2>1. CASE i = at
    BY <1>1, <1>7, <2>1
  <2>2. CASE i < at
    BY <1>2, <1>6, <2>2 DEF NetInv, UnreachableOnlyAfterCut, Passed
  <2> QED BY <1>2, <2>1, <2>2
<1>14. RecoverHeals'
  <2> SUFFICES ASSUME NEW i \in Ifs, i < at + 1, i \in present, mounted,
                      fresh = "booted"
               PROVE  ip'[i] = Default(i)
    BY <1>2 DEF RecoverHeals, Passed, Default
  <2>1. CASE i = at
    <3>1. Layer = "disk" /\ DefaultsOnly
      BY DEF Layer, NetInv, HealInv
    <3>2. Chosen(at) = Default(at)
      BY <1>2, <3>1 DEF DefaultsOnly, Chosen, Exists, Content
    <3>3. Content(Layer, Mask(at)) # Empty /\ Chosen(at) # Empty
      BY <1>2, <3>1, <3>2 DEF DefaultsOnly, None, Empty, User
    <3> QED BY <1>1, <1>7, <2>1, <3>2, <3>3 DEF SetAddr
  <2>2. CASE i < at
    BY <1>2, <1>6, <2>2 DEF NetInv, RecoverHeals, Passed
  <2> QED BY <1>2, <2>1, <2>2
<1> QED
  BY <1>5, <1>8, <1>9, <1>10, <1>11, <1>12, <1>13, <1>14 DEF NetInv

(***************************************************************************)
(* The other steps of a boot.                                              *)
(***************************************************************************)
LEMMA BootStep ==
  ASSUME NetInv, Boot
  PROVE  NetInv'
<1> USE NameFacts, IfFacts
<1>1. Types'
  <2>1. mounted' \in BOOLEAN
    BY DEF Boot, NetInv, Types
  <2>2. whole' \in BOOLEAN
    BY DEF Boot, NetInv, Types
  <2>3. present' \subseteq Ifs /\ fresh' \in {"no", "formatted", "booted"}
    BY NetAssumption DEF Boot, NetInv, Types
  <2> QED BY <2>1, <2>2, <2>3 DEF Boot, NetInv, Types
<1>2. BootInv'
  BY DEF Boot, NetInv, BootInv
<1>3. KnownInv' /\ EmptyInv' /\ SealInv'
  BY DEF Boot, NetInv, KnownInv, EmptyInv, SealInv
<1>4. HealInv'
  BY DEF Boot, NetInv, HealInv, DefaultsOnly, Content, Default
<1>5. UnreachableOnlyAfterCut' /\ RecoverHeals'
  BY DEF Boot, UnreachableOnlyAfterCut, RecoverHeals, Passed
<1> QED BY <1>1, <1>2, <1>3, <1>4, <1>5 DEF NetInv

LEMMA FlagCheckStep ==
  ASSUME NetInv, FlagCheck
  PROVE  NetInv'
<1> USE NameFacts, IfFacts
<1>1. /\ phase = "net" /\ phase' \in {"sync", "up"} /\ at \notin Ifs
      /\ at' = at /\ present' = present /\ ip' = ip
      /\ mounted' = mounted /\ whole' = whole /\ rec' = rec /\ disk' = disk
      /\ sealed' = sealed /\ known' = known /\ emptied' = emptied
      /\ fresh' = fresh /\ Layer' = Layer
  BY DEF FlagCheck, recovery, history, Layer
<1>2. /\ mem' \in [Layers -> [Names -> Nat]]
      /\ \A l \in Layers, n \in Names \ {Flag} : mem'[l][n] = mem[l][n]
  <2>1. mem' = mem \/ mem' = [mem EXCEPT ![Layer][Flag] = Empty]
    BY DEF FlagCheck
  <2>2. mem \in [Layers -> [Names -> Nat]] /\ Empty \in Nat
    BY DEF NetInv, Types, Empty
  <2>3. CASE mem' = mem
    BY <2>2, <2>3
  <2>4. CASE mem' = [mem EXCEPT ![Layer][Flag] = Empty]
    BY <2>2, <2>4
  <2> QED BY <2>1, <2>3, <2>4
<1>3. Types'
  BY <1>1, <1>2 DEF NetInv, Types
<1>4. BootInv'
  BY <1>1, <1>2 DEF NetInv, BootInv
<1>5. KnownInv' /\ EmptyInv'
  BY <1>1, <1>2 DEF NetInv, KnownInv, EmptyInv
<1>6. SealInv'
  BY <1>1, <1>2 DEF NetInv, SealInv, Types
<1>7. HealInv'
  <2>1. rec = "none" /\ "disk" \in Layers
    BY <1>1 DEF NetInv, HealInv, Layers
  <2>2. DefaultsOnly => DefaultsOnly'
    BY <1>2, <2>1 DEF DefaultsOnly, Content, Default
  <2> QED BY <1>1, <2>1, <2>2 DEF NetInv, HealInv
<1>8. UnreachableOnlyAfterCut' /\ RecoverHeals'
  BY <1>1 DEF NetInv, UnreachableOnlyAfterCut, RecoverHeals, Passed, Default
<1> QED BY <1>3, <1>4, <1>5, <1>6, <1>7, <1>8 DEF NetInv

\* What a sync of everything puts on the disk, in either of its places.
LEMMA SyncStep ==
  ASSUME NetInv, FlagSync \/ ServiceSync
  PROVE  NetInv'
<1> USE NameFacts, IfFacts
<1>1. /\ phase' = "up" /\ at' = at /\ present' = present /\ ip' = ip
      /\ mounted' = mounted /\ whole' = whole /\ rec' = rec
      /\ mem' = mem /\ disk' = mem /\ known' = known /\ emptied' = emptied
      /\ fresh' = fresh
  BY DEF FlagSync, ServiceSync, Synced, booting, recovery
<1>2. sealed' \subseteq sealed \cup {Layer}
  BY DEF FlagSync, ServiceSync
<1>3. Layer \in sealed' \ sealed => \A i \in Ifs : mem[Layer][Addr(i)] # None
  <2>1. CASE FlagSync
    <3>1. phase = "sync" /\ at \notin Ifs /\ at \in Nat
      BY <2>1 DEF FlagSync, NetInv, BootInv, Types
    <3>2. \A i \in Ifs : i < at
      BY <3>1, NetAssumption DEF Ifs
    <3> QED BY <3>1, <3>2 DEF NetInv, BootInv
  <2>2. CASE ServiceSync
    BY <2>2 DEF ServiceSync, Exists, Content
  <2> QED BY <2>1, <2>2
<1>4. Types'
  BY <1>1, <1>2 DEF NetInv, Types
<1>5. BootInv' /\ KnownInv' /\ EmptyInv'
  BY <1>1 DEF NetInv, BootInv, KnownInv, EmptyInv
<1>6. SealInv'
  BY <1>1, <1>2, <1>3 DEF NetInv, SealInv
<1>7. HealInv'
  <2>1. rec' # "none" => phase = "up" /\ ~mounted
    BY <1>1 DEF NetInv, HealInv
  <2> QED
    BY <1>1, <2>1 DEF NetInv, HealInv, DefaultsOnly, Content, Default
<1>8. UnreachableOnlyAfterCut' /\ RecoverHeals'
  BY <1>1 DEF UnreachableOnlyAfterCut, RecoverHeals, Passed
<1> QED BY <1>4, <1>5, <1>6, <1>7, <1>8 DEF NetInv

(***************************************************************************)
(* A program saves a parameter; the recover key runs its three steps.      *)
(***************************************************************************)
LEMMA SaveStep ==
  ASSUME NetInv, NEW n \in Saves, Save(n)
  PROVE  NetInv'
<1> USE NameFacts, IfFacts
<1>1. /\ phase = "up" /\ phase' = phase /\ at' = at /\ present' = present
      /\ ip' = ip /\ mounted' = mounted /\ whole' = whole /\ rec' = rec
      /\ disk' = disk /\ sealed' = sealed /\ emptied' = emptied
      /\ fresh' = (IF mounted THEN "no" ELSE fresh)
      /\ mem' = [mem EXCEPT ![Layer][n] = User]
      /\ known' = [known EXCEPT ![Layer][n[1]] = None]
  BY DEF Save, booting, recovery
<1>2. /\ mem' \in [Layers -> [Names -> Nat]] /\ mem'[Layer][n] = User
      /\ \A l \in Layers, o \in Names :
           l # Layer \/ o # n => mem'[l][o] = mem[l][o]
  BY <1>1 DEF NetInv, Types, User
<1>3. /\ known' \in [Layers -> [Ifs -> Nat]] /\ known'[Layer][n[1]] = None
      /\ \A l \in Layers, i \in Ifs :
           l # Layer \/ i # n[1] => known'[l][i] = known[l][i]
  BY <1>1 DEF NetInv, Types, None
<1>4. Types'
  BY <1>1, <1>2, <1>3 DEF NetInv, Types
<1>5. BootInv'
  BY <1>1 DEF NetInv, BootInv
<1>6. KnownInv'
  BY <1>2, <1>3 DEF NetInv, KnownInv
<1>7. EmptyInv'
  BY <1>1, <1>2 DEF NetInv, EmptyInv, User, Empty
<1>8. SealInv'
  BY <1>1, <1>2 DEF NetInv, SealInv, Types, User, None
<1>9. HealInv'
  <2>1. "disk" \in Layers
    BY DEF Layers
  <2>2. CASE mounted
    BY <1>1, <2>2 DEF NetInv, HealInv
  <2>3. CASE ~mounted
    <3>1. \A o \in Names : mem'["disk"][o] = mem["disk"][o]
      BY <1>2, <2>1, <2>3 DEF Layer
    <3>2. mem'["disk"] = mem["disk"]
      BY <1>2, <2>1, <3>1 DEF NetInv, Types
    <3> QED
      BY <1>1, <2>3, <3>2 DEF NetInv, HealInv, DefaultsOnly, Content, Default
  <2> QED BY <2>2, <2>3
<1>10. UnreachableOnlyAfterCut' /\ RecoverHeals'
  BY <1>1 DEF UnreachableOnlyAfterCut, RecoverHeals, Passed
<1> QED BY <1>4, <1>5, <1>6, <1>7, <1>8, <1>9, <1>10 DEF NetInv

LEMMA RecoverStep ==
  ASSUME NetInv, RecoverUmount \/ RecoverFormat \/ RecoverMount
  PROVE  NetInv'
<1> USE NameFacts, IfFacts
<1>1. /\ phase = "up" /\ phase' = phase /\ at' = at /\ present' = present
      /\ ip' = ip /\ "disk" \in Layers
  BY DEF RecoverUmount, RecoverFormat, RecoverMount, booting, Layers
<1>2. Blank \in [Names -> Nat] /\ \A n \in Names : Blank[n] = None
  BY DEF Blank, None
<1>3. BootInv' /\ UnreachableOnlyAfterCut' /\ RecoverHeals'
  BY <1>1 DEF NetInv, BootInv, UnreachableOnlyAfterCut, RecoverHeals, Passed
<1>4. CASE RecoverUmount
  <2>1. /\ rec' = "format" /\ ~mounted' /\ mounted' \in BOOLEAN /\ whole' = whole
        /\ disk' = [disk EXCEPT !["disk"] = mem["disk"]] /\ mem' = mem
        /\ sealed' = sealed /\ known' = known /\ emptied' = emptied
        /\ fresh' = fresh
    BY <1>4 DEF RecoverUmount, history
  <2>2. Types'
    BY <1>1, <2>1 DEF NetInv, Types
  <2>3. KnownInv'
    BY <2>1 DEF NetInv, KnownInv
  <2>4. EmptyInv'
    BY <1>1, <2>1 DEF NetInv, EmptyInv, Types
  <2>5. SealInv'
    BY <1>1, <2>1 DEF NetInv, SealInv, Types
  <2>6. HealInv'
    BY <1>1, <2>1 DEF NetInv, HealInv, DefaultsOnly, Content, Default
  <2> QED BY <1>3, <2>2, <2>3, <2>4, <2>5, <2>6 DEF NetInv
<1>5. CASE RecoverFormat
  <2>1. /\ rec' = "mount" /\ ~whole' /\ whole' \in BOOLEAN /\ mounted' = mounted
        /\ mem' = [mem EXCEPT !["disk"] = Blank]
        /\ disk' = [disk EXCEPT !["disk"] = Blank]
        /\ sealed' = sealed \ {"disk"} /\ emptied' = emptied \ {"disk"}
        /\ known' = [known EXCEPT !["disk"] = [i \in Ifs |-> None]]
        /\ fresh' = "no" /\ rec = "format"
    BY <1>1, <1>5 DEF RecoverFormat, Format, NetInv, Types
  <2>2. /\ mem'["disk"] = Blank /\ disk'["disk"] = Blank
        /\ \A l \in Layers \ {"disk"} :
             mem'[l] = mem[l] /\ disk'[l] = disk[l] /\ known'[l] = known[l]
        /\ \A i \in Ifs : known'["disk"][i] = None
    BY <1>1, <2>1 DEF NetInv, Types
  <2>3. Types'
    <3>1. known' \in [Layers -> [Ifs -> Nat]]
      BY <1>1, <2>1 DEF NetInv, Types, None
    <3> QED BY <1>1, <1>2, <2>1, <3>1 DEF NetInv, Types
  <2>4. KnownInv'
    BY <2>2 DEF NetInv, KnownInv
  <2>5. EmptyInv'
    BY <1>2, <2>1, <2>2 DEF NetInv, EmptyInv, None, Empty
  <2>6. SealInv'
    BY <2>1, <2>2 DEF NetInv, SealInv, Types
  <2>7. HealInv'
    BY <1>1, <2>1, <2>2 DEF NetInv, HealInv
  <2> QED BY <1>3, <2>3, <2>4, <2>5, <2>6, <2>7 DEF NetInv
<1>6. CASE RecoverMount
  <2>1. /\ rec = "mount" /\ rec' = "none" /\ whole' /\ mounted'
        /\ fresh' = "formatted" /\ mem' = mem /\ disk' = disk
        /\ sealed' = sealed /\ known' = known /\ emptied' = emptied
    BY <1>6 DEF RecoverMount
  <2>2. whole' \in BOOLEAN
    BY <1>6 DEF RecoverMount
  <2>3. mounted' \in BOOLEAN
    BY <1>6 DEF RecoverMount
  <2>4. Types'
    BY <1>1, <2>1, <2>2, <2>3 DEF NetInv, Types
  <2>5. KnownInv' /\ EmptyInv' /\ SealInv'
    BY <2>1 DEF NetInv, KnownInv, EmptyInv, SealInv
  <2>6. HealInv'
    <3>1. mem'["disk"] = Blank
      BY <2>1 DEF NetInv, HealInv
    <3>2. DefaultsOnly'
      BY <1>2, <3>1 DEF DefaultsOnly, Content
    <3> QED BY <2>1, <3>2 DEF HealInv
  <2> QED BY <1>3, <2>4, <2>5, <2>6 DEF NetInv
<1> QED BY <1>4, <1>5, <1>6

(***************************************************************************)
(* The power goes.  A file comes back from a cut as it was in memory or on *)
(* the disk, or empty, and as it was when it had been synced.              *)
(***************************************************************************)
LEMMA AfterCut ==
  ASSUME NetInv, PowerCut
  PROVE  /\ disk' \in [Layers -> [Names -> Nat]] /\ mem' = disk'
         /\ emptied \subseteq emptied' /\ emptied' \subseteq Layers
         /\ \A l \in Layers, n \in Names :
              /\ disk'[l][n] \in {mem[l][n], disk[l][n], Empty}
              /\ mem[l][n] = disk[l][n] => disk'[l][n] = disk[l][n]
              /\ disk'[l][n] = Empty =>
                   mem[l][n] = Empty \/ disk[l][n] = Empty \/ l \in emptied'
<1>1. PICK kept \in SUBSET Unsynced : \E cut \in SUBSET (Unsynced \ kept) :
        /\ disk' = [l \in Layers |-> [n \in Names |->
                     IF <<l, n>> \in kept THEN mem[l][n]
                     ELSE IF <<l, n>> \in cut THEN Empty ELSE disk[l][n]]]
        /\ emptied' = emptied \cup {u[1] : u \in cut}
  BY DEF PowerCut
<1>2. PICK cut \in SUBSET (Unsynced \ kept) :
        /\ disk' = [l \in Layers |-> [n \in Names |->
                     IF <<l, n>> \in kept THEN mem[l][n]
                     ELSE IF <<l, n>> \in cut THEN Empty ELSE disk[l][n]]]
        /\ emptied' = emptied \cup {u[1] : u \in cut}
  BY <1>1
<1>3. disk' \in [Layers -> [Names -> Nat]]
  BY <1>2 DEF NetInv, Types, Empty
<1>4. \A u \in cut : u[1] \in Layers
  BY <1>2 DEF Unsynced
<1>5. \A l \in Layers, n \in Names :
        mem[l][n] = disk[l][n] => <<l, n>> \notin Unsynced
  BY DEF Unsynced
<1>6. ASSUME NEW l \in Layers, NEW n \in Names
      PROVE  /\ disk'[l][n] \in {mem[l][n], disk[l][n], Empty}
             /\ mem[l][n] = disk[l][n] => disk'[l][n] = disk[l][n]
             /\ disk'[l][n] = Empty =>
                  mem[l][n] = Empty \/ disk[l][n] = Empty \/ l \in emptied'
  <2>1. disk'[l][n] = IF <<l, n>> \in kept THEN mem[l][n]
                      ELSE IF <<l, n>> \in cut THEN Empty ELSE disk[l][n]
    BY <1>2
  <2>2. <<l, n>> \in cut => l \in emptied'
    BY <1>2
  <2> QED BY <1>5, <2>1, <2>2
<1> QED BY <1>2, <1>3, <1>4, <1>6 DEF PowerCut, NetInv, Types

LEMMA OffStep ==
  ASSUME NetInv, Off, mem' \in [Layers -> [Names -> Nat]],
         disk' \in [Layers -> [Names -> Nat]], sealed' = sealed,
         emptied' \subseteq Layers, known' \in [Layers -> [Ifs -> Nat]],
         fresh' \in {"no", fresh}
  PROVE  /\ Types' /\ BootInv' /\ UnreachableOnlyAfterCut' /\ RecoverHeals'
         /\ rec' = "none"
<1>1. mounted' \in BOOLEAN
  BY DEF Off
<1>2. whole' \in BOOLEAN
  BY DEF Off, NetInv, Types
<1>3. ip' \in [Ifs -> Nat] /\ \A i \in Ifs : ip'[i] = None
  BY DEF Off, None
<1>4. Types'
  BY <1>1, <1>2, <1>3 DEF Off, NetInv, Types
<1> QED
  BY <1>3, <1>4 DEF Off, BootInv, UnreachableOnlyAfterCut, RecoverHeals, Passed

LEMMA CutStep ==
  ASSUME NetInv, PowerCut
  PROVE  NetInv'
<1> USE NameFacts
<1>1. /\ Off /\ sealed' = sealed
      /\ known' = [l \in Layers |-> [i \in Ifs |->
                    IF {<<l, Addr(i)>>, <<l, Mask(i)>>} \cap Unsynced = {}
                    THEN known[l][i] ELSE None]]
      /\ fresh' = (IF \A n \in Names : <<"disk", n>> \notin Unsynced THEN fresh
                   ELSE "no")
  BY DEF PowerCut
<1>2. known' \in [Layers -> [Ifs -> Nat]]
  BY <1>1 DEF NetInv, Types, None
<1>3. Types' /\ BootInv' /\ UnreachableOnlyAfterCut' /\ RecoverHeals' /\ rec' = "none"
  BY <1>1, <1>2, AfterCut, OffStep
<1>4. \A l \in Layers, n \in Names :
        <<l, n>> \notin Unsynced => mem[l][n] = disk[l][n]
  BY DEF Unsynced
<1>5. KnownInv'
  <2> SUFFICES ASSUME NEW l \in Layers, NEW i \in Ifs, known'[l][i] # None
               PROVE  mem'[l][Addr(i)] = known'[l][i]
    BY DEF KnownInv
  <2>1. known'[l][i] = known[l][i] /\ <<l, Addr(i)>> \notin Unsynced
    BY <1>1
  <2>2. mem[l][Addr(i)] = known[l][i] /\ mem[l][Addr(i)] = disk[l][Addr(i)]
    BY <1>4, <2>1 DEF NetInv, KnownInv
  <2> QED BY <2>1, <2>2, AfterCut
<1>6. EmptyInv'
  BY AfterCut DEF NetInv, EmptyInv
<1>7. SealInv'
  <2> SUFFICES ASSUME NEW l \in sealed, NEW i \in Ifs
               PROVE  disk'[l][Addr(i)] # None
    BY <1>1, AfterCut DEF SealInv
  <2>1. /\ l \in Layers /\ Addr(i) \in Names
        /\ mem[l][Addr(i)] # None /\ disk[l][Addr(i)] # None
    BY DEF NetInv, SealInv, Types
  <2> QED BY <2>1, AfterCut DEF None, Empty
<1>8. HealInv'
  <2> SUFFICES ASSUME fresh' \in {"formatted", "booted"}
               PROVE  DefaultsOnly'
    BY <1>3 DEF HealInv
  <2>1. fresh' = fresh /\ \A n \in Names : <<"disk", n>> \notin Unsynced
    BY <1>1
  <2>2. "disk" \in Layers
    BY DEF Layers
  <2>3. ASSUME NEW n \in Names PROVE mem'["disk"][n] = mem["disk"][n]
    <3>1. mem["disk"][n] = disk["disk"][n]
      BY <1>4, <2>1, <2>2
    <3>2. disk'["disk"][n] = disk["disk"][n] /\ mem' = disk'
      BY <2>2, <3>1, AfterCut
    <3> QED BY <3>1, <3>2
  <2> QED
    BY <2>1, <2>3 DEF NetInv, HealInv, DefaultsOnly, Content, Default
<1> QED BY <1>3, <1>5, <1>6, <1>7, <1>8 DEF NetInv

LEMMA ShutdownStep ==
  ASSUME NetInv, Shutdown
  PROVE  NetInv'
<1>1. /\ Off /\ mem' = mem /\ disk' = mem /\ sealed' = sealed /\ known' = known
      /\ emptied' = emptied /\ fresh' = fresh
  BY DEF Shutdown, history
<1>2. Types' /\ BootInv' /\ UnreachableOnlyAfterCut' /\ RecoverHeals' /\ rec' = "none"
  BY <1>1, OffStep DEF NetInv, Types
<1>3. KnownInv' /\ EmptyInv' /\ SealInv'
  BY <1>1 DEF NetInv, KnownInv, EmptyInv, SealInv
<1>4. HealInv'
  BY <1>1, <1>2 DEF NetInv, HealInv, DefaultsOnly, Content, Default
<1> QED BY <1>2, <1>3, <1>4 DEF NetInv

LEMMA NetNext ==
  ASSUME NetInv, [Next]_vars
  PROVE  NetInv'
<1>1. CASE UNCHANGED vars
  <2>1. /\ UNCHANGED <<phase, at, present, ip, mounted, whole, rec, mem, disk>>
        /\ UNCHANGED <<sealed, known, emptied, fresh>>
    BY <1>1 DEF vars, booting, recovery, history
  <2>2. Types'
    BY <2>1 DEF NetInv, Types
  <2>3. BootInv' /\ KnownInv' /\ EmptyInv' /\ SealInv'
    BY <2>1 DEF NetInv, BootInv, KnownInv, EmptyInv, SealInv, Layer
  <2>4. HealInv'
    BY <2>1 DEF NetInv, HealInv, DefaultsOnly, Content, Default
  <2>5. UnreachableOnlyAfterCut' /\ RecoverHeals'
    BY <2>1 DEF NetInv, UnreachableOnlyAfterCut, RecoverHeals, Passed, Layer,
                Default
  <2> QED BY <2>2, <2>3, <2>4, <2>5 DEF NetInv
<1> QED
  BY <1>1, BootStep, SetStep, FlagCheckStep, SyncStep, SaveStep, RecoverStep,
     CutStep, ShutdownStep DEF Next

LEMMA NetInductive == Spec => []NetInv
<1>1. Init => NetInv
  <2> SUFFICES ASSUME Init PROVE NetInv
    OBVIOUS
  <2>1. mounted \in BOOLEAN
    BY DEF Init
  <2>2. whole \in BOOLEAN
    BY DEF Init
  <2>3. mem \in [Layers -> [Names -> Nat]] /\ ip \in [Ifs -> Nat]
        /\ known \in [Layers -> [Ifs -> Nat]]
    BY DEF Init, Blank, None
  <2>4. Types
    BY <2>1, <2>2, <2>3 DEF Init, Types
  <2>5. BootInv /\ KnownInv /\ SealInv
    BY DEF Init, BootInv, KnownInv, SealInv
  <2>6. EmptyInv
    BY DEF Init, EmptyInv, Blank, None, Empty
  <2>7. HealInv /\ UnreachableOnlyAfterCut /\ RecoverHeals
    BY DEF Init, HealInv, UnreachableOnlyAfterCut, RecoverHeals, Passed
  <2> QED BY <2>4, <2>5, <2>6, <2>7 DEF NetInv
<1> QED BY <1>1, NetNext, PTL DEF Spec

-----------------------------------------------------------------------------
(***************************************************************************)
(* The script leaves an interface that exists without an address only if a *)
(* power cut has emptied a file since the disk was last formatted.         *)
(***************************************************************************)
THEOREM Reachable == Spec => []UnreachableOnlyAfterCut
<1>1. NetInv => UnreachableOnlyAfterCut
  BY DEF NetInv
<1> QED BY <1>1, NetInductive, PTL

(***************************************************************************)
(* The boots after a recovery give every interface its default address,    *)
(* whatever was saved or emptied before, until something is saved or cut.  *)
(***************************************************************************)
THEOREM Heals == Spec => []RecoverHeals
<1>1. NetInv => RecoverHeals
  BY DEF NetInv
<1> QED BY <1>1, NetInductive, PTL

(***************************************************************************)
(* From boot to boot an interface keeps the address a layer gave it: the   *)
(* default that is set when there is no file and the file that is copied   *)
(* then agree, for every interface.                                        *)
(***************************************************************************)
THEOREM Stable == Spec => StableAddress
<1>1. ASSUME NetInv, SetNetParam, known[Layer][at] # None
      PROVE  ip'[at] \in {known[Layer][at], None}
  <2>1. PICK a \in {Chosen(at), None} : ip' = [ip EXCEPT ![at] = a]
    BY <1>1, OneInterface
  <2>2. ip'[at] = a
    BY <1>1, <2>1, OneInterface DEF NetInv, Types
  <2>3. mem[Layer][Addr(at)] = known[Layer][at] /\ Addr(at) \in Names
    BY <1>1, OneInterface, NameFacts DEF NetInv, KnownInv
  <2>4. Chosen(at) = known[Layer][at]
    BY <1>1, <2>3 DEF Chosen, Exists, Content
  <2> QED BY <2>2, <2>4
<1>2. NetInv /\ [Next]_vars =>
        [SetNetParam /\ known[Layer][at] # None
           => ip'[at] \in {known[Layer][at], None}]_vars
  BY <1>1
<1> QED BY <1>2, NetInductive, PTL DEF Spec, StableAddress

(***************************************************************************)
(* Once a boot with its flag check is complete, no power cut in any later  *)
(* boot changes an address file that nobody saved to.                      *)
(***************************************************************************)
THEOREM Sealed == Spec => SealedSurvivesCut
<1>1. ASSUME NetInv, PowerCut, NEW l \in sealed, NEW i \in Ifs,
             mem[l][Addr(i)] # User
      PROVE  disk'[l][Addr(i)] = disk[l][Addr(i)]
  <2>1. l \in Layers /\ mem[l][Addr(i)] = disk[l][Addr(i)]
    BY <1>1 DEF NetInv, Types, SealInv
  <2> QED BY <1>1, <2>1, AfterCut, NameFacts
<1>2. NetInv /\ [Next]_vars =>
        [PowerCut => \A l \in sealed, i \in Ifs :
           mem[l][Addr(i)] # User => disk'[l][Addr(i)] = disk[l][Addr(i)]]_vars
  BY <1>1
<1> QED BY <1>2, NetInductive, PTL DEF Spec, SealedSurvivesCut
============================================================================
