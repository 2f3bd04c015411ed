-------------------------- MODULE CmsServerProofs --------------------------
(***************************************************************************)
(* Proofs about cms-svr.  First its processes (CmsServer), for any number  *)
(* of instances and of presses: what keeps two servers, and two            *)
(* recoveries, apart is that /dev/pulse stays open as long as an instance  *)
(* or its script lives, unless two instances were let into pulse_open at   *)
(* once, which takes a kernel that is preempted.  What makes each press start one recovery is that  *)
(* an event is taken from the queue when it starts a script.  Then the     *)
(* pins its threads toggle (Pins), for any boot script: what has been set  *)
(* up before the server starts stays, but for the pins the tool is run on. *)
(***************************************************************************)
EXTENDS CmsServer, Pins, FiniteSetTheorems, SequenceTheorems, TLAPS

ProcInv ==
  /\ pc \in [Instances -> {"new", "unlinked", "pulse", "opening", "irq", "bc",
                           "threads", "listen", "serving", "dead"}]
  /\ busy \in BOOLEAN /\ raced \in BOOLEAN
  /\ opened \in [Instances -> BOOLEAN] /\ bound \in [Instances -> BOOLEAN]
  /\ key \in [Instances -> {"none", "read", "spin", "script"}]
  /\ script \in [Instances -> BOOLEAN]

(***************************************************************************)
(* What an instance has by the step it has come to.                        *)
(***************************************************************************)
HasInv ==
  \A i \in Instances :
    /\ pc[i] \in {"new", "unlinked", "pulse", "opening"} => ~opened[i]
    /\ Past(i) => opened[i]
    /\ bound[i] => opened[i] /\ pc[i] \notin {"irq", "bc"}
    /\ key[i] # "none" => pc[i] \in {"listen", "serving", "dead"}
    /\ script[i] => opened[i] /\ key[i] = "script"

(***************************************************************************)
(* As long as no two opens have raced, one instance at a time has passed   *)
(* the test of the driver's flag, and the flag is set when it has the      *)
(* device.  Without preemption no two opens race.                          *)
(***************************************************************************)
Admitted(i) == Inside(i) \/ Holder(i)
OneAdmitted ==
  ~raced => /\ \A i, j \in Instances : Admitted(i) /\ Admitted(j) => i = j
            /\ \A i \in Instances : Holder(i) => busy
NoRace == Preemptible \/ ~raced

DepthInv ==
  /\ depth \in {0, 1}
  /\ IrqOnWhileServing

Safe == ProcInv /\ HasInv /\ OneAdmitted /\ NoRace /\ DepthInv

(***************************************************************************)
(* Every step preserves Safe: an instance is let in only when the flag is  *)
(* clear, and while another is inside the call only as a race.             *)
(***************************************************************************)
LEMMA SafeStep == ASSUME Safe, [Next]_vars PROVE Safe'
<1> USE DEF Safe, ProcInv, HasInv, OneAdmitted, Admitted, Inside, Holder,
            NoRace, DepthInv, IrqOnWhileServing, Past, HoldsFiles, Alive, Go
<1>1. ASSUME NEW i \in Instances, UnlinkPath(i) PROVE Safe'
  BY <1>1 DEF UnlinkPath, device, keys
<1>2. ASSUME NEW i \in Instances, IpcInit(i) \/ IpcInitFails(i) PROVE Safe'
  BY <1>2 DEF IpcInit, IpcInitFails, device, keys, files
<1>3. ASSUME NEW i \in Instances, MayRun(i), PulseTest(i) PROVE Safe'
  <2>1. /\ pc[i] = "pulse" /\ pc' = [pc EXCEPT ![i] = "opening"]
        /\ ~busy /\ raced' \in BOOLEAN
        /\ UNCHANGED <<opened, busy, bound, depth, key, script>>
    BY <1>3 DEF PulseTest, Busy, keys
  <2>2. ~raced' => \A j \in Instances : ~Inside(j) /\ ~Holder(j)
    BY <1>3 DEF PulseTest, Busy
  <2>3. NoRace'
    BY <1>3 DEF PulseTest, MayRun
  <2>4. OneAdmitted'
    BY <2>1, <2>2
  <2> QED BY <2>1, <2>3, <2>4
<1>4. ASSUME NEW i \in Instances, PulseSet(i) PROVE Safe'
  <2>1. /\ pc[i] = "opening" /\ pc' = [pc EXCEPT ![i] = "irq"]
        /\ opened' = [opened EXCEPT ![i] = TRUE] /\ busy' = TRUE
        /\ UNCHANGED <<raced, bound, depth, key, script>>
    BY <1>4 DEF PulseSet, keys
  <2>2. OneAdmitted'
    BY <2>1
  <2> QED BY <2>1, <2>2
<1>5. ASSUME NEW i \in Instances, PulseInitFails(i) PROVE Safe'
  BY <1>5 DEF PulseInitFails, device, keys, files
<1>6. ASSUME NEW i \in Instances, Die(i) \/ Listen(i) \/ ScriptEnds(i)
      PROVE  Safe'
  <2>1. /\ UNCHANGED <<raced, opened, bound, depth>>
        /\ busy' \in BOOLEAN
        /\ busy /\ (Holder(i) => HoldsFiles(i)') => busy'
    BY <1>6 DEF Die, Listen, ScriptEnds, Release
  <2>2. CASE Die(i)
    <3>1. ~Inside(i) /\ pc' = [pc EXCEPT ![i] = "dead"] /\ UNCHANGED <<key, script>>
      BY <2>2 DEF Die, keys
    <3>2. OneAdmitted'
      BY <2>1, <3>1
    <3> QED BY <2>1, <3>1, <3>2
  <2>3. CASE Listen(i)
    <3>1. /\ pc[i] = "listen" /\ UNCHANGED <<key, script>>
          /\ \E step \in {"serving", "dead"} : pc' = [pc EXCEPT ![i] = step]
      BY <2>3 DEF Listen, keys
    <3>2. OneAdmitted'
      BY <2>1, <3>1
    <3> QED BY <2>1, <3>1, <3>2
  <2>4. CASE ScriptEnds(i)
    <3>1. /\ script' = [script EXCEPT ![i] = FALSE] /\ script[i]
          /\ key' = [key EXCEPT ![i] = "read"] /\ UNCHANGED pc
      BY <2>4 DEF ScriptEnds, AfterScript
    <3>2. OneAdmitted'
      BY <2>1, <3>1
    <3> QED BY <2>1, <3>1, <3>2
  <2> QED BY <1>6, <2>2, <2>3, <2>4
<1>7. ASSUME NEW i \in Instances, PulseIrqStart(i) PROVE Safe'
  BY <1>7 DEF PulseIrqStart, Enabled, keys
<1>8. ASSUME NEW i \in Instances, NEW ok \in BOOLEAN, BcInit(i, ok) PROVE Safe'
  BY <1>8 DEF BcInit, device, keys
<1>9. ASSUME NEW i \in Instances, NEW ok \in BOOLEAN, KwInit(i, ok) PROVE Safe'
  BY <1>9 DEF KwInit, device, files
<1>10. ASSUME NEW i \in Instances, KeyStep(i) PROVE Safe'
  <2>1. CASE KeyStarts(i)
    BY <2>1 DEF KeyStarts, device, files
  <2>2. CASE KeySkips(i)
    BY <2>2 DEF KeySkips, device, files
  <2> QED BY <1>10, <2>1, <2>2 DEF KeyStep
<1>11. ASSUME Press \/ LetGo PROVE Safe'
  BY <1>11 DEF Press, LetGo, device, files
<1>12. ASSUME UNCHANGED vars PROVE Safe'
  BY <1>12 DEF vars, device, files, keys
<1> QED
  BY <1>1, <1>2, <1>3, <1>4, <1>5, <1>6, <1>7, <1>8, <1>9, <1>10, <1>11, <1>12
  DEF Next, MainStep, ScriptStep

LEMMA SafeHolds == Spec => []Safe
<1>1. Init => Safe
  BY DEF Init, Safe, ProcInv, HasInv, OneAdmitted, Admitted, Inside, Holder,
         NoRace, DepthInv, IrqOnWhileServing, Past
<1>2. Safe /\ [Next]_vars => Safe'
  BY SafeStep
<1> QED BY <1>1, <1>2, PTL DEF Spec

(***************************************************************************)
(* OneServer: /dev/pulse lets one server past pulse_init, whatever is      *)
(* started and killed (cms_svr.c:78-83), unless a preempted kernel let two *)
(* into pulse_open at once.                                                *)
(***************************************************************************)
THEOREM Single == Spec => []OneServer
<1>1. Safe => OneServer
  BY DEF Safe, ProcInv, HasInv, OneAdmitted, Admitted, NoRace, OpensRaced,
         Holder, OneServer, Past, HoldsFiles, Alive
<1> QED BY <1>1, SafeHolds, PTL

(***************************************************************************)
(* OneRecovery: the script's copy of /dev/pulse keeps every other server,  *)
(* and with it every other script, out until it ends                       *)
(* (gpio_key_wtd.c:79), unless two opens raced.                            *)
(***************************************************************************)
THEOREM SingleRecovery == Spec => []OneRecovery
<1>1. Safe => OneRecovery
  BY DEF Safe, HasInv, OneAdmitted, Admitted, NoRace, OpensRaced, Holder,
         OneRecovery, HoldsFiles
<1> QED BY <1>1, SafeHolds, PTL

(***************************************************************************)
(* PortsFree: who keeps the ports keeps /dev/pulse too, so a server that   *)
(* comes to bind them finds them free (cms_svr.c:99), unless two opens     *)
(* raced.                                                                  *)
(***************************************************************************)
THEOREM FreePorts == Spec => []PortsFree
<1>1. Safe => PortsFree
  BY DEF Safe, ProcInv, HasInv, OneAdmitted, Admitted, NoRace, OpensRaced,
         Holder, PortsFree, PortsBusy, Past, HoldsFiles, Alive
<1> QED BY <1>1, SafeHolds, PTL

(***************************************************************************)
(* IrqOnWhileServing: no sequence of starts and deaths leaves a serving    *)
(* instance with the pulse interrupt masked (cms_svr.c:86-90).             *)
(***************************************************************************)
THEOREM IrqOn == Spec => []IrqOnWhileServing
<1>1. Safe => IrqOnWhileServing
  BY DEF Safe, DepthInv
<1> QED BY <1>1, SafeHolds, PTL

-----------------------------------------------------------------------------
(***************************************************************************)
(* The presses that wait in a queue of key events, and what a new event    *)
(* and the reading of one do to their number.                              *)
(***************************************************************************)
KeyEvents == {"down", "up"}
Downs(q) == {n \in DOMAIN q : q[n] = "down"}

LEMMA DownsFinite ==
  ASSUME NEW q \in Seq(KeyEvents)
  PROVE  IsFiniteSet(Downs(q)) /\ Cardinality(Downs(q)) \in Nat
<1>1. DOMAIN q = 1..Len(q) /\ Len(q) \in Int
  BY LenProperties
<1>2. IsFiniteSet(1..Len(q))
  BY <1>1, FS_Interval
<1>3. Downs(q) \in SUBSET (1..Len(q))
  BY <1>1 DEF Downs
<1> QED BY <1>2, <1>3, FS_Subset, FS_CardinalityType

LEMMA DownsAppend ==
  ASSUME NEW q \in Seq(KeyEvents), NEW e \in KeyEvents
  PROVE  Cardinality(Downs(Append(q, e)))
           = Cardinality(Downs(q)) + IF e = "down" THEN 1 ELSE 0
<1> DEFINE n == Len(q) + 1
<1>1. /\ DOMAIN q = 1..Len(q) /\ Len(q) \in Nat
      /\ Append(q, e) \in Seq(KeyEvents)
      /\ DOMAIN Append(q, e) = 1..n
      /\ \A k \in 1..Len(q) : Append(q, e)[k] = q[k]
      /\ Append(q, e)[n] = e
  BY LenProperties, AppendProperties
<1>2. n \notin Downs(q)
  BY <1>1 DEF Downs
<1>3. CASE e = "down"
  <2>1. Downs(Append(q, e)) = Downs(q) \cup {n}
    BY <1>1, <1>3 DEF Downs
  <2> QED BY <2>1, <1>2, <1>3, DownsFinite, FS_AddElement
<1>4. CASE e # "down"
  <2>1. Downs(Append(q, e)) = Downs(q)
    BY <1>1, <1>4 DEF Downs
  <2> QED BY <2>1, <1>4, DownsFinite
<1> QED BY <1>3, <1>4

LEMMA DownsTail ==
  ASSUME NEW q \in Seq(KeyEvents), q # <<>>
  PROVE  Cardinality(Downs(q))
           = Cardinality(Downs(Tail(q))) + IF Head(q) = "down" THEN 1 ELSE 0
<1> DEFINE Later == Downs(q) \ {1}
           shift == [n \in Downs(Tail(q)) |-> n + 1]
<1>1. /\ DOMAIN q = 1..Len(q) /\ Len(q) \in Nat \ {0} /\ Head(q) = q[1]
      /\ Tail(q) \in Seq(KeyEvents) /\ DOMAIN Tail(q) = 1..(Len(q) - 1)
      /\ \A n \in 1..(Len(q) - 1) : Tail(q)[n] = q[n + 1]
  BY LenProperties, HeadTailProperties, EmptySeq
<1>2. \A m \in Later : m - 1 \in Downs(Tail(q)) /\ shift[m - 1] = m
  BY <1>1 DEF Downs
<1>3. shift \in Bijection(Downs(Tail(q)), Later)
  <2>1. shift \in [Downs(Tail(q)) -> Later]
    BY <1>1 DEF Downs
  <2>2. \A m, n \in Downs(Tail(q)) : shift[m] = shift[n] => m = n
    BY <1>1 DEF Downs
  <2>3. \A m \in Later : \E n \in Downs(Tail(q)) : shift[n] = m
    BY <1>2
  <2> HIDE DEF shift, Later
  <2> QED BY <2>1, <2>2, <2>3 DEF Bijection, Injection, Surjection, IsInjective
<1>4. IsFiniteSet(Later) /\ Cardinality(Later) = Cardinality(Downs(Tail(q)))
  <2>1. ExistsBijection(Downs(Tail(q)), Later)
    BY <1>3 DEF ExistsBijection
  <2>2. IsFiniteSet(Downs(Tail(q)))
    BY <1>1, DownsFinite
  <2> QED BY <2>1, <2>2, FS_Bijection
<1>5. CASE Head(q) = "down"
  <2>1. Downs(q) = Later \cup {1}
    BY <1>1, <1>5 DEF Downs
  <2>2. Cardinality(Downs(q)) = Cardinality(Later) + 1
    BY <2>1, <1>4, FS_AddElement
  <2> QED BY <2>2, <1>4, <1>5
<1>6. CASE Head(q) # "down"
  <2>1. Downs(q) = Later
    BY <1>1, <1>6 DEF Downs
  <2>2. Cardinality(Downs(Tail(q))) \in Nat
    BY <1>1, DownsFinite
  <2> QED BY <2>1, <2>2, <1>4, <1>6
<1> QED BY <1>5, <1>6

(***************************************************************************)
(* The presses an instance has acted on and those that wait for it are     *)
(* among those it has seen.                                                *)
(***************************************************************************)
PressInv ==
  /\ events \in [Instances -> Seq(KeyEvents)]
  /\ seen \in [Instances -> Nat] /\ runs \in [Instances -> Nat]
  /\ \A i \in Instances : runs[i] + Cardinality(Downs(events[i])) <= seen[i]

LEMMA DeliverStep ==
  ASSUME PressInv, NEW e \in KeyEvents, Deliver(e), UNCHANGED runs,
         seen' = [i \in Instances |->
                    seen[i] + IF e = "down" /\ i \in Reading THEN 1 ELSE 0]
  PROVE  PressInv'
<1>1. ASSUME NEW i \in Instances
      PROVE  /\ events'[i] \in Seq(KeyEvents)
             /\ Cardinality(Downs(events'[i])) = Cardinality(Downs(events[i]))
                  + IF e = "down" /\ i \in Reading THEN 1 ELSE 0
  <2>1. events[i] \in Seq(KeyEvents) /\ Cardinality(Downs(events[i])) \in Nat
    BY DownsFinite DEF PressInv
  <2>2. CASE i \in Reading
    <3>1. events'[i] = Append(events[i], e)
      BY <2>2 DEF Deliver
    <3> QED BY <2>1, <2>2, <3>1, DownsAppend, AppendProperties
  <2>3. CASE i \notin Reading
    <3>1. events'[i] = events[i]
      BY <2>3 DEF Deliver
    <3> QED BY <2>1, <2>3, <3>1
  <2> QED BY <2>2, <2>3
<1>2. events' \in [Instances -> Seq(KeyEvents)]
  BY <1>1 DEF Deliver
<1>3. seen' \in [Instances -> Nat]
  BY DEF PressInv
<1>4. ASSUME NEW i \in Instances
      PROVE  runs'[i] + Cardinality(Downs(events'[i])) <= seen'[i]
  <2>1. Cardinality(Downs(events[i])) \in Nat
    BY DownsFinite DEF PressInv
  <2> QED BY <1>1, <2>1 DEF PressInv
<1> QED BY <1>2, <1>3, <1>4 DEF PressInv

LEMMA ReadStep ==
  ASSUME PressInv, NEW i \in Instances, events[i] # <<>>, UNCHANGED seen,
         events' = [events EXCEPT ![i] = Tail(@)],
         \/ UNCHANGED runs
         \/ Head(events[i]) = "down" /\ runs' = [runs EXCEPT ![i] = @ + 1]
  PROVE  PressInv'
<1>1. /\ events[i] \in Seq(KeyEvents) /\ Tail(events[i]) \in Seq(KeyEvents)
      /\ Cardinality(Downs(Tail(events[i]))) \in Nat
      /\ Cardinality(Downs(events[i])) = Cardinality(Downs(Tail(events[i])))
           + IF Head(events[i]) = "down" THEN 1 ELSE 0
  BY HeadTailProperties, DownsFinite, DownsTail DEF PressInv
<1>2. /\ events' \in [Instances -> Seq(KeyEvents)] /\ runs' \in [Instances -> Nat]
      /\ events'[i] = Tail(events[i])
  <2>1. events' \in [Instances -> Seq(KeyEvents)] /\ events'[i] = Tail(events[i])
    BY <1>1 DEF PressInv
  <2>2. runs' \in [Instances -> Nat]
    BY DEF PressInv
  <2> QED BY <2>1, <2>2
<1>3. runs'[i] + Cardinality(Downs(events'[i])) <= seen'[i]
  BY <1>1, <1>2 DEF PressInv
<1>4. \A j \in Instances \ {i} :
        runs'[j] + Cardinality(Downs(events'[j])) <= seen'[j]
  BY DEF PressInv
<1> QED BY <1>2, <1>3, <1>4 DEF PressInv

LEMMA PressStep == ASSUME PressInv, [Next]_vars PROVE PressInv'
<1>1. CASE Press
  BY <1>1, DeliverStep DEF Press, KeyEvents
<1>2. CASE LetGo
  <2>1. seen' = [i \in Instances |->
                   seen[i] + IF "up" = "down" /\ i \in Reading THEN 1 ELSE 0]
    BY <1>2 DEF LetGo, PressInv
  <2> QED BY <1>2, <2>1, DeliverStep DEF LetGo, KeyEvents
<1>3. ASSUME NEW i \in Instances, KeyStep(i) PROVE PressInv'
  BY <1>3, ReadStep DEF KeyStep, KeyStarts, KeySkips, Triggers
<1>4. ASSUME UNCHANGED <<events, seen, runs>> PROVE PressInv'
  BY <1>4 DEF PressInv
<1>5. ASSUME NEW i \in Instances, MainStep(i) \/ Die(i) \/ ScriptStep(i)
      PROVE  UNCHANGED <<events, seen, runs>>
  BY <1>5 DEF MainStep, Die, ScriptStep, ScriptEnds, UnlinkPath, IpcInit, IpcInitFails,
              PulseTest, PulseInitFails, PulseSet, PulseIrqStart, BcInit, KwInit, Listen,
              keys
<1>6. CASE UNCHANGED vars
  BY <1>6, <1>4 DEF vars, keys
<1> QED BY <1>1, <1>2, <1>3, <1>4, <1>5, <1>6 DEF Next

(***************************************************************************)
(* EachPressOnce: however presses, scripts and deaths interleave, the      *)
(* recoveries an instance has started and the presses that wait for it are *)
(* no more than the presses it saw: none counts twice, and none is made up *)
(* by a release (gpio_key_wtd.c:60-80).                                    *)
(***************************************************************************)
THEOREM PressOnce == Spec => []EachPressOnce
<1>1. Init => PressInv
  <2> SUFFICES ASSUME Init PROVE PressInv
    OBVIOUS
  <2>1. events \in [Instances -> Seq(KeyEvents)]
    BY EmptySeq DEF Init
  <2>2. ASSUME NEW i \in Instances PROVE Cardinality(Downs(events[i])) = 0
    <3>1. Downs(events[i]) = {}
      BY DEF Init, Downs
    <3> QED BY <3>1, FS_EmptySet
  <2> QED BY <2>1, <2>2 DEF Init, PressInv
<1>2. PressInv /\ [Next]_vars => PressInv'
  BY PressStep
<1>3. PressInv => EachPressOnce
  BY DEF PressInv, EachPressOnce, Downs
<1> QED BY <1>1, <1>2, <1>3, PTL DEF Spec

-----------------------------------------------------------------------------
(***************************************************************************)
(* The pins the server shares (Pins), for any boot script, pins, lamp and  *)
(* targets of the tool.  FedUnlessTaken alone is not inductive: it says    *)
(* nothing before the server has started, nor of the tool between its      *)
(* start and the change of direction.                                      *)
(***************************************************************************)
PinStates == [exported : BOOLEAN, dir : {"in", "out"}, level : {0, 1}]

PinTypes ==
  /\ refused \subseteq Pins /\ ready \in 0..Len(Script)
  /\ pins \in [Pins -> PinStates]
  /\ server \in BOOLEAN /\ wdiOpen \in BOOLEAN
  /\ stat \in [{Led, Wdi} -> {0, 1}]
  /\ gpio \in Pins /\ val \in {0, 1}

(***************************************************************************)
(* What the script has dealt with stays: a pin that could be exported is   *)
(* exported for good, and one set up as an output is one until the tool is *)
(* run on it.                                                              *)
(***************************************************************************)
SetUp ==
  \A n \in 1..ready : LET p == Script[n].pin IN
    p \notin refused =>
      /\ pins[p].exported
      /\ Script[n].dir = "out" /\ p \notin taken => pins[p].dir = "out"

(***************************************************************************)
(* The tool's pin is one it has been started on.                           *)
(***************************************************************************)
ToolTook == tool # "none" => gpio \in taken

(***************************************************************************)
(* A server that runs has come after the whole script.                     *)
(***************************************************************************)
ServerReady ==
  server => ready = Len(Script) /\ (Wdi \notin refused => wdiOpen)

PinInv == PinTypes /\ SetUp /\ ToolTook /\ ServerReady

LEMMA ScriptEntries ==
  \A n \in 1..Len(Script) :
    Script[n].pin \in Pins /\ Script[n].dir \in {"in", "out"}
<1>1. Script \in Seq([pin : Pins, dir : {"in", "out"}])
  BY PinsAssumption DEF PinsAssumption
<1> TAKE n \in 1..Len(Script)
<1>2. Script[n] \in [pin : Pins, dir : {"in", "out"}]
  BY <1>1, ElementOfSeq
<1> QED
  BY <1>2

LEMMA PinNames == Led \in Pins /\ Wdi \in Pins /\ Lamp \in Pins /\ Targets \subseteq Pins
  BY DEF Pins

(***************************************************************************)
(* What the three ways to write to sysfs do to the pins.                   *)
(***************************************************************************)
LEMMA ExportDoes ==
  ASSUME PinTypes, NEW p \in Pins
  PROVE  /\ Export(p) \in [Pins -> PinStates]
         /\ p \notin refused => Export(p)[p].exported
         /\ \A q \in Pins : /\ pins[q].exported => Export(p)[q].exported
                            /\ Export(p)[q].dir = pins[q].dir
  BY DEF PinTypes, PinStates, Export

LEMMA SetDirDoes ==
  ASSUME NEW ps \in [Pins -> PinStates], NEW p \in Pins, NEW dir \in {"in", "out"}
  PROVE  /\ SetDir(ps, p, dir) \in [Pins -> PinStates]
         /\ ps[p].exported => SetDir(ps, p, dir)[p].dir = dir
         /\ \A q \in Pins :
              /\ SetDir(ps, p, dir)[q].exported = ps[q].exported
              /\ q # p => SetDir(ps, p, dir)[q].dir = ps[q].dir
  BY DEF PinStates, SetDir

LEMMA SetValueDoes ==
  ASSUME PinTypes, NEW p \in Pins, NEW v \in {0, 1}
  PROVE  /\ SetValue(p, v) \in [Pins -> PinStates]
         /\ \A q \in Pins : /\ SetValue(p, v)[q].exported = pins[q].exported
                            /\ SetValue(p, v)[q].dir = pins[q].dir
  BY DEF PinTypes, PinStates, SetValue

(***************************************************************************)
(* A step that unexports no pin, and makes an input only of one the tool   *)
(* has been started on, undoes nothing of the script's work.               *)
(***************************************************************************)
KeepsOutputs ==
  \A q \in Pins :
    /\ pins[q].exported => pins'[q].exported
    /\ pins[q].exported /\ pins[q].dir = "out" => pins'[q].dir = "out" \/ q \in taken'

LEMMA SetUpKept ==
  ASSUME PinTypes, SetUp, KeepsOutputs, UNCHANGED <<refused, ready>>,
         taken \subseteq taken'
  PROVE  SetUp'
<1> SUFFICES ASSUME NEW n \in 1..ready, Script[n].pin \notin refused
             PROVE  /\ pins'[Script[n].pin].exported
                    /\ Script[n].dir = "out" /\ Script[n].pin \notin taken'
                         => pins'[Script[n].pin].dir = "out"
  BY DEF SetUp
<1>1. n \in 1..Len(Script)
  BY DEF PinTypes
<1> QED
  BY <1>1, ScriptEntries DEF SetUp, KeepsOutputs

(***************************************************************************)
(* One entry of the script more: the pins of those before it are kept, for *)
(* an output may be listed again as an input, which only exports it.       *)
(***************************************************************************)
LEMMA ScriptPinStep == ASSUME PinInv, ScriptPin PROVE PinInv'
<1>1. /\ ready + 1 \in 1..Len(Script) /\ ready' = ready + 1
      /\ UNCHANGED <<refused, server, wdiOpen, stat, gpio, val, tool, taken>>
  BY DEF PinInv, PinTypes, ScriptPin, service, gpioTool
<1> DEFINE p == Script[ready + 1].pin
<1>2. p \in Pins /\ Script[ready + 1].dir \in {"in", "out"}
  BY <1>1, ScriptEntries
<1>3. /\ Export(p) \in [Pins -> PinStates]
      /\ p \notin refused => Export(p)[p].exported
      /\ \A q \in Pins : /\ pins[q].exported => Export(p)[q].exported
                         /\ Export(p)[q].dir = pins[q].dir
  BY <1>2, ExportDoes DEF PinInv
<1>4. /\ pins' \in [Pins -> PinStates]
      /\ p \notin refused =>
           /\ pins'[p].exported
           /\ Script[ready + 1].dir = "out" => pins'[p].dir = "out"
      /\ \A q \in Pins : /\ pins[q].exported => pins'[q].exported
                         /\ pins[q].dir = "out" => pins'[q].dir = "out"
  <2>1. CASE Script[ready + 1].dir = "out"
    <3>1. pins' = SetDir(Export(p), p, "out")
      BY <2>1 DEF ScriptPin
    <3>2. /\ SetDir(Export(p), p, "out") \in [Pins -> PinStates]
          /\ Export(p)[p].exported => SetDir(Export(p), p, "out")[p].dir = "out"
          /\ \A q \in Pins :
               /\ SetDir(Export(p), p, "out")[q].exported = Export(p)[q].exported
               /\ q # p => SetDir(Export(p), p, "out")[q].dir = Export(p)[q].dir
      BY <1>2, <1>3, SetDirDoes
    <3>3. Export(p)[p].dir = "out" => SetDir(Export(p), p, "out")[p].dir = "out"
      BY <1>2, <1>3 DEF SetDir
    <3> QED
      BY <1>2, <1>3, <3>1, <3>2, <3>3
  <2>2. CASE Script[ready + 1].dir = "in"
    <3>1. pins' = Export(p)
      BY <2>2 DEF ScriptPin
    <3> QED
      BY <1>3, <2>2, <3>1
  <2> QED
    BY <1>2, <2>1, <2>2
<1>5. PinTypes'
  BY <1>1, <1>4 DEF PinInv, PinTypes
<1>6. SetUp'
  <2> SUFFICES ASSUME NEW n \in 1..ready', Script[n].pin \notin refused
               PROVE  /\ pins'[Script[n].pin].exported
                      /\ Script[n].dir = "out" /\ Script[n].pin \notin taken
                           => pins'[Script[n].pin].dir = "out"
    BY <1>1 DEF SetUp
  <2>1. CASE n = ready + 1
    BY <1>4, <2>1
  <2>2. CASE n \in 1..ready
    <3>1. Script[n].pin \in Pins
      BY <2>2, ScriptEntries DEF PinInv, PinTypes
    <3> QED
      BY <1>4, <2>2, <3>1 DEF PinInv, SetUp
  <2> QED
    BY <1>1, <2>1, <2>2 DEF PinInv, PinTypes
<1>7. ToolTook'
  BY <1>1 DEF PinInv, ToolTook
<1>8. ServerReady'
  BY <1>1 DEF PinInv, PinTypes, ServerReady
<1> QED
  BY <1>5, <1>6, <1>7, <1>8 DEF PinInv

(***************************************************************************)
(* The server starts behind the script, which has set up Wdi.              *)
(***************************************************************************)
LEMMA ServerStartStep == ASSUME PinInv, ServerStart PROVE PinInv'
<1>1. PICK n \in 1..Len(Script) : Script[n] = [pin |-> Wdi, dir |-> "out"]
  <2>1. [pin |-> Wdi, dir |-> "out"] \in {[pin |-> p, dir |-> "out"] : p \in {Led, Wdi}}
    OBVIOUS
  <2> QED
    BY <2>1, PinsAssumption DEF PinsAssumption
<1>2. Wdi \notin refused => pins[Wdi].exported
  BY <1>1 DEF PinInv, SetUp, ServerStart, Booted
<1>3. PinTypes'
  BY PinNames DEF PinInv, PinTypes, PinStates, ServerStart, setup, gpioTool
<1>4. KeepsOutputs /\ UNCHANGED <<refused, ready, taken>>
  BY DEF KeepsOutputs, ServerStart, setup, gpioTool
<1>5. SetUp'
  BY <1>4, SetUpKept DEF PinInv
<1> QED
  BY <1>2, <1>3, <1>5 DEF PinInv, ToolTook, ServerReady, ServerStart, Booted,
                          setup, gpioTool

(***************************************************************************)
(* The other steps of the server.                                          *)
(***************************************************************************)
LEMMA ServerSteps ==
  ASSUME PinInv, ServerDies \/ LedRun \/ WdiStep PROVE PinInv'
<1>1. /\ UNCHANGED <<refused, ready, gpio, val, tool, taken>>
      /\ server' \in {server, FALSE} /\ (server' => wdiOpen' = wdiOpen)
      /\ wdiOpen' \in BOOLEAN
  BY DEF PinInv, PinTypes, ServerDies, LedRun, WdiStep, WdiWrite, WdiSync,
         setup, gpioTool
<1>2. stat' \in [{Led, Wdi} -> {0, 1}]
  BY DEF PinInv, PinTypes, ServerDies, LedRun, WdiStep, WdiWrite, WdiSync,
         Toggled
<1>3. pins' \in [Pins -> PinStates] /\ KeepsOutputs
  <2>1. CASE UNCHANGED pins
    BY <2>1 DEF PinInv, PinTypes, KeepsOutputs
  <2>2. ASSUME NEW p \in {Led, Wdi}, pins' = SetValue(p, stat[p])
        PROVE  pins' \in [Pins -> PinStates] /\ KeepsOutputs
    <3>1. p \in Pins /\ stat[p] \in {0, 1}
      BY PinNames DEF PinInv, PinTypes
    <3> QED
      BY <2>2, <3>1, SetValueDoes DEF PinInv, KeepsOutputs
  <2> QED
    BY <2>1, <2>2 DEF ServerDies, LedRun, WdiStep, WdiWrite, WdiSync
<1>4. PinTypes'
  BY <1>1, <1>2, <1>3 DEF PinInv, PinTypes
<1>5. SetUp'
  BY <1>1, <1>3, SetUpKept DEF PinInv
<1>6. ToolTook'
  BY <1>1 DEF PinInv, ToolTook
<1>7. ServerReady'
  <2>1. server' => server /\ wdiOpen' = wdiOpen
    BY <1>1
  <2> QED
    BY <1>1, <2>1 DEF PinInv, ServerReady
<1> QED
  BY <1>4, <1>5, <1>6, <1>7 DEF PinInv

(***************************************************************************)
(* The tool: only ToolDir makes an input of a pin, of one it has taken.    *)
(***************************************************************************)
LEMMA ToolSteps ==
  ASSUME PinInv, (\E p \in Targets : ToolStart(p)) \/ ToolStep \/ ToolKilled
  PROVE  PinInv'
<1>1. /\ UNCHANGED <<refused, ready, server, wdiOpen, stat>>
      /\ taken \subseteq taken' /\ gpio' \in Pins /\ val' \in {0, 1}
      /\ ToolTook'
  BY PinNames DEF PinInv, PinTypes, ToolTook, ToolStart, ToolStep, ToolExport,
     ToolDir, ToolOpen, ToolLamp, PollTimeout, PollEvent, ToolRead, Report,
     ToolKilled, setup, service
<1>2. pins' \in [Pins -> PinStates] /\ KeepsOutputs
  <2>1. CASE UNCHANGED pins
    BY <2>1 DEF PinInv, PinTypes, KeepsOutputs
  <2>2. CASE ToolExport
    BY <2>2, ExportDoes DEF ToolExport, PinInv, PinTypes, KeepsOutputs
  <2>3. CASE ToolDir
    <3>1. gpio \in taken /\ gpio \in Pins /\ pins' = SetDir(pins, gpio, "in")
          /\ taken' = taken
      BY <2>3 DEF ToolDir, PinInv, PinTypes, ToolTook
    <3>2. /\ SetDir(pins, gpio, "in") \in [Pins -> PinStates]
          /\ \A q \in Pins :
               /\ SetDir(pins, gpio, "in")[q].exported = pins[q].exported
               /\ q # gpio => SetDir(pins, gpio, "in")[q].dir = pins[q].dir
      BY <3>1, SetDirDoes DEF PinInv, PinTypes
    <3> QED
      BY <3>1, <3>2 DEF KeepsOutputs
  <2>4. CASE ToolLamp
    <3>1. Lamp \in Pins /\ pins' = SetDir(Export(Lamp), Lamp, "out")
      BY <2>4, PinNames DEF ToolLamp
    <3>2. /\ Export(Lamp) \in [Pins -> PinStates]
          /\ \A q \in Pins : /\ pins[q].exported => Export(Lamp)[q].exported
                             /\ Export(Lamp)[q].dir = pins[q].dir
      BY <3>1, ExportDoes DEF PinInv
    <3>3. /\ SetDir(Export(Lamp), Lamp, "out") \in [Pins -> PinStates]
          /\ Export(Lamp)[Lamp].exported
               => SetDir(Export(Lamp), Lamp, "out")[Lamp].dir = "out"
          /\ \A q \in Pins :
               /\ SetDir(Export(Lamp), Lamp, "out")[q].exported
                    = Export(Lamp)[q].exported
               /\ q # Lamp => SetDir(Export(Lamp), Lamp, "out")[q].dir
                                = Export(Lamp)[q].dir
      BY <3>1, <3>2, SetDirDoes
    <3> QED
      BY <3>1, <3>2, <3>3 DEF KeepsOutputs
  <2>5. CASE PollTimeout \/ Report
    <3>1. PICK v \in {0, 1} : pins' = SetValue(Lamp, v)
      BY <2>5 DEF PollTimeout, Report, PinInv, PinTypes
    <3> QED
      BY <3>1, PinNames, SetValueDoes DEF PinInv, KeepsOutputs
  <2> QED
    BY <2>1, <2>2, <2>3, <2>4, <2>5
       DEF ToolStart, ToolStep, ToolOpen, PollEvent, ToolRead, ToolKilled
<1>3. PinTypes'
  BY <1>1, <1>2 DEF PinInv, PinTypes
<1>4. SetUp'
  BY <1>1, <1>2, SetUpKept DEF PinInv
<1> QED
  BY <1>1, <1>3, <1>4 DEF PinInv, ServerReady

LEMMA EdgeStep == ASSUME PinInv, NEW p \in Pins, Edge(p) PROVE PinInv'
<1>1. /\ UNCHANGED <<refused, ready, server, wdiOpen, stat, tool, gpio, val, taken>>
      /\ pins' = [pins EXCEPT ![p].level = 1 - @]
  BY DEF Edge, setup, service
<1>2. pins' \in [Pins -> PinStates] /\ KeepsOutputs
  BY <1>1 DEF PinInv, PinTypes, PinStates, KeepsOutputs
<1>3. SetUp'
  BY <1>1, <1>2, SetUpKept DEF PinInv
<1> QED
  BY <1>1, <1>2, <1>3 DEF PinInv, PinTypes, ToolTook, ServerReady

LEMMA PinsInductive == PinsSpec => []PinInv
<1>1. ASSUME PinsInit PROVE PinInv
  <2>1. Len(Script) \in Nat
    BY PinsAssumption DEF PinsAssumption
  <2>2. pins \in [Pins -> PinStates]
    <3>1. \A l \in {0, 1} : [exported |-> FALSE, dir |-> "in", level |-> l] \in PinStates
      BY DEF PinStates
    <3> QED
      BY <1>1, <3>1 DEF PinsInit
  <2>3. stat \in [{Led, Wdi} -> {0, 1}]
    BY <1>1 DEF PinsInit
  <2>4. refused \subseteq Pins /\ gpio \in Pins
    BY <1>1, PinNames DEF PinsInit
  <2>5. ready \in 0..Len(Script) /\ val \in {0, 1}
    BY <1>1, <2>1 DEF PinsInit
  <2>6. server \in BOOLEAN /\ wdiOpen \in BOOLEAN
    BY <1>1 DEF PinsInit
  <2>7. PinTypes
    BY <2>2, <2>3, <2>4, <2>5, <2>6 DEF PinTypes
  <2>8. SetUp /\ ToolTook /\ ServerReady
    BY <1>1 DEF PinsInit, SetUp, ToolTook, ServerReady
  <2> QED
    BY <2>7, <2>8 DEF PinInv
<1>2. PinInv /\ [PinsNext]_pinsVars => PinInv'
  <2>1. ASSUME PinInv, UNCHANGED pinsVars PROVE PinInv'
    BY <2>1 DEF pinsVars, setup, service, gpioTool, PinInv, PinTypes, SetUp,
                ToolTook, ServerReady
  <2> QED
    BY <2>1, ScriptPinStep, ServerStartStep, ServerSteps, ToolSteps, EdgeStep
       DEF PinsNext
<1> QED
  BY <1>1, <1>2, PTL DEF PinsSpec

(***************************************************************************)
(* Every output of the script that has been dealt with can be written to,  *)
(* unless a driver held it or the tool was started on it: nothing else     *)
(* that runs on the board takes a pin away, and neither a second server    *)
(* nor a second start of the tool on another pin does.                     *)
(***************************************************************************)
OutputsUsable ==
  \A n \in 1..ready :
    Script[n].dir = "out" /\ Script[n].pin \notin refused \cup taken
      => Usable(Script[n].pin)

THEOREM Outputs == PinsSpec => []OutputsUsable
<1>1. PinInv => OutputsUsable
  BY DEF PinInv, SetUp, OutputsUsable, Usable
<1> QED
  BY <1>1, PinsInductive, PTL

(***************************************************************************)
(* The watchdog's thread never writes in vain unless a driver held the pin *)
(* or the tool was run on it.                                              *)
(***************************************************************************)
THEOREM Fed == PinsSpec => []FedUnlessTaken
<1>1. PinInv => FedUnlessTaken
  <2>1. PICK n \in 1..Len(Script) : Script[n] = [pin |-> Wdi, dir |-> "out"]
    <3>1. [pin |-> Wdi, dir |-> "out"] \in {[pin |-> p, dir |-> "out"] : p \in {Led, Wdi}}
      OBVIOUS
    <3> QED
      BY <3>1, PinsAssumption DEF PinsAssumption
  <2> QED
    BY <2>1 DEF PinInv, SetUp, ServerReady, FedUnlessTaken, Usable
<1> QED
  BY <1>1, PinsInductive, PTL
=============================================================================
