---------------------------- MODULE PulseProofs ----------------------------
(***************************************************************************)
(* Proofs about the kernel modules.  First the pulse driver (Pulse), for   *)
(* any set of processes, any TIMER_OUT_CNT, any disable depth and each     *)
(* kind of kernel: TypeInv is inductive by itself, and each further        *)
(* invariant is inductive relative to it and carries one property.  Then,  *)
(* from LoadInv on, the drivers that only register devices (ModLoad).      *)
(***************************************************************************)
EXTENDS Pulse, ModLoad, SequenceTheorems, TLAPS

\* One-line pieces of the actions, always expanded.
USE DEF InitialRecord, Masked, PulseIrqHandler, Counting, Opposite, KeepaliveReset

(***************************************************************************)
(* A process is inside the driver only while the device node exists.       *)
(***************************************************************************)
FilesNeedNode == opening \cup holders # {} => NodeExists
(***************************************************************************)
(* The disable depth while no process can reach the driver: what bounds it *)
(* when the first ioctl comes.                                             *)
(***************************************************************************)
DepthBeforeNode ==
  /\ phase \in {"absent", "gpo", "released"} => depth = 1
  /\ phase = "window" => depth <= 1
TypeInv == TypeOK /\ FilesNeedNode /\ DepthBeforeNode

\* Nothing is due while no handler is registered for the module's memory.
QuietWhenAbsent ==
  phase \in {"absent", "gpo"} /\ ~oops => ~sched /\ pc = "idle"

Fresh == ~sched /\ ~missed
(***************************************************************************)
(* The tasklet's local copy is the input level as long as no edge has come *)
(* since it was taken (an edge schedules the tasklet again or is counted   *)
(* as missed), and what the tasklet has stored so far is that copy unless  *)
(* the timer stepped in.                                                   *)
(***************************************************************************)
MirrorInv ==
  /\ QuietWhenAbsent
  /\ pc \in {"drive", "record", "rewrite", "rearm"} /\ Fresh => ret = in
  /\ pc \in {"record", "rewrite", "rearm"} /\ ~toggled /\ gpoOk => out = ret
  /\ pc = "rearm" /\ ~toggled => val = ret
  /\ Settled => val = in /\ (gpoOk => out = in)

(***************************************************************************)
(* Only between Drive and the last store of gpo.val is the pin allowed to  *)
(* differ from the record without a race.                                  *)
(***************************************************************************)
RecordInv ==
  /\ QuietWhenAbsent
  /\ pc \in {"record", "rewrite"} /\ gpoOk /\ ~raced => out = ret
  /\ pc \notin {"record", "rewrite"} /\ gpoOk /\ ~raced /\ phase # "absent"
       => out = val

(***************************************************************************)
(* A quiet driver has counted no more periods than have passed since the   *)
(* last edge.                                                              *)
(***************************************************************************)
CountInv == ~oops /\ pc = "idle" /\ ~sched => keepalive <= sinceEdge

(***************************************************************************)
(* Unless somebody stopped a stopped interrupt, the depth is at most one.  *)
(***************************************************************************)
StopInv ==
  irqOk /\ ~overStop =>
    /\ phase = "window" => depth = 0
    /\ depth <= 1

(***************************************************************************)
(* Without preemption, a process past the test of opened is alone.         *)
(***************************************************************************)
OpenInv == ~Preemptible => /\ opening # {} => holders = {}
                           /\ \A p, q \in opening \cup holders : p = q
                           /\ opened <=> holders # {}

(***************************************************************************)
(* Nothing is due between disable_irq and hrtimer_init unless a process    *)
(* can open the device.                                                    *)
(***************************************************************************)
Unreached ==
  phase = "masked" \/ (phase = "visible" /\ pulseDev # "node")
DieInv ==
  /\ QuietWhenAbsent
  /\ DiesOnlyInWindows
  /\ ~DeferSoftirq /\ Unreached /\ ~oops =>
       ~sched /\ pc = "idle" /\ (irqOk => depth > 0)

(***************************************************************************)
(* What the four calls that make the device node can leave.                *)
(***************************************************************************)
LEMMA NodeFacts ==
  ASSUME NEW refused \in SUBSET NodeCalls, NodeCreate(refused)
  PROVE  /\ pulseDev' \in {"node", "unreachable", "error"}
         /\ oops' \in BOOLEAN /\ (oops' => pulseDev' = "error" \/ oops)
<1>1. CASE refused = {}
  <2>1. pulseDev' = "node"
    BY <1>1 DEF NodeCreate, Created
  <2>2. "class_create" \notin refused
    BY <1>1
  <2>3. oops' = FALSE
    BY <2>2, Zenon DEF NodeCreate
  <2> QED BY <2>1, <2>3
<1>2. CASE refused # {} /\ refused \cap {"class_create", "device_create"} # {}
  <2>1. pulseDev' = "error"
    BY <1>2 DEF NodeCreate, Created
  <2>2. oops' \in BOOLEAN
    BY Zenon DEF NodeCreate
  <2> QED BY <2>1, <2>2
<1>3. CASE refused # {} /\ refused \cap {"class_create", "device_create"} = {}
  <2>1. pulseDev' = "unreachable"
    BY <1>3 DEF NodeCreate, Created
  <2>2. "class_create" \notin refused
    BY <1>3
  <2>3. oops' = FALSE
    BY <2>2, Zenon DEF NodeCreate
  <2> QED BY <2>1, <2>3
<1> QED BY <1>1, <1>2, <1>3

(***************************************************************************)
(* Every step preserves TypeInv; each action disturbs only the groups of   *)
(* variables its first sub-steps name.                                     *)
(***************************************************************************)
LEMMA TypeInvStep == ASSUME TypeInv, [Next]_vars PROVE TypeInv'
<1> USE PulseAssumption DEF TypeInv, TypeOK, driver, tasklet, files,
     module, history
<1>1. ASSUME NEW ok \in BOOLEAN, GpoInit(ok) PROVE TypeInv'
  <2>1. ModuleTypeOK' BY <1>1 DEF GpoInit, ModuleTypeOK, KernelContext, Phases
  <2>2. PinTypeOK' BY <1>1 DEF GpoInit, PinTypeOK, KernelContext, Level
  <2>3. FileTypeOK' BY <1>1 DEF GpoInit, FileTypeOK, KernelContext
  <2>4. HistoryTypeOK' BY <1>1 DEF GpoInit, HistoryTypeOK, KernelContext
  <2>5. TaskletTypeOK'
    BY <1>1 DEF GpoInit, TaskletTypeOK
  <2>6. FilesNeedNode' /\ DepthBeforeNode'
    BY <1>1 DEF GpoInit, FilesNeedNode, DepthBeforeNode, NodeExists,
         ModuleTypeOK, KernelContext
  <2> QED BY <2>1, <2>2, <2>3, <2>4, <2>5, <2>6
<1>2. ASSUME NEW ok \in BOOLEAN, IrqRequest(ok) PROVE TypeInv'
  <2>1. ModuleTypeOK'
    BY <1>2 DEF IrqRequest, ModuleTypeOK, KernelContext, Phases
  <2>2. PinTypeOK' /\ TaskletTypeOK' /\ FileTypeOK' /\ HistoryTypeOK'
    BY <1>2 DEF IrqRequest, PinTypeOK, TaskletTypeOK, FileTypeOK,
         HistoryTypeOK
  <2>3. FilesNeedNode' /\ DepthBeforeNode'
    BY <1>2 DEF IrqRequest, FilesNeedNode, DepthBeforeNode, NodeExists,
         ModuleTypeOK, KernelContext
  <2> QED BY <2>1, <2>2, <2>3
<1>3. ASSUME IrqMask PROVE TypeInv'
  <2>1. ModuleTypeOK'
    BY <1>3 DEF IrqMask, ModuleTypeOK, KernelContext, Phases, DepthBeforeNode
  <2>2. PinTypeOK' /\ TaskletTypeOK' /\ FileTypeOK' /\ HistoryTypeOK'
    BY <1>3 DEF IrqMask, PinTypeOK, TaskletTypeOK, FileTypeOK, HistoryTypeOK
  <2>3. FilesNeedNode' /\ DepthBeforeNode'
    BY <1>3 DEF IrqMask, FilesNeedNode, DepthBeforeNode, NodeExists,
         ModuleTypeOK, KernelContext
  <2> QED BY <2>1, <2>2, <2>3
<1>4. ASSUME NEW refused \in SUBSET NodeCalls, NodeCreate(refused) PROVE TypeInv'
  <2>1. ModuleTypeOK'
    BY <1>4, NodeFacts DEF NodeCreate, ModuleTypeOK, KernelContext, Phases,
         DeviceStates
  <2>2. HistoryTypeOK'
    BY <1>4, NodeFacts DEF NodeCreate, HistoryTypeOK
  <2>3. PinTypeOK' /\ TaskletTypeOK' /\ FileTypeOK'
    BY <1>4 DEF NodeCreate, PinTypeOK, TaskletTypeOK, FileTypeOK
  <2>4. FilesNeedNode' /\ DepthBeforeNode'
    BY <1>4 DEF NodeCreate, FilesNeedNode, DepthBeforeNode, NodeExists,
         ModuleTypeOK, KernelContext
  <2> QED BY <2>1, <2>2, <2>3, <2>4
<1>5. ASSUME TimerStart PROVE TypeInv'
  <2>1. ModuleTypeOK'
    BY <1>5 DEF TimerStart, ModuleTypeOK, KernelContext, Phases
  <2>2. PinTypeOK' BY <1>5 DEF TimerStart, PinTypeOK, KernelContext, Level
  <2>3. TaskletTypeOK' /\ FileTypeOK' /\ HistoryTypeOK'
    BY <1>5 DEF TimerStart, TaskletTypeOK, FileTypeOK, HistoryTypeOK
  <2>4. FilesNeedNode' /\ DepthBeforeNode'
    BY <1>5 DEF TimerStart, FilesNeedNode, DepthBeforeNode, NodeExists,
         ModuleTypeOK, KernelContext
  <2> QED BY <2>1, <2>2, <2>3, <2>4
<1>6. ASSUME TimerCancel PROVE TypeInv'
  <2>1. ModuleTypeOK'
    BY <1>6 DEF TimerCancel, ModuleTypeOK, KernelContext, Phases
  <2>2. PinTypeOK' /\ TaskletTypeOK' /\ FileTypeOK' /\ HistoryTypeOK'
    BY <1>6 DEF TimerCancel, PinTypeOK, TaskletTypeOK, FileTypeOK,
         HistoryTypeOK
  <2>3. FilesNeedNode' /\ DepthBeforeNode'
    BY <1>6 DEF TimerCancel, FilesNeedNode, DepthBeforeNode, NodeExists,
         ModuleTypeOK, KernelContext
  <2> QED BY <2>1, <2>2, <2>3
<1>7. ASSUME IrqRelease PROVE TypeInv'
  <2>1. ModuleTypeOK'
    BY <1>7 DEF IrqRelease, ModuleTypeOK, KernelContext, Phases
  <2>2. PinTypeOK' /\ TaskletTypeOK' /\ FileTypeOK' /\ HistoryTypeOK'
    BY <1>7 DEF IrqRelease, PinTypeOK, TaskletTypeOK, FileTypeOK,
         HistoryTypeOK
  <2>3. FilesNeedNode' /\ DepthBeforeNode'
    BY <1>7 DEF IrqRelease, FilesNeedNode, DepthBeforeNode, NodeExists,
         ModuleTypeOK, KernelContext
  <2> QED BY <2>1, <2>2, <2>3
<1>8. ASSUME ModuleFree PROVE TypeInv'
  <2>1. ModuleTypeOK'
    BY <1>8 DEF ModuleFree, ModuleTypeOK, KernelContext, Phases, DeviceStates
  <2>2. HistoryTypeOK' BY <1>8 DEF ModuleFree, HistoryTypeOK, KernelContext
  <2>3. PinTypeOK' /\ TaskletTypeOK' /\ FileTypeOK'
    BY <1>8 DEF ModuleFree, PinTypeOK, TaskletTypeOK, FileTypeOK
  <2>4. FilesNeedNode' /\ DepthBeforeNode'
    BY <1>8 DEF ModuleFree, FilesNeedNode, DepthBeforeNode, NodeExists,
         ModuleTypeOK, KernelContext
  <2> QED BY <2>1, <2>2, <2>3, <2>4
<1>23. ASSUME UnregisterDies PROVE TypeInv'
  <2>1. HistoryTypeOK' BY <1>23 DEF UnregisterDies, HistoryTypeOK
  <2>2. ModuleTypeOK' /\ PinTypeOK' /\ TaskletTypeOK' /\ FileTypeOK'
    BY <1>23 DEF UnregisterDies, ModuleTypeOK, PinTypeOK, TaskletTypeOK,
         FileTypeOK
  <2>3. FilesNeedNode' /\ DepthBeforeNode'
    BY <1>23 DEF UnregisterDies, FilesNeedNode, DepthBeforeNode, NodeExists
  <2> QED BY <2>1, <2>2, <2>3
<1>9. ASSUME NEW p \in Procs, OpenTest(p) PROVE TypeInv'
  <2>1. FileTypeOK' BY <1>9 DEF OpenTest, FileTypeOK, ProcessContext
  <2>2. ModuleTypeOK' /\ PinTypeOK' /\ TaskletTypeOK' /\ HistoryTypeOK'
    BY <1>9 DEF OpenTest, ModuleTypeOK, PinTypeOK, TaskletTypeOK,
         HistoryTypeOK
  <2>3. FilesNeedNode' /\ DepthBeforeNode'
    BY <1>9 DEF OpenTest, FilesNeedNode, DepthBeforeNode, NodeExists,
         ModuleTypeOK, ProcessContext
  <2> QED BY <2>1, <2>2, <2>3
<1>10. ASSUME NEW p \in Procs, OpenSet(p) PROVE TypeInv'
  <2>1. FileTypeOK' BY <1>10 DEF OpenSet, FileTypeOK, ProcessContext
  <2>2. ModuleTypeOK' /\ PinTypeOK' /\ TaskletTypeOK' /\ HistoryTypeOK'
    BY <1>10 DEF OpenSet, ModuleTypeOK, PinTypeOK, TaskletTypeOK,
         HistoryTypeOK
  <2>3. FilesNeedNode' /\ DepthBeforeNode'
    BY <1>10 DEF OpenSet, FilesNeedNode, DepthBeforeNode, NodeExists,
         ModuleTypeOK, ProcessContext
  <2> QED BY <2>1, <2>2, <2>3
<1>11. ASSUME NEW p \in Procs, Release(p) PROVE TypeInv'
  <2>1. FileTypeOK' BY <1>11 DEF Release, FileTypeOK, ProcessContext
  <2>2. ModuleTypeOK' /\ PinTypeOK' /\ TaskletTypeOK' /\ HistoryTypeOK'
    BY <1>11 DEF Release, ModuleTypeOK, PinTypeOK, TaskletTypeOK,
         HistoryTypeOK
  <2>3. FilesNeedNode' /\ DepthBeforeNode'
    BY <1>11 DEF Release, FilesNeedNode, DepthBeforeNode, NodeExists,
         ModuleTypeOK, ProcessContext
  <2> QED BY <2>1, <2>2, <2>3
<1>12. ASSUME NEW p \in Procs, IrqStart(p) PROVE TypeInv'
  <2>1. ModuleTypeOK'
    BY <1>12 DEF IrqStart, ModuleTypeOK, ProcessContext, Phases
  <2>2. TaskletTypeOK' BY <1>12 DEF IrqStart, TaskletTypeOK, TaskletSteps
  <2>3. HistoryTypeOK' BY <1>12 DEF IrqStart, HistoryTypeOK, ProcessContext
  <2>4. PinTypeOK' /\ FileTypeOK'
    BY <1>12 DEF IrqStart, PinTypeOK, FileTypeOK
  <2>5. FilesNeedNode' /\ DepthBeforeNode'
    BY <1>12 DEF IrqStart, FilesNeedNode, DepthBeforeNode, NodeExists,
         ModuleTypeOK, ProcessContext
  <2> QED BY <2>1, <2>2, <2>3, <2>4, <2>5
<1>13. ASSUME NEW p \in Procs, IrqStop(p) PROVE TypeInv'
  <2>1. ModuleTypeOK'
    BY <1>13 DEF IrqStop, ModuleTypeOK, ProcessContext, Phases
  <2>2. HistoryTypeOK' BY <1>13 DEF IrqStop, HistoryTypeOK, ProcessContext
  <2>3. PinTypeOK' /\ TaskletTypeOK' /\ FileTypeOK'
    BY <1>13 DEF IrqStop, PinTypeOK, TaskletTypeOK, FileTypeOK
  <2>4. FilesNeedNode' /\ DepthBeforeNode'
    BY <1>13 DEF IrqStop, FilesNeedNode, DepthBeforeNode, NodeExists,
         ModuleTypeOK, ProcessContext
  <2> QED BY <2>1, <2>2, <2>3, <2>4
<1>14. ASSUME Edge PROVE TypeInv'
  <2>1. ASSUME HandlerRegistered /\ depth = 0
        PROVE  TaskletTypeOK' /\ HistoryTypeOK'
    BY <1>14, <2>1 DEF Edge, TaskletTypeOK, HistoryTypeOK
  <2>2. ASSUME ~(HandlerRegistered /\ depth = 0)
        PROVE  TaskletTypeOK' /\ HistoryTypeOK'
    BY <1>14, <2>2 DEF Edge, TaskletTypeOK, HistoryTypeOK
  <2>3. TaskletTypeOK' /\ HistoryTypeOK' BY <2>1, <2>2
  <2>4. PinTypeOK' BY <1>14 DEF Edge, PinTypeOK, Level
  <2>5. ModuleTypeOK' /\ FileTypeOK'
    BY <1>14 DEF Edge, ModuleTypeOK, FileTypeOK
  <2>6. FilesNeedNode' /\ DepthBeforeNode'
    BY <1>14 DEF Edge, FilesNeedNode, DepthBeforeNode, NodeExists,
         ModuleTypeOK, HandlerRegistered
  <2> QED BY <2>1, <2>2, <2>3, <2>4, <2>5, <2>6
<1>15. ASSUME TimerTick PROVE TypeInv'
  <2>1. sinceEdge' \in 0..(TimerOutCnt + 1)
    BY <1>15 DEF TimerTick, HistoryTypeOK
  <2>2. ASSUME CountPeriod PROVE PinTypeOK' /\ HistoryTypeOK'
    BY <1>15, <2>1, <2>2 DEF TimerTick, CountPeriod, PinTypeOK, HistoryTypeOK
  <2>3. ASSUME Toggle PROVE PinTypeOK' /\ HistoryTypeOK'
    <3>1. val' \in Level BY <2>3 DEF Toggle, Level
    <3>2. out' \in Level BY <2>3, <3>1 DEF Toggle, Driven, PinTypeOK
    <3>3. PinTypeOK'
      BY <1>15, <2>3, <3>1, <3>2 DEF TimerTick, Toggle, PinTypeOK
    <3>4. raced' \in BOOLEAN BY <2>3 DEF Toggle
    <3>5. HistoryTypeOK'
      BY <1>15, <2>1, <2>3, <3>4 DEF TimerTick, Toggle, HistoryTypeOK
    <3> QED BY <3>3, <3>5
  <2>4. PinTypeOK' /\ HistoryTypeOK' BY <1>15, <2>2, <2>3 DEF TimerTick
  <2>5. ModuleTypeOK' /\ TaskletTypeOK' /\ FileTypeOK'
    BY <1>15 DEF TimerTick, ModuleTypeOK, TaskletTypeOK, FileTypeOK
  <2>6. FilesNeedNode' /\ DepthBeforeNode'
    BY <1>15 DEF TimerTick, FilesNeedNode, DepthBeforeNode, NodeExists,
         ModuleTypeOK, CountPeriod, Toggle, Driven
  <2> QED BY <2>1, <2>2, <2>3, <2>4, <2>5, <2>6
<1>16. ASSUME TaskletEnter PROVE TypeInv'
  <2>1. TaskletTypeOK' BY <1>16 DEF TaskletEnter, TaskletTypeOK, TaskletSteps
  <2>2. ModuleTypeOK' /\ PinTypeOK' /\ FileTypeOK' /\ HistoryTypeOK'
    BY <1>16 DEF TaskletEnter, ModuleTypeOK, PinTypeOK, FileTypeOK,
         HistoryTypeOK
  <2>3. FilesNeedNode' /\ DepthBeforeNode'
    BY <1>16 DEF TaskletEnter, FilesNeedNode, DepthBeforeNode,
         NodeExists, ModuleTypeOK
  <2> QED BY <2>1, <2>2, <2>3
<1>17. ASSUME Sample PROVE TypeInv'
  <2>1. PinTypeOK' BY <1>17 DEF Sample, PinTypeOK, Level
  <2>2. TaskletTypeOK' BY <1>17 DEF Sample, TaskletTypeOK, TaskletSteps
  <2>3. HistoryTypeOK' BY <1>17 DEF Sample, HistoryTypeOK
  <2>4. ModuleTypeOK' /\ FileTypeOK'
    BY <1>17 DEF Sample, ModuleTypeOK, FileTypeOK
  <2>5. FilesNeedNode' /\ DepthBeforeNode'
    BY <1>17 DEF Sample, FilesNeedNode, DepthBeforeNode, NodeExists,
         ModuleTypeOK
  <2> QED BY <2>1, <2>2, <2>3, <2>4, <2>5
<1>18. ASSUME Drive PROVE TypeInv'
  <2>1. PinTypeOK' BY <1>18 DEF Drive, PinTypeOK, Driven, Level
  <2>2. TaskletTypeOK' BY <1>18 DEF Drive, TaskletTypeOK, TaskletSteps
  <2>3. HistoryTypeOK' BY <1>18 DEF Drive, HistoryTypeOK, Driven
  <2>4. ModuleTypeOK' /\ FileTypeOK'
    BY <1>18 DEF Drive, ModuleTypeOK, FileTypeOK
  <2>5. FilesNeedNode' /\ DepthBeforeNode'
    BY <1>18 DEF Drive, FilesNeedNode, DepthBeforeNode, NodeExists,
         ModuleTypeOK, Driven
  <2> QED BY <2>1, <2>2, <2>3, <2>4, <2>5
<1>19. ASSUME Record PROVE TypeInv'
  <2>1. PinTypeOK' BY <1>19 DEF Record, PinTypeOK, Level
  <2>2. TaskletTypeOK' BY <1>19 DEF Record, TaskletTypeOK, TaskletSteps
  <2>3. ModuleTypeOK' /\ FileTypeOK' /\ HistoryTypeOK'
    BY <1>19 DEF Record, ModuleTypeOK, FileTypeOK, HistoryTypeOK
  <2>4. FilesNeedNode' /\ DepthBeforeNode'
    BY <1>19 DEF Record, FilesNeedNode, DepthBeforeNode, NodeExists,
         ModuleTypeOK
  <2> QED BY <2>1, <2>2, <2>3, <2>4
<1>20. ASSUME Rewrite PROVE TypeInv'
  <2>1. PinTypeOK' BY <1>20 DEF Rewrite, PinTypeOK, Level
  <2>2. TaskletTypeOK' BY <1>20 DEF Rewrite, TaskletTypeOK, TaskletSteps
  <2>3. ModuleTypeOK' /\ FileTypeOK' /\ HistoryTypeOK'
    BY <1>20 DEF Rewrite, ModuleTypeOK, FileTypeOK, HistoryTypeOK
  <2>4. FilesNeedNode' /\ DepthBeforeNode'
    BY <1>20 DEF Rewrite, FilesNeedNode, DepthBeforeNode, NodeExists,
         ModuleTypeOK
  <2> QED BY <2>1, <2>2, <2>3, <2>4
<1>21. ASSUME Rearm PROVE TypeInv'
  <2>1. PinTypeOK' BY <1>21 DEF Rearm, PinTypeOK, TimerInitialised, Level
  <2>2. TaskletTypeOK' BY <1>21 DEF Rearm, TaskletTypeOK, TaskletSteps
  <2>3. HistoryTypeOK' BY <1>21 DEF Rearm, HistoryTypeOK, TimerInitialised
  <2>4. ModuleTypeOK' /\ FileTypeOK'
    BY <1>21 DEF Rearm, ModuleTypeOK, FileTypeOK
  <2>5. FilesNeedNode' /\ DepthBeforeNode'
    BY <1>21 DEF Rearm, FilesNeedNode, DepthBeforeNode, NodeExists,
         ModuleTypeOK, TimerInitialised
  <2> QED BY <2>1, <2>2, <2>3, <2>4, <2>5
<1>22. CASE UNCHANGED vars
  BY <1>22 DEF vars, FilesNeedNode, DepthBeforeNode, NodeExists,
             ModuleTypeOK, PinTypeOK, TaskletTypeOK, FileTypeOK, HistoryTypeOK
<1> QED
  BY <1>1, <1>2, <1>3, <1>4, <1>5, <1>6, <1>7, <1>8, <1>9, <1>10, <1>11,
       <1>12, <1>13, <1>14, <1>15, <1>16, <1>17, <1>18, <1>19, <1>20, <1>21,
       <1>22, <1>23 DEF Next, ModuleStep, FileStep, TaskletStep

(***************************************************************************)
(* Every step preserves MirrorInv.                                         *)
(***************************************************************************)
LEMMA MirrorInvStep == ASSUME TypeInv, MirrorInv, [Next]_vars PROVE MirrorInv'
<1> USE PulseAssumption DEF TypeInv, MirrorInv, QuietWhenAbsent, Settled,
     Fresh, FilesNeedNode, NodeExists, TypeOK, PinTypeOK, Level, driver,
     tasklet, files, module, history
<1>1. ASSUME ModuleStep PROVE MirrorInv'
  <2>1. ASSUME NEW refused \in SUBSET NodeCalls, NodeCreate(refused)
        PROVE  MirrorInv'
    BY <2>1, NodeFacts DEF NodeCreate, KernelContext
  <2>2. CASE ~ \E refused \in SUBSET NodeCalls : NodeCreate(refused)
    BY <1>1, <2>2 DEF ModuleStep, GpoInit, IrqRequest, IrqMask, TimerStart,
         TimerCancel, IrqRelease, UnregisterDies, ModuleFree, KernelContext
  <2> QED BY <2>1, <2>2
<1>2. ASSUME NEW p \in Procs, FileStep(p) PROVE MirrorInv'
  BY <1>2 DEF FileStep, OpenTest, MayOpen, OpenSet, Release, IrqStart, IrqStop,
               ProcessContext
<1>3. ASSUME Edge PROVE MirrorInv'
  BY <1>3 DEF Edge, HandlerRegistered
<1>4. ASSUME TimerTick PROVE MirrorInv'
  BY <1>4 DEF TimerTick, CountPeriod, Toggle, Driven
<1>5. ASSUME TaskletStep PROVE MirrorInv'
  BY <1>5 DEF TaskletStep, TaskletEnter, Sample, Drive, Record, Rewrite,
               Rearm, TimerInitialised, Driven
<1>6. CASE UNCHANGED vars
  BY <1>6 DEF vars
<1> QED BY <1>1, <1>2, <1>3, <1>4, <1>5, <1>6 DEF Next

(***************************************************************************)
(* Every step preserves RecordInv.                                         *)
(***************************************************************************)
LEMMA RecordInvStep == ASSUME TypeInv, RecordInv, [Next]_vars PROVE RecordInv'
<1> USE PulseAssumption DEF TypeInv, RecordInv, QuietWhenAbsent,
     FilesNeedNode, NodeExists, TypeOK, PinTypeOK, Level, driver, tasklet,
     files, module, history
<1>1. ASSUME ModuleStep PROVE RecordInv'
  <2>1. ASSUME NEW refused \in SUBSET NodeCalls, NodeCreate(refused)
        PROVE  RecordInv'
    BY <2>1, NodeFacts DEF NodeCreate, KernelContext
  <2>2. CASE ~ \E refused \in SUBSET NodeCalls : NodeCreate(refused)
    BY <1>1, <2>2 DEF ModuleStep, GpoInit, IrqRequest, IrqMask, TimerStart,
         TimerCancel, IrqRelease, UnregisterDies, ModuleFree, KernelContext
  <2> QED BY <2>1, <2>2
<1>2. ASSUME NEW p \in Procs, FileStep(p) PROVE RecordInv'
  BY <1>2 DEF FileStep, OpenTest, MayOpen, OpenSet, Release, IrqStart, IrqStop,
               ProcessContext
<1>3. ASSUME Edge PROVE RecordInv'
  BY <1>3 DEF Edge, HandlerRegistered
<1>4. ASSUME TimerTick PROVE RecordInv'
  <2>1. CASE CountPeriod
    BY <1>4, <2>1 DEF TimerTick, CountPeriod
  <2>2. CASE Toggle /\ pc \in {"record", "rewrite"}
    BY <1>4, <2>2 DEF TimerTick, Toggle
  <2>3. CASE Toggle /\ pc \notin {"record", "rewrite"}
    <3>1. raced' <=> raced BY <2>3 DEF Toggle
    <3> QED BY <1>4, <2>3, <3>1 DEF TimerTick, Toggle, Driven
  <2> QED BY <1>4, <2>1, <2>2, <2>3 DEF TimerTick
<1>5. ASSUME TaskletStep PROVE RecordInv'
  BY <1>5 DEF TaskletStep, TaskletEnter, Sample, Drive, Record, Rewrite,
               Rearm, TimerInitialised, Driven
<1>6. CASE UNCHANGED vars
  BY <1>6 DEF vars
<1> QED BY <1>1, <1>2, <1>3, <1>4, <1>5, <1>6 DEF Next

(***************************************************************************)
(* Every step preserves CountInv.                                          *)
(***************************************************************************)
LEMMA CountInvStep == ASSUME TypeInv, CountInv, [Next]_vars PROVE CountInv'
<1> USE PulseAssumption DEF TypeInv, CountInv, TypeOK, PinTypeOK,
     HistoryTypeOK, driver, tasklet, files, module, history
<1>1. ASSUME ModuleStep PROVE CountInv'
  <2>1. ASSUME NEW refused \in SUBSET NodeCalls, NodeCreate(refused)
        PROVE  CountInv'
    BY <2>1, NodeFacts DEF NodeCreate, KernelContext
  <2>2. CASE ~ \E refused \in SUBSET NodeCalls : NodeCreate(refused)
    BY <1>1, <2>2 DEF ModuleStep, GpoInit, IrqRequest, IrqMask, TimerStart,
         TimerCancel, IrqRelease, UnregisterDies, ModuleFree, KernelContext
  <2> QED BY <2>1, <2>2
<1>2. ASSUME NEW p \in Procs, FileStep(p) PROVE CountInv'
  BY <1>2 DEF FileStep, OpenTest, MayOpen, OpenSet, Release, IrqStart, IrqStop,
               ProcessContext
<1>3. ASSUME Edge PROVE CountInv'
  BY <1>3 DEF Edge, HandlerRegistered
<1>4. ASSUME TimerTick PROVE CountInv'
  BY <1>4 DEF TimerTick, CountPeriod, Toggle, Driven
<1>5. ASSUME TaskletStep PROVE CountInv'
  BY <1>5 DEF TaskletStep, TaskletEnter, Sample, Drive, Record, Rewrite,
               Rearm, TimerInitialised, Driven
<1>6. CASE UNCHANGED vars
  BY <1>6 DEF vars
<1> QED BY <1>1, <1>2, <1>3, <1>4, <1>5, <1>6 DEF Next

(***************************************************************************)
(* Every step preserves StopInv.                                           *)
(***************************************************************************)
LEMMA StopInvStep == ASSUME TypeInv, StopInv, [Next]_vars PROVE StopInv'
<1> USE PulseAssumption DEF TypeInv, StopInv, TypeOK, ModuleTypeOK,
     FilesNeedNode, DepthBeforeNode, NodeExists, driver, tasklet, files,
     module, history
<1>1. ASSUME ModuleStep PROVE StopInv'
  <2>1. ASSUME NEW ok \in BOOLEAN, IrqRequest(ok) PROVE StopInv'
    BY <2>1 DEF IrqRequest
  <2>2. CASE IrqMask
    BY <2>2 DEF IrqMask
  <2>3. CASE IrqRelease
    BY <2>3 DEF IrqRelease
  <2>4. CASE \/ \E ok \in BOOLEAN : GpoInit(ok)
             \/ \E refused \in SUBSET NodeCalls : NodeCreate(refused)
             \/ TimerStart \/ TimerCancel \/ UnregisterDies \/ ModuleFree
    BY <2>4 DEF GpoInit, NodeCreate, TimerStart, TimerCancel, UnregisterDies,
         ModuleFree
  <2> QED BY <1>1, <2>1, <2>2, <2>3, <2>4 DEF ModuleStep
<1>2. ASSUME NEW p \in Procs, FileStep(p) PROVE StopInv'
  <2>1. phase # "window" \/ opening \cup holders = {}
    OBVIOUS
  <2>2. CASE IrqStart(p)
    BY <2>2 DEF IrqStart
  <2>3. CASE IrqStop(p)
    <3>1. overStop' <=> overStop \/ depth > 0 BY <2>3 DEF IrqStop
    <3> QED BY <2>1, <2>3, <3>1 DEF IrqStop
  <2>4. CASE OpenTest(p) \/ OpenSet(p) \/ Release(p)
    BY <2>4 DEF OpenTest, OpenSet, Release
  <2> QED BY <1>2, <2>2, <2>3, <2>4 DEF FileStep
<1>3. ASSUME Edge PROVE StopInv'
  BY <1>3 DEF Edge, HandlerRegistered
<1>4. ASSUME TimerTick PROVE StopInv'
  BY <1>4 DEF TimerTick, CountPeriod, Toggle, Driven
<1>5. ASSUME TaskletStep PROVE StopInv'
  BY <1>5 DEF TaskletStep, TaskletEnter, Sample, Drive, Record, Rewrite,
               Rearm, TimerInitialised, Driven
<1>6. CASE UNCHANGED vars
  BY <1>6 DEF vars
<1> QED BY <1>1, <1>2, <1>3, <1>4, <1>5, <1>6 DEF Next

(***************************************************************************)
(* Every step preserves OpenInv.                                           *)
(***************************************************************************)
LEMMA OpenInvStep == ASSUME TypeInv, OpenInv, [Next]_vars PROVE OpenInv'
<1> USE PulseAssumption DEF TypeInv, OpenInv, FilesNeedNode, NodeExists,
     TypeOK, FileTypeOK, driver, tasklet, files, module, history
<1>1. ASSUME ModuleStep PROVE OpenInv'
  <2>1. ASSUME NEW refused \in SUBSET NodeCalls, NodeCreate(refused)
        PROVE  OpenInv'
    BY <2>1, NodeFacts DEF NodeCreate, KernelContext
  <2>2. CASE ~ \E refused \in SUBSET NodeCalls : NodeCreate(refused)
    BY <1>1, <2>2 DEF ModuleStep, GpoInit, IrqRequest, IrqMask, TimerStart,
         TimerCancel, IrqRelease, UnregisterDies, ModuleFree, KernelContext
  <2> QED BY <2>1, <2>2
<1>2. ASSUME NEW p \in Procs, FileStep(p) PROVE OpenInv'
  BY <1>2 DEF FileStep, OpenTest, MayOpen, OpenSet, Release, IrqStart, IrqStop,
               ProcessContext
<1>3. ASSUME Edge PROVE OpenInv'
  BY <1>3 DEF Edge, HandlerRegistered
<1>4. ASSUME TimerTick PROVE OpenInv'
  BY <1>4 DEF TimerTick, CountPeriod, Toggle, Driven
<1>5. ASSUME TaskletStep PROVE OpenInv'
  BY <1>5 DEF TaskletStep, TaskletEnter, Sample, Drive, Record, Rewrite,
               Rearm, TimerInitialised, Driven
<1>6. CASE UNCHANGED vars
  BY <1>6 DEF vars
<1> QED BY <1>1, <1>2, <1>3, <1>4, <1>5, <1>6 DEF Next

(***************************************************************************)
(* Every step preserves DieInv.                                            *)
(***************************************************************************)
LEMMA DieInvStep == ASSUME TypeInv, DieInv, [Next]_vars PROVE DieInv'
<1> USE PulseAssumption DEF TypeInv, DieInv, TypeOK, ModuleTypeOK,
     TaskletTypeOK, FilesNeedNode, DepthBeforeNode, NodeExists,
     HandlerRegistered, TimerInitialised, QuietWhenAbsent,
     DiesOnlyInWindows, Windows, Unreached, Phases, driver, tasklet, files, module, history
<1>1. ASSUME ModuleStep PROVE DieInv'
  <2>1. ASSUME NEW refused \in SUBSET NodeCalls, NodeCreate(refused)
        PROVE  DieInv'
    BY <2>1, NodeFacts DEF NodeCreate, KernelContext
  <2>2. CASE ~ \E refused \in SUBSET NodeCalls : NodeCreate(refused)
    BY <1>1, <2>2 DEF ModuleStep, GpoInit, IrqRequest, IrqMask, TimerStart,
         TimerCancel, IrqRelease, UnregisterDies, ModuleFree, KernelContext
  <2> QED BY <2>1, <2>2
<1>2. ASSUME NEW p \in Procs, FileStep(p) PROVE DieInv'
  BY <1>2 DEF FileStep, OpenTest, MayOpen, OpenSet, Release, IrqStart, IrqStop,
               ProcessContext
<1>3. ASSUME Edge PROVE DieInv'
  BY <1>3 DEF Edge, HandlerRegistered
<1>4. ASSUME TimerTick PROVE DieInv'
  BY <1>4 DEF TimerTick, CountPeriod, Toggle, Driven
<1>5. ASSUME TaskletStep PROVE DieInv'
  BY <1>5 DEF TaskletStep, TaskletEnter, Sample, Drive, Record, Rewrite,
               Rearm, TimerInitialised, Driven
<1>6. CASE UNCHANGED vars
  BY <1>6 DEF vars
<1> QED BY <1>1, <1>2, <1>3, <1>4, <1>5, <1>6 DEF Next

(***************************************************************************)
(* TypeInv is an invariant; the proofs of the others rest on it.           *)
(***************************************************************************)
LEMMA TypeHolds == Spec => []TypeInv
<1>1. Init => TypeInv
  <2> SUFFICES ASSUME Init PROVE TypeInv
    OBVIOUS
  <2> USE PulseAssumption DEF Init
  <2>1. phase \in Phases /\ depth \in 0..(MaxDepth + 1) /\ pulseDev \in DeviceStates
    BY DEF Phases, DeviceStates
  <2>2. PinTypeOK BY DEF PinTypeOK, Level
  <2>3. pc \in TaskletSteps /\ sinceEdge \in 0..(TimerOutCnt + 1)
    BY DEF TaskletSteps
  <2>4. /\ {gpoOk, irqOk, sched, opened, oops} \subseteq BOOLEAN
        /\ {missed, toggled, raced, overStop} \subseteq BOOLEAN
    BY Zenon
  <2>6. opening \in SUBSET Procs /\ holders \in SUBSET Procs OBVIOUS
  <2>5. FilesNeedNode /\ DepthBeforeNode
    BY DEF FilesNeedNode, DepthBeforeNode
  <2> HIDE DEF Init
  <2> QED
    BY <2>1, <2>2, <2>3, <2>4, <2>5, <2>6
       DEF TypeInv, TypeOK, ModuleTypeOK, TaskletTypeOK, FileTypeOK,
           HistoryTypeOK
<1>2. TypeInv /\ [Next]_vars => TypeInv'
  BY TypeInvStep
<1> QED
  BY <1>1, <1>2, PTL DEF Spec

(***************************************************************************)
(* Type correctness, for any number of processes, any TIMER_OUT_CNT and    *)
(* both kinds of kernel; keepalive_cnt stops at TIMER_OUT_CNT              *)
(* (pulse.c:54-55).                                                        *)
(***************************************************************************)
THEOREM TypeCorrect == Spec => []TypeOK
<1>1. TypeInv => TypeOK
  BY DEF TypeInv
<1> QED
  BY <1>1, TypeHolds, PTL

(***************************************************************************)
(* OutputMirrorsInput holds of every instance: no edge the driver could    *)
(* see is lost, however edges, timer ticks, ioctls and reloads interleave  *)
(* with the five steps of the tasklet (pulse.c:49-118).                    *)
(***************************************************************************)
THEOREM MirrorsInput == Spec => []OutputMirrorsInput
<1>1. Init => MirrorInv
  BY PulseAssumption DEF Init, MirrorInv, QuietWhenAbsent, Settled, Fresh
<1>2. TypeInv /\ MirrorInv /\ [Next]_vars => MirrorInv'
  BY MirrorInvStep
<1>3. MirrorInv => OutputMirrorsInput
  BY DEF MirrorInv, OutputMirrorsInput
<1> QED
  BY <1>1, <1>2, <1>3, TypeHolds, PTL DEF Spec

(***************************************************************************)
(* RecordTellsPin: the unlocked stores of pulse.c:39-40, 62 and 110 let    *)
(* gpo.val and the pin disagree only after the one race named there.       *)
(***************************************************************************)
THEOREM RecordTells == Spec => []RecordTellsPin
<1>1. Init => RecordInv
  BY PulseAssumption DEF Init, RecordInv, QuietWhenAbsent
<1>2. TypeInv /\ RecordInv /\ [Next]_vars => RecordInv'
  BY RecordInvStep
<1>3. RecordInv => RecordTellsPin
  BY DEF RecordInv, RecordTellsPin
<1> QED
  BY <1>1, <1>2, <1>3, TypeHolds, PTL DEF Spec

(***************************************************************************)
(* ExclusiveOpen: on a kernel without preemption the unlocked test of      *)
(* opened (pulse.c:169-171) is enough.                                     *)
(***************************************************************************)
THEOREM Exclusive == Spec => []ExclusiveOpen
<1>1. Init => OpenInv
  BY PulseAssumption DEF Init, OpenInv
<1>2. TypeInv /\ OpenInv /\ [Next]_vars => OpenInv'
  BY OpenInvStep
<1>3. OpenInv => ExclusiveOpen
  BY DEF OpenInv, ExclusiveOpen
<1> QED
  BY <1>1, <1>2, <1>3, TypeHolds, PTL DEF Spec

(***************************************************************************)
(* DiesOnlyInWindows: a driver that runs never dies, and one that is       *)
(* removed only of a device that could not be created.  With tasklets run  *)
(* at interrupt exit pulse_mod_release needs no tasklet_kill, and only the *)
(* two windows of pulse_mod_init and the results it does not look at are   *)
(* dangerous (pulse.c:132-134, 248-257, 265-277).                          *)
(***************************************************************************)
THEOREM DiesInWindows == Spec => []DiesOnlyInWindows
<1>1. Init => DieInv
  BY PulseAssumption
     DEF Init, DieInv, QuietWhenAbsent, DiesOnlyInWindows, Unreached
<1>2. TypeInv /\ DieInv /\ [Next]_vars => DieInv'
  BY DieInvStep
<1>3. DieInv => DiesOnlyInWindows
  BY DEF DieInv
<1> QED
  BY <1>1, <1>2, <1>3, TypeHolds, PTL DEF Spec

(***************************************************************************)
(* NoEarlyFallback: no interleaving makes the timer take the output over   *)
(* before TIMER_OUT_CNT silent periods (pulse.c:54-63, 70-74).             *)
(***************************************************************************)
THEOREM NotEarly == Spec => NoEarlyFallback
<1>1. Init => CountInv
  BY PulseAssumption DEF Init, CountInv
<1>2. TypeInv /\ CountInv /\ [Next]_vars => CountInv'
  BY CountInvStep
<1>3. TypeInv /\ CountInv => (TimerTick /\ toggled' /\ val' # val =>
                           \/ sinceEdge >= TimerOutCnt
                           \/ sched \/ pc # "idle")
  <2> SUFFICES ASSUME TypeInv, CountInv, TimerTick, val' # val
               PROVE  sinceEdge >= TimerOutCnt \/ sched \/ pc # "idle"
    OBVIOUS
  <2>1. ~CountPeriod BY DEF CountPeriod
  <2>2. Toggle /\ ~oops BY <2>1 DEF TimerTick
  <2>3. TimerOutCnt <= keepalive
    BY <2>2, PulseAssumption DEF Toggle, TypeInv, TypeOK, PinTypeOK
  <2> QED
    BY <2>2, <2>3, PulseAssumption
       DEF CountInv, TypeInv, TypeOK, PinTypeOK, HistoryTypeOK
<1> QED
  BY <1>1, <1>2, <1>3, TypeHolds, PTL DEF Spec, NoEarlyFallback

(***************************************************************************)
(* StartEnables: the disable depth never exceeds one unless STOP was sent  *)
(* twice, so a START always brings it to 0 (pulse.c:134, 138-154).         *)
(***************************************************************************)
THEOREM Starts == Spec => StartEnables
<1>1. Init => StopInv
  BY PulseAssumption DEF Init, StopInv
<1>2. TypeInv /\ StopInv /\ [Next]_vars => StopInv'
  BY StopInvStep
<1>3. TypeInv /\ StopInv => (\A p \in Procs : IrqStart(p) /\ irqOk /\
     ~overStop => depth' = 0)
  BY PulseAssumption DEF TypeInv, TypeOK, ModuleTypeOK, StopInv, IrqStart
<1> QED
  BY <1>1, <1>2, <1>3, TypeHolds, PTL DEF Spec, StartEnables
-----------------------------------------------------------------------------
(***************************************************************************)
(* Loading the other drivers (ModLoad), in any order and whatever is       *)
(* refused.  None of its properties is inductive: each follows from where  *)
(* a device stands, which is told by the calls its module still has to     *)
(* make.                                                                   *)
(***************************************************************************)
Ask(n) == [call |-> "request", n |-> n]
Add(n) == [call |-> "register", n |-> n]
Del(n) == [call |-> "unregister", n |-> n]
Give(n) == [call |-> "free", n |-> n]

InitRests(m) ==
  CASE m = "gpmc_net" -> {<<Ask(1), Ask(2), Add(1), Add(2)>>,
                          <<Ask(2), Add(1), Add(2)>>, <<Add(1), Add(2)>>,
                          <<Add(2)>>, <<>>}
    [] m = "ch438"    -> {<<Ask(3), Add(3)>>, <<Add(3)>>, <<>>}
    [] m = "hx_key"   -> {<<Add(4)>>, <<>>}
ExitRests(m) ==
  CASE m = "gpmc_net" -> {<<Del(1), Give(1), Del(2), Give(2)>>,
                          <<Give(1), Del(2), Give(2)>>, <<Del(2), Give(2)>>,
                          <<Give(2)>>, <<>>}
    [] m = "ch438"    -> {<<Del(3), Give(3)>>, <<Give(3)>>, <<>>}
    [] m = "hx_key"   -> {<<Del(4)>>, <<>>}

Elems(s) == {s[i] : i \in 1..Len(s)}
Waits(op) == op \in Elems(left[Owner(op.n)])

(***************************************************************************)
(* A module makes its calls in their order; outside init and exit it makes *)
(* none.                                                                   *)
(***************************************************************************)
CallsInv ==
  /\ stage \in [Mods -> {"out", "loading", "in", "unloading"}] /\ DOMAIN left = Mods
  /\ \A m \in Mods :
       left[m] \in CASE stage[m] = "loading" -> InitRests(m)
                     [] stage[m] = "unloading" -> ExitRests(m)
                     [] OTHER -> {<<>>}

(***************************************************************************)
(* A device is on the bus from its registration to its removal, unless     *)
(* gpmc_net was refused it.                                                *)
(***************************************************************************)
Added(n) ==
  \/ stage[Owner(n)] = "in"
  \/ stage[Owner(n)] = "loading" /\ ~Waits(Add(n))
  \/ stage[Owner(n)] = "unloading" /\ Waits(Del(n))
BusInv ==
  \A n \in Devices :
    /\ n \in bus => Added(n)
    /\ Added(n) => n \in bus \/ (Owner(n) = "gpmc_net" /\ n \in denied)

(***************************************************************************)
(* A chip select is taken from its request until it is given back, unless  *)
(* it was refused, or kept by an insmod of ch438 that failed.              *)
(***************************************************************************)
Asked(n) ==
  \/ stage[Owner(n)] = "in"
  \/ stage[Owner(n)] = "loading" /\ ~Waits(Ask(n))
  \/ stage[Owner(n)] = "unloading" /\ Waits(Give(n))
CsInv ==
  /\ taken \subseteq ChipSelects /\ memory \subseteq ChipSelects
  /\ \A n \in ChipSelects : Asked(n) => n \in taken \/ n \in denied
  /\ \A n \in taken :
       /\ stage[Owner(n)] = "out" => n = 3 /\ n \in leaked
       /\ stage[Owner(n)] = "unloading" => Waits(Give(n))
  /\ \A n \in memory : stage[Owner(n)] \in {"loading", "in"} \/ Asked(n) => n \in taken

LoadInv == CallsInv /\ BusInv /\ CsInv /\ DiesOnlyUntold

(***************************************************************************)
(* Short sequences, taken apart.                                           *)
(***************************************************************************)
LEMMA Shorter ==
  /\ \A a : <<a>> # <<>> /\ Head(<<a>>) = a /\ Tail(<<a>>) = <<>>
  /\ \A a, b : <<a, b>> # <<>> /\ Head(<<a, b>>) = a /\ Tail(<<a, b>>) = <<b>>
  /\ \A a, b, c : /\ <<a, b, c>> # <<>>
                  /\ Head(<<a, b, c>>) = a /\ Tail(<<a, b, c>>) = <<b, c>>
  /\ \A a, b, c, d : /\ <<a, b, c, d>> # <<>>
                     /\ Head(<<a, b, c, d>>) = a /\ Tail(<<a, b, c, d>>) = <<b, c, d>>
OBVIOUS

LEMMA Elements ==
  /\ Elems(<<>>) = {}
  /\ \A a : Elems(<<a>>) = {a}
  /\ \A a, b : Elems(<<a, b>>) = {a, b}
  /\ \A a, b, c : Elems(<<a, b, c>>) = {a, b, c}
  /\ \A a, b, c, d : Elems(<<a, b, c, d>>) = {a, b, c, d}
BY DEF Elems

LEMMA Appended ==
  ASSUME NEW s \in Seq(Op), NEW op \in Op, NEW u \in Seq(Op),
         Len(u) = Len(s) + 1, u[Len(u)] = op, \A i \in 1..Len(s) : u[i] = s[i]
  PROVE  s \o <<op>> = u
<1> DEFINE t == <<op>>
<1>1. t \in Seq(Op) /\ Len(t) = 1 /\ t[1] = op
  OBVIOUS
<1> HIDE DEF t
<1>2. /\ s \o t \in Seq(Op) /\ Len(s \o t) = Len(s) + Len(t)
      /\ \A i \in 1..Len(s) + Len(t) :
           (s \o t)[i] = IF i <= Len(s) THEN s[i] ELSE t[i - Len(s)]
  BY <1>1, ConcatProperties
<1>3. Len(s) \in Nat /\ Len(s \o t) = Len(s) + 1
  BY <1>1, <1>2
<1>4. \A i \in 1..Len(s \o t) : (s \o t)[i] = u[i]
  <2> SUFFICES ASSUME NEW i \in 1..Len(s) + 1
               PROVE  (s \o t)[i] = u[i]
    BY <1>3
  <2>1. CASE i <= Len(s)
    BY <1>1, <1>2, <1>3, <2>1
  <2>2. CASE i = Len(s) + 1
    BY <1>1, <1>2, <1>3, <2>2
  <2> QED
    BY <1>3, <2>1, <2>2
<1>5. s \o t = u
  BY <1>2, <1>3, <1>4, SeqEqual
<1> QED
  BY <1>5 DEF t

(***************************************************************************)
(* The tables are those of ModLoad.                                        *)
(***************************************************************************)
LEMMA CallsAre ==
  /\ \A c, n : Calls(c, <<n>>) = <<[call |-> c, n |-> n]>>
  /\ Calls("request", <<1, 2>>) = <<Ask(1), Ask(2)>>
  /\ Calls("register", <<1, 2>>) = <<Add(1), Add(2)>>
BY DEF Calls, Ask, Add

LEMMA OpsAre ==
  \A n \in Devices : Ask(n) \in Op /\ Add(n) \in Op /\ Del(n) \in Op /\ Give(n) \in Op
BY DEF Op, Ask, Add, Del, Give

LEMMA Pairs ==
  /\ \A a, b \in Op : <<a>> \o <<b>> = <<a, b>>
  /\ \A a, b, c \in Op : <<a, b>> \o <<c>> = <<a, b, c>>
  /\ \A a, b, c, d \in Op : <<a, b, c>> \o <<d>> = <<a, b, c, d>>
  /\ \A a, b, c, d \in Op : <<a, b>> \o <<c, d>> = <<a, b, c, d>>
<1>1. ASSUME NEW a \in Op, NEW b \in Op
     PROVE  <<a>> \o <<b>> = <<a, b>>
  <2> DEFINE s == <<a>>
             u == <<a, b>>
  <2>1. s \in Seq(Op) /\ u \in Seq(Op) /\ Len(s) = 1 /\ Len(u) = 2
    OBVIOUS
  <2>2. s[1] = a
    OBVIOUS
  <2>3. u[1] = a /\ u[2] = b
    OBVIOUS
  <2> HIDE DEF s, u
  <2>4. \A i \in 1..Len(s) : u[i] = s[i]
    BY <2>1, <2>2, <2>3
  <2>5. Len(u) = Len(s) + 1 /\ u[Len(u)] = b
    BY <2>1, <2>3
  <2>6. s \o <<b>> = u
    BY <2>1, <2>4, <2>5, Appended
  <2> QED
    BY <2>6 DEF s, u
<1>2. ASSUME NEW a \in Op, NEW b \in Op, NEW c \in Op
     PROVE  <<a, b>> \o <<c>> = <<a, b, c>>
  <2> DEFINE s == <<a, b>>
             u == <<a, b, c>>
  <2>1. s \in Seq(Op) /\ u \in Seq(Op) /\ Len(s) = 2 /\ Len(u) = 3
    OBVIOUS
  <2>2. s[1] = a /\ s[2] = b
    OBVIOUS
  <2>3. u[1] = a /\ u[2] = b /\ u[3] = c
    OBVIOUS
  <2> HIDE DEF s, u
  <2>4. \A i \in 1..Len(s) : u[i] = s[i]
    BY <2>1, <2>2, <2>3
  <2>5. Len(u) = Len(s) + 1 /\ u[Len(u)] = c
    BY <2>1, <2>3
  <2>6. s \o <<c>> = u
    BY <2>1, <2>4, <2>5, Appended
  <2> QED
    BY <2>6 DEF s, u
<1>3. ASSUME NEW a \in Op, NEW b \in Op, NEW c \in Op, NEW d \in Op
     PROVE  <<a, b, c>> \o <<d>> = <<a, b, c, d>>
  <2> DEFINE s == <<a, b, c>>
             u == <<a, b, c, d>>
  <2>1. s \in Seq(Op) /\ u \in Seq(Op) /\ Len(s) = 3 /\ Len(u) = 4
    OBVIOUS
  <2>2. s[1] = a /\ s[2] = b /\ s[3] = c
    OBVIOUS
  <2>3. u[1] = a /\ u[2] = b /\ u[3] = c /\ u[4] = d
    OBVIOUS
  <2> HIDE DEF s, u
  <2>4. \A i \in 1..Len(s) : u[i] = s[i]
    BY <2>1, <2>2, <2>3
  <2>5. Len(u) = Len(s) + 1 /\ u[Len(u)] = d
    BY <2>1, <2>3
  <2>6. s \o <<d>> = u
    BY <2>1, <2>4, <2>5, Appended
  <2> QED
    BY <2>6 DEF s, u
<1>4. ASSUME NEW a \in Op, NEW b \in Op, NEW c \in Op, NEW d \in Op
     PROVE  <<a, b>> \o <<c, d>> = <<a, b, c, d>>
  <2>1. <<a, b>> \in Seq(Op) /\ <<c>> \in Seq(Op) /\ <<d>> \in Seq(Op)
    OBVIOUS
  <2>2. <<a, b>> \o (<<c>> \o <<d>>) = (<<a, b>> \o <<c>>) \o <<d>>
    BY <2>1, ConcatAssociative
  <2>3. <<c>> \o <<d>> = <<c, d>>
    BY <1>1
  <2>4. <<a, b>> \o <<c>> = <<a, b, c>>
    BY <1>2
  <2>5. <<a, b, c>> \o <<d>> = <<a, b, c, d>>
    BY <1>3
  <2> QED
    BY <2>2, <2>3, <2>4, <2>5
<1> QED
  BY <1>1, <1>2, <1>3, <1>4

LEMMA Tables ==
  /\ InitCalls("gpmc_net") = <<Ask(1), Ask(2), Add(1), Add(2)>>
  /\ ExitCalls("gpmc_net") = <<Del(1), Give(1), Del(2), Give(2)>>
  /\ InitCalls("ch438") = <<Ask(3), Add(3)>> /\ ExitCalls("ch438") = <<Del(3), Give(3)>>
  /\ InitCalls("hx_key") = <<Add(4)>> /\ ExitCalls("hx_key") = <<Del(4)>>
<1>1. \A n \in Devices : /\ Calls("request", <<n>>) = <<Ask(n)>>
                         /\ Calls("register", <<n>>) = <<Add(n)>>
                         /\ Calls("unregister", <<n>>) = <<Del(n)>>
                         /\ Calls("free", <<n>>) = <<Give(n)>>
  BY CallsAre DEF Ask, Add, Del, Give
<1>2. 1 \in Devices /\ 2 \in Devices /\ 3 \in Devices /\ 4 \in Devices
  BY DEF Devices
<1>3. InitCalls("gpmc_net") = <<Ask(1), Ask(2), Add(1), Add(2)>>
  <2>1. InitCalls("gpmc_net") = <<Ask(1), Ask(2)>> \o <<Add(1), Add(2)>>
    BY CallsAre DEF InitCalls
  <2>2. Ask(1) \in Op /\ Ask(2) \in Op /\ Add(1) \in Op /\ Add(2) \in Op
    BY <1>2, OpsAre
  <2>3. <<Ask(1), Ask(2)>> \o <<Add(1), Add(2)>> = <<Ask(1), Ask(2), Add(1), Add(2)>>
    BY <2>2, Pairs
  <2> QED
    BY <2>1, <2>3
<1>4. ExitCalls("gpmc_net") = <<Del(1), Give(1), Del(2), Give(2)>>
  <2>1. ExitCalls("gpmc_net") = ((<<Del(1)>> \o <<Give(1)>>) \o <<Del(2)>>) \o <<Give(2)>>
    BY <1>1, <1>2 DEF ExitCalls
  <2>2. Del(1) \in Op /\ Give(1) \in Op /\ Del(2) \in Op /\ Give(2) \in Op
    BY <1>2, OpsAre
  <2>3. /\ <<Del(1)>> \o <<Give(1)>> = <<Del(1), Give(1)>>
        /\ <<Del(1), Give(1)>> \o <<Del(2)>> = <<Del(1), Give(1), Del(2)>>
        /\ <<Del(1), Give(1), Del(2)>> \o <<Give(2)>>
             = <<Del(1), Give(1), Del(2), Give(2)>>
    BY <2>2, Pairs
  <2> QED
    BY <2>1, <2>3
<1>5. InitCalls("ch438") = <<Ask(3), Add(3)>> /\ ExitCalls("ch438") = <<Del(3), Give(3)>>
  <2>1. /\ InitCalls("ch438") = <<Ask(3)>> \o <<Add(3)>>
        /\ ExitCalls("ch438") = <<Del(3)>> \o <<Give(3)>>
    BY <1>1, <1>2 DEF InitCalls, ExitCalls
  <2> QED
    BY <1>2, <2>1, OpsAre, Pairs
<1>6. InitCalls("hx_key") = <<Add(4)>> /\ ExitCalls("hx_key") = <<Del(4)>>
  BY <1>1, <1>2 DEF InitCalls, ExitCalls
<1> QED
  BY <1>3, <1>4, <1>5, <1>6

LEMMA WholeTables ==
  ASSUME NEW m \in Mods
  PROVE  InitCalls(m) \in InitRests(m) /\ ExitCalls(m) \in ExitRests(m)
BY Tables DEF Mods, InitRests, ExitRests

(***************************************************************************)
(* The next call of an init is a request or a registration, that of an     *)
(* exit a removal or a release, of a device of the module; after it the    *)
(* same calls remain but for that one.  A release comes after the removal. *)
(***************************************************************************)
Takes(s, rests) ==
  /\ Tail(s) \in rests
  /\ Head(s) \in Elems(s) /\ Elems(Tail(s)) = Elems(s) \ {Head(s)}

LEMMA Distinct ==
  \A i \in Devices, j \in Devices :
    /\ Ask(i).n = i /\ Add(i).n = i /\ Del(i).n = i /\ Give(i).n = i
    /\ Ask(i) # Add(j) /\ Ask(i) # Del(j) /\ Ask(i) # Give(j)
    /\ Add(i) # Del(j) /\ Add(i) # Give(j) /\ Del(i) # Give(j)
    /\ i # j => Ask(i) # Ask(j) /\ Add(i) # Add(j) /\ Del(i) # Del(j) /\ Give(i) # Give(j)
BY DEF Ask, Add, Del, Give

LEMMA Owners ==
  /\ Of("gpmc_net") = {1, 2} /\ Of("ch438") = {3} /\ Of("hx_key") = {4}
  /\ 1 \in Devices /\ 2 \in Devices /\ 3 \in Devices /\ 4 \in Devices
BY DEF Of, Owner, Devices

LEMMA InitTakes ==
  ASSUME NEW m \in Mods, NEW s \in InitRests(m), s # <<>>
  PROVE  /\ Takes(s, InitRests(m))
         /\ \E n \in Of(m) : \/ Head(s) = Ask(n) /\ n \in ChipSelects
                             \/ Head(s) = Add(n)
<1> USE Owners
<1>1. CASE m = "gpmc_net"
  <2>1. CASE s = <<Ask(1), Ask(2), Add(1), Add(2)>>
    BY <1>1, <2>1, Shorter, Elements, Distinct DEF InitRests, Takes, ChipSelects
  <2>2. CASE s = <<Ask(2), Add(1), Add(2)>>
    BY <1>1, <2>2, Shorter, Elements, Distinct DEF InitRests, Takes, ChipSelects
  <2>3. CASE s = <<Add(1), Add(2)>>
    BY <1>1, <2>3, Shorter, Elements, Distinct DEF InitRests, Takes
  <2>4. CASE s = <<Add(2)>>
    BY <1>1, <2>4, Shorter, Elements DEF InitRests, Takes
  <2> QED
    BY <1>1, <2>1, <2>2, <2>3, <2>4 DEF InitRests
<1>2. CASE m = "ch438"
  <2>1. CASE s = <<Ask(3), Add(3)>>
    BY <1>2, <2>1, Shorter, Elements, Distinct DEF InitRests, Takes, ChipSelects
  <2>2. CASE s = <<Add(3)>>
    BY <1>2, <2>2, Shorter, Elements DEF InitRests, Takes
  <2> QED
    BY <1>2, <2>1, <2>2 DEF InitRests
<1>3. CASE m = "hx_key"
  <2>1. s = <<Add(4)>>
    BY <1>3 DEF InitRests
  <2>2. Head(s) = Add(4) /\ Tail(s) = <<>> /\ Elems(s) = {Add(4)} /\ Elems(Tail(s)) = {}
    BY <2>1, Shorter, Elements
  <2> QED
    BY <1>3, <2>2 DEF InitRests, Takes
<1> QED
  BY <1>1, <1>2, <1>3 DEF Mods

LEMMA ExitTakes ==
  ASSUME NEW m \in Mods, NEW s \in ExitRests(m), s # <<>>
  PROVE  /\ Takes(s, ExitRests(m))
         /\ \E n \in Of(m) : \/ Head(s) = Del(n)
                             \/ Head(s) = Give(n) /\ n \in ChipSelects
                                /\ Del(n) \notin Elems(s)
<1> USE Owners
<1>1. CASE m = "gpmc_net"
  <2>1. CASE s = <<Del(1), Give(1), Del(2), Give(2)>>
    BY <1>1, <2>1, Shorter, Elements, Distinct DEF ExitRests, Takes
  <2>2. CASE s = <<Give(1), Del(2), Give(2)>>
    BY <1>1, <2>2, Shorter, Elements, Distinct DEF ExitRests, Takes, ChipSelects
  <2>3. CASE s = <<Del(2), Give(2)>>
    BY <1>1, <2>3, Shorter, Elements, Distinct DEF ExitRests, Takes
  <2>4. CASE s = <<Give(2)>>
    BY <1>1, <2>4, Shorter, Elements, Distinct DEF ExitRests, Takes, ChipSelects
  <2> QED
    BY <1>1, <2>1, <2>2, <2>3, <2>4 DEF ExitRests
<1>2. CASE m = "ch438"
  <2>1. CASE s = <<Del(3), Give(3)>>
    BY <1>2, <2>1, Shorter, Elements, Distinct DEF ExitRests, Takes
  <2>2. CASE s = <<Give(3)>>
    BY <1>2, <2>2, Shorter, Elements, Distinct DEF ExitRests, Takes, ChipSelects
  <2> QED
    BY <1>2, <2>1, <2>2 DEF ExitRests
<1>3. CASE m = "hx_key"
  <2>1. s = <<Del(4)>>
    BY <1>3 DEF ExitRests
  <2>2. Head(s) = Del(4) /\ Tail(s) = <<>> /\ Elems(s) = {Del(4)} /\ Elems(Tail(s)) = {}
    BY <2>1, Shorter, Elements
  <2> QED
    BY <1>3, <2>2 DEF ExitRests, Takes
<1> QED
  BY <1>1, <1>2, <1>3 DEF Mods

LEMMA InTables ==
  ASSUME NEW m \in Mods, NEW n \in Of(m)
  PROVE  /\ Add(n) \in Elems(InitCalls(m)) /\ Del(n) \in Elems(ExitCalls(m))
         /\ n \in ChipSelects => /\ Ask(n) \in Elems(InitCalls(m))
                                /\ Give(n) \in Elems(ExitCalls(m))

<1> USE Owners, Elements
<1>1. CASE m = "gpmc_net"
  <2>1. /\ InitCalls(m) = <<Ask(1), Ask(2), Add(1), Add(2)>>
        /\ ExitCalls(m) = <<Del(1), Give(1), Del(2), Give(2)>>
    BY <1>1, Tables
  <2> QED
    BY <1>1, <2>1
<1>2. CASE m = "ch438"
  <2>1. InitCalls(m) = <<Ask(3), Add(3)>> /\ ExitCalls(m) = <<Del(3), Give(3)>>
    BY <1>2, Tables
  <2> QED
    BY <1>2, <2>1
<1>3. CASE m = "hx_key"
  <2>1. InitCalls(m) = <<Add(4)>> /\ ExitCalls(m) = <<Del(4)>>
    BY <1>3, Tables
  <2> QED
    BY <1>3, <2>1 DEF ChipSelects
<1> QED
  BY <1>1, <1>2, <1>3 DEF Mods

LEMMA GivenLast ==
  ASSUME NEW m \in Mods, NEW s \in ExitRests(m), NEW n \in Of(m) \cap ChipSelects,
         Del(n) \in Elems(s)
  PROVE  Give(n) \in Elems(s)
<1> USE Owners, Elements, Distinct
<1>1. CASE m = "gpmc_net"
  BY <1>1 DEF ExitRests
<1>2. CASE m = "ch438"
  BY <1>2 DEF ExitRests
<1>3. CASE m = "hx_key"
  BY <1>3 DEF ChipSelects
<1> QED
  BY <1>1, <1>2, <1>3 DEF Mods

LEMMA Owned ==
  \A n \in Devices : Owner(n) \in Mods /\ \A m : n \in Of(m) <=> Owner(n) = m
BY DEF Owner, Mods, Of

LEMMA Selects == ChipSelects \subseteq Devices
BY DEF ChipSelects, Devices

LEMMA NextCall ==
  ASSUME CallsInv, NEW m \in Mods, NEW call, NEW n \in Devices, AtCall(m, call, n)
  PROVE  /\ Owner(n) = m /\ kernel = "up" /\ Waits([call |-> call, n |-> n])
         /\ \/ /\ stage[m] = "loading" /\ Takes(left[m], InitRests(m))
               /\ call = "register" \/ (call = "request" /\ n \in ChipSelects)
            \/ /\ stage[m] = "unloading" /\ Takes(left[m], ExitRests(m))
               /\ \/ call = "unregister"
                  \/ call = "free" /\ n \in ChipSelects /\ ~Waits(Del(n))
<1> DEFINE op == [call |-> call, n |-> n]
<1>1. left[m] # <<>> /\ Head(left[m]) = op /\ kernel = "up" /\ op.n = n /\ op.call = call
  BY DEF AtCall
<1>2. CASE stage[m] = "loading"
  <2>1. left[m] \in InitRests(m)
    BY <1>2 DEF CallsInv
  <2>2. Takes(left[m], InitRests(m))
    BY <1>1, <2>1, InitTakes
  <2>3. PICK i \in Of(m) : (op = Ask(i) /\ i \in ChipSelects) \/ op = Add(i)
    BY <1>1, <2>1, InitTakes
  <2>4. i = n /\ (call = "register" \/ (call = "request" /\ n \in ChipSelects))
    <3> HIDE DEF op
    <3>1. CASE op = Ask(i) /\ i \in ChipSelects
      BY <1>1, <3>1 DEF Ask
    <3>2. CASE op = Add(i)
      BY <1>1, <3>2 DEF Add
    <3> QED
      BY <2>3, <3>1, <3>2
  <2>5. Owner(n) = m
    BY <2>3, <2>4, Owned
  <2> QED
    BY <1>1, <1>2, <2>2, <2>4, <2>5 DEF Waits, Takes
<1>3. CASE stage[m] = "unloading"
  <2>1. left[m] \in ExitRests(m)
    BY <1>3 DEF CallsInv
  <2>2. Takes(left[m], ExitRests(m))
    BY <1>1, <2>1, ExitTakes
  <2>3. PICK i \in Of(m) : \/ op = Del(i)
                           \/ op = Give(i) /\ i \in ChipSelects
                              /\ Del(i) \notin Elems(left[m])
    BY <1>1, <2>1, ExitTakes
  <2>4. /\ i = n
        /\ \/ call = "unregister"
           \/ call = "free" /\ n \in ChipSelects /\ Del(n) \notin Elems(left[m])
    BY <1>1, <2>3 DEF Del, Give
  <2>5. Owner(n) = m /\ Del(n).n = n
    BY <2>3, <2>4, Owned DEF Del
  <2> QED
    BY <1>1, <1>3, <2>2, <2>4, <2>5 DEF Waits, Takes
<1>4. CASE stage[m] \notin {"loading", "unloading"}
  BY <1>1, <1>4 DEF CallsInv
<1> QED
  BY <1>2, <1>3, <1>4

(***************************************************************************)
(* A call is taken from its module's list, and from no other.              *)
(***************************************************************************)
LEMMA CallTaken ==
  ASSUME CallsInv, NEW m \in Mods, NEW call, NEW n \in Devices, AtCall(m, call, n),
         Called(m), stage' = stage
  PROVE  /\ CallsInv'
         /\ \A i \in Devices :
              /\ Waits(Ask(i))' <=> Waits(Ask(i)) /\ ~(call = "request" /\ i = n)
              /\ Waits(Add(i))' <=> Waits(Add(i)) /\ ~(call = "register" /\ i = n)
              /\ Waits(Del(i))' <=> Waits(Del(i)) /\ ~(call = "unregister" /\ i = n)
              /\ Waits(Give(i))' <=> Waits(Give(i)) /\ ~(call = "free" /\ i = n)
<1> DEFINE op == [call |-> call, n |-> n]
<1>1. /\ Head(left[m]) = op /\ Owner(n) = m /\ op.n = n
      /\ \/ stage[m] = "loading" /\ Takes(left[m], InitRests(m))
         \/ stage[m] = "unloading" /\ Takes(left[m], ExitRests(m))
  BY NextCall DEF AtCall
<1>2. /\ DOMAIN left' = Mods /\ left'[m] = Tail(left[m])
      /\ \A k \in Mods : k # m => left'[k] = left[k]
  BY DEF CallsInv, Called
<1>3. CallsInv'
  BY <1>1, <1>2 DEF CallsInv, Takes
<1>4. Elems(left'[m]) = Elems(left[m]) \ {op}
  BY <1>1, <1>2 DEF Takes
<1>5. \A o : o.n \in Devices => (o \in Elems(left'[Owner(o.n)]) <=> Waits(o) /\ o # op)
  <2> SUFFICES ASSUME NEW o, o.n \in Devices
               PROVE  o \in Elems(left'[Owner(o.n)]) <=> Waits(o) /\ o # op
    OBVIOUS
  <2>1. Owner(o.n) \in Mods
    BY Owned
  <2>2. CASE Owner(o.n) = m
    BY <1>4, <2>2 DEF Waits
  <2>3. CASE Owner(o.n) # m
    BY <1>1, <1>2, <2>1, <2>3 DEF Waits
  <2> QED
    BY <2>2, <2>3
<1>6. \A o : o.n \in Devices => (Waits(o)' <=> Waits(o) /\ o # op)
  BY <1>5 DEF Waits
<1>7. \A i \in Devices :
        /\ Ask(i).n = i /\ Add(i).n = i /\ Del(i).n = i /\ Give(i).n = i
        /\ Ask(i) = op <=> call = "request" /\ i = n
        /\ Add(i) = op <=> call = "register" /\ i = n
        /\ Del(i) = op <=> call = "unregister" /\ i = n
        /\ Give(i) = op <=> call = "free" /\ i = n
  BY DEF Ask, Add, Del, Give
<1> HIDE DEF op
<1> QED
  BY <1>3, <1>6, <1>7

(***************************************************************************)
(* Every step keeps the invariant: first what a step of one module leaves  *)
(* as it was for the devices of the others.                                *)
(***************************************************************************)
LEMMA Others ==
  ASSUME CallsInv, NEW m \in Mods,
         \A k \in Mods : k # m => stage'[k] = stage[k] /\ left'[k] = left[k]
  PROVE  \A i \in Devices : Owner(i) # m =>
           /\ stage'[Owner(i)] = stage[Owner(i)] /\ (Waits(Give(i))' <=> Waits(Give(i)))
           /\ (Added(i)' <=> Added(i)) /\ (Asked(i)' <=> Asked(i))
<1> SUFFICES ASSUME NEW i \in Devices, Owner(i) # m
             PROVE  /\ stage'[Owner(i)] = stage[Owner(i)]
                    /\ (Waits(Give(i))' <=> Waits(Give(i)))
                    /\ (Added(i)' <=> Added(i)) /\ (Asked(i)' <=> Asked(i))
  OBVIOUS
<1>1. stage'[Owner(i)] = stage[Owner(i)] /\ left'[Owner(i)] = left[Owner(i)]
  BY Owned
<1>2. \A o : o.n = i => (o \in Elems(left'[Owner(o.n)]) <=> o \in Elems(left[Owner(o.n)]))
  BY <1>1
<1>3. \A o : o.n = i => (Waits(o)' <=> Waits(o))
  BY <1>2 DEF Waits
<1>4. /\ Waits(Ask(i))' <=> Waits(Ask(i))
      /\ Waits(Add(i))' <=> Waits(Add(i))
      /\ Waits(Del(i))' <=> Waits(Del(i))
      /\ Waits(Give(i))' <=> Waits(Give(i))
  BY <1>3, Distinct
<1>5. Added(i)' <=> Added(i)
  BY <1>1, <1>4 DEF Added
<1>6. Asked(i)' <=> Asked(i)
  BY <1>1, <1>4 DEF Asked
<1> QED
  BY <1>1, <1>4, <1>5, <1>6

LEMMA RequestKeeps ==
  ASSUME LoadInv, NEW m \in Mods, NEW n \in Devices, Request(m, n)
  PROVE  LoadInv'
<1>1. /\ Owner(n) = m /\ stage[m] = "loading" /\ n \in ChipSelects /\ Waits(Ask(n))
      /\ kernel = "up"
  BY NextCall DEF LoadInv, Request, Ask
<1>2. /\ CallsInv'
      /\ \A i \in Devices : /\ Waits(Ask(i))' <=> Waits(Ask(i)) /\ i # n
                            /\ Waits(Add(i))' <=> Waits(Add(i))
                            /\ Waits(Del(i))' <=> Waits(Del(i))
                            /\ Waits(Give(i))' <=> Waits(Give(i))
  BY CallTaken DEF LoadInv, Request
<1>3. \A i \in Devices : (Added(i)' <=> Added(i)) /\ (Asked(i)' <=> Asked(i) \/ i = n)
  BY <1>1, <1>2 DEF Added, Asked, Request
<1>4. BusInv'
  BY <1>3 DEF LoadInv, BusInv, Request
<1>5. CsInv'
  BY <1>1, <1>2, <1>3 DEF LoadInv, CsInv, Request, ChipSelects, Devices
<1> QED
  BY <1>1, <1>2, <1>4, <1>5 DEF LoadInv, DiesOnlyUntold, Request

LEMMA RequestRefusedKeeps ==
  ASSUME LoadInv, NEW m \in Mods, NEW n \in Devices, RequestRefused(m, n)
  PROVE  LoadInv'
<1>1. /\ Owner(n) = m /\ stage[m] = "loading" /\ n \in ChipSelects /\ Waits(Ask(n))
      /\ kernel = "up"
  BY NextCall DEF LoadInv, RequestRefused, Ask
<1>2. /\ CallsInv'
      /\ \A i \in Devices : /\ Waits(Ask(i))' <=> Waits(Ask(i)) /\ i # n
                            /\ Waits(Add(i))' <=> Waits(Add(i))
                            /\ Waits(Del(i))' <=> Waits(Del(i))
                            /\ Waits(Give(i))' <=> Waits(Give(i))
  BY CallTaken DEF LoadInv, RequestRefused
<1>3. \A i \in Devices : (Added(i)' <=> Added(i)) /\ (Asked(i)' <=> Asked(i) \/ i = n)
  BY <1>1, <1>2 DEF Added, Asked, RequestRefused
<1>4. BusInv'
  BY <1>3 DEF LoadInv, BusInv, RequestRefused
<1>5. CsInv'
  BY <1>1, <1>2, <1>3 DEF LoadInv, CsInv, RequestRefused, ChipSelects, Devices
<1> QED
  BY <1>1, <1>2, <1>4, <1>5 DEF LoadInv, DiesOnlyUntold, RequestRefused

(***************************************************************************)
(* The only way to die while loading leaves everything else as a granted   *)
(* request would, but for the call itself, which does not return.          *)
(***************************************************************************)
LEMMA MappingRefusedKeeps ==
  ASSUME LoadInv, NEW m \in Mods, NEW n \in Devices, MappingRefused(m, n)
  PROVE  LoadInv'
<1>1. /\ m = "ch438" /\ AtCall(m, "request", n) /\ taken' = taken \cup {n}
      /\ UNCHANGED <<stage, left, bus, memory, denied, leaked>>
  BY DEF MappingRefused
<1>2. Owner(n) = m /\ stage[m] = "loading" /\ n \in ChipSelects /\ Waits(Ask(n))
  BY <1>1, NextCall DEF LoadInv, Ask
<1>3. n = 3
  BY <1>1, <1>2 DEF Owner
<1>4. left[m] = InitCalls(m)
  <2>1. left[m] \in InitRests(m) /\ Ask(3) \in Elems(left[m])
    BY <1>1, <1>2, <1>3, Distinct, Owners DEF LoadInv, CallsInv, Waits
  <2>2. left[m] \in {<<Ask(3), Add(3)>>, <<Add(3)>>, <<>>}
    BY <1>1, <2>1 DEF InitRests
  <2>3. left[m] = <<Ask(3), Add(3)>>
    BY <2>1, <2>2, Elements, Distinct, Owners
  <2> QED
    BY <1>1, <2>3, Tables
<1>5. InsideGsInit'
  BY <1>1, <1>2, <1>3, <1>4 DEF InsideGsInit
<1>6. CallsInv' /\ BusInv'
  BY <1>1 DEF LoadInv, CallsInv, BusInv, Added, Waits
<1>7. \A i \in Devices : (Asked(i)' <=> Asked(i)) /\ (Waits(Give(i))' <=> Waits(Give(i)))
  BY <1>1 DEF Asked, Waits
<1>8. CsInv'
  BY <1>1, <1>2, <1>7 DEF LoadInv, CsInv, ChipSelects, Devices
<1> QED
  BY <1>5, <1>6, <1>8 DEF LoadInv, DiesOnlyUntold

LEMMA RegisterKeeps ==
  ASSUME LoadInv, NEW m \in Mods, NEW n \in Devices, Register(m, n)
  PROVE  LoadInv'
<1>1. Owner(n) = m /\ stage[m] = "loading" /\ Waits(Add(n)) /\ kernel = "up"
  BY NextCall DEF LoadInv, Register, Add
<1>2. /\ CallsInv'
      /\ \A i \in Devices : /\ Waits(Ask(i))' <=> Waits(Ask(i))
                            /\ Waits(Add(i))' <=> Waits(Add(i)) /\ i # n
                            /\ Waits(Del(i))' <=> Waits(Del(i))
                            /\ Waits(Give(i))' <=> Waits(Give(i))
  BY CallTaken DEF LoadInv, Register
<1>3. \A i \in Devices : (Added(i)' <=> Added(i) \/ i = n) /\ (Asked(i)' <=> Asked(i))
  BY <1>1, <1>2 DEF Added, Asked, Register
<1>4. BusInv'
  BY <1>3 DEF LoadInv, BusInv, Register
<1>5. CsInv'
  BY <1>1, <1>2, <1>3 DEF LoadInv, CsInv, Register, ChipSelects, Devices
<1> QED
  BY <1>1, <1>2, <1>4, <1>5 DEF LoadInv, DiesOnlyUntold, Register

(***************************************************************************)
(* A registration that fails: gpmc_net goes on; the others have one device *)
(* each, which was not on the bus yet, and are out.                        *)
(***************************************************************************)
LEMMA RegisterFailsKeeps ==
  ASSUME LoadInv, NEW m \in Mods, NEW n \in Devices, RegisterFails(m, n)
  PROVE  LoadInv'
<1>1. /\ Owner(n) = m /\ stage[m] = "loading" /\ Waits(Add(n)) /\ kernel = "up"
      /\ UNCHANGED <<taken, bus, memory, kernel>> /\ denied' = denied \cup {n}
      /\ AtCall(m, "register", n)
  BY NextCall DEF LoadInv, RegisterFails, Add
<1>2. DiesOnlyUntold'
  BY <1>1 DEF DiesOnlyUntold
<1>3. CASE m = "gpmc_net"
  <2>1. Called(m) /\ stage' = stage /\ leaked' = leaked
    BY <1>3 DEF RegisterFails, Returns
  <2>2. /\ CallsInv'
        /\ \A i \in Devices : /\ Waits(Ask(i))' <=> Waits(Ask(i))
                              /\ Waits(Add(i))' <=> Waits(Add(i)) /\ i # n
                              /\ Waits(Del(i))' <=> Waits(Del(i))
                              /\ Waits(Give(i))' <=> Waits(Give(i))
    BY <1>1, <2>1, CallTaken DEF LoadInv
  <2>3. \A i \in Devices : (Added(i)' <=> Added(i) \/ i = n) /\ (Asked(i)' <=> Asked(i))
    BY <1>1, <2>1, <2>2 DEF Added, Asked
  <2>4. BusInv'
    BY <1>1, <1>3, <2>3 DEF LoadInv, BusInv
  <2>5. CsInv'
    BY <1>1, <2>1, <2>2, <2>3 DEF LoadInv, CsInv, ChipSelects, Devices
  <2> QED
    BY <1>2, <2>2, <2>4, <2>5 DEF LoadInv
<1>4. CASE m # "gpmc_net"
  <2>1. /\ stage' = [stage EXCEPT ![m] = "out"] /\ left' = [left EXCEPT ![m] = <<>>]
        /\ leaked' = leaked \cup (taken \cap Of(m))
    BY <1>4 DEF RegisterFails, Returns
  <2>2. /\ stage'[m] = "out" /\ left'[m] = <<>>
        /\ \A k \in Mods : k # m => stage'[k] = stage[k] /\ left'[k] = left[k]
    BY <2>1 DEF LoadInv, CallsInv
  <2>3. CallsInv'
    BY <2>1, <2>2 DEF LoadInv, CallsInv
  <2>4. \A i \in Devices : Owner(i) = m => i = n
    BY <1>1, <1>4 DEF Owner, Devices
  <2>5. ~Added(n) /\ ~Added(n)' /\ ~Asked(n)'
    BY <1>1, <2>2 DEF Added, Asked
  <2>6. \A i \in Devices : i # n =>
          /\ stage'[Owner(i)] = stage[Owner(i)] /\ (Waits(Give(i))' <=> Waits(Give(i)))
          /\ (Added(i)' <=> Added(i)) /\ (Asked(i)' <=> Asked(i))
    BY <2>2, <2>4, Others DEF LoadInv
  <2>7. BusInv'
    BY <1>1, <2>5, <2>6 DEF LoadInv, BusInv
  <2>8. n \in taken => n = 3 /\ n \in leaked'
    BY <1>1, <1>4, <2>1 DEF LoadInv, CsInv, ChipSelects, Owner, Of
  <2>9. CsInv'
    <3>1. taken' \subseteq ChipSelects /\ memory' \subseteq ChipSelects
      BY <1>1 DEF LoadInv, CsInv
    <3>2. ASSUME NEW i \in ChipSelects, Asked(i)' PROVE i \in taken' \/ i \in denied'
      BY <1>1, <2>5, <2>6, <3>2 DEF LoadInv, CsInv, ChipSelects, Devices
    <3>3. ASSUME NEW i \in taken'
          PROVE  /\ stage'[Owner(i)] = "out" => i = 3 /\ i \in leaked'
                 /\ stage'[Owner(i)] = "unloading" => Waits(Give(i))'
      <4>1. i \in taken /\ i \in Devices
        BY <1>1, Selects DEF LoadInv, CsInv
      <4>2. CASE i = n
        BY <1>1, <2>2, <2>8, <4>1, <4>2
      <4>3. CASE i # n
        BY <2>1, <2>6, <4>1, <4>3 DEF LoadInv, CsInv
      <4> QED
        BY <4>2, <4>3
    <3>4. ASSUME NEW i \in memory', stage'[Owner(i)] \in {"loading", "in"} \/ Asked(i)'
          PROVE  i \in taken'
      <4>1. i \in memory /\ i \in Devices
        BY <1>1, Selects DEF LoadInv, CsInv
      <4>2. i # n
        BY <1>1, <2>2, <2>5, <3>4
      <4> QED
        BY <1>1, <2>6, <3>4, <4>1, <4>2 DEF LoadInv, CsInv
    <3> QED
      BY <3>1, <3>2, <3>3, <3>4 DEF CsInv
  <2> QED
    BY <1>2, <2>3, <2>7, <2>9 DEF LoadInv
<1> QED
  BY <1>3, <1>4

LEMMA UnregisterKeeps ==
  ASSUME LoadInv, NEW m \in Mods, NEW n \in Devices, Unregister(m, n)
  PROVE  LoadInv'
<1>1. Owner(n) = m /\ stage[m] = "unloading" /\ Waits(Del(n)) /\ kernel = "up"
  BY NextCall DEF LoadInv, Unregister, Del
<1>2. /\ CallsInv'
      /\ \A i \in Devices : /\ Waits(Ask(i))' <=> Waits(Ask(i))
                            /\ Waits(Add(i))' <=> Waits(Add(i))
                            /\ Waits(Del(i))' <=> Waits(Del(i)) /\ i # n
                            /\ Waits(Give(i))' <=> Waits(Give(i))
  BY CallTaken DEF LoadInv, Unregister
<1>3. \A i \in Devices : (Added(i)' <=> Added(i) /\ i # n) /\ (Asked(i)' <=> Asked(i))
  BY <1>1, <1>2 DEF Added, Asked, Unregister
<1>4. BusInv'
  BY <1>3 DEF LoadInv, BusInv, Unregister
<1>5. CsInv'
  BY <1>1, <1>2, <1>3 DEF LoadInv, CsInv, Unregister, ChipSelects, Devices
<1> QED
  BY <1>1, <1>2, <1>4, <1>5 DEF LoadInv, DiesOnlyUntold, Unregister

LEMMA CsFreeKeeps ==
  ASSUME LoadInv, NEW m \in Mods, NEW n \in Devices, CsFree(m, n)
  PROVE  LoadInv'
<1>1. Owner(n) = m /\ stage[m] = "unloading" /\ Waits(Give(n)) /\ kernel = "up"
  BY NextCall DEF LoadInv, CsFree, Give
<1>2. /\ CallsInv'
      /\ \A i \in Devices : /\ Waits(Ask(i))' <=> Waits(Ask(i))
                            /\ Waits(Add(i))' <=> Waits(Add(i))
                            /\ Waits(Del(i))' <=> Waits(Del(i))
                            /\ Waits(Give(i))' <=> Waits(Give(i)) /\ i # n
  BY CallTaken DEF LoadInv, CsFree
<1>3. \A i \in Devices : (Added(i)' <=> Added(i)) /\ (Asked(i)' <=> Asked(i) /\ i # n)
  BY <1>1, <1>2 DEF Added, Asked, CsFree
<1>4. BusInv'
  BY <1>3 DEF LoadInv, BusInv, CsFree
<1>5. CsInv'
  BY <1>1, <1>2, <1>3 DEF LoadInv, CsInv, CsFree, ChipSelects, Devices
<1> QED
  BY <1>1, <1>2, <1>4, <1>5 DEF LoadInv, DiesOnlyUntold, CsFree

(***************************************************************************)
(* The kernel dies of a device its bus, or a chip select its memory        *)
(* controller, has not: gpmc_net was refused the one, or either the other. *)
(***************************************************************************)
LEMMA DiesKeeps ==
  ASSUME LoadInv, NEW m \in Mods, NEW n \in Devices, Dies(m, n)
  PROVE  LoadInv'
<1>1. UNCHANGED <<stage, left, taken, bus, memory, denied, leaked>>
  BY DEF Dies
<1>2. CallsInv' /\ BusInv' /\ CsInv'
  BY <1>1 DEF LoadInv, CallsInv, BusInv, CsInv, Added, Asked, Waits
<1>3. Owner(n) = m /\ stage[m] = "unloading" /\ n \in denied /\ m # "hx_key"
  <2>1. CASE AtCall(m, "unregister", n) /\ n \notin bus
    <3>1. Owner(n) = m /\ stage[m] = "unloading" /\ Waits(Del(n))
      BY <2>1, NextCall DEF LoadInv, Del
    <3>2. Added(n)
      BY <3>1 DEF Added
    <3>3. Owner(n) = "gpmc_net" /\ n \in denied
      BY <2>1, <3>2 DEF LoadInv, BusInv
    <3> QED
      BY <3>1, <3>3
  <2>2. CASE AtCall(m, "free", n) /\ n \notin taken
    <3>1. Owner(n) = m /\ stage[m] = "unloading" /\ Waits(Give(n)) /\ n \in ChipSelects
      BY <2>2, NextCall DEF LoadInv, Give
    <3>2. n \in denied
      BY <2>2, <3>1 DEF LoadInv, CsInv, Asked
    <3>3. m # "hx_key"
      BY <3>1 DEF Owner, ChipSelects
    <3> QED
      BY <3>1, <3>2, <3>3
  <2> QED
    BY <2>1, <2>2 DEF Dies
<1>4. n \in Of(m)
  BY <1>3, Owned
<1>5. DiesOnlyUntold'
  BY <1>1, <1>3, <1>4 DEF DiesOnlyUntold
<1> QED
  BY <1>2, <1>5 DEF LoadInv

(***************************************************************************)
(* Loading, unloading and the end of either.                               *)
(***************************************************************************)
LEMMA InsmodKeeps ==
  ASSUME LoadInv, NEW m \in Mods, Insmod(m)
  PROVE  LoadInv'
<1>1. /\ stage[m] = "out" /\ kernel = "up" /\ memory' = memory \ Of(m)
      /\ denied' = denied \ Of(m) /\ UNCHANGED <<taken, bus, kernel, leaked>>
  BY DEF Insmod, Idle
<1>2. /\ DOMAIN left' = Mods /\ stage'[m] = "loading" /\ left'[m] = InitCalls(m)
      /\ \A k \in Mods : k # m => stage'[k] = stage[k] /\ left'[k] = left[k]
  BY DEF Insmod, LoadInv, CallsInv
<1>3. CallsInv'
  <2>1. stage' \in [Mods -> {"out", "loading", "in", "unloading"}]
    BY DEF Insmod, LoadInv, CallsInv
  <2> QED
    BY <1>2, <2>1, WholeTables DEF LoadInv, CallsInv
<1>4. \A i \in Devices : Owner(i) = m =>
        ~Added(i) /\ ~Added(i)' /\ (i \in ChipSelects => ~Asked(i)')
  <2> SUFFICES ASSUME NEW i \in Devices, Owner(i) = m
               PROVE  ~Added(i) /\ ~Added(i)' /\ (i \in ChipSelects => ~Asked(i)')
    OBVIOUS
  <2>1. Waits(Add(i))' /\ (i \in ChipSelects => Waits(Ask(i))')
    BY <1>2, Owned, InTables, Distinct DEF Waits
  <2> QED
    BY <1>1, <1>2, <2>1 DEF Added, Asked
<1>5. \A i \in Devices : Owner(i) # m =>
        /\ stage'[Owner(i)] = stage[Owner(i)] /\ (Waits(Give(i))' <=> Waits(Give(i)))
        /\ (Added(i)' <=> Added(i)) /\ (Asked(i)' <=> Asked(i))
        /\ (i \in denied' <=> i \in denied)
  BY <1>1, <1>2, Others, Owned DEF LoadInv
<1>6. BusInv'
  BY <1>1, <1>4, <1>5 DEF LoadInv, BusInv
<1>7. CsInv'
  <2>1. taken' \subseteq ChipSelects /\ memory' \subseteq ChipSelects
    BY <1>1 DEF LoadInv, CsInv
  <2>2. ASSUME NEW i \in ChipSelects, Asked(i)' PROVE i \in taken' \/ i \in denied'
    BY <1>1, <1>4, <1>5, <2>2 DEF LoadInv, CsInv, ChipSelects, Devices
  <2>3. ASSUME NEW i \in taken'
        PROVE  /\ stage'[Owner(i)] = "out" => i = 3 /\ i \in leaked'
               /\ stage'[Owner(i)] = "unloading" => Waits(Give(i))'
    <3>1. i \in taken /\ i \in Devices
      BY <1>1, Selects DEF LoadInv, CsInv
    <3> QED
      BY <1>1, <1>2, <1>5, <3>1 DEF LoadInv, CsInv
  <2>4. ASSUME NEW i \in memory', stage'[Owner(i)] \in {"loading", "in"} \/ Asked(i)'
        PROVE  i \in taken'
    <3>1. i \in memory /\ i \in Devices /\ Owner(i) # m
      BY <1>1, Owned DEF LoadInv, CsInv, ChipSelects, Devices
    <3> QED
      BY <1>1, <1>5, <2>4, <3>1 DEF LoadInv, CsInv
  <2> QED
    BY <2>1, <2>2, <2>3, <2>4 DEF CsInv
<1> QED
  BY <1>1, <1>3, <1>6, <1>7 DEF LoadInv, DiesOnlyUntold

LEMMA RmmodKeeps ==
  ASSUME LoadInv, NEW m \in Mods, Rmmod(m)
  PROVE  LoadInv'
<1>1. /\ stage[m] = "in" /\ kernel = "up"
      /\ UNCHANGED <<taken, bus, memory, kernel, denied, leaked>>
  BY DEF Rmmod, Idle
<1>2. /\ DOMAIN left' = Mods /\ stage'[m] = "unloading" /\ left'[m] = ExitCalls(m)
      /\ \A k \in Mods : k # m => stage'[k] = stage[k] /\ left'[k] = left[k]
  BY DEF Rmmod, LoadInv, CallsInv
<1>3. CallsInv'
  <2>1. stage' \in [Mods -> {"out", "loading", "in", "unloading"}]
    BY DEF Rmmod, LoadInv, CallsInv
  <2> QED
    BY <1>2, <2>1, WholeTables DEF LoadInv, CallsInv
<1>4. \A i \in Devices : Owner(i) = m =>
        /\ Added(i) /\ Added(i)' /\ Asked(i)
        /\ i \in ChipSelects => Asked(i)' /\ Waits(Give(i))'
  <2> SUFFICES ASSUME NEW i \in Devices, Owner(i) = m
               PROVE  /\ Added(i) /\ Added(i)' /\ Asked(i)
                      /\ i \in ChipSelects => Asked(i)' /\ Waits(Give(i))'
    OBVIOUS
  <2>1. Waits(Del(i))' /\ (i \in ChipSelects => Waits(Give(i))')
    BY <1>2, Owned, InTables, Distinct DEF Waits
  <2> QED
    BY <1>1, <1>2, <2>1 DEF Added, Asked
<1>5. \A i \in Devices : Owner(i) # m =>
        /\ stage'[Owner(i)] = stage[Owner(i)] /\ (Waits(Give(i))' <=> Waits(Give(i)))
        /\ (Added(i)' <=> Added(i)) /\ (Asked(i)' <=> Asked(i))
  BY <1>2, Others DEF LoadInv
<1>6. BusInv'
  BY <1>1, <1>4, <1>5 DEF LoadInv, BusInv
<1>7. CsInv'
  <2>1. taken' \subseteq ChipSelects /\ memory' \subseteq ChipSelects
    BY <1>1 DEF LoadInv, CsInv
  <2>2. ASSUME NEW i \in ChipSelects, Asked(i)' PROVE i \in taken' \/ i \in denied'
    BY <1>1, <1>4, <1>5, <2>2 DEF LoadInv, CsInv, ChipSelects, Devices
  <2>3. ASSUME NEW i \in taken'
        PROVE  /\ stage'[Owner(i)] = "out" => i = 3 /\ i \in leaked'
               /\ stage'[Owner(i)] = "unloading" => Waits(Give(i))'
    <3>1. i \in taken /\ i \in ChipSelects /\ i \in Devices
      BY <1>1, Selects DEF LoadInv, CsInv
    <3> QED
      BY <1>1, <1>2, <1>4, <1>5, <3>1 DEF LoadInv, CsInv
  <2>4. ASSUME NEW i \in memory', stage'[Owner(i)] \in {"loading", "in"} \/ Asked(i)'
        PROVE  i \in taken'
    <3>1. i \in memory /\ i \in Devices
      BY <1>1, Selects DEF LoadInv, CsInv
    <3> QED
      BY <1>1, <1>4, <1>5, <2>4, <3>1 DEF LoadInv, CsInv
  <2> QED
    BY <2>1, <2>2, <2>3, <2>4 DEF CsInv
<1> QED
  BY <1>1, <1>3, <1>6, <1>7 DEF LoadInv, DiesOnlyUntold

LEMMA DoneKeeps ==
  ASSUME LoadInv, NEW m \in Mods, Done(m)
  PROVE  LoadInv'
<1>1. /\ kernel = "up" /\ left[m] = <<>> /\ stage[m] \in {"loading", "unloading"}
      /\ UNCHANGED <<left, taken, bus, memory, kernel, denied, leaked>>
  BY DEF Done, Idle
<1>2. /\ stage'[m] = IF stage[m] = "loading" THEN "in" ELSE "out"
      /\ \A k \in Mods : k # m => stage'[k] = stage[k] /\ left'[k] = left[k]
  BY <1>1 DEF Done, LoadInv, CallsInv
<1>3. CallsInv'
  <2>1. stage' \in [Mods -> {"out", "loading", "in", "unloading"}]
    BY DEF Done, LoadInv, CallsInv
  <2> QED
    BY <1>1, <1>2, <2>1 DEF LoadInv, CallsInv
<1>4. \A i \in Devices : Owner(i) = m =>
        /\ ~Waits(Give(i)) /\ (Added(i)' <=> Added(i)) /\ (Asked(i)' <=> Asked(i))
  <2> SUFFICES ASSUME NEW i \in Devices, Owner(i) = m
               PROVE  /\ ~Waits(Give(i))
                      /\ (Added(i)' <=> Added(i)) /\ (Asked(i)' <=> Asked(i))
    OBVIOUS
  <2>1. ~Waits(Ask(i)) /\ ~Waits(Add(i)) /\ ~Waits(Del(i)) /\ ~Waits(Give(i))
    BY <1>1, Distinct, Elements DEF Waits
  <2> QED
    BY <1>1, <1>2, <2>1 DEF Added, Asked
<1>5. \A i \in Devices : Owner(i) # m =>
        /\ stage'[Owner(i)] = stage[Owner(i)] /\ (Waits(Give(i))' <=> Waits(Give(i)))
        /\ (Added(i)' <=> Added(i)) /\ (Asked(i)' <=> Asked(i))
  BY <1>2, Others DEF LoadInv
<1>6. BusInv'
  BY <1>1, <1>4, <1>5 DEF LoadInv, BusInv
<1>7. CsInv'
  <2>1. taken' \subseteq ChipSelects /\ memory' \subseteq ChipSelects
    BY <1>1 DEF LoadInv, CsInv
  <2>2. ASSUME NEW i \in ChipSelects, Asked(i)' PROVE i \in taken' \/ i \in denied'
    BY <1>1, <1>4, <1>5, <2>2 DEF LoadInv, CsInv, ChipSelects, Devices
  <2>3. ASSUME NEW i \in taken'
        PROVE  /\ stage'[Owner(i)] = "out" => i = 3 /\ i \in leaked'
               /\ stage'[Owner(i)] = "unloading" => Waits(Give(i))'
    <3>1. i \in taken /\ i \in Devices
      BY <1>1, Selects DEF LoadInv, CsInv
    <3> QED
      BY <1>1, <1>2, <1>4, <1>5, <3>1 DEF LoadInv, CsInv
  <2>4. ASSUME NEW i \in memory', stage'[Owner(i)] \in {"loading", "in"} \/ Asked(i)'
        PROVE  i \in taken'
    <3>1. i \in memory /\ i \in Devices
      BY <1>1, Selects DEF LoadInv, CsInv
    <3> QED
      BY <1>1, <1>2, <1>4, <1>5, <2>4, <3>1 DEF LoadInv, CsInv
  <2> QED
    BY <2>1, <2>2, <2>3, <2>4 DEF CsInv
<1> QED
  BY <1>1, <1>3, <1>6, <1>7 DEF LoadInv, DiesOnlyUntold

(***************************************************************************)
(* At boot nothing is loaded, and after a reboot again.                    *)
(***************************************************************************)
LEMMA AtBoot ==
  LoadInit => LoadInv
<1> SUFFICES ASSUME LoadInit PROVE LoadInv
  OBVIOUS
<1>1. \A i \in Devices : stage[Owner(i)] = "out"
  BY Owned DEF LoadInit
<1>2. CallsInv
  BY DEF LoadInit, CallsInv
<1>3. BusInv
  BY <1>1 DEF LoadInit, BusInv, Added
<1>4. CsInv
  BY <1>1 DEF LoadInit, CsInv, Asked, ChipSelects, Devices
<1> QED
  BY <1>2, <1>3, <1>4 DEF LoadInit, LoadInv, DiesOnlyUntold

LEMMA RebootKeeps ==
  Reboot => LoadInv'
<1>1. Reboot => LoadInit'
  BY DEF Reboot, LoadInit
<1> QED
  BY <1>1, AtBoot, PTL

LEMMA LoadInductive ==
  LoadInv /\ [LoadNext]_loadVars => LoadInv'
<1> SUFFICES ASSUME LoadInv, [LoadNext]_loadVars
             PROVE  LoadInv'
  OBVIOUS
<1>1. ASSUME NEW m \in Mods, NEW n \in Devices, CallStep(m, n)
      PROVE  LoadInv'
  BY <1>1, RequestKeeps, RequestRefusedKeeps, MappingRefusedKeeps, RegisterKeeps,
     RegisterFailsKeeps,
     UnregisterKeeps, CsFreeKeeps, DiesKeeps DEF CallStep
<1>2. CASE UNCHANGED loadVars
  BY <1>2
     DEF loadVars, LoadInv, CallsInv, BusInv, CsInv, DiesOnlyUntold,
         InsideGsInit, Added, Asked, Waits
<1> QED
  BY <1>1, <1>2, InsmodKeeps, RmmodKeeps, DoneKeeps, RebootKeeps DEF LoadNext

(***************************************************************************)
(* Where every device stands is told by its module and the calls that      *)
(* module still has to make, in every reachable state.                     *)
(***************************************************************************)
THEOREM Loads == LoadSpec => []LoadInv
<1> QED
  BY AtBoot, LoadInductive, PTL DEF LoadSpec

(***************************************************************************)
(* In whatever order the drivers are loaded and unloaded, and whatever is  *)
(* refused them: no device is on the bus with addresses behind a chip      *)
(* select that was given back (ch438_dev.c:396-400).                       *)
(***************************************************************************)
THEOREM NoneFreed == LoadSpec => []NoFreedMemory
<1>1. LoadInv => NoFreedMemory
  <2> SUFFICES ASSUME LoadInv, NEW n \in bus \cap memory
               PROVE  n \in taken
    BY DEF NoFreedMemory
  <2>1. n \in ChipSelects /\ n \in Devices
    BY Selects DEF LoadInv, CsInv
  <2>2. Added(n)
    BY <2>1 DEF LoadInv, BusInv
  <2>3. stage[Owner(n)] \in {"loading", "in"} \/ Asked(n)
    <3>1. CASE stage[Owner(n)] = "unloading" /\ Waits(Del(n))
      <4>1. /\ left[Owner(n)] \in ExitRests(Owner(n)) /\ Owner(n) \in Mods
            /\ n \in Of(Owner(n))
        BY <2>1, <3>1, Owned DEF LoadInv, CallsInv
      <4>2. Del(n) \in Elems(left[Owner(n)])
        BY <2>1, <3>1, Distinct DEF Waits
      <4>3. Give(n) \in Elems(left[Owner(n)])
        BY <2>1, <4>1, <4>2, GivenLast
      <4> QED
        BY <2>1, <3>1, <4>3, Distinct DEF Waits, Asked
    <3> QED
      BY <2>2, <3>1 DEF Added
  <2> QED
    BY <2>3 DEF LoadInv, CsInv
<1> QED
  BY <1>1, Loads, PTL

(***************************************************************************)
(* The kernel ends only at an rmmod after an insmod of gpmc_net or ch438   *)
(* that was refused something and did not tell, or in gs_init of ch438     *)
(* with the chip select granted (gpmc_net.c:249-256, ch438_dev.c:318-366,  *)
(* 389).                                                                   *)
(***************************************************************************)
THEOREM EndsUntold == LoadSpec => []DiesOnlyUntold
<1>1. LoadInv => DiesOnlyUntold
  BY DEF LoadInv
<1> QED
  BY <1>1, Loads, PTL

(***************************************************************************)
(* No order of loading and unloading leaks a chip select, but for the one  *)
(* of the UARTs when their registration failed (ch438_dev.c:389-393).      *)
(***************************************************************************)
THEOREM NoneLeaked == LoadSpec => []NoLeak
<1>1. LoadInv => NoLeak
  BY DEF LoadInv, CsInv, NoLeak
<1> QED
  BY <1>1, Loads, PTL
=============================================================================
