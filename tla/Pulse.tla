------------------------------- MODULE Pulse -------------------------------
(***************************************************************************)
(* The pulse driver, modules/pulse/pulse.c.  It repeats the level of an    *)
(* input pin (GPIO 115) on an output pin (GPIO 116); when the input has    *)
(* been silent for TIMER_OUT_CNT periods of its 500 ms timer it toggles    *)
(* the output by itself.                                                   *)
(*                                                                         *)
(* Four contexts share one tpPULSE_DEV without a lock:                     *)
(*   - the edge interrupt, which only schedules the tasklet;               *)
(*   - the tasklet, which copies the input level to the output;            *)
(*   - the hrtimer handler, which counts silent periods and toggles;       *)
(*   - process context: insmod/rmmod, open, close and ioctl.               *)
(* The target is a single processor.  Hard interrupts (edge, hrtimer) are  *)
(* atomic and preempt the tasklet between any two of its steps; the        *)
(* tasklet preempts process context.                                       *)
(*                                                                         *)
(* gpo.cnt and gpo.set_fail_cnt are statistics no code reads and are left  *)
(* out.                                                                    *)
(***************************************************************************)
EXTENDS Naturals, FiniteSets

CONSTANTS
  Procs,         \* user processes that may open /dev/pulse
  TimerOutCnt,   \* TIMER_OUT_CNT, 10 in the source
  MaxDepth,      \* bound: how deep disable_irq calls may nest
  Preemptible,   \* may the kernel switch tasks inside a driver call?
  DeferSoftirq   \* may a tasklet be left to ksoftirqd, behind process context?

ASSUME PulseAssumption ==
  /\ TimerOutCnt \in Nat \ {0}
  /\ MaxDepth \in Nat \ {0}
  /\ Preemptible \in BOOLEAN
  /\ DeferSoftirq \in BOOLEAN

VARIABLES
  phase,      \* where the module is between insmod and rmmod
  gpoOk,      \* gpo_init got the output pin (its result is never looked at)
  irqOk,      \* request_irq registered the handler (result never looked at)
  pulseDev,   \* dev_pulse->pulse_dev, and whether its node can be opened
  in,         \* level of the input pin
  out,        \* level of the output pin
  val,        \* gpo.val, the driver's idea of the output level
  keepalive,  \* timer.keepalive_cnt
  depth,      \* disable depth of the interrupt line
  sched,      \* TASKLET_STATE_SCHED of pulse_task
  pc,         \* next step of pulse_tasklet, "idle" when it does not run
  ret,        \* its local variable ret
  opened,     \* dev_pulse->opened
  opening,    \* processes inside pulse_open, past the test of opened
  holders,    \* processes with an open file
  oops        \* the kernel has died on a bad pointer

(***************************************************************************)
(* History variables, read by no guard of the driver.                      *)
(***************************************************************************)
VARIABLES
  missed,     \* the input may have changed unseen since the last sample
  toggled,    \* the timer toggled the output since the tasklet last drove it
  raced,      \* ... and did so before the tasklet had recorded the level
  sinceEdge,  \* timer periods since the last edge interrupt (capped)
  overStop    \* somebody stopped an interrupt that was not running

driver == <<val, keepalive, out>>
tasklet == <<sched, pc, ret>>
files == <<opened, opening, holders>>
module == <<phase, gpoOk, irqOk, pulseDev>>
history == <<missed, toggled, raced, sinceEdge, overStop>>
vars == <<module, in, driver, depth, tasklet, files, oops, history>>

Level == {0, 1}
DeviceStates == {"none", "node", "unreachable", "error"}
Phases == {"absent", "gpo", "window", "masked", "visible", "live",
           "cancelled", "released"}
TaskletSteps == {"idle", "sample", "drive", "record", "rewrite", "rearm"}

(***************************************************************************)
(* An operator whose name ends in Fault is a deliberately wrong form of    *)
(* the definition that follows it.  None is part of the specification: the *)
(* runs are repeated with each put in its place, to see that the property  *)
(* it should break is broken.                                              *)
(***************************************************************************)

(***************************************************************************)
(* The handler is registered from request_irq to free_irq.  hrtimer_init   *)
(* has run once the module has been live.  The device node can be opened   *)
(* from device_create on and goes before rmmod proceeds.                   *)
(***************************************************************************)
HandlerRegistered ==
  irqOk /\ phase \in {"window", "masked", "visible", "live", "cancelled"}
\* ... the record, and the timer in it, freed before the interrupt.
TimerInitialisedFault == phase = "live"
TimerInitialised == phase \in {"live", "cancelled", "released"}
NodeExists == pulseDev = "node" /\ phase \in {"visible", "live"}

(***************************************************************************)
(* p may take a step in process context: no softirq is due before it, and  *)
(* without kernel preemption nobody else is in the middle of a call.       *)
(***************************************************************************)
ProcessContext(p) ==
  /\ ~oops
  /\ DeferSoftirq \/ (~sched /\ pc = "idle")
  /\ Preemptible \/ opening \subseteq {p}

KernelContext ==
  /\ ~oops
  /\ DeferSoftirq \/ (~sched /\ pc = "idle")
  /\ Preemptible \/ opening = {}

\* gpio_set_value on a pin the driver did not get may or may not reach it.
Driven(level) == IF gpoOk THEN {level} ELSE {level, out}

Init ==
  /\ phase = "absent" /\ gpoOk = FALSE /\ irqOk = FALSE
  /\ pulseDev = "none"
  /\ in \in Level /\ out \in Level
  /\ val = 0 /\ keepalive = 0 /\ depth = 1
  /\ sched = FALSE /\ pc = "idle" /\ ret = 0
  /\ opened = FALSE /\ opening = {} /\ holders = {}
  /\ oops = FALSE
  /\ missed = TRUE /\ toggled = FALSE /\ raced = FALSE
  /\ sinceEdge = 0 /\ overStop = FALSE

(***************************************************************************)
(* pulse_mod_init, step by step.  Neither gpo_init's nor irq_init's result *)
(* is tested, so the module goes on when either has failed.                *)
(***************************************************************************)
InitialRecordFault(ok) == 0
InitialRecord(ok) == IF ok THEN 1 ELSE 0

GpoInit(ok) ==
  /\ KernelContext
  /\ phase = "absent"
  /\ phase' = "gpo"
  /\ gpoOk' = ok
  /\ val' = InitialRecord(ok)
  /\ out' = IF ok THEN 1 ELSE out
  /\ keepalive' = 0
  /\ opened' = FALSE
  /\ missed' = TRUE /\ toggled' = FALSE /\ raced' = FALSE
  /\ UNCHANGED <<irqOk, pulseDev, in, depth, tasklet, opening, holders, oops,
                 sinceEdge, overStop>>

\* request_irq: a registered handler is live at once.
IrqRequest(ok) ==
  /\ KernelContext
  /\ phase = "gpo"
  /\ phase' = "window"
  /\ irqOk' = ok
  /\ depth' = IF ok THEN 0 ELSE depth
  /\ UNCHANGED <<gpoOk, pulseDev, in, driver, tasklet, files, oops, history>>

\* ... until the disable_irq that follows it.
MaskedTwiceFault == depth + 2
Masked == depth + 1

IrqMask ==
  /\ KernelContext
  /\ phase = "window"
  /\ phase' = "masked"
  /\ depth' = Masked
  /\ UNCHANGED <<gpoOk, irqOk, pulseDev, in, driver, tasklet, files, oops,
                 history>>

(***************************************************************************)
(* alloc_chrdev_region, cdev_add, class_create, device_create: if all of   *)
(* them succeed user space can open the device from here on.  None of the  *)
(* results is tested.  Without a number or a cdev there is a device nobody *)
(* can open; device_create gives an error pointer when it fails, and for a *)
(* class that is one, unless that kernel dies on it.                       *)
(***************************************************************************)
NodeCalls == {"alloc_chrdev_region", "cdev_add", "class_create", "device_create"}
Created(refused) ==
  CASE refused = {} -> "node"
    [] refused \cap {"class_create", "device_create"} # {} -> "error"
    [] OTHER -> "unreachable"

NodeCreate(refused) ==
  /\ KernelContext
  /\ phase = "masked"
  /\ phase' = "visible"
  /\ pulseDev' = Created(refused)
  /\ oops' \in BOOLEAN /\ (oops' => "class_create" \in refused)
  /\ UNCHANGED <<gpoOk, irqOk, in, driver, depth, tasklet, files, history>>

\* hrtimer_init and hrtimer_start.
TimerStart ==
  /\ KernelContext
  /\ phase = "visible"
  /\ phase' = "live"
  /\ keepalive' = 0
  /\ UNCHANGED <<gpoOk, irqOk, pulseDev, in, val, out, depth, tasklet, files,
                 oops, history>>

(***************************************************************************)
(* pulse_mod_release.  rmmod waits for the files: every open file holds a  *)
(* reference to the module.                                                *)
(***************************************************************************)
TimerCancel ==
  /\ KernelContext
  /\ phase = "live"
  /\ holders = {} /\ opening = {}
  /\ phase' = "cancelled"
  /\ UNCHANGED <<gpoOk, irqOk, pulseDev, in, driver, depth, tasklet, files, oops,
                 history>>

IrqRelease ==
  /\ KernelContext
  /\ phase = "cancelled"
  /\ phase' = "released"
  /\ depth' = 1
  /\ UNCHANGED <<gpoOk, irqOk, pulseDev, in, driver, tasklet, files, oops,
                 history>>

\* device_unregister follows the pointer, whatever it is.
UnregisterDies ==
  /\ KernelContext
  /\ phase = "released" /\ pulseDev = "error"
  /\ oops' = TRUE
  /\ UNCHANGED <<module, in, driver, depth, tasklet, files, history>>

\* device_unregister to kfree: nothing has killed the tasklet, so one still due runs in freed
\* memory.
ModuleFree ==
  /\ KernelContext
  /\ phase = "released" /\ pulseDev # "error"
  /\ phase' = "absent"
  /\ pulseDev' = "none"
  /\ oops' = (sched \/ pc # "idle")
  /\ UNCHANGED <<gpoOk, irqOk, in, driver, depth, tasklet, files, history>>

(***************************************************************************)
(* pulse_open, split at the gap between the test of opened and its         *)
(* assignment, and pulse_release, which leaves the interrupt as it is.     *)
(***************************************************************************)
MayOpen(p) == p \notin opening \cup holders /\ ~opened

OpenTest(p) ==
  /\ ProcessContext(p)
  /\ NodeExists
  /\ MayOpen(p)
  /\ opening' = opening \cup {p}
  /\ UNCHANGED <<module, in, driver, depth, tasklet, opened, holders, oops,
                 history>>

OpenSet(p) ==
  /\ ProcessContext(p)
  /\ p \in opening
  /\ opened' = TRUE
  /\ opening' = opening \ {p}
  /\ holders' = holders \cup {p}
  /\ UNCHANGED <<module, in, driver, depth, tasklet, oops, history>>

Release(p) ==
  /\ ProcessContext(p)
  /\ p \in holders
  /\ opened' = FALSE
  /\ holders' = holders \ {p}
  /\ UNCHANGED <<module, in, driver, depth, tasklet, opening, oops, history>>

(***************************************************************************)
(* pulse_ioctl.  enable_irq at depth 0 only warns; when it brings the      *)
(* depth to 0 the interrupt core may replay an edge it latched meanwhile.  *)
(***************************************************************************)
IrqStart(p) ==
  /\ ProcessContext(p)
  /\ p \in holders
  /\ depth' = IF depth = 0 THEN 0 ELSE depth - 1
  /\ \E replay \in {FALSE, missed /\ irqOk /\ depth = 1} :
       /\ sched' = (sched \/ replay)
       /\ sinceEdge' = IF replay THEN 0 ELSE sinceEdge
  /\ UNCHANGED <<module, in, driver, pc, ret, files, oops, missed, toggled,
                 raced, overStop>>

IrqStop(p) ==
  /\ ProcessContext(p)
  /\ p \in holders
  /\ depth < MaxDepth
  /\ depth' = depth + 1
  /\ overStop' = (overStop \/ depth > 0)
  /\ UNCHANGED <<module, in, driver, tasklet, files, oops, missed, toggled,
                 raced, sinceEdge>>

(***************************************************************************)
(* The input changes level.  pulse_irq_handler schedules the tasklet; with *)
(* the line disabled or no handler the change goes unseen.                 *)
(***************************************************************************)
PulseIrqHandlerFault == sched' = (sched \/ pc = "idle")
PulseIrqHandler == sched' = TRUE

Edge ==
  /\ ~oops
  /\ in' = 1 - in
  /\ IF HandlerRegistered /\ depth = 0
     THEN PulseIrqHandler /\ sinceEdge' = 0 /\ UNCHANGED missed
     ELSE missed' = TRUE /\ UNCHANGED <<sched, sinceEdge>>
  /\ UNCHANGED <<module, driver, depth, pc, ret, files, oops, toggled, raced,
                 overStop>>

(***************************************************************************)
(* hrtimer_handler, in hard interrupt context: it counts the first         *)
(* TIMER_OUT_CNT silent periods and toggles the output in every later one. *)
(***************************************************************************)
Counting == TimerOutCnt > keepalive

CountPeriod ==
  /\ Counting
  /\ keepalive' = keepalive + 1
  /\ UNCHANGED <<val, out, toggled, raced>>

\* ... inverts the pin instead of the record.
TogglePinFault ==
  /\ ~Counting
  /\ val' = 1 - val
  /\ out' \in Driven(1 - out)
  /\ toggled' = TRUE
  /\ raced' = (raced \/ pc \in {"record", "rewrite"})
  /\ UNCHANGED keepalive

OppositeFault == 0
Opposite == IF val # 0 THEN 0 ELSE 1

Toggle ==
  /\ ~Counting
  /\ val' = Opposite
  /\ out' \in Driven(val')
  /\ toggled' = TRUE
  /\ raced' = (raced \/ pc \in {"record", "rewrite"})
  /\ UNCHANGED keepalive

TimerTick ==
  /\ ~oops
  /\ phase = "live"
  /\ CountPeriod \/ Toggle
  /\ sinceEdge' = IF sinceEdge > TimerOutCnt THEN sinceEdge
                                             ELSE sinceEdge + 1
  /\ UNCHANGED <<module, in, depth, tasklet, files, oops, missed, overStop>>

(***************************************************************************)
(* pulse_tasklet.  TASKLET_STATE_SCHED is cleared before the function      *)
(* runs, so an edge that comes while it runs schedules it again.           *)
(***************************************************************************)
TaskletEnter ==
  /\ ~oops
  /\ sched /\ pc = "idle"
  /\ sched' = FALSE
  /\ pc' = "sample"
  /\ UNCHANGED <<module, in, driver, depth, ret, files, oops, history>>

\* ret = gpio_get_value_cansleep(...)
Sample ==
  /\ ~oops
  /\ pc = "sample"
  /\ pc' = "drive"
  /\ ret' = in
  /\ missed' = FALSE
  /\ UNCHANGED <<module, in, driver, depth, sched, files, oops, toggled,
                 raced, sinceEdge, overStop>>

\* gpo_set: gpio_set_value(...)
Drive ==
  /\ ~oops
  /\ pc = "drive"
  /\ pc' = "record"
  /\ out' \in Driven(ret)
  /\ toggled' = FALSE /\ raced' = FALSE
  /\ UNCHANGED <<module, in, val, keepalive, depth, sched, ret, files, oops,
                 missed, sinceEdge, overStop>>

\* gpo_set: gpo_info->val = val
Record ==
  /\ ~oops
  /\ pc = "record"
  /\ pc' = "rewrite"
  /\ val' = ret
  /\ UNCHANGED <<module, in, keepalive, out, depth, sched, ret, files, oops,
                 history>>

\* dev_pulse->gpo.val = ret, once more
Rewrite ==
  /\ ~oops
  /\ pc = "rewrite"
  /\ pc' = "rearm"
  /\ val' = ret
  /\ UNCHANGED <<module, in, keepalive, out, depth, sched, ret, files, oops,
                 history>>

KeepaliveResetFault == keepalive
KeepaliveReset == 0

\* reset_timer_keepalive_cnt: hrtimer_forward_now dereferences the timer's
\* base, which is NULL until hrtimer_init has run.
Rearm ==
  /\ ~oops
  /\ pc = "rearm"
  /\ pc' = "idle"
  /\ IF TimerInitialised
     THEN keepalive' = KeepaliveReset /\ UNCHANGED oops
     ELSE oops' = TRUE /\ UNCHANGED keepalive
  /\ UNCHANGED <<module, in, val, out, depth, sched, ret, files, history>>

TaskletStep == TaskletEnter \/ Sample \/ Drive \/ Record \/ Rewrite \/ Rearm

ModuleStep ==
  \/ \E ok \in BOOLEAN : GpoInit(ok) \/ IrqRequest(ok)
  \/ \E refused \in SUBSET NodeCalls : NodeCreate(refused)
  \/ IrqMask \/ TimerStart
  \/ TimerCancel \/ IrqRelease \/ UnregisterDies \/ ModuleFree

FileStep(p) ==
  OpenTest(p) \/ OpenSet(p) \/ Release(p) \/ IrqStart(p) \/ IrqStop(p)

Next ==
  \/ ModuleStep
  \/ \E p \in Procs : FileStep(p)
  \/ Edge
  \/ TimerTick
  \/ TaskletStep

Spec == Init /\ [][Next]_vars

(***************************************************************************)
(* The hrtimer is periodic and softirqs always get to run.                 *)
(***************************************************************************)
FairSpec == Spec /\ WF_vars(TimerTick) /\ WF_vars(TaskletStep)

-----------------------------------------------------------------------------
ModuleTypeOK ==
  /\ phase \in Phases /\ gpoOk \in BOOLEAN /\ irqOk \in BOOLEAN
  /\ pulseDev \in DeviceStates
  /\ depth \in 0..(MaxDepth + 1)
PinTypeOK ==
  /\ in \in Level /\ out \in Level /\ val \in Level /\ ret \in Level
  /\ keepalive \in 0..TimerOutCnt
TaskletTypeOK == sched \in BOOLEAN /\ pc \in TaskletSteps
FileTypeOK ==
  /\ opened \in BOOLEAN
  /\ opening \in SUBSET Procs /\ holders \in SUBSET Procs
HistoryTypeOK ==
  /\ oops \in BOOLEAN
  /\ missed \in BOOLEAN /\ toggled \in BOOLEAN /\ raced \in BOOLEAN
  /\ sinceEdge \in 0..(TimerOutCnt + 1)
  /\ overStop \in BOOLEAN

\* Every variable has its type (modules/pulse/pulse.h, tpPULSE_DEV); the
\* keepalive count never passes TIMER_OUT_CNT.
TypeOK ==
  ModuleTypeOK /\ PinTypeOK /\ TaskletTypeOK /\ FileTypeOK /\ HistoryTypeOK

(***************************************************************************)
(* No edge is lost: when the tasklet has nothing left to do, nothing was   *)
(* missed while the line was masked, and the timer has not taken over, the *)
(* output pin and the driver's record of it both equal the input as it is  *)
(* now, whatever edges came while the tasklet was running                  *)
(* (pulse_irq_handler, pulse_tasklet, pulse.c:100-118).                    *)
(***************************************************************************)
Settled == pc = "idle" /\ ~sched /\ ~missed /\ ~toggled
OutputMirrorsInput ==
  ~oops /\ Settled => val = in /\ (gpoOk => out = in)

(***************************************************************************)
(* gpo.val tells the level of the output pin except after one particular   *)
(* race: a timer toggle that preempted the tasklet after it drove the pin  *)
(* and before it last stored val (pulse.c:39-40 against 59-62 and 110).    *)
(***************************************************************************)
RecordTellsPin ==
  gpoOk /\ pc = "idle" /\ ~raced /\ phase # "absent" => out = val

(***************************************************************************)
(* The driver never takes the output over early: the timer toggles only    *)
(* when TIMER_OUT_CNT periods have passed since the last edge interrupt,   *)
(* or while that edge's tasklet has yet to finish (pulse.c:54-63, 73).     *)
(***************************************************************************)
NoEarlyFallback ==
  [][TimerTick /\ toggled' /\ val' # val =>
       \/ sinceEdge >= TimerOutCnt
       \/ sched \/ pc # "idle"]_vars

(***************************************************************************)
(* START switches the interrupt on as long as nobody stopped it twice, in  *)
(* any sequence of opens, closes, STARTs and STOPs by any processes: close *)
(* leaves the depth alone and a second START changes nothing               *)
(* (pulse.c:138-154, 179-186, 196-209).                                    *)
(***************************************************************************)
StartEnables ==
  [][\A p \in Procs : IrqStart(p) /\ irqOk /\ ~overStop => depth' = 0]_vars

(***************************************************************************)
(* Without kernel preemption pulse_open admits one process at a time and   *)
(* opened is set exactly while somebody has the file (pulse.c:164-186).    *)
(***************************************************************************)
ExclusiveOpen ==
  ~Preemptible => /\ \A p, q \in opening \cup holders : p = q
                  /\ opened <=> holders # {}

(***************************************************************************)
(* The kernel dies in few places.  In pulse_mod_init an edge kills it      *)
(* between request_irq and disable_irq and, once the node is visible and a *)
(* process has sent START, before hrtimer_init; a class that could not be  *)
(* created may.  rmmod dies only of a device that could not be created, at *)
(* device_unregister; a driver that runs never does.  A tasklet left to    *)
(* ksoftirqd can also fall due after disable_irq, in what is left of       *)
(* insmod, or after kfree (pulse.c:132-134, 248-257, 265-277).             *)
(***************************************************************************)
Windows ==
  {"window"}
    \cup (IF DeferSoftirq THEN {"masked", "visible", "absent"} ELSE {})
    \cup (IF pulseDev # "unreachable" THEN {"visible"} ELSE {})
    \cup (IF pulseDev = "error" THEN {"released"} ELSE {})
DiesOnlyInWindows == oops => phase \in Windows

(***************************************************************************)
(* Fallback: a loaded driver whose input has gone silent toggles its       *)
(* output for ever (pulse.c:49-68).                                        *)
(***************************************************************************)
Silent == <>[](in = 0) \/ <>[](in = 1)
FreeRunsWhenSilent ==
  <>[](phase = "live" /\ gpoOk /\ ~oops) /\ Silent
     => []<>(out = 0) /\ []<>(out = 1)

(***************************************************************************)
(* The race that makes gpo.val and the pin differ heals: the next edge, or *)
(* the next toggle of the timer, makes them agree again.                   *)
(***************************************************************************)
RecordHeals ==
  (phase = "live" /\ gpoOk /\ out # val)
     ~> (out = val \/ phase # "live" \/ oops)
=============================================================================
