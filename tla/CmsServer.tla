----------------------------- MODULE CmsServer -----------------------------
(***************************************************************************)
(* cms-svr as a process, app/cms_server/cms_svr.c with gpio_key_wtd.c and  *)
(* pulse.c: several instances of it may be started, at once or one after   *)
(* another was killed.  They share /dev/pulse, the path of the message     *)
(* socket, the ports of the address service and the recover key, whose     *)
(* thread runs the recovery script (RecoverDisk) with system().            *)
(*                                                                         *)
(* A script is a child of its instance and keeps every descriptor the      *)
(* instance had open, also when the instance has died.  The LED thread and *)
(* the thread that toggles the peripheral watchdog share no state with the *)
(* rest; watchdog start is compiled out.  Of the driver (Pulse) only the   *)
(* open, the release and the disable depth are kept.  The driver tests and *)
(* sets its flag in two steps without a lock.  On a kernel that does not   *)
(* preempt a system call, on one processor, nothing runs between the two;  *)
(* on any other, a second instance may pass the test (raced).              *)
(*                                                                         *)
(* An operator whose name ends in Fault is a deliberately wrong form of    *)
(* the definition that follows it.                                         *)
(***************************************************************************)
EXTENDS Naturals, Sequences, FiniteSets

CONSTANTS
  Instances,   \* cms-svr processes started, one after the other or at once
  MaxPresses,  \* bound: how often the recover key is pressed
  Preemptible, \* may the kernel switch tasks inside a driver call?
  NoOne        \* not an instance

ASSUME CmsAssumption ==
  MaxPresses \in Nat /\ Preemptible \in BOOLEAN /\ NoOne \notin Instances

VARIABLES
  pc,      \* next step of main in each instance
  path,    \* instance whose socket the message path names, or NoOne
  sock,    \* has it a message socket (hdl is not NULL)
  opened,  \* ... opened /dev/pulse
  busy,    \* dev_pulse->opened, the driver's flag
  bound,   \* ... the ports of the address service
  depth,   \* disable depth of the pulse interrupt
  key,     \* next step of its key_func
  events,  \* key events it has not read
  script,  \* its recovery script is running
  held,    \* the key is down
  seen,    \* history: presses each key thread could see
  runs,    \* history: scripts it has started
  raced    \* history: two were inside pulse_open, and one still has the file

device == <<opened, busy, depth, raced>>
files == <<path, sock, device, bound>>
keys == <<key, events, script, held, seen, runs>>
vars == <<pc, files, keys>>

Alive(i) == pc[i] \notin {"new", "dead"}
HoldsFilesFault(i) == Alive(i)
HoldsFiles(i) == Alive(i) \/ script[i]
Holder(i) == opened[i] /\ HoldsFiles(i)
PortsBusy == \E i \in Instances : bound[i] /\ HoldsFiles(i)
Go(i, step) == pc' = [pc EXCEPT ![i] = step]

\* pulse_release of the driver, when the last copy of i's descriptor goes.
\* It clears the flag even if another instance has the device open.
Release(i) ==
  /\ busy' = (busy /\ (Holder(i) => HoldsFiles(i)'))
  /\ UNCHANGED <<path, sock, opened, bound, depth, raced>>

\* Nothing runs while another instance is inside a call that is not preempted.
Inside(i) == pc[i] = "opening"
MayRun(i) == Preemptible \/ \A j \in Instances \ {i} : ~Inside(j)

Init ==
  /\ pc = [i \in Instances |-> "new"] /\ path = NoOne
  /\ sock = [i \in Instances |-> FALSE]
  /\ opened = [i \in Instances |-> FALSE] /\ busy = FALSE /\ raced = FALSE
  /\ bound = [i \in Instances |-> FALSE] /\ depth = 1
  /\ key = [i \in Instances |-> "none"] /\ events = [i \in Instances |-> <<>>]
  /\ script = [i \in Instances |-> FALSE] /\ held = FALSE
  /\ seen = [i \in Instances |-> 0] /\ runs = [i \in Instances |-> 0]

(***************************************************************************)
(* main.  A message socket that could not be made is not noticed ...       *)
(***************************************************************************)
UnlinkPath(i) ==
  /\ pc[i] = "new"
  /\ Go(i, "unlinked")
  /\ path' = NoOne
  /\ UNCHANGED <<sock, device, bound, keys>>

IpcInit(i) ==
  /\ pc[i] = "unlinked" /\ path = NoOne
  /\ Go(i, "pulse")
  /\ path' = i /\ sock' = [sock EXCEPT ![i] = TRUE]
  /\ UNCHANGED <<device, bound, keys>>

IpcInitFails(i) ==
  /\ pc[i] = "unlinked"
  /\ Go(i, "pulse")
  /\ UNCHANGED <<files, keys>>

\* pulse_init: a busy device ends the process, its path stays.  pulse_open
\* tests the flag ...
BusyFault == FALSE
Busy == busy

PulseTest(i) ==
  /\ pc[i] = "pulse" /\ ~Busy
  /\ Go(i, "opening")
  /\ raced' = \/ \E j \in Instances : Inside(j)
              \/ raced /\ \E j \in Instances : Holder(j)
  /\ UNCHANGED <<path, sock, opened, busy, bound, depth, keys>>

\* ... and sets it.
PulseSet(i) ==
  /\ Inside(i)
  /\ Go(i, "irq")
  /\ opened' = [opened EXCEPT ![i] = TRUE] /\ busy' = TRUE
  /\ UNCHANGED <<path, sock, bound, depth, raced, keys>>

PulseInitFails(i) ==
  /\ pc[i] = "pulse"
  /\ Go(i, "dead")
  /\ UNCHANGED <<files, keys>>

EnabledFault == 1 - depth
Enabled == IF depth = 0 THEN 0 ELSE depth - 1

PulseIrqStart(i) ==
  /\ pc[i] = "irq"
  /\ Go(i, "bc")
  /\ depth' = Enabled
  /\ UNCHANGED <<path, sock, opened, busy, bound, raced, keys>>

\* bc_func_init: the test that follows it looks at the wrong pointer.
BcInit(i, ok) ==
  /\ pc[i] = "bc"
  /\ Go(i, "threads")
  /\ bound' = [bound EXCEPT ![i] = ok /\ ~PortsBusy]
  /\ UNCHANGED <<path, sock, device, keys>>

\* led_run_start and kw_init; the test of the key's descriptor lets -1 pass,
\* and the thread then spins on a failing read.
KwInit(i, ok) ==
  /\ pc[i] = "threads"
  /\ Go(i, "listen")
  /\ key' = [key EXCEPT ![i] = IF ok THEN "read" ELSE "spin"]
  /\ UNCHANGED <<files, events, script, held, seen, runs>>

\* ... until ipc_msg_listen follows the NULL pointer.
Listen(i) ==
  /\ pc[i] = "listen"
  /\ Go(i, IF sock[i] THEN "serving" ELSE "dead")
  /\ UNCHANGED keys
  /\ Release(i)

\* SIGINT, SIGTERM, SIGKILL or a crash; a signal waits for the end of the call.
Die(i) ==
  /\ Alive(i) /\ ~Inside(i)
  /\ Go(i, "dead")
  /\ UNCHANGED keys
  /\ Release(i)

(***************************************************************************)
(* The key.  Every reader sees every event from its open on.               *)
(***************************************************************************)
Reading == {i \in Instances : Alive(i) /\ key[i] \in {"read", "script"}}
Deliver(e) ==
  events' = [i \in Instances |->
               IF i \in Reading THEN Append(events[i], e) ELSE events[i]]

Press ==
  /\ ~held /\ \A i \in Instances : seen[i] < MaxPresses
  /\ held' = TRUE
  /\ Deliver("down")
  /\ seen' = [i \in Instances |-> seen[i] + IF i \in Reading THEN 1 ELSE 0]
  /\ UNCHANGED <<pc, files, key, script, runs>>

LetGo ==
  /\ held /\ held' = FALSE
  /\ Deliver("up")
  /\ UNCHANGED <<pc, files, key, script, seen, runs>>

TriggersFault(e) == TRUE
Triggers(e) == e = "down"

KeyStarts(i) ==
  /\ Alive(i) /\ key[i] = "read"
  /\ events[i] # <<>> /\ Triggers(Head(events[i]))
  /\ events' = [events EXCEPT ![i] = Tail(@)]
  /\ key' = [key EXCEPT ![i] = "script"]
  /\ script' = [script EXCEPT ![i] = TRUE]
  /\ runs' = [runs EXCEPT ![i] = @ + 1]
  /\ UNCHANGED <<pc, files, held, seen>>

\* An event of no interest, or system() could not fork.
KeySkips(i) ==
  /\ Alive(i) /\ key[i] = "read" /\ events[i] # <<>>
  /\ events' = [events EXCEPT ![i] = Tail(@)]
  /\ UNCHANGED <<pc, files, key, script, held, seen, runs>>

AfterScriptFault == "script"
AfterScript == "read"

ScriptEnds(i) ==
  /\ script[i]
  /\ script' = [script EXCEPT ![i] = FALSE]
  /\ key' = [key EXCEPT ![i] = AfterScript]
  /\ UNCHANGED <<pc, events, held, seen, runs>>
  /\ Release(i)

MainStep(i) ==
  \/ UnlinkPath(i) \/ IpcInit(i) \/ IpcInitFails(i)
  \/ PulseTest(i) \/ PulseInitFails(i) \/ PulseSet(i)
  \/ PulseIrqStart(i)
  \/ \E ok \in BOOLEAN : BcInit(i, ok) \/ KwInit(i, ok)
  \/ Listen(i)

KeyStep(i) == MayRun(i) /\ (KeyStarts(i) \/ KeySkips(i))
ScriptStep(i) == MayRun(i) /\ ScriptEnds(i)

Next ==
  \/ \E i \in Instances : \/ MayRun(i) /\ (MainStep(i) \/ Die(i))
                          \/ KeyStep(i) \/ ScriptStep(i)
  \/ Press \/ LetGo

Spec == Init /\ [][Next]_vars

\* Threads are scheduled, the tools of the script and pulse_open return.
FairSpec ==
  Spec /\ \A i \in Instances :
            WF_vars(KeyStep(i)) /\ WF_vars(ScriptStep(i)) /\ WF_vars(PulseSet(i))

-----------------------------------------------------------------------------
(***************************************************************************)
(* At most one instance gets past pulse_init: /dev/pulse is what keeps two *)
(* servers apart, whatever is started and killed (cms_svr.c:78-83).  The   *)
(* one exception: on a kernel that may be preempted, two were inside       *)
(* pulse_open at once, since when the device has not been free             *)
(* (pulse.c:169-171 of the driver).                                        *)
(***************************************************************************)
Past(i) == pc[i] \in {"irq", "bc", "threads", "listen", "serving"}
OpensRaced == Preemptible /\ raced
OneServer ==
  \A i, j \in Instances : Past(i) /\ Past(j) => i = j \/ OpensRaced

(***************************************************************************)
(* At most one recovery script runs, also when its server has died and     *)
(* another was started: the script's copy of /dev/pulse keeps the next     *)
(* server out until it ends (gpio_key_wtd.c:79, cms_svr.c:78), with the    *)
(* exception of OneServer.  This is what makes the key safe for the disk:  *)
(* see collided in RecoverDisk.                                            *)
(***************************************************************************)
OneRecovery ==
  \A i, j \in Instances : script[i] /\ script[j] => i = j \/ OpensRaced

(***************************************************************************)
(* The ports of the address service are never taken when a server comes to *)
(* bind them, by another server or by a script that outlived one           *)
(* (cms_svr.c:99, bc_func.c:212-230), with the exception of OneServer.     *)
(***************************************************************************)
PortsFree ==
  \A i \in Instances : pc[i] = "bc" => ~PortsBusy \/ OpensRaced

(***************************************************************************)
(* While a server serves, the pulse interrupt is enabled, though nobody    *)
(* stops it when a server dies and each start enables it again             *)
(* (cms_svr.c:86-90, pulse.c:43-56 of the server).                         *)
(***************************************************************************)
IrqOnWhileServing ==
  \A i \in Instances : pc[i] \in {"bc", "threads", "listen", "serving"} => depth = 0

(***************************************************************************)
(* A press starts at most one recovery, also one that waited behind        *)
(* another (gpio_key_wtd.c:60-80).                                         *)
(***************************************************************************)
EachPressOnce ==
  \A i \in Instances :
    runs[i] + Cardinality({n \in DOMAIN events[i] : events[i][n] = "down"})
      <= seen[i]

(***************************************************************************)
(* A key thread comes to every event, those that arrive while a script     *)
(* runs included, unless its server dies (gpio_key_wtd.c:60-80).           *)
(***************************************************************************)
EventsRead ==
  \A i \in Instances : events[i] # <<>> ~> (events[i] = <<>> \/ ~Alive(i))
=============================================================================
