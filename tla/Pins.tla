-------------------------------- MODULE Pins --------------------------------
(***************************************************************************)
(* The GPIO pins that several programs share through /sys/class/gpio: the  *)
(* boot script gpio_export.sh sets them up, cms-svr's threads toggle the   *)
(* running LED (led_run.c) and the input of the peripheral watchdog        *)
(* (gpio_key_wtd.c:14-46), and the gpio tool (app/gpio/gpio.c) turns the   *)
(* pin it is given into an interrupt input, with a lamp to show edges.     *)
(* Nothing says whose a pin is.                                            *)
(*                                                                         *)
(* External: the kernel refuses to export a pin that a driver holds and a  *)
(* write to the value of an input; poll on a value reports every open and  *)
(* every edge since the last read.                                         *)
(*                                                                         *)
(* An operator whose name ends in Fault is a deliberately wrong form of    *)
(* the definition that follows it.                                         *)
(***************************************************************************)
EXTENDS Naturals, Sequences

CONSTANTS
  Script,    \* pins the script sets up, in order, with their directions
  Led, Wdi,  \* the running LED and the watchdog's input
  Lamp,      \* GPIO_LED of the tool
  Targets    \* pins the tool may be started on

Pins == {Script[n].pin : n \in 1..Len(Script)} \cup Targets \cup {Led, Wdi, Lamp}

ASSUME PinsAssumption ==
  /\ Script \in Seq([pin : Pins, dir : {"in", "out"}])
  /\ {[pin |-> p, dir |-> "out"] : p \in {Led, Wdi}}
       \subseteq {Script[n] : n \in 1..Len(Script)}

VARIABLES
  refused,   \* pins a driver holds
  ready,     \* pins the script has dealt with
  pins,      \* exported, dir and level of each pin
  server,    \* cms-svr runs
  wdiOpen,   \* its wdi_fd is a descriptor
  stat,      \* what its threads write next
  wdiPc,     \* next step of peri_wtd_thread
  tool,      \* next step of the tool, "none" if it does not run
  gpio,      \* the pin it was given
  fdOpen,    \* its gpio_fd is a descriptor
  event,     \* poll has something to report on it
  val,       \* its local variable val
  due,       \* history: an edge has come since it last read
  taken      \* history: pins the tool has been started on

setup == <<refused, ready>>
service == <<server, wdiOpen, stat, wdiPc>>
gpioTool == <<tool, gpio, fdOpen, event, val, due, taken>>
pinsVars == <<setup, pins, service, gpioTool>>

PinsInit ==
  /\ refused \in SUBSET Pins /\ ready = 0
  /\ pins \in [Pins -> {[exported |-> FALSE, dir |-> "in", level |-> l] : l \in {0, 1}}]
  /\ server = FALSE /\ wdiOpen = FALSE
  /\ stat = [t \in {Led, Wdi} |-> 0] /\ wdiPc = "write"
  /\ tool = "none" /\ gpio = Lamp /\ fdOpen = FALSE /\ event = FALSE
  /\ val = 0 /\ due = FALSE /\ taken = {}

Export(p) == [pins EXCEPT ![p].exported = @ \/ p \notin refused]
\* An output starts low.
SetDir(ps, p, dir) ==
  IF ~ps[p].exported THEN ps
  ELSE [ps EXCEPT ![p].dir = dir, ![p].level = IF dir = "out" THEN 0 ELSE @]
SetValue(p, v) ==
  IF pins[p].exported /\ pins[p].dir = "out" THEN [pins EXCEPT ![p].level = v]
  ELSE pins

(***************************************************************************)
(* gpio_export.sh, then cms-svr: plat_start runs one after the other.      *)
(***************************************************************************)
ScriptPin ==
  /\ ready < Len(Script)
  /\ ready' = ready + 1
  /\ LET s == Script[ready + 1] IN
       pins' = IF s.dir = "out" THEN SetDir(Export(s.pin), s.pin, "out")
               ELSE Export(s.pin)
  /\ UNCHANGED <<refused, service, gpioTool>>

\* ... the server started first.
BootedFault == TRUE
Booted == ready = Len(Script)

\* peri_wtd_init starts the thread whether or not the pin could be opened.
ServerStart ==
  /\ ~server /\ Booted
  /\ server' = TRUE
  /\ wdiOpen' = pins[Wdi].exported
  /\ stat' = [t \in {Led, Wdi} |-> 0] /\ wdiPc' = "write"
  /\ UNCHANGED <<setup, pins, gpioTool>>

ServerDies ==
  /\ server
  /\ server' = FALSE /\ wdiOpen' = FALSE
  /\ UNCHANGED <<setup, pins, stat, wdiPc, gpioTool>>

ToggledFault(t) == [stat EXCEPT ![t] = 1]
Toggled(t) == [stat EXCEPT ![t] = 1 - @]

\* led_run_func opens the pin anew every second.
LedRun ==
  /\ server
  /\ pins' = SetValue(Led, stat[Led])
  /\ stat' = Toggled(Led)
  /\ UNCHANGED <<setup, server, wdiOpen, wdiPc, gpioTool>>

WdiWrite ==
  /\ server /\ wdiPc = "write"
  /\ wdiPc' = "sync"
  /\ pins' = IF wdiOpen THEN SetValue(Wdi, stat[Wdi]) ELSE pins
  /\ UNCHANGED <<setup, server, wdiOpen, stat, gpioTool>>

WdiSync ==
  /\ server /\ wdiPc = "sync"
  /\ wdiPc' = "write"
  /\ stat' = Toggled(Wdi)
  /\ UNCHANGED <<setup, pins, server, wdiOpen, gpioTool>>

(***************************************************************************)
(* The gpio tool.                                                          *)
(***************************************************************************)
ToolStart(p) ==
  /\ tool = "none" /\ Booted
  /\ tool' = "export" /\ gpio' = p
  /\ taken' = taken \cup {p}
  /\ fdOpen' = FALSE /\ event' = FALSE /\ due' = FALSE /\ val' = 0
  /\ UNCHANGED <<setup, pins, service>>

ToolExport ==
  /\ tool = "export"
  /\ tool' = "dir"
  /\ pins' = Export(gpio)
  /\ UNCHANGED <<setup, service, gpio, fdOpen, event, val, due, taken>>

\* Direction and edge; nobody else uses the edge file.
ToolDir ==
  /\ tool = "dir"
  /\ tool' = "open"
  /\ pins' = SetDir(pins, gpio, "in")
  /\ UNCHANGED <<setup, service, gpio, fdOpen, event, val, due, taken>>

ToolOpen ==
  /\ tool = "open"
  /\ tool' = "lamp"
  /\ fdOpen' = pins[gpio].exported /\ event' = fdOpen'
  /\ UNCHANGED <<setup, pins, service, gpio, val, due, taken>>

ToolLamp ==
  /\ tool = "lamp"
  /\ tool' = "poll"
  /\ pins' = SetDir(Export(Lamp), Lamp, "out")
  /\ UNCHANGED <<setup, service, gpio, fdOpen, event, val, due, taken>>

\* Three seconds without an event.
PollTimeout ==
  /\ tool = "poll" /\ ~event
  /\ pins' = SetValue(Lamp, val)
  /\ val' = 1 - val
  /\ UNCHANGED <<setup, service, tool, gpio, fdOpen, event, due, taken>>

PollEvent ==
  /\ tool = "poll" /\ event
  /\ tool' = "read"
  /\ UNCHANGED <<setup, pins, service, gpio, fdOpen, event, val, due, taken>>

ToolRead ==
  /\ tool = "read"
  /\ tool' = "report"
  /\ event' = FALSE /\ due' = FALSE
  /\ UNCHANGED <<setup, pins, service, gpio, fdOpen, val, taken>>

Report ==
  /\ tool = "report"
  /\ tool' = "poll"
  /\ pins' = SetValue(Lamp, 0)
  /\ UNCHANGED <<setup, service, gpio, fdOpen, event, val, due, taken>>

ToolKilled ==
  /\ tool # "none"
  /\ tool' = "none" /\ fdOpen' = FALSE /\ event' = FALSE /\ due' = FALSE
  /\ UNCHANGED <<setup, pins, service, gpio, val, taken>>

\* The outside changes the level of an input.
WatchedFault == {Lamp}
Watched == {gpio}

Edge(p) ==
  /\ pins[p].dir = "in"
  /\ pins' = [pins EXCEPT ![p].level = 1 - @]
  /\ LET seen == pins[p].level = 0 /\ fdOpen /\ p = gpio IN
       /\ due' = (due \/ seen)
       /\ event' = (event \/ (seen /\ p \in Watched))
  /\ UNCHANGED <<setup, service, tool, gpio, fdOpen, val, taken>>

WdiStep == WdiWrite \/ WdiSync
ToolStep ==
  \/ ToolExport \/ ToolDir \/ ToolOpen \/ ToolLamp
  \/ PollTimeout \/ PollEvent \/ ToolRead \/ Report

PinsNext ==
  \/ ScriptPin \/ ServerStart \/ ServerDies \/ LedRun \/ WdiStep
  \/ \E p \in Targets : ToolStart(p)
  \/ ToolStep \/ ToolKilled
  \/ \E p \in Pins : Edge(p)

PinsSpec == PinsInit /\ [][PinsNext]_pinsVars

\* Threads are scheduled, and sync returns; a started tool goes on.
PinsFairSpec == PinsSpec /\ WF_pinsVars(LedRun) /\ WF_pinsVars(WdiStep) /\ WF_pinsVars(ToolStep)

-----------------------------------------------------------------------------
(***************************************************************************)
(* cms-svr's thread never writes in vain to the watchdog's pin unless a    *)
(* driver held the pin at boot or the tool was run on it: the order of     *)
(* plat_start stands in for the results nobody looks at (plat_start:14-28, *)
(* gpio_key_wtd.c:25, 38-44).                                              *)
(***************************************************************************)
Usable(p) == pins[p].exported /\ pins[p].dir = "out"
FedUnlessTaken ==
  server /\ wdiPc = "write" /\ Wdi \notin refused \cup taken
    => wdiOpen /\ Usable(Wdi)

(***************************************************************************)
(* Both pins go on toggling as long as the server runs and they stay       *)
(* usable, whatever else the tool and the other pins do, also after a tool *)
(* that took one for a while or a server that died and was started again   *)
(* (led_run.c:36-41, gpio_key_wtd.c:22-30).                                *)
(***************************************************************************)
BothToggle ==
  \A p \in {Led, Wdi} :
    <>[](server /\ Usable(p) /\ (p = Wdi => wdiOpen))
      => []<>(pins[p].level = 0) /\ []<>(pins[p].level = 1)

(***************************************************************************)
(* No edge is lost on the tool: one that comes between a read and the next *)
(* poll, or before the first, is reported too (gpio.c:215-251).            *)
(***************************************************************************)
EdgesReported == due ~> ~due
=============================================================================
