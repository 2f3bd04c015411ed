------------------------------ MODULE Watchdog ------------------------------
(***************************************************************************)
(* The watchdog of cms_server, app/cms_server/wtd_func.c: a thread that    *)
(* wakes once a second and feeds /dev/watchdog when more than half of the  *)
(* timeout has passed, and wtd_set_tout, which other threads call to       *)
(* change the timeout.  They share tpWTD_INFO without a lock.              *)
(*                                                                         *)
(* Time is counted in the thread's periods of one second.  A second that   *)
(* passes while the thread is awake, or while a caller is in the middle of *)
(* a call, is scheduling delay; MaxLag bounds the delay between two        *)
(* keepalives.  The device is external: it resets the machine when its     *)
(* timeout passes without a keepalive, starts when it is opened and goes   *)
(* on when it is closed; SETTIMEOUT does not count as a keepalive.         *)
(*                                                                         *)
(* feed_cnt is a statistic and is left out.                                *)
(***************************************************************************)
EXTENDS Integers, FiniteSets

CONSTANTS
  Callers,   \* threads that may call wtd_set_tout
  MinTout,   \* WTD_MIN_TOUT, 10 in the source
  MaxTout,   \* WTD_MAX_TOUT, 60 in the source
  Requests,  \* timeouts the callers ask for, in range or not
  MaxLag     \* bound on the scheduling delay between two keepalives

ASSUME WatchdogAssumption ==
  /\ MinTout \in Nat /\ MaxTout \in Nat /\ MinTout <= MaxTout
  /\ Requests \subseteq Int
  /\ MaxLag \in Nat /\ 2 * (MaxLag + 1) < MinTout

(***************************************************************************)
(* As in Pulse, an operator whose name ends in Fault is a deliberately     *)
(* wrong form of the definition that follows it.                           *)
(***************************************************************************)

VARIABLES
  life,     \* where the module is between wtd_init and wtd_release
  thread,   \* state of wtd_thread
  cnt,      \* its local counter of seconds
  feedSet,  \* wtd.feed_set
  toutSet,  \* wtd.tout_set
  pc,       \* next step of each caller of wtd_set_tout, "idle" outside
  arg,      \* its argument tout
  devTout,  \* the device: its timeout,
  age,      \* seconds since its last keepalive,
  armed,    \* whether it counts,
  expired   \* and whether it has reset the machine

(***************************************************************************)
(* History variables.                                                      *)
(***************************************************************************)
VARIABLES
  lag,         \* scheduling delay since the last keepalive
  overlapped,  \* two calls of wtd_set_tout have overlapped
  feedFailed   \* a keepalive has failed

device == <<devTout, age, armed, expired>>
settings == <<feedSet, toutSet>>
calls == <<pc, arg>>
history == <<lag, overlapped, feedFailed>>
vars == <<life, thread, cnt, settings, calls, device, history>>

Touts == MinTout..MaxTout
CallSteps == {"idle", "feed", "device", "tout", "period"}
InCall(c) == pc[c] # "idle"

Init ==
  /\ life = "closed" /\ thread = "none" /\ cnt = 0
  /\ feedSet = 0 /\ toutSet = 0
  /\ pc = [c \in Callers |-> "idle"] /\ arg = [c \in Callers |-> MinTout]
  /\ devTout = MaxTout /\ age = 0 /\ armed = FALSE /\ expired = FALSE
  /\ lag = 0 /\ overlapped = FALSE /\ feedFailed = FALSE

(***************************************************************************)
(* wtd_feed_dog: a failed keepalive is not reported to the thread, nor     *)
(* looked at by wtd_set_tout.                                              *)
(***************************************************************************)
Keepalive(ok) ==
  /\ age' = IF ok THEN 0 ELSE age
  /\ lag' = IF ok THEN 0 ELSE lag
  /\ feedFailed' = (feedFailed \/ ~ok)

(***************************************************************************)
(* wtd_init: open, set the timeout, create the thread.  When one of the    *)
(* last two fails the device is closed, and goes on counting.              *)
(***************************************************************************)
Open ==
  /\ ~expired
  /\ life = "closed"
  /\ life' = "opened"
  /\ devTout' = MaxTout /\ age' = 0 /\ armed' = TRUE /\ lag' = 0
  /\ UNCHANGED <<thread, cnt, settings, calls, expired, overlapped, feedFailed>>

SetInitialTout ==
  /\ ~expired
  /\ life = "opened"
  /\ life' = "set"
  /\ devTout' = MaxTout /\ toutSet' = MaxTout /\ feedSet' = MaxTout \div 2
  /\ UNCHANGED <<thread, cnt, calls, age, armed, expired, history>>

CreateThread ==
  /\ ~expired
  /\ life = "set"
  /\ life' = "running"
  /\ thread' = "start" /\ cnt' = 0
  /\ UNCHANGED <<settings, calls, device, history>>

InitFails ==
  /\ ~expired
  /\ life \in {"opened", "set"}
  /\ life' = "closed"
  /\ UNCHANGED <<thread, cnt, settings, calls, device, history>>

(***************************************************************************)
(* wtd_thread: it enables the card, then loops.  cnt is reset whether or   *)
(* not the keepalive succeeded.                                            *)
(***************************************************************************)
ThreadStart ==
  /\ ~expired
  /\ thread = "start"
  /\ thread' = "awake"
  /\ armed' = TRUE
  /\ UNCHANGED <<life, cnt, settings, calls, devTout, age, expired, history>>

Due == feedSet < cnt + 1

ThreadRun == life = "running"

LoopFeeds(ok) ==
  /\ ~expired
  /\ thread = "awake" /\ ThreadRun /\ Due
  /\ thread' = "asleep"
  /\ cnt' = 0
  /\ Keepalive(ok)
  /\ UNCHANGED <<life, settings, calls, devTout, armed, expired, overlapped>>

LoopSkips ==
  /\ ~expired
  /\ thread = "awake" /\ ThreadRun /\ ~Due
  /\ thread' = "asleep"
  /\ cnt' = cnt + 1
  /\ UNCHANGED <<life, settings, calls, device, history>>

LoopEnds ==
  /\ ~expired
  /\ thread = "awake" /\ ~ThreadRun
  /\ thread' = "ended"
  /\ UNCHANGED <<life, cnt, settings, calls, device, history>>

(***************************************************************************)
(* wtd_set_tout(tout), one step per effect.  An argument out of range is   *)
(* refused without a change of state.                                      *)
(***************************************************************************)
InRange(t) == ~(MaxTout < t \/ MinTout > t)

SetBegin(c, t) ==
  /\ ~expired
  /\ life = "running" /\ ~InCall(c)
  /\ InRange(t)
  /\ pc' = [pc EXCEPT ![c] = "feed"]
  /\ arg' = [arg EXCEPT ![c] = t]
  /\ overlapped' = (overlapped \/ \E d \in Callers : InCall(d))
  /\ UNCHANGED <<life, thread, cnt, settings, device, lag, feedFailed>>

FeedFirstFault(ok) == UNCHANGED <<age, lag, feedFailed>>
FeedFirst(ok) == Keepalive(ok)

SetFeed(c, ok) ==
  /\ ~expired
  /\ pc[c] = "feed"
  /\ pc' = [pc EXCEPT ![c] = "device"]
  /\ FeedFirst(ok)
  /\ UNCHANGED <<life, thread, cnt, settings, arg, devTout, armed, expired,
                 overlapped>>

AfterDeviceFault(ok) == "tout"
AfterDevice(ok) == IF ok THEN "tout" ELSE "idle"

SetDevice(c, ok) ==
  /\ ~expired
  /\ pc[c] = "device"
  /\ devTout' = IF ok THEN arg[c] ELSE devTout
  /\ pc' = [pc EXCEPT ![c] = AfterDevice(ok)]
  /\ UNCHANGED <<life, thread, cnt, settings, arg, age, armed, expired, history>>

SetTout(c) ==
  /\ ~expired
  /\ pc[c] = "tout"
  /\ toutSet' = arg[c]
  /\ pc' = [pc EXCEPT ![c] = "period"]
  /\ UNCHANGED <<life, thread, cnt, feedSet, arg, device, history>>

SetPeriod(c) ==
  /\ ~expired
  /\ pc[c] = "period"
  /\ feedSet' = arg[c] \div 2
  /\ pc' = [pc EXCEPT ![c] = "idle"]
  /\ UNCHANGED <<life, thread, cnt, toutSet, arg, device, history>>

(***************************************************************************)
(* wtd_stop: clear thread_run, join the thread, disable the card (a result *)
(* nobody looks at: the card may not support it); wtd_release then closes. *)
(***************************************************************************)
Stop ==
  /\ ~expired
  /\ life = "running"
  /\ life' = "stopping"
  /\ UNCHANGED <<thread, cnt, settings, calls, device, history>>

Join ==
  /\ ~expired
  /\ life = "stopping" /\ thread = "ended"
  /\ life' = "stopped" /\ thread' = "none"
  /\ armed' \in BOOLEAN
  /\ UNCHANGED <<cnt, settings, calls, devTout, age, expired, history>>

Close ==
  /\ ~expired
  /\ life = "stopped"
  /\ \A c \in Callers : ~InCall(c)
  /\ life' = "closed"
  /\ UNCHANGED <<thread, cnt, settings, calls, device, history>>

(***************************************************************************)
(* A second passes.                                                        *)
(***************************************************************************)
Delayed == thread # "asleep" \/ \E c \in Callers : InCall(c)

Tick ==
  /\ ~expired /\ armed
  /\ Delayed => lag < MaxLag \/ life \in {"stopped", "closed"}
  /\ lag' = IF Delayed /\ lag < MaxLag THEN lag + 1 ELSE lag
  /\ thread' = IF thread = "asleep" THEN "awake" ELSE thread
  /\ age' = age + 1
  /\ expired' = (age + 1 >= devTout)
  /\ UNCHANGED <<life, cnt, settings, calls, devTout, armed, overlapped,
                 feedFailed>>

ThreadStep ==
  \/ ThreadStart
  \/ \E ok \in BOOLEAN : LoopFeeds(ok)
  \/ LoopSkips \/ LoopEnds

SetStep(c) ==
  \/ \E ok \in BOOLEAN : SetFeed(c, ok) \/ SetDevice(c, ok)
  \/ SetTout(c) \/ SetPeriod(c)

Next ==
  \/ Open \/ SetInitialTout \/ CreateThread \/ InitFails
  \/ Stop \/ Join \/ Close
  \/ ThreadStep
  \/ \E c \in Callers : SetStep(c) \/ \E t \in Requests : SetBegin(c, t)
  \/ Tick

Spec == Init /\ [][Next]_vars

-----------------------------------------------------------------------------
CallTypeOK ==
  /\ pc \in [Callers -> CallSteps]
  /\ arg \in [Callers -> Touts]
DeviceTypeOK ==
  /\ devTout \in Touts /\ age \in 0..MaxTout
  /\ armed \in BOOLEAN /\ expired \in BOOLEAN
ThreadTypeOK ==
  /\ life \in {"closed", "opened", "set", "running", "stopping", "stopped"}
  /\ thread \in {"none", "start", "awake", "asleep", "ended"}
  /\ cnt \in 0..(MaxTout \div 2)
  /\ feedSet \in 0..(MaxTout \div 2) /\ toutSet \in {0} \cup Touts
HistoryTypeOK ==
  lag \in 0..MaxLag /\ overlapped \in BOOLEAN /\ feedFailed \in BOOLEAN

\* Every variable has its type; the settings stay in range and cnt never
\* passes half of the largest timeout (wtd_func.h:7-8, wtd_func.c:37-42, 96).
TypeOK == CallTypeOK /\ DeviceTypeOK /\ ThreadTypeOK /\ HistoryTypeOK

(***************************************************************************)
(* While the thread runs, and while wtd_stop waits for it, the device      *)
(* never resets the machine, whatever timeouts are asked for and whenever, *)
(* unless two calls of wtd_set_tout overlapped or a keepalive failed       *)
(* (wtd_func.c:35-44, 94-121).                                             *)
(***************************************************************************)
NoSpuriousReset ==
  expired => \/ overlapped \/ feedFailed
             \/ life \notin {"running", "stopping"}

(***************************************************************************)
(* Outside wtd_set_tout the thread's period is half of the timeout the     *)
(* device really has, also after a call the device refused                 *)
(* (wtd_func.c:99-104).                                                    *)
(***************************************************************************)
PeriodMatchesDevice ==
  life \in {"running", "stopping"} /\ ~overlapped
    /\ (\A c \in Callers : ~InCall(c))
  => toutSet = devTout /\ feedSet = devTout \div 2
=============================================================================
