--------------------------- MODULE WatchdogProofs ---------------------------
(***************************************************************************)
(* Proofs about the watchdog (Watchdog), for any callers, any range of     *)
(* timeouts and any scheduling delay below half of the smallest timeout.   *)
(***************************************************************************)
EXTENDS Watchdog, TLAPS

\* One-line pieces of the actions, always expanded.
USE DEF ThreadRun, FeedFirst, AfterDevice

(***************************************************************************)
(* Where the thread and the callers can be in each phase of the module's   *)
(* life; the settings wtd_init leaves; one caller at a time.               *)
(***************************************************************************)
Shape ==
  /\ life \in {"closed", "opened", "set"} =>
       thread = "none" /\ \A c \in Callers : pc[c] = "idle"
  /\ life = "running" => thread \in {"start", "awake", "asleep"}
  /\ life = "stopping" => thread \in {"start", "awake", "asleep", "ended"}
  /\ life = "stopped" => thread = "none"
  /\ life = "opened" => devTout = MaxTout
  /\ life = "set" =>
       devTout = MaxTout /\ toutSet = MaxTout /\ feedSet = MaxTout \div 2
  /\ ~overlapped =>
       \A c, d \in Callers : pc[c] # "idle" /\ pc[d] # "idle" => c = d
  /\ ~expired => age < MaxTout

Alive == life \in {"running", "stopping"}

(***************************************************************************)
(* The stored settings follow the device with the delay of a call.         *)
(***************************************************************************)
Follows ==
  Alive /\ ~overlapped =>
    /\ (\A c \in Callers : pc[c] \notin {"tout", "period"})
         => toutSet = devTout /\ feedSet = devTout \div 2
    /\ \A c \in Callers : pc[c] \in {"tout", "period"} => devTout = arg[c]
    /\ \A c \in Callers : pc[c] = "period" => toutSet = arg[c]

(***************************************************************************)
(* How old the last keepalive is.  Either cnt has counted the seconds      *)
(* since, or wtd_set_tout fed just before it shortened the period.         *)
(***************************************************************************)
Deadline ==
  ~overlapped /\ ~feedFailed =>
    /\ life \in {"opened", "set"} => age <= lag
    /\ Alive =>
         /\ (\E c \in Callers : pc[c] \in {"device", "tout", "period"})
              => age <= lag
         /\ thread = "start" => age <= lag
         /\ thread = "asleep" =>
              age <= lag \/ (cnt <= feedSet /\ age <= cnt + lag)
         /\ thread \in {"awake", "ended"} =>
              age <= 1 + lag \/ (cnt <= feedSet /\ age <= cnt + 1 + lag)

(***************************************************************************)
(* The property itself, in the form that is inductive with the others.     *)
(***************************************************************************)
NeverLate == ~overlapped /\ ~feedFailed /\ Alive => ~expired

(***************************************************************************)
(* Halving a timeout.                                                      *)
(***************************************************************************)
LEMMA Half ==
  ASSUME NEW t \in Nat
  PROVE  t \div 2 \in Nat /\ 2 * (t \div 2) <= t
OBVIOUS

LEMMA HalfMonotone ==
  ASSUME NEW s \in Nat, NEW t \in Nat, s <= t
  PROVE  s \div 2 <= t \div 2
OBVIOUS

(***************************************************************************)
(* What the range test of wtd_set_tout lets through.                       *)
(***************************************************************************)
LEMMA RangeOK == ASSUME NEW t \in Requests, InRange(t) PROVE t \in Touts
BY WatchdogAssumption DEF InRange, Touts

(***************************************************************************)
(* A timeout in range is more than twice the delay allowed.                *)
(***************************************************************************)
LEMMA ToutsOK == /\ MaxTout \in Touts /\ MinTout \in Touts
                 /\ \A t \in Touts : t \in Nat /\ t > 2 * (MaxLag + 1)
                                     /\ t \div 2 \in 0..(MaxTout \div 2)
BY WatchdogAssumption, Half, HalfMonotone DEF Touts

(***************************************************************************)
(* Every step preserves TypeOK.                                            *)
(***************************************************************************)
LEMMA TypeStep == ASSUME TypeOK, Shape, [Next]_vars PROVE TypeOK'
<1> USE WatchdogAssumption, ToutsOK DEF TypeOK, settings, calls, device,
     history
<1>1. ASSUME Open PROVE TypeOK'
  <2>1. DeviceTypeOK' BY <1>1 DEF Open, DeviceTypeOK
  <2>2. ThreadTypeOK' BY <1>1 DEF Open, ThreadTypeOK
  <2>3. HistoryTypeOK' BY <1>1 DEF Open, HistoryTypeOK
  <2>4. CallTypeOK'
    BY <1>1 DEF Open, CallTypeOK
  <2> QED BY <2>1, <2>2, <2>3, <2>4
<1>2. ASSUME SetInitialTout PROVE TypeOK'
  <2>1. DeviceTypeOK' BY <1>2 DEF SetInitialTout, DeviceTypeOK
  <2>2. ThreadTypeOK' BY <1>2 DEF SetInitialTout, ThreadTypeOK
  <2>3. CallTypeOK' /\ HistoryTypeOK'
    BY <1>2 DEF SetInitialTout, CallTypeOK, HistoryTypeOK
  <2> QED BY <2>1, <2>2, <2>3
<1>3. ASSUME CreateThread PROVE TypeOK'
  <2>1. ThreadTypeOK' BY <1>3 DEF CreateThread, ThreadTypeOK
  <2>2. CallTypeOK' /\ DeviceTypeOK' /\ HistoryTypeOK'
    BY <1>3 DEF CreateThread, CallTypeOK, DeviceTypeOK, HistoryTypeOK
  <2> QED BY <2>1, <2>2
<1>4. ASSUME InitFails PROVE TypeOK'
  <2>1. ThreadTypeOK' BY <1>4 DEF InitFails, ThreadTypeOK
  <2>2. CallTypeOK' /\ DeviceTypeOK' /\ HistoryTypeOK'
    BY <1>4 DEF InitFails, CallTypeOK, DeviceTypeOK, HistoryTypeOK
  <2> QED BY <2>1, <2>2
<1>5. ASSUME Stop PROVE TypeOK'
  <2>1. ThreadTypeOK' BY <1>5 DEF Stop, ThreadTypeOK
  <2>2. CallTypeOK' /\ DeviceTypeOK' /\ HistoryTypeOK'
    BY <1>5 DEF Stop, CallTypeOK, DeviceTypeOK, HistoryTypeOK
  <2> QED BY <2>1, <2>2
<1>6. ASSUME Join PROVE TypeOK'
  <2>1. DeviceTypeOK' BY <1>6 DEF Join, DeviceTypeOK
  <2>2. ThreadTypeOK' BY <1>6 DEF Join, ThreadTypeOK
  <2>3. CallTypeOK' /\ HistoryTypeOK'
    BY <1>6 DEF Join, CallTypeOK, HistoryTypeOK
  <2> QED BY <2>1, <2>2, <2>3
<1>7. ASSUME Close PROVE TypeOK'
  <2>1. ThreadTypeOK' BY <1>7 DEF Close, ThreadTypeOK, InCall
  <2>2. CallTypeOK' /\ DeviceTypeOK' /\ HistoryTypeOK'
    BY <1>7 DEF Close, CallTypeOK, DeviceTypeOK, HistoryTypeOK
  <2> QED BY <2>1, <2>2
<1>8. ASSUME ThreadStart PROVE TypeOK'
  <2>1. DeviceTypeOK' BY <1>8 DEF ThreadStart, DeviceTypeOK
  <2>2. ThreadTypeOK' BY <1>8 DEF ThreadStart, ThreadTypeOK
  <2>3. CallTypeOK' /\ HistoryTypeOK'
    BY <1>8 DEF ThreadStart, CallTypeOK, HistoryTypeOK
  <2> QED BY <2>1, <2>2, <2>3
<1>9. ASSUME NEW ok \in BOOLEAN, LoopFeeds(ok) PROVE TypeOK'
  <2>1. DeviceTypeOK' BY <1>9 DEF LoopFeeds, DeviceTypeOK, Keepalive
  <2>2. ThreadTypeOK' BY <1>9 DEF LoopFeeds, ThreadTypeOK, Keepalive
  <2>3. HistoryTypeOK' BY <1>9 DEF LoopFeeds, HistoryTypeOK, Keepalive
  <2>4. CallTypeOK'
    BY <1>9 DEF LoopFeeds, CallTypeOK
  <2> QED BY <2>1, <2>2, <2>3, <2>4
<1>10. ASSUME LoopSkips PROVE TypeOK'
  <2>1. ThreadTypeOK' BY <1>10 DEF LoopSkips, ThreadTypeOK, Due
  <2>2. CallTypeOK' /\ DeviceTypeOK' /\ HistoryTypeOK'
    BY <1>10 DEF LoopSkips, CallTypeOK, DeviceTypeOK, HistoryTypeOK
  <2> QED BY <2>1, <2>2
<1>11. ASSUME LoopEnds PROVE TypeOK'
  <2>1. ThreadTypeOK' BY <1>11 DEF LoopEnds, ThreadTypeOK
  <2>2. CallTypeOK' /\ DeviceTypeOK' /\ HistoryTypeOK'
    BY <1>11 DEF LoopEnds, CallTypeOK, DeviceTypeOK, HistoryTypeOK
  <2> QED BY <2>1, <2>2
<1>12. ASSUME NEW c \in Callers, NEW ok \in BOOLEAN, SetFeed(c, ok)
       PROVE  TypeOK'
  <2>1. CallTypeOK' BY <1>12 DEF SetFeed, CallTypeOK, Keepalive, CallSteps
  <2>2. DeviceTypeOK' BY <1>12 DEF SetFeed, DeviceTypeOK, Keepalive
  <2>3. HistoryTypeOK' BY <1>12 DEF SetFeed, HistoryTypeOK, Keepalive
  <2>4. ThreadTypeOK'
    BY <1>12 DEF SetFeed, ThreadTypeOK
  <2> QED BY <2>1, <2>2, <2>3, <2>4
<1>13. ASSUME NEW c \in Callers, NEW ok \in BOOLEAN, SetDevice(c, ok)
       PROVE  TypeOK'
  <2>1. CallTypeOK' BY <1>13 DEF SetDevice, CallTypeOK, CallSteps
  <2>2. DeviceTypeOK' BY <1>13 DEF SetDevice, DeviceTypeOK, CallTypeOK
  <2>3. ThreadTypeOK' /\ HistoryTypeOK'
    BY <1>13 DEF SetDevice, ThreadTypeOK, HistoryTypeOK
  <2> QED BY <2>1, <2>2, <2>3
<1>14. ASSUME NEW c \in Callers, SetTout(c) PROVE TypeOK'
  <2>1. CallTypeOK' BY <1>14 DEF SetTout, CallTypeOK, CallSteps
  <2>2. ThreadTypeOK' BY <1>14 DEF SetTout, ThreadTypeOK, CallTypeOK
  <2>3. DeviceTypeOK' /\ HistoryTypeOK'
    BY <1>14 DEF SetTout, DeviceTypeOK, HistoryTypeOK
  <2> QED BY <2>1, <2>2, <2>3
<1>15. ASSUME NEW c \in Callers, SetPeriod(c) PROVE TypeOK'
  <2>1. CallTypeOK' BY <1>15 DEF SetPeriod, CallTypeOK, CallSteps
  <2>2. ThreadTypeOK' BY <1>15 DEF SetPeriod, ThreadTypeOK, CallTypeOK
  <2>3. DeviceTypeOK' /\ HistoryTypeOK'
    BY <1>15 DEF SetPeriod, DeviceTypeOK, HistoryTypeOK
  <2> QED BY <2>1, <2>2, <2>3
<1>16. ASSUME NEW c \in Callers, NEW t \in Requests, SetBegin(c, t)
       PROVE  TypeOK'
  <2>1. CallTypeOK'
    BY <1>16, RangeOK DEF SetBegin, CallTypeOK, InCall, CallSteps
  <2>2. HistoryTypeOK' BY <1>16, RangeOK DEF SetBegin, HistoryTypeOK, InCall
  <2>3. DeviceTypeOK' /\ ThreadTypeOK'
    BY <1>16 DEF SetBegin, DeviceTypeOK, ThreadTypeOK
  <2> QED BY <2>1, <2>2, <2>3
<1>17. ASSUME Tick PROVE TypeOK'
  <2>1. DeviceTypeOK' BY <1>17 DEF Tick, DeviceTypeOK, Shape
  <2>2. ThreadTypeOK' BY <1>17 DEF Tick, ThreadTypeOK
  <2>3. HistoryTypeOK' BY <1>17 DEF Tick, HistoryTypeOK, Delayed, InCall
  <2>4. CallTypeOK'
    BY <1>17 DEF Tick, CallTypeOK
  <2> QED BY <2>1, <2>2, <2>3, <2>4
<1>18. CASE UNCHANGED vars
  BY <1>18 DEF vars, CallTypeOK, DeviceTypeOK, ThreadTypeOK, HistoryTypeOK
<1> QED
  BY <1>1, <1>2, <1>3, <1>4, <1>5, <1>6, <1>7, <1>8, <1>9, <1>10, <1>11,
       <1>12, <1>13, <1>14, <1>15, <1>16, <1>17, <1>18 DEF Next, ThreadStep,
       SetStep

(***************************************************************************)
(* Every step preserves Shape.                                             *)
(***************************************************************************)
LEMMA ShapeStep == ASSUME TypeOK, Shape, [Next]_vars PROVE Shape'
<1> USE WatchdogAssumption, ToutsOK DEF TypeOK, CallTypeOK, DeviceTypeOK,
     ThreadTypeOK, HistoryTypeOK, Shape, settings, calls, device, history
<1>1. ASSUME Open PROVE Shape'
  BY <1>1 DEF Open
<1>2. ASSUME SetInitialTout PROVE Shape'
  BY <1>2 DEF SetInitialTout
<1>3. ASSUME CreateThread PROVE Shape'
  BY <1>3 DEF CreateThread
<1>4. ASSUME InitFails PROVE Shape'
  BY <1>4 DEF InitFails
<1>5. ASSUME Stop PROVE Shape'
  BY <1>5 DEF Stop
<1>6. ASSUME Join PROVE Shape'
  BY <1>6 DEF Join
<1>7. ASSUME Close PROVE Shape'
  BY <1>7 DEF Close, InCall
<1>8. ASSUME ThreadStart PROVE Shape'
  BY <1>8 DEF ThreadStart
<1>9. ASSUME NEW ok \in BOOLEAN, LoopFeeds(ok) PROVE Shape'
  BY <1>9 DEF LoopFeeds, Keepalive
<1>10. ASSUME LoopSkips PROVE Shape'
  BY <1>10 DEF LoopSkips, Due
<1>11. ASSUME LoopEnds PROVE Shape'
  BY <1>11 DEF LoopEnds
<1>12. ASSUME NEW c \in Callers, NEW ok \in BOOLEAN, SetFeed(c, ok)
       PROVE  Shape'
  BY <1>12 DEF SetFeed, Keepalive
<1>13. ASSUME NEW c \in Callers, NEW ok \in BOOLEAN, SetDevice(c, ok)
       PROVE  Shape'
  BY <1>13 DEF SetDevice
<1>14. ASSUME NEW c \in Callers, SetTout(c) PROVE Shape'
  BY <1>14 DEF SetTout
<1>15. ASSUME NEW c \in Callers, SetPeriod(c) PROVE Shape'
  BY <1>15 DEF SetPeriod
<1>16. ASSUME NEW c \in Callers, NEW t \in Requests, SetBegin(c, t)
       PROVE  Shape'
  BY <1>16 DEF SetBegin, InCall
<1>17. ASSUME Tick PROVE Shape'
  <2>1. ~expired' => age' < MaxTout
    <3>1. expired' <=> age + 1 >= devTout BY <1>17 DEF Tick
    <3>2. age' = age + 1 BY <1>17 DEF Tick
    <3>3. age \in Nat /\ devTout \in Nat /\ MaxTout \in Nat /\ devTout <=
         MaxTout
      BY DEF Touts
    <3> QED BY <3>1, <3>2, <3>3
  <2>2. /\ life' = life /\ pc' = pc /\ overlapped' = overlapped
        /\ devTout' = devTout /\ toutSet' = toutSet /\ feedSet' = feedSet
        /\ (thread' = thread \/ (thread = "asleep" /\ thread' = "awake"))
    BY <1>17 DEF Tick
  <2> QED BY <2>1, <2>2
<1>18. CASE UNCHANGED vars
  BY <1>18 DEF vars
<1> QED
  BY <1>1, <1>2, <1>3, <1>4, <1>5, <1>6, <1>7, <1>8, <1>9, <1>10, <1>11,
       <1>12, <1>13, <1>14, <1>15, <1>16, <1>17, <1>18 DEF Next, ThreadStep,
       SetStep

(***************************************************************************)
(* Every step preserves Follows.                                           *)
(***************************************************************************)
LEMMA FollowsStep == ASSUME TypeOK, Shape, Follows, [Next]_vars PROVE Follows'
<1> USE WatchdogAssumption, ToutsOK DEF TypeOK, CallTypeOK, DeviceTypeOK,
     ThreadTypeOK, HistoryTypeOK, Shape, Follows, Alive, settings, calls,
     device, history
<1>1. ASSUME Open PROVE Follows'
  BY <1>1 DEF Open
<1>2. ASSUME SetInitialTout PROVE Follows'
  BY <1>2 DEF SetInitialTout
<1>3. ASSUME CreateThread PROVE Follows'
  BY <1>3 DEF CreateThread
<1>4. ASSUME InitFails PROVE Follows'
  BY <1>4 DEF InitFails
<1>5. ASSUME Stop PROVE Follows'
  BY <1>5 DEF Stop
<1>6. ASSUME Join PROVE Follows'
  BY <1>6 DEF Join
<1>7. ASSUME Close PROVE Follows'
  BY <1>7 DEF Close, InCall
<1>8. ASSUME ThreadStart PROVE Follows'
  BY <1>8 DEF ThreadStart
<1>9. ASSUME NEW ok \in BOOLEAN, LoopFeeds(ok) PROVE Follows'
  BY <1>9 DEF LoopFeeds, Keepalive
<1>10. ASSUME LoopSkips PROVE Follows'
  BY <1>10 DEF LoopSkips, Due
<1>11. ASSUME LoopEnds PROVE Follows'
  BY <1>11 DEF LoopEnds
<1>12. ASSUME NEW c \in Callers, NEW ok \in BOOLEAN, SetFeed(c, ok)
       PROVE  Follows'
  BY <1>12 DEF SetFeed, Keepalive
<1>13. ASSUME NEW c \in Callers, NEW ok \in BOOLEAN, SetDevice(c, ok)
       PROVE  Follows'
  BY <1>13 DEF SetDevice
<1>14. ASSUME NEW c \in Callers, SetTout(c) PROVE Follows'
  BY <1>14 DEF SetTout
<1>15. ASSUME NEW c \in Callers, SetPeriod(c) PROVE Follows'
  BY <1>15 DEF SetPeriod
<1>16. ASSUME NEW c \in Callers, NEW t \in Requests, SetBegin(c, t)
       PROVE  Follows'
  BY <1>16 DEF SetBegin, InCall
<1>17. ASSUME Tick PROVE Follows'
  BY <1>17 DEF Tick, Delayed, InCall
<1>18. CASE UNCHANGED vars
  BY <1>18 DEF vars
<1> QED
  BY <1>1, <1>2, <1>3, <1>4, <1>5, <1>6, <1>7, <1>8, <1>9, <1>10, <1>11,
       <1>12, <1>13, <1>14, <1>15, <1>16, <1>17, <1>18 DEF Next, ThreadStep,
       SetStep

(***************************************************************************)
(* Every step preserves Deadline: a tick adds one second to the age and to *)
(* cnt or lag, and a call that shortens the period has fed the device      *)
(* first.                                                                  *)
(***************************************************************************)
LEMMA DeadlineStep ==
  ASSUME TypeOK, Shape, Follows, Deadline, [Next]_vars
  PROVE  Deadline'
<1> USE WatchdogAssumption, ToutsOK DEF Shape, Deadline, Alive, TypeOK,
     CallTypeOK, DeviceTypeOK, ThreadTypeOK, HistoryTypeOK, settings, calls,
     device, history
<1>1. ASSUME Open PROVE Deadline'
  BY <1>1 DEF Open
<1>2. ASSUME SetInitialTout PROVE Deadline'
  BY <1>2 DEF SetInitialTout
<1>3. ASSUME CreateThread PROVE Deadline'
  BY <1>3 DEF CreateThread
<1>4. ASSUME InitFails PROVE Deadline'
  BY <1>4 DEF InitFails
<1>5. ASSUME Stop PROVE Deadline'
  BY <1>5 DEF Stop
<1>6. ASSUME Join PROVE Deadline'
  BY <1>6 DEF Join
<1>7. ASSUME Close PROVE Deadline'
  BY <1>7 DEF Close, InCall
<1>8. ASSUME ThreadStart PROVE Deadline'
  BY <1>8 DEF ThreadStart
<1>9. ASSUME NEW ok \in BOOLEAN, LoopFeeds(ok) PROVE Deadline'
  <2>1. ok \/ feedFailed' BY <1>9 DEF LoopFeeds, Keepalive
  <2>2. CASE ok BY <1>9, <2>2 DEF LoopFeeds, Keepalive
  <2> QED BY <2>1, <2>2
<1>10. ASSUME LoopSkips PROVE Deadline'
  BY <1>10 DEF LoopSkips, Due
<1>11. ASSUME LoopEnds PROVE Deadline'
  BY <1>11 DEF LoopEnds
<1>12. ASSUME NEW c \in Callers, NEW ok \in BOOLEAN, SetFeed(c, ok)
       PROVE  Deadline'
  <2>1. ok \/ feedFailed' BY <1>12 DEF SetFeed, Keepalive
  <2>2. CASE ok BY <1>12, <2>2 DEF SetFeed, Keepalive
  <2> QED BY <2>1, <2>2
<1>13. ASSUME NEW c \in Callers, NEW ok \in BOOLEAN, SetDevice(c, ok)
       PROVE  Deadline'
  BY <1>13 DEF SetDevice
<1>14. ASSUME NEW c \in Callers, SetTout(c) PROVE Deadline'
  BY <1>14 DEF SetTout
<1>15. ASSUME NEW c \in Callers, SetPeriod(c) PROVE Deadline'
  BY <1>15 DEF SetPeriod
<1>16. ASSUME NEW c \in Callers, NEW t \in Requests, SetBegin(c, t)
       PROVE  Deadline'
  BY <1>16 DEF SetBegin, InCall
<1>17. ASSUME Tick PROVE Deadline'
  BY <1>17 DEF Tick, Delayed, InCall
<1>18. CASE UNCHANGED vars
  BY <1>18 DEF vars
<1> QED
  BY <1>1, <1>2, <1>3, <1>4, <1>5, <1>6, <1>7, <1>8, <1>9, <1>10, <1>11,
       <1>12, <1>13, <1>14, <1>15, <1>16, <1>17, <1>18 DEF Next, ThreadStep,
       SetStep

(***************************************************************************)
(* A tick never brings the age to the timeout: half of it, plus the delay, *)
(* plus one second is less.                                                *)
(***************************************************************************)
LEMMA NeverLateStep ==
  ASSUME TypeOK, Shape, Follows, Deadline, NeverLate, [Next]_vars
  PROVE  NeverLate'
<1> USE WatchdogAssumption DEF NeverLate, Alive
<1>1. CASE Tick
  <2> SUFFICES ASSUME ~overlapped, ~feedFailed, Alive PROVE ~expired'
    BY <1>1 DEF Tick
  <2>1. devTout \in Nat /\ devTout > 2 * (MaxLag + 1)
    BY ToutsOK DEF TypeOK, DeviceTypeOK
  <2>2. age \in Nat /\ cnt \in Nat /\ lag \in 0..MaxLag
    BY DEF TypeOK, DeviceTypeOK, ThreadTypeOK, HistoryTypeOK
  <2>3. Delayed => lag < MaxLag
    BY <1>1 DEF Tick
  <2>4. age + 1 < devTout
    <3>1. CASE age <= 1 + lag
      BY <2>1, <2>2, <3>1
    <3>2. CASE ~(age <= 1 + lag)
      <4>1. \A c \in Callers : pc[c] \notin {"device", "tout", "period"}
        BY <2>2, <3>2 DEF Deadline
      <4>2. feedSet = devTout \div 2
        BY <4>1 DEF Follows
      <4>3. 2 * feedSet <= devTout /\ feedSet \in Nat
        BY <2>1, <4>2, Half
      <4>4. /\ thread \in {"asleep", "awake", "ended"}
            /\ thread = "asleep" => cnt <= feedSet /\ age <= cnt + lag
            /\ thread # "asleep" => cnt <= feedSet /\ age <= cnt + 1 + lag
        BY <2>2, <3>2 DEF Shape, Deadline
      <4>5. age + 1 <= feedSet + MaxLag + 1
        BY <2>2, <2>3, <4>3, <4>4 DEF Delayed
      <4> QED BY <2>1, <2>2, <4>3, <4>5
    <3> QED BY <3>1, <3>2
  <2>5. expired' <=> age + 1 >= devTout BY <1>1 DEF Tick
  <2> QED BY <2>1, <2>2, <2>4, <2>5
<1>2. CASE Next /\ ~Tick
  <2>1. ~expired'
    BY <1>2 DEF Next, ThreadStep, SetStep, Open, SetInitialTout,
       CreateThread, InitFails, Stop, Join, Close, ThreadStart, LoopFeeds,
       LoopSkips, LoopEnds, SetFeed, SetDevice, SetTout, SetPeriod, SetBegin,
       device
  <2> QED BY <2>1
<1>3. CASE UNCHANGED vars
  BY <1>3 DEF vars, device, history
<1> QED BY <1>1, <1>2, <1>3

(***************************************************************************)
(* The five together are an inductive invariant.                           *)
(***************************************************************************)
LEMMA Inductive ==
  Spec => [](TypeOK /\ Shape /\ Follows /\ Deadline /\ NeverLate)
<1> DEFINE IInv == TypeOK /\ Shape /\ Follows /\ Deadline /\ NeverLate
<1>1. Init => IInv
  <2> SUFFICES ASSUME Init PROVE IInv
    OBVIOUS
  <2> USE WatchdogAssumption, ToutsOK DEF Init
  <2>1. CallTypeOK BY DEF CallTypeOK, CallSteps
  <2>2. ThreadTypeOK BY Half DEF ThreadTypeOK, Touts
  <2>3. devTout \in Touts /\ age \in 0..MaxTout /\ lag \in 0..MaxLag
    BY DEF Touts
  <2>4. {armed, expired, overlapped, feedFailed} \subseteq BOOLEAN
    BY Zenon
  <2>5. Shape BY DEF Shape
  <2>6. Follows /\ Deadline /\ NeverLate
    BY DEF Follows, Deadline, NeverLate, Alive
  <2> HIDE DEF Init
  <2> QED
    BY <2>1, <2>2, <2>3, <2>4, <2>5, <2>6
       DEF TypeOK, DeviceTypeOK, HistoryTypeOK
<1>2. IInv /\ [Next]_vars => IInv'
  BY TypeStep, ShapeStep, FollowsStep, DeadlineStep, NeverLateStep
<1> QED
  BY <1>1, <1>2, PTL DEF Spec

(***************************************************************************)
(* Type correctness: cnt and the settings stay in range (wtd_func.c:37-42, *)
(* 96).                                                                    *)
(***************************************************************************)
THEOREM TypeCorrect == Spec => []TypeOK
BY Inductive, PTL

(***************************************************************************)
(* NoSpuriousReset: feeding every tout/2 + 1 seconds, and before every     *)
(* change of the timeout, is enough as long as the delays between two      *)
(* keepalives stay below half of WTD_MIN_TOUT, calls do not overlap and no *)
(* keepalive fails (wtd_func.c:35-44, 94-121).                             *)
(***************************************************************************)
THEOREM NoReset == Spec => []NoSpuriousReset
<1>1. NeverLate => NoSpuriousReset
  BY DEF NeverLate, Alive, NoSpuriousReset
<1> QED BY <1>1, Inductive, PTL

(***************************************************************************)
(* PeriodMatchesDevice: a refused timeout leaves the thread's period as it *)
(* was (wtd_func.c:99-104).                                                *)
(***************************************************************************)
THEOREM PeriodMatches == Spec => []PeriodMatchesDevice
<1>1. Follows => PeriodMatchesDevice
  BY DEF Follows, Alive, PeriodMatchesDevice, InCall
<1> QED BY <1>1, Inductive, PTL
=============================================================================
