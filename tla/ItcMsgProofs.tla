---------------------------- MODULE ItcMsgProofs ----------------------------
(***************************************************************************)
(* Proofs about the thread messages (ItcMsg), for any threads, any pipe    *)
(* capacity and any number of interrupted waits.                           *)
(***************************************************************************)
EXTENDS ItcMsg, SequenceTheorems, FiniteSetTheorems, TLAPS

(***************************************************************************)
(* While no wait has been interrupted, the semaphore is free exactly when  *)
(* nobody holds it.                                                        *)
(***************************************************************************)
LockInv ==
  /\ open \in BOOLEAN
  /\ pc \in [Threads -> {"idle", "wait", "write", "post", "read"}]
  /\ interrupted \in Nat /\ lock \in Nat
  /\ ~open => \A p \in Threads : pc[p] = "idle"
  /\ interrupted = 0 =>
       /\ lock <= 1
       /\ lock = 1 => \A p \in Threads : ~Holding(p)
       /\ \A p, q \in Threads : Holding(p) /\ Holding(q) => p = q

(***************************************************************************)
(* The pipe never holds more than it can.                                  *)
(***************************************************************************)
PipeInv ==
  /\ pipe \in Seq(Message) /\ Len(pipe) <= Capacity
  /\ val \in [Senders -> Values]
  /\ taken \in [Receivers -> Message \cup {<<>>}]

(***************************************************************************)
(* Every step preserves LockInv.                                           *)
(***************************************************************************)
LEMMA LockStep == ASSUME LockInv, [Next]_vars PROVE LockInv'
<1> USE DEF LockInv, Holding, Threads
<1>1. CASE Create
  BY <1>1 DEF Create
<1>2. CASE Release
  BY <1>2 DEF Release
<1>3. ASSUME NEW s \in Senders, NEW v \in Values, SendBegin(s, v)
      PROVE  LockInv'
  BY <1>3 DEF SendBegin
<1>4. ASSUME NEW s \in Senders, SemWait(s) PROVE LockInv'
  BY <1>4 DEF SemWait
<1>5. ASSUME NEW s \in Senders, SemInterrupted(s) PROVE LockInv'
  BY <1>5 DEF SemInterrupted
<1>6. ASSUME NEW s \in Senders, Write(s) PROVE LockInv'
  BY <1>6 DEF Write
<1>7. ASSUME NEW s \in Senders, SemPost(s) PROVE LockInv'
  BY <1>7 DEF SemPost, Posted
<1>8. ASSUME NEW r \in Receivers, RecvStep(r) PROVE LockInv'
  BY <1>8 DEF RecvStep, RecvBegin, Read
<1>9. CASE UNCHANGED vars
  BY <1>9 DEF vars
<1> QED
  BY <1>1, <1>2, <1>3, <1>4, <1>5, <1>6, <1>7, <1>8, <1>9 DEF Next, SendStep

(***************************************************************************)
(* Every step preserves PipeInv.                                           *)
(***************************************************************************)
LEMMA PipeStep == ASSUME LockInv, PipeInv, [Next]_vars PROVE PipeInv'
<1>e. <<>> \in Seq(Message) /\ Len(<<>>) = 0
  BY EmptySeq
<1> USE ItcAssumption DEF PipeInv
<1>1. CASE Create \/ Release
  <2>1. pipe' = <<>> /\ UNCHANGED <<val, taken>>
    BY <1>1 DEF Create, Release
  <2>2. pipe' \in Seq(Message) /\ Len(pipe') = 0
    BY <2>1, <1>e, Zenon
  <2> QED BY <2>1, <2>2
<1>2. ASSUME NEW s \in Senders, NEW v \in Values, SendBegin(s, v)
      PROVE  PipeInv'
  BY <1>2 DEF SendBegin
<1>3. ASSUME NEW s \in Senders, Write(s) PROVE PipeInv'
  <2>1. <<s, val[s]>> \in Message
    BY DEF Message
  <2>2. /\ Append(pipe, <<s, val[s]>>) \in Seq(Message)
        /\ Len(Append(pipe, <<s, val[s]>>)) = Len(pipe) + 1
    BY <2>1, AppendProperties
  <2> QED BY <1>3, <2>2, LenProperties DEF Write, Room, Insert
<1>4. ASSUME NEW s \in Senders, SemWait(s) \/ SemInterrupted(s) \/ SemPost(s)
      PROVE  PipeInv'
  BY <1>4 DEF SemWait, SemInterrupted, SemPost
<1>5. ASSUME NEW r \in Receivers, RecvBegin(r) PROVE PipeInv'
  BY <1>5 DEF RecvBegin
<1>6. ASSUME NEW r \in Receivers, Read(r) PROVE PipeInv'
  <2>1. Head(pipe) \in Message /\ Tail(pipe) \in Seq(Message)
        /\ Len(Tail(pipe)) <= Capacity
    BY <1>6, HeadTailProperties DEF Read
  <2> QED BY <1>6, <2>1 DEF Read
<1>7. CASE UNCHANGED vars
  BY <1>7 DEF vars
<1> QED
  BY <1>1, <1>2, <1>3, <1>4, <1>5, <1>6, <1>7 DEF Next, SendStep, RecvStep

(***************************************************************************)
(* The two together are an inductive invariant.                            *)
(***************************************************************************)
LEMMA Inductive == Spec => [](LockInv /\ PipeInv)
<1>1. Init => LockInv /\ PipeInv
  <2> SUFFICES ASSUME Init PROVE LockInv /\ PipeInv
    OBVIOUS
  <2>1. LockInv
    <3>1. open \in BOOLEAN BY Zenon DEF Init
    <3>2. /\ pc \in [Threads -> {"idle", "wait", "write", "post", "read"}]
          /\ \A p \in Threads : pc[p] = "idle"
          /\ interrupted = 0 /\ lock = 0
      BY DEF Init
    <3> QED BY <3>1, <3>2 DEF LockInv, Holding
  <2>2. pipe \in Seq(Message) /\ Len(pipe) = 0
    BY EmptySeq DEF Init
  <2>3. taken \in [Receivers -> Message \cup {<<>>}]
    BY DEF Init
  <2>4. PipeInv BY <2>2, <2>3, ItcAssumption DEF Init, PipeInv
  <2> QED BY <2>1, <2>4
<1>2. LockInv /\ PipeInv /\ [Next]_vars => (LockInv /\ PipeInv)'
  BY LockStep, PipeStep
<1> QED
  BY <1>1, <1>2, PTL DEF Spec

(***************************************************************************)
(* MutualExclusion: the semaphore lets one thread at a time write          *)
(* (itc_msg.c:51-55).                                                      *)
(***************************************************************************)
THEOREM Mutex == Spec => []MutualExclusion
<1>1. LockInv => MutualExclusion
  BY DEF LockInv, MutualExclusion
<1> QED
  BY <1>1, Inductive, PTL

(***************************************************************************)
(* Permits: who is inside the semaphore and what it still has to give are  *)
(* together one more than the waits that were interrupted.                 *)
(***************************************************************************)
Holders == {p \in Threads : Holding(p)}
PermitInv ==
  /\ interrupted <= MaxSignals
  /\ IsFiniteSet(Holders) /\ Cardinality(Holders) + lock <= interrupted + 1

LEMMA PermitStep ==
  ASSUME LockInv, PermitInv, [Next]_vars
  PROVE  PermitInv'
<1> USE DEF PermitInv
<1>1. /\ Cardinality(Holders) \in Nat /\ lock \in Nat /\ interrupted \in Nat
      /\ MaxSignals \in Nat
  BY FS_CardinalityType, ItcAssumption DEF LockInv
<1>2. CASE Create
  <2>1. Holders' = Holders /\ Holders = {} /\ lock' = 1 /\ UNCHANGED interrupted
    BY <1>2 DEF Create, LockInv, Holders, Holding
  <2> QED BY <1>1, <2>1, FS_EmptySet
<1>3. ASSUME UNCHANGED <<lock, interrupted>>, Holders' = Holders
      PROVE  PermitInv'
  BY <1>3
<1>4. CASE Release \/ UNCHANGED vars
  BY <1>3, <1>4 DEF Release, vars, Holders, Holding
<1>5. ASSUME NEW s \in Senders, NEW v \in Values, SendBegin(s, v)
      PROVE  PermitInv'
  BY <1>3, <1>5 DEF SendBegin, Holders, Holding, LockInv, Threads
<1>6. ASSUME NEW s \in Senders, SemWait(s) \/ SemInterrupted(s)
      PROVE  PermitInv'
  <2>1. Holders' = Holders \cup {s} /\ s \notin Holders
    BY <1>6 DEF SemWait, SemInterrupted, Holders, Holding, LockInv, Threads
  <2>2. /\ IsFiniteSet(Holders')
        /\ Cardinality(Holders') = Cardinality(Holders) + 1
    BY <2>1, FS_AddElement
  <2>3. \/ lock > 0 /\ lock' = lock - 1 /\ interrupted' = interrupted
        \/ /\ lock' = lock /\ interrupted' = interrupted + 1
           /\ interrupted < MaxSignals
    BY <1>1, <1>6 DEF SemWait, SemInterrupted
  <2> QED BY <1>1, <2>2, <2>3
<1>7. ASSUME NEW s \in Senders, Write(s) PROVE PermitInv'
  BY <1>3, <1>7 DEF Write, Holders, Holding, LockInv, Threads
<1>8. ASSUME NEW s \in Senders, SemPost(s) PROVE PermitInv'
  <2>1. Holders' = Holders \ {s} /\ s \in Holders
    BY <1>8 DEF SemPost, Holders, Holding, LockInv, Threads
  <2>2. /\ IsFiniteSet(Holders')
        /\ Cardinality(Holders') = Cardinality(Holders) - 1
    BY <2>1, FS_RemoveElement
  <2>3. lock' = lock + 1 /\ interrupted' = interrupted
    BY <1>8 DEF SemPost, Posted
  <2> QED BY <1>1, <2>2, <2>3
<1>9. ASSUME NEW r \in Receivers, RecvStep(r) PROVE PermitInv'
  BY <1>3, <1>9
  DEF RecvStep, RecvBegin, Read, Holders, Holding, LockInv, Threads
<1> QED
  BY <1>2, <1>4, <1>5, <1>6, <1>7, <1>8, <1>9 DEF Next, SendStep

(***************************************************************************)
(* Every interrupted wait lets at most one more thread in, and leaves the  *)
(* semaphore at most one higher, whatever happens later; the pipe never    *)
(* holds more than it can (itc_msg.c:51-55).                               *)
(***************************************************************************)
THEOREM Permits ==
  Spec => [](TypeOK /\ Cardinality(Holders) <= interrupted + 1)
<1>1. Init => PermitInv
  <2> SUFFICES ASSUME Init PROVE PermitInv
    OBVIOUS
  <2>1. Holders = {} /\ lock = 0 /\ interrupted = 0
    BY DEF Init, Holders, Holding
  <2> QED BY <2>1, FS_EmptySet, ItcAssumption DEF PermitInv
<1>2. LockInv /\ PipeInv /\ PermitInv =>
        TypeOK /\ Cardinality(Holders) <= interrupted + 1
  <2> SUFFICES ASSUME LockInv, PipeInv, PermitInv
               PROVE  TypeOK /\ Cardinality(Holders) <= interrupted + 1
    OBVIOUS
  <2>1. /\ Cardinality(Holders) \in Nat /\ lock \in Nat /\ interrupted \in Nat
        /\ MaxSignals \in Nat /\ interrupted <= MaxSignals
        /\ Cardinality(Holders) + lock <= interrupted + 1
    BY FS_CardinalityType, ItcAssumption DEF LockInv, PermitInv
  <2>2. interrupted \in 0..MaxSignals /\ lock \in 0..(interrupted + 1)
    BY <2>1
  <2>3. open \in BOOLEAN
    BY DEF LockInv
  <2> QED BY <2>1, <2>2, <2>3 DEF TypeOK, LockInv, PipeInv
<1>3. LockInv /\ PermitInv /\ [Next]_vars => PermitInv'
  BY PermitStep
<1> QED BY <1>1, <1>2, <1>3, Inductive, PTL DEF Spec

(***************************************************************************)
(* ImplementsFifo: every step of the pipe and its semaphore is a step of   *)
(* the bounded buffer or changes nothing in it, however many waits are     *)
(* interrupted (itc_msg.c:42-67).                                          *)
(***************************************************************************)
THEOREM Refinement == Spec => ImplementsFifo
<1>1. Init => Fifo!FifoInit
  BY DEF Init, Fifo!FifoInit
<1>2. PipeInv /\ [Next]_vars => [Fifo!FifoNext]_(Fifo!fifoVars)
  <2> SUFFICES ASSUME PipeInv, [Next]_vars
               PROVE  Fifo!FifoNext \/ UNCHANGED Fifo!fifoVars
    OBVIOUS
  <2> USE DEF Fifo!FifoNext, Fifo!fifoVars
  <2>1. CASE Create \/ Release
    BY <2>1 DEF Create, Release, Fifo!Renew
  <2>2. ASSUME NEW s \in Senders, Write(s)
        PROVE  Fifo!FifoNext
    <3>1. val[s] \in Values /\ Fifo!Put(s, val[s])
      BY <2>2 DEF Write, Room, Insert, PipeInv, Fifo!Put
    <3> QED BY <3>1
  <2>3. ASSUME NEW r \in Receivers, Read(r) PROVE Fifo!FifoNext
    BY <2>3 DEF Read, Fifo!Get
  <2>4. CASE \/ \E s \in Senders, v \in Values : SendBegin(s, v)
             \/ \E s \in Senders :
                  SemWait(s) \/ SemInterrupted(s) \/ SemPost(s)
             \/ \E r \in Receivers : RecvBegin(r)
    BY <2>4 DEF SendBegin, SemWait, SemInterrupted, SemPost, RecvBegin
  <2>5. CASE UNCHANGED vars
    BY <2>5 DEF vars
  <2> QED
    BY <2>1, <2>2, <2>3, <2>4, <2>5 DEF Next, SendStep, RecvStep
<1> QED
  BY <1>1, <1>2, Inductive, PTL DEF Spec, ImplementsFifo, Fifo!FifoSpec
=============================================================================
