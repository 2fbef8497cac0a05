----------------------- MODULE ConnectionManagerProofs -----------------------
(***************************************************************************)
(* The link's safety for any number of callers, supervisors, interfaces    *)
(* and targets.  The argument: _open() closes everything while it holds    *)
(* the lock, nothing can open or stash an interface until it releases it   *)
(* (Clean), and an interface leaves _iface only closed or into             *)
(* _stale_ifaces (NothingLeaks).                                           *)
(***************************************************************************)
EXTENDS ConnectionManager, TLAPS

\* The lock is held by the thread that constructs or subscribes, by no other.
LockOK == \A t \in Threads : lock = t <=> pc[t] \in {"construct", "subscribe"}

\* While an interface is constructed no other is open, stashed or in use.
Clean == \A t \in Threads : pc[t] = "construct" =>
            iface = NoIface /\ stale = {} /\ \A i \in Ifaces : link[i] = "closed"

\* The node serves one TCP client: the manager never has two interfaces that
\* it has not closed, whoever calls connect() and whatever losses race it.
AtMostOneOpen == \A i, j \in Ifaces : Unclosed(i) /\ Unclosed(j) => i = j

\* The interface in use is not closed.
InUseIsOpen == iface # NoIface => Unclosed(iface)

\* A loss that is queued or being handled is the loss of a link that is not up.
LossIsReal == \A i \in Ifaces : i \in lossQueue \cup {handling} => link[i] # "up"

\* A link in use has its handler when the lock is released, unless subscribing
\* failed, and its loss is on its way to a handler, unless it came too early.
HasHandler  == iface # NoIface /\ lock = NoThread => lossSub \/ unheard
LossPending == iface # NoIface /\ link[iface] = "dead" =>
                  handling = iface \/ iface \in lossQueue \/ unheard
Heard == HasHandler /\ LossPending

\* The part of the invariant that is about the radio and the lock.
RInv == LockOK /\ Clean /\ NothingLeaks /\ AtMostOneOpen
        /\ InUseIsOpen /\ LossIsReal /\ Heard

IInv == TypeOK /\ RInv

-----------------------------------------------------------------------------
\* The initial state satisfies the inductive invariant.
LEMMA InitIInv == Init => IInv
<1> SUFFICES ASSUME Init PROVE IInv
  OBVIOUS
<1>1. TypeOK
  <2>1. \A t \in Threads : pc[t] = IF t \in Callers THEN "idle" ELSE "done"
    BY DEF Init
  <2>2. pc \in [Threads -> CallerLabels \cup OpenLabels \cup LoopLabels]
    BY DEF Init, CallerLabels, LoopLabels
  <2>3. \A c \in Callers : pc[c] \in CallerLabels \cup OpenLabels
    BY <2>1 DEF Threads, CallerLabels
  <2>4. \A s \in Supervisors : pc[s] \in LoopLabels \cup OpenLabels
    BY <2>1, ManagerAssumption DEF Threads, LoopLabels
  <2>5. 0 \in 0..Threshold
    BY ManagerAssumption
  <2> QED BY <2>2, <2>3, <2>4, <2>5 DEF Init, TypeOK
<1>2. LockOK /\ Clean /\ NothingLeaks /\ AtMostOneOpen
  BY ManagerAssumption
     DEF Init, LockOK, Clean, NothingLeaks, AtMostOneOpen, Unclosed, Threads
<1>3. InUseIsOpen /\ LossIsReal /\ Heard
  BY DEF Init, InUseIsOpen, LossIsReal, Heard, HasHandler, LossPending
<1> QED BY <1>1, <1>2, <1>3 DEF IInv, RInv

-----------------------------------------------------------------------------
\* The two halves of the type invariant: control, and everything else.
PcOK == /\ pc \in [Threads -> CallerLabels \cup OpenLabels \cup LoopLabels]
        /\ \A c \in Callers : pc[c] \in CallerLabels \cup OpenLabels
        /\ \A s \in Supervisors : pc[s] \in LoopLabels \cup OpenLabels

DataOK ==
    /\ installed \in BOOLEAN /\ want \in BOOLEAN /\ stop \in BOOLEAN
    /\ slow \in BOOLEAN /\ hard \in BOOLEAN
    /\ lossSub \in BOOLEAN /\ unheard \in BOOLEAN
    /\ host \in Targets \cup {NoTarget} /\ port \in Targets \cup {NoTarget}
    /\ dial \in Targets \cup {NoTarget}
    /\ iface \in Ifaces \cup {NoIface} /\ handling \in Ifaces \cup {NoIface}
    /\ stale \subseteq Ifaces /\ lossQueue \subseteq Ifaces
    /\ failures \in 0..Threshold
    /\ supervisor \in Supervisors \cup {NoThread}
    /\ lock \in Threads \cup {NoThread}
    /\ arg \in [Callers -> Targets \cup {NoTarget}]
    /\ link \in [Ifaces -> {"up", "dead", "closed"}]
    /\ peer \in [Ifaces -> (Targets \cup {NoTarget}) \X (Targets \cup {NoTarget})]

LEMMA TypeSplit == TypeOK <=> PcOK /\ DataOK
BY DEF TypeOK, PcOK, DataOK

\* A thread that moves to a label of its kind keeps the control state typed.
LEMMA GotoCaller ==
    ASSUME PcOK, NEW c \in Callers, NEW from, NEW to \in CallerLabels \cup OpenLabels,
           Goto(c, from, to)
    PROVE  PcOK'
BY ManagerAssumption DEF PcOK, Goto, Threads

LEMMA GotoSupervisor ==
    ASSUME PcOK, NEW s \in Supervisors, NEW from,
           NEW to \in LoopLabels \cup OpenLabels, Goto(s, from, to)
    PROVE  PcOK'
BY ManagerAssumption DEF PcOK, Goto, Threads

LEMMA GotoOpen ==
    ASSUME PcOK, NEW t \in Threads, NEW from, NEW to \in OpenLabels, Goto(t, from, to)
    PROVE  PcOK'
BY GotoCaller, GotoSupervisor DEF Threads

LEMMA GotoAfter ==
    ASSUME PcOK, NEW t \in Threads, NEW from,
           NEW caller \in CallerLabels \cup OpenLabels,
           NEW loop \in LoopLabels \cup OpenLabels,
           Goto(t, from, After(t, caller, loop))
    PROVE  PcOK'
<1>1. CASE t \in Callers
  BY <1>1, GotoCaller DEF After
<1>2. CASE t \in Supervisors
  BY <1>2, GotoSupervisor, ManagerAssumption DEF After
<1> QED BY <1>1, <1>2 DEF Threads

\* Every step keeps the control state typed.
LEMMA PcStep == PcOK /\ [Next]_vars => PcOK'
<1> SUFFICES ASSUME PcOK, [Next]_vars PROVE PcOK'
  OBVIOUS
<1> DEFINE CL == CallerLabels \cup OpenLabels
           SL == LoopLabels \cup OpenLabels
<1>1. ASSUME NEW c \in Callers, CallerBegin(c) PROVE PcOK'
  <2>1. "setPort" \in CL /\ "setStop" \in CL
    BY DEF CallerLabels
  <2> QED BY <1>1, <2>1, GotoCaller DEF CallerBegin, ConnectBegin, DisconnectBegin
<1>2. ASSUME NEW c \in Callers, SetPort(c) \/ SetWant(c) \/ ClearStop(c) PROVE PcOK'
  <2>1. "setWant" \in CL /\ "clearStop" \in CL /\ "resetCounters" \in CL
    BY DEF CallerLabels
  <2> QED BY <1>2, <2>1, GotoCaller DEF SetPort, SetWant, ClearStop
<1>3. ASSUME NEW c \in Callers, ResetCounters(c) \/ HardError(c) PROVE PcOK'
  <2>1. "import" \in CL /\ "idle" \in CL
    BY DEF CallerLabels, OpenLabels
  <2> QED BY <1>3, <2>1, GotoCaller DEF ResetCounters, HardError
<1>4. ASSUME NEW c \in Callers, Ensure(c) PROVE PcOK'
  <2>1. (IF supervisor # NoThread /\ Alive(supervisor) THEN "idle" ELSE "assign") \in CL
    BY DEF CallerLabels
  <2> QED BY <1>4, <2>1, GotoCaller DEF Ensure
<1>5. ASSUME NEW c \in Callers, NEW s \in Supervisors, Assign(c, s) PROVE PcOK'
  <2>1. "start" \in CL /\ "new" \in SL
    BY DEF CallerLabels, LoopLabels
  <2> QED BY <1>5, <2>1, ManagerAssumption DEF Assign, PcOK, Threads
<1>6. ASSUME NEW c \in Callers, Start(c) PROVE PcOK'
  <2>1. "idle" \in CL /\ "checkWant" \in SL /\ "new" \notin CL
    BY DEF CallerLabels, OpenLabels, LoopLabels
  <2>2. /\ pc' \in [Threads -> CL \cup SL]
        /\ \A t \in Threads : pc'[t] \in {pc[t], "idle", "checkWant"}
        /\ \A t \in Threads : pc'[t] = "idle" => pc[t] = "idle" \/ t = c
        /\ \A t \in Threads : pc'[t] = "checkWant" => pc[t] \in {"new", "checkWant"}
    BY <1>6, <2>1, ManagerAssumption DEF Start, PcOK, Threads
  <2> QED BY <2>1, <2>2, ManagerAssumption DEF PcOK, Threads
<1>7. ASSUME NEW c \in Callers, SetStop(c) \/ Close(c) PROVE PcOK'
  <2>1. "close" \in CL /\ "idle" \in CL
    BY DEF CallerLabels
  <2> QED BY <1>7, <2>1, GotoCaller DEF SetStop, Close
<1>8. ASSUME NEW t \in Threads, Open(t) PROVE PcOK'
  <2>1. {"acquire", "construct", "subscribe", "success", "failure"} \subseteq OpenLabels
    BY DEF OpenLabels
  <2>2. "hardError" \in CL /\ "ensure" \in CL /\ "poll" \in SL /\ "chooseWait" \in SL
    BY DEF CallerLabels, LoopLabels
  <2>3. CASE Import(t)
    <3>1. CASE installed
      BY <2>1, <2>3, <3>1, GotoOpen DEF Import
    <3>2. CASE ~installed
      BY <2>1, <2>2, <2>3, <3>2, GotoAfter DEF Import
    <3> QED BY <3>1, <3>2
  <2>4. CASE Acquire(t) \/ Refused(t) \/ Subscribe(t) \/ SubscribeFails(t)
    BY <2>1, <2>4, GotoOpen DEF Acquire, Refused, Subscribe, SubscribeFails
  <2>5. CASE \E i \in Ifaces : Construct(t, i)
    BY <2>1, <2>5, GotoOpen DEF Construct
  <2>6. CASE RecordSuccess(t) \/ RecordFailure(t)
    BY <2>2, <2>6, GotoAfter DEF RecordSuccess, RecordFailure
  <2> QED BY <1>8, <2>3, <2>4, <2>5, <2>6 DEF Open
<1>9. ASSUME NEW s \in Supervisors, SupervisorStep(s), ~Open(s) PROVE PcOK'
  <2>1. {"checkWant", "checkStop", "checkIface", "poll", "backoffWait", "slowWait",
         "exiting", "done"} \subseteq SL /\ "import" \in SL
    BY DEF LoopLabels, OpenLabels
  <2>2. CASE CheckWant(s) \/ CheckStop(s)
    BY <2>1, <2>2, GotoSupervisor DEF CheckWant, CheckStop
  <2>3. CASE CheckIface(s) \/ ChooseWait(s)
    BY <2>1, <2>3, GotoSupervisor DEF CheckIface, ChooseWait
  <2>4. CASE Wake(s) \/ Exit(s)
    BY <2>1, <2>4, GotoSupervisor DEF Wake, Exit
  <2> QED BY <1>9, <2>2, <2>3, <2>4 DEF SupervisorStep
<1>10. CASE PublisherStep \/ \E i \in Ifaces : Die(i)
  BY <1>10 DEF PublisherStep, Publish, OnConnectionLost, Die, PcOK
<1>11. CASE UNCHANGED vars
  BY <1>11 DEF vars, PcOK
<1> QED BY <1>1, <1>2, <1>3, <1>4, <1>5, <1>6, <1>7, <1>8, <1>9, <1>10, <1>11
        DEF Next, CallerStep, SupervisorStep, Threads

LEMMA ZeroFailures == 0 \in 0..Threshold
BY ManagerAssumption

LEMMA CloseLockedTyped ==
    ASSUME DataOK, CloseLocked
    PROVE  /\ iface' = NoIface /\ stale' = {} /\ lossSub' = FALSE /\ unheard' = FALSE
           /\ link' \in [Ifaces -> {"up", "dead", "closed"}]
           /\ lossQueue' \subseteq Ifaces
<1>1. \A i \in Ifaces : link[i] \in {"up", "dead", "closed"}
  BY DEF DataOK
<1> QED BY <1>1 DEF CloseLocked, DataOK

\* Every step keeps the fields typed.
LEMMA DataStep == PcOK /\ DataOK /\ [Next]_vars => DataOK'
<1> SUFFICES ASSUME PcOK, DataOK, [Next]_vars PROVE DataOK'
  OBVIOUS
<1> USE DEF DataOK, intent, target, cadence, radio, ResetCadence
<1>1. ASSUME NEW c \in Callers, CallerBegin(c) PROVE DataOK'
  BY <1>1 DEF CallerBegin, ConnectBegin, DisconnectBegin
<1>2. ASSUME NEW c \in Callers, SetPort(c) \/ SetWant(c) \/ ClearStop(c) PROVE DataOK'
  BY <1>2 DEF SetPort, SetWant, ClearStop
<1>3. ASSUME NEW c \in Callers, ResetCounters(c) \/ HardError(c) PROVE DataOK'
  <2>1. CASE ResetCounters(c)
    BY <2>1, ZeroFailures DEF ResetCounters
  <2>2. CASE HardError(c)
    BY <2>2 DEF HardError
  <2> QED BY <1>3, <2>1, <2>2
<1>4. ASSUME NEW c \in Callers, Ensure(c) \/ Start(c) PROVE DataOK'
  BY <1>4 DEF Ensure, Start
<1>5. ASSUME NEW c \in Callers, NEW s \in Supervisors, Assign(c, s) PROVE DataOK'
  BY <1>5 DEF Assign
<1>6. ASSUME NEW c \in Callers, SetStop(c) \/ Close(c) PROVE DataOK'
  <2>1. CASE SetStop(c)
    BY <2>1 DEF SetStop
  <2>2. CASE Close(c)
    BY <2>2, CloseLockedTyped, ZeroFailures DEF Close
  <2> QED BY <1>6, <2>1, <2>2
<1>7. ASSUME NEW t \in Threads, Open(t) PROVE DataOK'
  <2>1. CASE Import(t) \/ Refused(t) \/ Subscribe(t) \/ SubscribeFails(t)
    BY <2>1 DEF Import, Refused, Subscribe, SubscribeFails
  <2>2. CASE Acquire(t)
    BY <2>2, CloseLockedTyped DEF Acquire
  <2>3. ASSUME NEW i \in Ifaces, Construct(t, i) PROVE DataOK'
    BY <2>3 DEF Construct
  <2>4. CASE RecordSuccess(t)
    BY <2>4, ZeroFailures DEF RecordSuccess
  <2>5. CASE RecordFailure(t)
    <3>1. failures' \in 0..Threshold
      <4>1. failures \in 0..Threshold /\ Threshold \in Nat
        BY ManagerAssumption
      <4>2. failures' = IF failures < Threshold THEN failures + 1 ELSE Threshold
        BY <2>5 DEF RecordFailure
      <4> QED BY <4>1, <4>2
    <3>2. slow' \in BOOLEAN
      BY <2>5 DEF RecordFailure
    <3> QED BY <2>5, <3>1, <3>2 DEF RecordFailure
  <2> QED BY <1>7, <2>1, <2>2, <2>3, <2>4, <2>5 DEF Open
<1>8. ASSUME NEW s \in Supervisors, SupervisorStep(s), ~Open(s) PROVE DataOK'
  BY <1>8 DEF SupervisorStep, CheckWant, CheckStop, CheckIface, ChooseWait, Wake, Exit
<1>9. CASE PublisherStep
  BY <1>9 DEF PublisherStep, Publish, OnConnectionLost
<1>10. ASSUME NEW i \in Ifaces, Die(i) PROVE DataOK'
  BY <1>10 DEF Die
<1>11. CASE UNCHANGED vars
  BY <1>11 DEF vars
<1> QED BY <1>1, <1>2, <1>3, <1>4, <1>5, <1>6, <1>7, <1>8, <1>9, <1>10, <1>11
        DEF Next, CallerStep, SupervisorStep, Threads

-----------------------------------------------------------------------------
\* A step that moves a thread outside _open()'s critical section, and touches
\* neither the radio nor the lock, keeps it.
Outside(t, from, to) ==
    /\ Goto(t, from, to)
    /\ {from, to} \cap {"construct", "subscribe"} = {}
    /\ UNCHANGED <<iface, stale, link, lossSub, lossQueue, lock, handling, unheard>>

LEMMA OutsideStep ==
    ASSUME PcOK, RInv, NEW t \in Threads, NEW from, NEW to, Outside(t, from, to)
    PROVE  RInv'
<1>1. ASSUME NEW u \in Threads, NEW l \in {"construct", "subscribe"}
      PROVE  pc'[u] = l <=> pc[u] = l
  BY DEF Outside, Goto, PcOK
<1>2. LockOK'
  <2> SUFFICES ASSUME NEW u \in Threads
               PROVE  lock' = u <=> pc'[u] \in {"construct", "subscribe"}
    BY DEF LockOK
  <2>1. lock = u <=> pc[u] \in {"construct", "subscribe"}
    BY DEF RInv, LockOK
  <2>2. lock' = lock
    BY DEF Outside
  <2> QED BY <1>1, <2>1, <2>2
<1>3. Clean'
  <2> SUFFICES ASSUME NEW u \in Threads, pc'[u] = "construct"
               PROVE  iface = NoIface /\ stale = {} /\ \A i \in Ifaces : link[i] = "closed"
    BY DEF Clean, Outside
  <2>1. pc[u] = "construct"
    BY <1>1
  <2> QED BY <2>1 DEF RInv, Clean
<1>4. NothingLeaks' /\ AtMostOneOpen' /\ InUseIsOpen' /\ LossIsReal' /\ Heard'
  BY DEF Outside, RInv, NothingLeaks, AtMostOneOpen, InUseIsOpen, LossIsReal,
         Heard, HasHandler, LossPending, Unclosed
<1> QED BY <1>2, <1>3, <1>4 DEF RInv

\* _close_locked() leaves nothing open, stashed or in use.
LEMMA CloseLockedCleans ==
    ASSUME DataOK, RInv, CloseLocked
    PROVE  /\ iface' = NoIface /\ stale' = {} /\ lossSub' = FALSE
           /\ \A i \in Ifaces : link'[i] = "closed"
BY ManagerAssumption DEF CloseLocked, DataOK, RInv, NothingLeaks, Unclosed

\* ... and the invariant, once the lock and the control state are accounted for.
LEMMA CloseLockedStep ==
    ASSUME DataOK, RInv, CloseLocked, LockOK', handling' = handling
    PROVE  RInv'
<1>1. /\ iface' = NoIface /\ stale' = {}
      /\ \A i \in Ifaces : link'[i] = "closed"
  BY CloseLockedCleans
<1>2. Clean' /\ NothingLeaks' /\ AtMostOneOpen' /\ InUseIsOpen' /\ LossIsReal'
      /\ Heard'
  BY <1>1 DEF Clean, NothingLeaks, AtMostOneOpen, InUseIsOpen, LossIsReal, Heard,
              HasHandler, LossPending, Unclosed
<1> QED BY <1>2 DEF RInv

LEMMA AcquireStep == ASSUME PcOK, DataOK, RInv, NEW t \in Threads, Acquire(t) PROVE RInv'
<1>1. LockOK'
  BY ManagerAssumption DEF Acquire, Goto, PcOK, RInv, LockOK, Threads
<1> QED BY <1>1, CloseLockedStep DEF Acquire

LEMMA CloseStep == ASSUME PcOK, DataOK, RInv, NEW c \in Callers, Close(c) PROVE RInv'
<1>1. LockOK'
  BY DEF Close, Goto, PcOK, RInv, LockOK, Threads
<1> QED BY <1>1, CloseLockedStep DEF Close

\* The constructed interface is the only one that is open.
LEMMA ConstructStep ==
    ASSUME PcOK, DataOK, RInv, NEW t \in Threads, NEW i \in Ifaces, Construct(t, i)
    PROVE  RInv'
<1>1. /\ iface = NoIface /\ stale = {} /\ lock = t /\ \A j \in Ifaces : link[j] = "closed"
  BY DEF Construct, Goto, RInv, Clean, LockOK
<1>2. /\ iface' = i /\ stale' = {} /\ lock' = t /\ lossQueue' = lossQueue
      /\ handling' = handling /\ i \notin lossQueue \cup {handling}
      /\ link'[i] = "up" /\ \A j \in Ifaces \ {i} : link'[j] = "closed"
  BY <1>1 DEF Construct, Fresh, DataOK
<1>3. \A u \in Threads : pc'[u] = IF u = t THEN "subscribe" ELSE pc[u]
  BY DEF Construct, Goto, PcOK
<1>4. LockOK' /\ Clean'
  BY <1>1, <1>2, <1>3 DEF RInv, LockOK, Clean
<1>5. NothingLeaks' /\ AtMostOneOpen' /\ InUseIsOpen'
  BY <1>2 DEF NothingLeaks, AtMostOneOpen, InUseIsOpen, Unclosed
<1>6. LossIsReal'
  BY <1>2 DEF LossIsReal
<1>7. Heard'
  BY <1>2, ManagerAssumption DEF Heard, HasHandler, LossPending, Threads
<1> QED BY <1>4, <1>5, <1>6, <1>7 DEF RInv

\* Leaving the critical section, by an exception or by the subscription.
LEMMA ReleaseStep ==
    ASSUME PcOK, DataOK, RInv, NEW t \in Threads,
           Refused(t) \/ Subscribe(t) \/ SubscribeFails(t)
    PROVE  RInv'
<1>1. /\ pc[t] \in {"construct", "subscribe"} /\ lock' = NoThread
      /\ UNCHANGED <<iface, stale, link, lossQueue, handling>>
      /\ \A u \in Threads : pc'[u] = IF u = t THEN pc'[t] ELSE pc[u]
      /\ pc'[t] \in {"failure", "success"}
  BY DEF Refused, Subscribe, SubscribeFails, Goto, PcOK, radio
<1>2. LockOK' /\ Clean'
  BY <1>1, ManagerAssumption DEF RInv, LockOK, Clean, Threads
<1>3. NothingLeaks' /\ AtMostOneOpen' /\ InUseIsOpen' /\ LossIsReal'
  BY <1>1 DEF RInv, NothingLeaks, AtMostOneOpen, InUseIsOpen, LossIsReal, Unclosed
<1>4. Heard'
  BY DEF Refused, Subscribe, SubscribeFails, Goto, RInv, Clean, Heard, HasHandler,
         LossPending, radio
<1> QED BY <1>2, <1>3, <1>4 DEF RInv

\* A loss stashes the interface it is about, and takes down no other.
LEMMA PublisherKeeps == ASSUME PcOK, DataOK, RInv, PublisherStep PROVE RInv'
<1>1. CASE OnConnectionLost
  <2>1. /\ handling \in Ifaces /\ lock = NoThread /\ lock' = lock /\ handling' = NoIface
        /\ stale' = stale \cup {handling} /\ iface' \in {iface, NoIface}
        /\ (iface' # iface => iface = handling)
        /\ (iface' # NoIface => iface' = iface /\ iface # handling)
        /\ UNCHANGED <<link, lossSub, lossQueue, pc, unheard>>
    BY <1>1 DEF OnConnectionLost, DataOK
  <2>2. LockOK' /\ Clean'
    BY <2>1, ManagerAssumption DEF RInv, LockOK, Clean, Threads
  <2>3. NothingLeaks' /\ AtMostOneOpen' /\ InUseIsOpen' /\ Heard'
    BY <2>1 DEF RInv, NothingLeaks, AtMostOneOpen, InUseIsOpen, Heard, HasHandler,
                LossPending, Unclosed
  <2>4. LossIsReal'
    BY <2>1, ManagerAssumption DEF RInv, LossIsReal
  <2> QED BY <2>2, <2>3, <2>4 DEF RInv
<1>2. ASSUME NEW i \in Ifaces, Publish(i) PROVE RInv'
  <2>1. /\ UNCHANGED <<iface, stale, link, lossSub, lock, pc>>
        /\ i \in lossQueue /\ lossQueue' = lossQueue \ {i} /\ handling' \in {i, NoIface}
    BY <1>2 DEF Publish
  <2>2. LossIsReal'
    BY <2>1, ManagerAssumption DEF RInv, LossIsReal
  <2>3. Heard'
    <3>1. unheard => unheard'
      BY <1>2 DEF Publish
    <3>2. HasHandler'
      BY <2>1, <3>1 DEF RInv, Heard, HasHandler
    <3>3. ASSUME iface = i, ~unheard' PROVE handling' = i
      BY <1>2, <3>1, <3>3, ManagerAssumption DEF Publish, RInv, Heard, HasHandler
    <3>4. handling = NoIface
      BY <1>2 DEF Publish
    <3>5. LossPending'
      BY <2>1, <3>1, <3>3, <3>4 DEF RInv, Heard, LossPending
    <3> QED BY <3>2, <3>5 DEF Heard
  <2> QED BY <2>1, <2>2, <2>3 DEF RInv, LockOK, Clean, NothingLeaks, AtMostOneOpen,
                                  InUseIsOpen, Unclosed
<1> QED BY <1>1, <1>2 DEF PublisherStep

LEMMA DieStep == ASSUME PcOK, DataOK, RInv, NEW i \in Ifaces, Die(i) PROVE RInv'
<1>1. /\ link[i] = "up" /\ \A j \in Ifaces : link'[j] = IF j = i THEN "dead" ELSE link[j]
      /\ lossQueue' = lossQueue \cup {i}
      /\ UNCHANGED <<iface, stale, lossSub, lock, pc, handling, unheard>>
  BY DEF Die, DataOK
<1>2. LockOK' /\ Clean'
  BY <1>1 DEF RInv, LockOK, Clean
<1>3. NothingLeaks' /\ AtMostOneOpen' /\ InUseIsOpen' /\ LossIsReal'
  BY <1>1 DEF RInv, NothingLeaks, AtMostOneOpen, InUseIsOpen, LossIsReal, Unclosed, DataOK
<1>4. Heard'
  BY <1>1 DEF RInv, Heard, HasHandler, LossPending, DataOK
<1> QED BY <1>2, <1>3, <1>4 DEF RInv

\* Every other step is outside the critical section.
LEMMA OutsideSteps ==
    ASSUME PcOK, RInv, NEW t \in Threads,
           \/ \E g \in Targets : ConnectBegin(t, g)
           \/ DisconnectBegin(t) \/ SetPort(t) \/ SetWant(t) \/ ClearStop(t)
           \/ ResetCounters(t) \/ HardError(t) \/ Ensure(t) \/ SetStop(t)
           \/ Import(t) \/ RecordSuccess(t) \/ RecordFailure(t)
           \/ CheckWant(t) \/ CheckStop(t) \/ CheckIface(t) \/ ChooseWait(t)
           \/ Wake(t) \/ Exit(t)
    PROVE  RInv'
<1> USE DEF Outside, radio
<1> SUFFICES \E from, to : Outside(t, from, to)
  BY OutsideStep
<1>1. CASE \E g \in Targets : ConnectBegin(t, g)
  <2>1. Outside(t, "idle", "setPort")
    BY <1>1 DEF ConnectBegin
  <2> QED BY <2>1
<1>2. CASE DisconnectBegin(t)
  <2>1. Outside(t, "idle", "setStop")
    BY <1>2 DEF DisconnectBegin
  <2> QED BY <2>1
<1>3. CASE SetPort(t)
  <2>1. Outside(t, "setPort", "setWant")
    BY <1>3 DEF SetPort
  <2> QED BY <2>1
<1>4. CASE SetWant(t)
  <2>1. Outside(t, "setWant", "clearStop")
    BY <1>4 DEF SetWant
  <2> QED BY <2>1
<1>5. CASE ClearStop(t)
  <2>1. Outside(t, "clearStop", "resetCounters")
    BY <1>5 DEF ClearStop
  <2> QED BY <2>1
<1>6. CASE ResetCounters(t)
  <2>1. Outside(t, "resetCounters", "import")
    BY <1>6 DEF ResetCounters
  <2> QED BY <2>1
<1>7. CASE HardError(t)
  <2>1. Outside(t, "hardError", "idle")
    BY <1>7 DEF HardError
  <2> QED BY <2>1
<1>8. CASE Ensure(t)
  <2>1. Outside(t, "ensure", "idle") \/ Outside(t, "ensure", "assign")
    BY <1>8 DEF Ensure
  <2> QED BY <2>1
<1>9. CASE SetStop(t)
  <2>1. Outside(t, "setStop", "close")
    BY <1>9 DEF SetStop
  <2> QED BY <2>1
<1>10. CASE Import(t)
  <2>1. \/ Outside(t, "import", "acquire") \/ Outside(t, "import", "hardError")
        \/ Outside(t, "import", "failure")
    BY <1>10 DEF Import, After
  <2> QED BY <2>1
<1>11. CASE RecordSuccess(t)
  <2>1. Outside(t, "success", "ensure") \/ Outside(t, "success", "poll")
    BY <1>11 DEF RecordSuccess, After
  <2> QED BY <2>1
<1>12. CASE RecordFailure(t)
  <2>1. Outside(t, "failure", "ensure") \/ Outside(t, "failure", "chooseWait")
    BY <1>12 DEF RecordFailure, After
  <2> QED BY <2>1
<1>13. CASE CheckWant(t)
  <2>1. Outside(t, "checkWant", "checkStop") \/ Outside(t, "checkWant", "exiting")
    BY <1>13 DEF CheckWant
  <2> QED BY <2>1
<1>14. CASE CheckStop(t)
  <2>1. Outside(t, "checkStop", "exiting") \/ Outside(t, "checkStop", "checkIface")
    BY <1>14 DEF CheckStop
  <2> QED BY <2>1
<1>15. CASE CheckIface(t)
  <2>1. Outside(t, "checkIface", "import") \/ Outside(t, "checkIface", "poll")
    BY <1>15 DEF CheckIface
  <2> QED BY <2>1
<1>16. CASE ChooseWait(t)
  <2>1. Outside(t, "chooseWait", "slowWait") \/ Outside(t, "chooseWait", "backoffWait")
    BY <1>16 DEF ChooseWait
  <2> QED BY <2>1
<1>17. CASE Wake(t)
  <2>1. \E l \in {"poll", "backoffWait", "slowWait"} : Outside(t, l, "checkWant")
    BY <1>17 DEF Wake
  <2> QED BY <2>1
<1>18. CASE Exit(t)
  <2>1. Outside(t, "exiting", "done")
    BY <1>18 DEF Exit
  <2> QED BY <2>1
<1> QED BY <1>1, <1>2, <1>3, <1>4, <1>5, <1>6, <1>7, <1>8, <1>9, <1>10, <1>11, <1>12,
           <1>13, <1>14, <1>15, <1>16, <1>17, <1>18

\* Replacing and starting the supervisor moves threads outside it, too.
LEMMA SpawnStep ==
    ASSUME PcOK, RInv, NEW c \in Callers,
           Start(c) \/ \E s \in Supervisors : Assign(c, s)
    PROVE  RInv'
<1>1. ASSUME NEW u \in Threads, NEW l \in {"construct", "subscribe"}
      PROVE  pc'[u] = l <=> pc[u] = l
  BY DEF Start, Assign, Alive, PcOK
<1>2. UNCHANGED <<iface, stale, link, lossSub, lossQueue, lock, handling, unheard>>
  BY DEF Start, Assign, radio
<1>3. LockOK'
  <2> SUFFICES ASSUME NEW u \in Threads
               PROVE  lock' = u <=> pc'[u] \in {"construct", "subscribe"}
    BY DEF LockOK
  <2>1. lock = u <=> pc[u] \in {"construct", "subscribe"}
    BY DEF RInv, LockOK
  <2> QED BY <1>1, <1>2, <2>1
<1>4. Clean'
  <2> SUFFICES ASSUME NEW u \in Threads, pc'[u] = "construct"
               PROVE  iface = NoIface /\ stale = {} /\ \A i \in Ifaces : link[i] = "closed"
    BY <1>2 DEF Clean
  <2>1. pc[u] = "construct"
    BY <1>1
  <2> QED BY <2>1 DEF RInv, Clean
<1>5. NothingLeaks' /\ AtMostOneOpen' /\ InUseIsOpen' /\ LossIsReal' /\ Heard'
  BY <1>2 DEF RInv, NothingLeaks, AtMostOneOpen, InUseIsOpen, LossIsReal,
              Heard, HasHandler, LossPending, Unclosed
<1> QED BY <1>3, <1>4, <1>5 DEF RInv

\* Every step preserves the inductive invariant.
LEMMA NextIInv == IInv /\ [Next]_vars => IInv'
<1> SUFFICES ASSUME IInv, [Next]_vars PROVE IInv'
  OBVIOUS
<1>1. PcOK /\ DataOK /\ RInv
  BY TypeSplit DEF IInv
<1>2. TypeOK'
  <2>1. PcOK' /\ DataOK'
    BY <1>1, PcStep, DataStep
  <2> QED BY <2>1 DEF TypeOK, PcOK, DataOK
<1>3. RInv'
  <2>1. ASSUME NEW c \in Callers, CallerBegin(c) PROVE RInv'
    BY <1>1, <2>1, OutsideSteps DEF CallerBegin, Threads
  <2>2. ASSUME NEW t \in Threads, Open(t) PROVE RInv'
    BY <1>1, <2>2, OutsideSteps, AcquireStep, ConstructStep, ReleaseStep DEF Open
  <2>3. ASSUME NEW c \in Callers, CallerStep(c) PROVE RInv'
    BY <1>1, <2>2, <2>3, OutsideSteps, SpawnStep, CloseStep DEF CallerStep, Threads
  <2>4. ASSUME NEW s \in Supervisors, SupervisorStep(s) PROVE RInv'
    BY <1>1, <2>2, <2>4, OutsideSteps DEF SupervisorStep, Threads
  <2>5. CASE PublisherStep
    BY <1>1, <2>5, PublisherKeeps
  <2>6. ASSUME NEW i \in Ifaces, Die(i) PROVE RInv'
    BY <1>1, <2>6, DieStep
  <2>7. CASE UNCHANGED vars
    BY <1>1, <2>7 DEF vars, radio, RInv, LockOK, Clean, NothingLeaks, AtMostOneOpen,
                      InUseIsOpen, LossIsReal, Heard, HasHandler, LossPending, Unclosed
  <2> QED BY <2>1, <2>3, <2>4, <2>5, <2>6, <2>7 DEF Next
<1> QED BY <1>2, <1>3 DEF IInv

\* The inductive invariant holds in every reachable state.
THEOREM Inductive == Spec => []IInv
BY InitIInv, NextIInv, PTL DEF Spec

\* The manager's fields and its threads' control state keep their types.
THEOREM TypeCorrect == Spec => []TypeOK
<1>1. IInv => TypeOK
  BY DEF IInv
<1> QED BY <1>1, Inductive, PTL

\* The node never sees a second client of this process (connection.py:380-386).
THEOREM SingleClient == Spec => []AtMostOneOpen
<1>1. IInv => AtMostOneOpen
  BY DEF IInv, RInv
<1> QED BY <1>1, Inductive, PTL

\* No interface, and no heartbeat timer, is lost track of while it is open
\* (connection.py:447-451, 480-486).
THEOREM NoLeak == Spec => []NothingLeaks
<1>1. IInv => NothingLeaks
  BY DEF IInv, RInv
<1> QED BY <1>1, Inductive, PTL

\* The supervisor takes a dead link for a live one only until its loss has been
\* published and handled, or for good in one of two ways: its subscription failed
\* or it was lost before it had one (connection.py:385-393, 428-452).
THEOREM LossesNoticed == Spec => []LossIsNoticed
<1>1. IInv => LossIsNoticed
  BY DEF IInv, RInv, Heard, HasHandler, LossPending, LossIsNoticed
<1> QED BY <1>1, Inductive, PTL

-----------------------------------------------------------------------------
\* The steps of Next by what they do to the interfaces.
Untouched == UNCHANGED <<iface, link>>

LEMMA StepKinds ==
    ASSUME [Next]_vars
    PROVE  \/ Untouched
           \/ CloseLocked
           \/ \E t \in Threads, i \in Ifaces : Construct(t, i)
           \/ OnConnectionLost
           \/ \E i \in Ifaces : Die(i)
<1> USE DEF Untouched, radio
<1>1. ASSUME NEW c \in Callers, CallerBegin(c) PROVE Untouched
  BY <1>1 DEF CallerBegin, ConnectBegin, DisconnectBegin
<1>2. ASSUME NEW t \in Threads, Open(t)
      PROVE  Untouched \/ CloseLocked \/ \E i \in Ifaces : Construct(t, i)
  BY <1>2 DEF Open, Import, Acquire, Refused, Subscribe, SubscribeFails,
              RecordSuccess, RecordFailure
<1>3. ASSUME NEW c \in Callers, CallerStep(c), ~Open(c) PROVE Untouched \/ CloseLocked
  BY <1>3 DEF CallerStep, SetPort, SetWant, ClearStop, ResetCounters, HardError, Ensure,
              Start, SetStop, Close, Assign
<1>4. ASSUME NEW s \in Supervisors, SupervisorStep(s), ~Open(s) PROVE Untouched
  BY <1>4 DEF SupervisorStep, CheckWant, CheckStop, CheckIface, ChooseWait, Wake, Exit
<1>5. ASSUME NEW i \in Ifaces, Publish(i) PROVE Untouched
  BY <1>5 DEF Publish
<1>6. CASE UNCHANGED vars
  BY <1>6 DEF vars
<1> QED BY <1>1, <1>2, <1>3, <1>4, <1>5, <1>6 DEF Next, PublisherStep, Threads

\* A link that stops being _iface is dead, or is closed by that step
\* (connection.py:439-452).
THEOREM OnlyDeadDropped == Spec => OnlyDeadLinkIsDropped
<1>1. IInv /\ [Next]_vars =>
         [iface # NoIface /\ iface' # iface =>
             link[iface] = "dead" \/ link'[iface] = "closed"]_vars
  <2> SUFFICES ASSUME IInv, [Next]_vars, iface # NoIface, iface' # iface
               PROVE  link[iface] = "dead" \/ link'[iface] = "closed"
    OBVIOUS
  <2>1. iface \in Ifaces /\ link[iface] \in {"up", "dead"}
    BY DEF IInv, TypeOK, RInv, InUseIsOpen, Unclosed
  <2>2. CASE CloseLocked
    BY <2>1, <2>2 DEF CloseLocked
  <2>3. ASSUME NEW t \in Threads, NEW i \in Ifaces, Construct(t, i) PROVE FALSE
    BY <2>3 DEF Construct, Goto, IInv, RInv, Clean
  <2>4. CASE OnConnectionLost
    BY <2>1, <2>4 DEF OnConnectionLost, IInv, RInv, LossIsReal
  <2> QED BY <2>2, <2>3, <2>4, StepKinds DEF Untouched, Die
<1> QED BY <1>1, Inductive, PTL DEF Spec, OnlyDeadLinkIsDropped

-----------------------------------------------------------------------------
\* Every step of the manager is a step of the slot or leaves it alone.
LEMMA SlotStep ==
    ASSUME IInv, IInv', [Next]_vars
    PROVE  [Slot!Next]_<<Clients, Live>>
<1>1. AtMostOneOpen /\ AtMostOneOpen' /\ DataOK
  BY TypeSplit DEF IInv, RInv
<1>2. CASE Untouched
  BY <1>2 DEF Untouched, Clients, Live, Unclosed
<1>3. CASE OnConnectionLost
  BY <1>3 DEF OnConnectionLost, Clients, Live, Unclosed
<1>4. CASE CloseLocked
  <2>1. Clients' = {} /\ Live' = {}
    BY <1>1, <1>4, CloseLockedCleans DEF IInv, Clients, Live, Unclosed
  <2>2. CASE Clients = {}
    BY <2>1, <2>2 DEF Clients, Live, Unclosed
  <2>3. CASE Clients # {}
    BY <2>1, <2>3 DEF Slot!Next, Slot!Release
  <2> QED BY <2>2, <2>3
<1>5. ASSUME NEW t \in Threads, NEW i \in Ifaces, Construct(t, i) PROVE Slot!Next
  <2>1. \A j \in Ifaces : link[j] = "closed"
    BY <1>5 DEF Construct, Goto, IInv, RInv, Clean
  <2>2. link' = [link EXCEPT ![i] = "up"] /\ link \in [Ifaces -> {"up", "dead", "closed"}]
    BY <1>1, <1>5 DEF Construct, DataOK
  <2>3. Clients = {} /\ Clients' = {i} /\ Live' = {i}
    BY <2>1, <2>2 DEF Clients, Live, Unclosed
  <2> QED BY <2>3 DEF Slot!Next, Slot!Admit
<1>6. ASSUME NEW i \in Ifaces, Die(i) PROVE Slot!Next
  <2>1. /\ link' = [link EXCEPT ![i] = "dead"] /\ link[i] = "up"
        /\ link \in [Ifaces -> {"up", "dead", "closed"}]
    BY <1>1, <1>6 DEF Die, DataOK
  <2>2. Clients' = Clients
    BY <2>1 DEF Clients, Unclosed
  <2>3. \A j \in Ifaces : link[j] = "up" => j = i
    BY <1>1, <2>1 DEF AtMostOneOpen, Unclosed
  <2>4. i \in Live /\ Live' = {}
    BY <2>1, <2>3 DEF Live
  <2> QED BY <2>2, <2>4 DEF Slot!Next, Slot!Lose
<1> QED BY <1>2, <1>3, <1>4, <1>5, <1>6, StepKinds

\* The manager implements the abstract slot: a client is admitted only into an
\* empty slot, and leaves it only by being closed.
THEOREM ImplementsSlot == Spec => SlotSpec
<1>1. Init => Slot!Init
  BY DEF Init, Slot!Init, Clients, Live, Unclosed
<1>2. IInv /\ IInv' /\ [Next]_vars => [Slot!Next]_<<Clients, Live>>
  BY SlotStep
<1> QED BY <1>1, <1>2, Inductive, PTL DEF Spec, SlotSpec, Slot!Spec

-----------------------------------------------------------------------------
(* The link as its users see it *)

\* Who is inside the constructor; steps that do not change it.
Constructing(u) == pc[u] = "construct"
SameConstructing == \A u \in Threads : Constructing(u)' <=> Constructing(u)

LEMMA GotoElsewhere ==
    ASSUME PcOK, NEW t \in Threads, NEW from, NEW to, Goto(t, from, to),
           "construct" \notin {from, to}
    PROVE  SameConstructing
BY DEF PcOK, Goto, SameConstructing, Constructing

\* Every step but three leaves constructions alone, and leaves the link alone
\* or takes it away.
LEMMA LinkKinds ==
    ASSUME PcOK, [Next]_vars
    PROVE  \/ \E t \in Threads : \/ Acquire(t) \/ Refused(t)
                                \/ \E i \in Ifaces : Construct(t, i)
           \/ iface' \in {iface, NoIface} /\ SameConstructing
<1> DEFINE Quietly == iface' \in {iface, NoIface} /\ SameConstructing
<1> USE DEF radio
<1>1. ASSUME NEW c \in Callers, CallerBegin(c) PROVE Quietly
  BY <1>1, GotoElsewhere DEF CallerBegin, ConnectBegin, DisconnectBegin, Threads
<1>2. ASSUME NEW t \in Threads,
             \/ Import(t) \/ Subscribe(t) \/ SubscribeFails(t)
             \/ RecordSuccess(t) \/ RecordFailure(t)
      PROVE  Quietly
  BY <1>2, GotoElsewhere DEF Import, Subscribe, SubscribeFails, RecordSuccess,
                             RecordFailure, After
<1>3. ASSUME NEW c \in Callers,
             \/ SetPort(c) \/ SetWant(c) \/ ClearStop(c) \/ ResetCounters(c)
             \/ HardError(c) \/ Ensure(c) \/ SetStop(c)
      PROVE  Quietly
  BY <1>3, GotoElsewhere DEF SetPort, SetWant, ClearStop, ResetCounters, HardError,
                             Ensure, SetStop, Threads
<1>4. ASSUME NEW c \in Callers, Close(c) PROVE Quietly
  BY <1>4, GotoElsewhere DEF Close, CloseLocked, Threads
<1>5. ASSUME NEW c \in Callers, Start(c) \/ \E s \in Supervisors : Assign(c, s) PROVE Quietly
  <2>1. \A u \in Threads : pc'[u] # pc[u] =>
           /\ pc'[u] \in {"start", "idle", "new", "checkWant"}
           /\ pc[u] # "construct"
    BY <1>5 DEF Start, Assign, Alive, PcOK
  <2> QED BY <1>5, <2>1 DEF Start, Assign, SameConstructing, Constructing
<1>6. ASSUME NEW s \in Supervisors, SupervisorStep(s), ~Open(s) PROVE Quietly
  <2>1. CASE CheckWant(s) \/ CheckStop(s) \/ CheckIface(s)
    BY <2>1, GotoElsewhere DEF CheckWant, CheckStop, CheckIface, Threads
  <2>2. CASE ChooseWait(s) \/ Wake(s) \/ Exit(s)
    BY <2>2, GotoElsewhere DEF ChooseWait, Wake, Exit, Threads
  <2> QED BY <1>6, <2>1, <2>2 DEF SupervisorStep
<1>7. CASE PublisherStep \/ (\E i \in Ifaces : Die(i)) \/ UNCHANGED vars
  BY <1>7 DEF PublisherStep, Publish, OnConnectionLost, Die, vars, SameConstructing,
              Constructing
<1> QED BY <1>1, <1>2, <1>3, <1>4, <1>5, <1>6, <1>7
        DEF Next, CallerStep, SupervisorStep, Open, Threads

\* Every step of the manager is a step of the link or leaves it alone.
LEMMA LinkStep ==
    ASSUME IInv, [Next]_vars
    PROVE  [Link!Next]_<<iface, Opening>>
<1>1. PcOK /\ DataOK /\ LockOK /\ Clean
  BY TypeSplit DEF IInv, RInv
<1>2. ASSUME NEW t \in Threads, Acquire(t) PROVE Link!Open
  <2>1. /\ iface' = NoIface /\ lock = NoThread /\ pc'[t] = "construct"
    BY <1>1, <1>2 DEF Acquire, CloseLocked, Goto, PcOK
  <2>2. \A u \in Threads : pc[u] # "construct"
    BY <1>1, <2>1, ManagerAssumption DEF LockOK, Threads
  <2> QED BY <2>1, <2>2 DEF Link!Open, Opening
<1>3. ASSUME NEW t \in Threads, NEW to, to # "construct", Goto(t, "construct", to),
             iface' \in Ifaces \cup {NoIface}
      PROVE  Link!OpenEnds
  <2>1. /\ pc[t] = "construct" /\ pc'[t] = to
        /\ \A u \in Threads \ {t} : pc'[u] = pc[u]
    BY <1>1, <1>3 DEF Goto, PcOK
  <2>2. iface = NoIface /\ \A u \in Threads \ {t} : pc[u] # "construct"
    BY <1>1, <2>1 DEF Clean, LockOK
  <2>3. \A u \in Threads : pc'[u] # "construct"
    BY <1>3, <2>1, <2>2
  <2> QED BY <1>3, <2>1, <2>2, <2>3 DEF Link!OpenEnds, Opening
<1>4. ASSUME NEW t \in Threads, Refused(t) \/ \E i \in Ifaces : Construct(t, i)
      PROVE  Link!OpenEnds
  BY <1>1, <1>3, <1>4 DEF Refused, Construct, radio, DataOK
<1>5. CASE iface' \in {iface, NoIface} /\ SameConstructing
  <2>1. Opening' <=> Opening
    BY <1>5 DEF Opening, SameConstructing, Constructing
  <2> QED BY <1>5, <2>1 DEF Opening, Link!Next, Link!Drop
<1> QED BY <1>1, <1>2, <1>4, <1>5, LinkKinds DEF Link!Next

\* The manager behaves as the link that Gateway and SendPath are written
\* against, for any number of threads and interfaces.
THEOREM ImplementsLink == Spec => LinkSpec
<1>1. Init => Link!Init
  <2> SUFFICES ASSUME Init PROVE Link!Init
    OBVIOUS
  <2>1. \A t \in Threads : pc[t] # "construct"
    BY DEF Init
  <2> QED BY <2>1 DEF Init, Link!Init, Opening
<1>2. IInv /\ [Next]_vars => [Link!Next]_<<iface, Opening>>
  BY LinkStep
<1> QED BY <1>1, <1>2, Inductive, PTL DEF Spec, LinkSpec, Link!Spec

-----------------------------------------------------------------------------
(* One caller *)

\* With one caller, the running supervisor is the one the field names, and none
\* runs while the caller is about to replace it.
OnlyNamed(c) ==
    /\ \A s \in Supervisors : Alive(s) => s = supervisor
    /\ pc[c] \in {"assign", "start"} => \A s \in Supervisors : ~Alive(s)
    /\ pc[c] = "start" => supervisor \in Supervisors

\* A step after which no thread runs that did not run before, unless the one
\* caller starts the one thread it has named.
LEMMA NobodyStarts ==
    ASSUME NEW c, Callers = {c}, PcOK, OnlyNamed(c), UNCHANGED supervisor,
           \A s \in Supervisors : Alive(s)' => Alive(s),
           pc'[c] = "start" => pc[c] = "start",
           pc'[c] = "assign" => \A s \in Supervisors : ~Alive(s)
    PROVE  OnlyNamed(c)'
BY DEF OnlyNamed

LEMMA OnlyNamedStep ==
    ASSUME NEW c, Callers = {c}, PcOK, OnlyNamed(c), [Next]_vars
    PROVE  OnlyNamed(c)'
<1> USE DEF Threads
<1>1. c \in Threads /\ c \notin Supervisors
  BY ManagerAssumption
<1>2. ASSUME NEW s \in Supervisors, Assign(c, s) PROVE OnlyNamed(c)'
  <2>1. pc'[c] = "start" /\ supervisor' = s /\ pc'[s] = "new"
        /\ \A r \in Supervisors \ {s} : pc'[r] = pc[r]
    BY <1>1, <1>2 DEF Assign, PcOK
  <2>2. \A r \in Supervisors : ~Alive(r)
    BY <1>2 DEF Assign, OnlyNamed
  <2> QED BY <2>1, <2>2 DEF OnlyNamed, Alive
<1>3. CASE Start(c)
  <2>1. supervisor' = supervisor /\ supervisor \in Supervisors
        /\ pc'[c] = "idle" /\ \A r \in Supervisors \ {supervisor} : pc'[r] = pc[r]
    BY <1>1, <1>3 DEF Start, OnlyNamed, PcOK
  <2>2. \A r \in Supervisors : ~Alive(r)
    BY <1>3 DEF Start, OnlyNamed
  <2> QED BY <2>1, <2>2 DEF OnlyNamed, Alive
<1>4. ASSUME NEW t \in Threads, NEW from, NEW to, Goto(t, from, to),
             UNCHANGED supervisor, from \notin {"done", "new"},
             to # "start", to = "assign" => t = c /\ \A s \in Supervisors : ~Alive(s)
      PROVE  OnlyNamed(c)'
  <2>1. /\ pc[t] = from /\ pc'[t] = to /\ \A u \in Threads \ {t} : pc'[u] = pc[u]
    BY <1>4 DEF Goto, PcOK
  <2>2. \A s \in Supervisors : Alive(s)' => Alive(s)
    BY <1>4, <2>1 DEF Alive
  <2>3. pc'[c] = "start" => pc[c] = "start"
    BY <1>1, <1>4, <2>1
  <2>4. pc'[c] = "assign" => \A s \in Supervisors : ~Alive(s)
    BY <1>1, <1>4, <2>1 DEF OnlyNamed
  <2> QED BY <1>4, <2>2, <2>3, <2>4, NobodyStarts
<1>5. CASE CallerBegin(c)
  BY <1>1, <1>4, <1>5 DEF CallerBegin, ConnectBegin, DisconnectBegin
<1>6. CASE SetPort(c) \/ SetWant(c) \/ ClearStop(c) \/ ResetCounters(c) \/ HardError(c)
           \/ SetStop(c) \/ Close(c)
  BY <1>1, <1>4, <1>6
     DEF SetPort, SetWant, ClearStop, ResetCounters, HardError, SetStop, Close
<1>7. CASE Ensure(c)
  <2>1. ~(supervisor # NoThread /\ Alive(supervisor)) => \A s \in Supervisors : ~Alive(s)
    BY ManagerAssumption DEF OnlyNamed
  <2> QED BY <1>1, <1>4, <1>7, <2>1 DEF Ensure
<1>8. ASSUME NEW t \in Threads, Open(t) PROVE OnlyNamed(c)'
  <2>1. CASE Import(t)
    BY <1>4, <2>1 DEF Import, After
  <2>2. CASE \/ Acquire(t) \/ Refused(t) \/ Subscribe(t) \/ SubscribeFails(t)
                \/ \E i \in Ifaces : Construct(t, i)
    BY <1>4, <2>2 DEF Acquire, Refused, Subscribe, SubscribeFails, Construct
  <2>3. CASE RecordSuccess(t) \/ RecordFailure(t)
    BY <1>4, <2>3 DEF RecordSuccess, RecordFailure, After
  <2> QED BY <1>8, <2>1, <2>2, <2>3 DEF Open
<1>9. ASSUME NEW s \in Supervisors, SupervisorStep(s), ~Open(s) PROVE OnlyNamed(c)'
  <2>1. CASE CheckWant(s) \/ CheckStop(s) \/ CheckIface(s)
    BY <1>4, <2>1 DEF CheckWant, CheckStop, CheckIface
  <2>2. CASE ChooseWait(s) \/ Wake(s) \/ Exit(s)
    BY <1>4, <2>2 DEF ChooseWait, Wake, Exit
  <2> QED BY <1>9, <2>1, <2>2 DEF SupervisorStep
<1>10. CASE PublisherStep \/ (\E i \in Ifaces : Die(i)) \/ UNCHANGED vars
  <2>1. UNCHANGED <<pc, supervisor>>
    BY <1>10 DEF PublisherStep, Publish, OnConnectionLost, Die, vars
  <2> QED BY <2>1, NobodyStarts DEF Alive, OnlyNamed
<1> QED BY <1>2, <1>3, <1>5, <1>6, <1>7, <1>8, <1>9, <1>10
        DEF Next, CallerStep, SupervisorStep

\* As long as one thread calls connect(), it never starts a second supervisor
\* next to a running one (connection.py:395-401).
THEOREM SingleSupervisor ==
    ASSUME NEW c, Callers = {c}
    PROVE  Spec => []OneSupervisor
<1>1. Init => OnlyNamed(c)
  <2> SUFFICES ASSUME Init PROVE OnlyNamed(c)
    OBVIOUS
  <2>1. pc[c] = "idle" /\ \A s \in Supervisors : pc[s] = "done"
    BY ManagerAssumption DEF Init, Threads
  <2> QED BY <2>1 DEF OnlyNamed, Alive
<1>2. IInv /\ OnlyNamed(c) /\ [Next]_vars => OnlyNamed(c)'
  BY OnlyNamedStep, TypeSplit DEF IInv
<1>3. OnlyNamed(c) => OneSupervisor
  BY DEF OnlyNamed, OneSupervisor
<1> QED BY <1>1, <1>2, <1>3, Inductive, PTL DEF Spec
\* Between writing its target and its own turn in _open(), the one caller may
\* leave a link to an earlier target in use.
BeforeOpen == {"setPort", "setWant", "clearStop", "resetCounters", "import", "acquire"}

\* Host and port agree except between the two writes, and past the caller's own
\* turn every link, built or being built, goes to them.
Aimed(c) ==
    /\ host = IF pc[c] = "setPort" THEN arg[c] ELSE port
    /\ pc[c] \notin BeforeOpen =>
        /\ iface # NoIface => peer[iface] = <<host, port>>
        /\ \A t \in Threads : pc[t] = "construct" => dial = host

\* Without the library there is no link, and only then does connect() raise.
NoLibrary(c) ==
    /\ pc[c] = "hardError" => ~installed
    /\ ~installed => /\ iface = NoIface
                     /\ \A t \in Threads :
                          pc[t] \notin {"acquire", "construct", "subscribe", "success"}

TargetInv(c) == Aimed(c) /\ NoLibrary(c)

\* A step that leaves the target and the interface alone, starts no
\* construction and does not end the caller's waiting for its turn.
LEMMA TargetKept ==
    ASSUME NEW c, Callers = {c}, PcOK, TargetInv(c),
           NEW t \in Threads, NEW from, NEW to, Goto(t, from, to),
           UNCHANGED <<installed, host, port, arg, iface, peer, dial>>,
           to \notin {"setPort", "acquire", "construct", "hardError"},
           to \in {"subscribe", "success"} => from \in {"construct", "subscribe"},
           from # "setPort",
           t = c /\ from \in BeforeOpen => to \in BeforeOpen
    PROVE  TargetInv(c)'
<1>1. pc[t] = from /\ pc'[t] = to /\ c \in Threads
      /\ \A u \in Threads \ {t} : pc'[u] = pc[u]
  BY DEF Goto, PcOK, Threads
<1>2. Aimed(c)'
  <2>1. host' = IF pc'[c] = "setPort" THEN arg'[c] ELSE port'
    BY <1>1 DEF TargetInv, Aimed
  <2>2. pc'[c] \notin BeforeOpen => pc[c] \notin BeforeOpen
    BY <1>1
  <2>3. \A u \in Threads : pc'[u] = "construct" => pc[u] = "construct"
    BY <1>1
  <2> QED BY <2>1, <2>2, <2>3 DEF TargetInv, Aimed
<1>3. NoLibrary(c)'
  BY <1>1 DEF TargetInv, NoLibrary
<1> QED BY <1>2, <1>3 DEF TargetInv

\* The one caller, up to its own turn in _open().
LEMMA TargetCaller ==
    ASSUME NEW c, Callers = {c}, PcOK, DataOK, RInv, TargetInv(c),
           \/ CallerBegin(c) \/ SetPort(c) \/ SetWant(c) \/ ClearStop(c)
           \/ ResetCounters(c) \/ HardError(c) \/ Ensure(c) \/ SetStop(c)
    PROVE  TargetInv(c)'
<1>1. c \in Threads
  BY DEF Threads
<1>2. ASSUME NEW g \in Targets, ConnectBegin(c, g) PROVE TargetInv(c)'
  <2>1. /\ pc'[c] = "setPort" /\ \A u \in Threads \ {c} : pc'[u] = pc[u]
        /\ host' = g /\ arg'[c] = g /\ UNCHANGED <<installed, iface>>
    BY <1>1, <1>2 DEF ConnectBegin, Goto, PcOK, DataOK, radio
  <2>2. Aimed(c)'
    BY <2>1 DEF Aimed, BeforeOpen
  <2> QED BY <2>1, <2>2 DEF TargetInv, NoLibrary
<1>3. CASE SetPort(c)
  <2>1. /\ pc[c] = "setPort" /\ pc'[c] = "setWant"
        /\ \A u \in Threads \ {c} : pc'[u] = pc[u]
        /\ host' = host /\ port' = arg[c] /\ UNCHANGED <<installed, iface>>
    BY <1>1, <1>3 DEF SetPort, Goto, PcOK, radio
  <2>2. Aimed(c)'
    BY <2>1 DEF TargetInv, Aimed, BeforeOpen
  <2> QED BY <2>1, <2>2 DEF TargetInv, NoLibrary
<1>4. CASE DisconnectBegin(c) \/ SetWant(c) \/ ClearStop(c) \/ ResetCounters(c)
           \/ HardError(c) \/ SetStop(c)
  BY <1>1, <1>4, TargetKept
     DEF DisconnectBegin, SetWant, ClearStop, ResetCounters, HardError, SetStop,
         target, radio, BeforeOpen
<1>5. CASE Ensure(c)
  BY <1>1, <1>5, TargetKept DEF Ensure, target, radio, BeforeOpen
<1> QED BY <1>2, <1>3, <1>4, <1>5 DEF CallerBegin

\* Starting a thread concerns no link.
LEMMA TargetSpawn ==
    ASSUME NEW c, Callers = {c}, PcOK, TargetInv(c),
           Start(c) \/ \E s \in Supervisors : Assign(c, s)
    PROVE  TargetInv(c)'
<1>1. c \in Threads /\ c \notin Supervisors
  BY ManagerAssumption DEF Threads
<1>2. /\ UNCHANGED <<installed, host, port, arg, iface, peer, dial>>
      /\ pc[c] \in {"assign", "start"} /\ pc'[c] \in {"start", "idle"}
      /\ \A u \in Threads : pc'[u] # pc[u] => pc'[u] \in {"start", "idle", "new", "checkWant"}
  BY <1>1 DEF Start, Assign, target, radio, PcOK
<1>3. Aimed(c)'
  BY <1>1, <1>2 DEF TargetInv, Aimed, BeforeOpen
<1> QED BY <1>1, <1>2, <1>3 DEF TargetInv, NoLibrary

\* Whoever takes the lock closes every link and dials the host of now.
LEMMA TargetAcquire ==
    ASSUME NEW c, Callers = {c}, PcOK, DataOK, RInv, TargetInv(c),
           NEW t \in Threads, Acquire(t)
    PROVE  TargetInv(c)'
<1>1. /\ pc[t] = "acquire" /\ pc'[t] = "construct"
      /\ \A u \in Threads \ {t} : pc'[u] = pc[u]
      /\ iface' = NoIface /\ dial' = host
      /\ UNCHANGED <<installed, host, port, arg>>
  BY DEF Acquire, Goto, CloseLocked, PcOK, target
<1>2. c \in Threads
  BY DEF Threads
<1>3. Aimed(c)'
  BY <1>1, <1>2 DEF TargetInv, Aimed, BeforeOpen
<1> QED BY <1>1, <1>2, <1>3 DEF TargetInv, NoLibrary

LEMMA TargetConstruct ==
    ASSUME NEW c, Callers = {c}, PcOK, DataOK, RInv, TargetInv(c),
           NEW t \in Threads, NEW i \in Ifaces, Construct(t, i)
    PROVE  TargetInv(c)'
<1>1. /\ pc[t] = "construct" /\ pc'[t] = "subscribe"
      /\ \A u \in Threads \ {t} : pc'[u] = pc[u]
      /\ iface' = i /\ peer'[i] = <<dial, port>>
      /\ UNCHANGED <<installed, host, port, arg>>
  BY DEF Construct, Goto, PcOK, DataOK, target
<1>2. \A u \in Threads \ {t} : pc[u] # "construct"
  BY <1>1 DEF RInv, LockOK
<1>3. c \in Threads
  BY DEF Threads
<1>4. Aimed(c)'
  <2>1. host' = IF pc'[c] = "setPort" THEN arg'[c] ELSE port'
    BY <1>1, <1>3 DEF TargetInv, Aimed
  <2>2. ASSUME pc'[c] \notin BeforeOpen PROVE dial = host
    BY <1>1, <1>3, <2>2 DEF TargetInv, Aimed, BeforeOpen
  <2> QED BY <1>1, <1>2, <2>1, <2>2 DEF Aimed
<1> QED BY <1>1, <1>3, <1>4 DEF TargetInv, NoLibrary

LEMMA TargetImport ==
    ASSUME NEW c, Callers = {c}, PcOK, RInv, TargetInv(c), NEW t \in Threads, Import(t)
    PROVE  TargetInv(c)'
<1>1. /\ pc[t] = "import" /\ UNCHANGED <<installed, host, port, arg, iface, peer, dial>>
      /\ \A u \in Threads \ {t} : pc'[u] = pc[u]
      /\ pc'[t] \in {"acquire", "hardError", "failure"}
      /\ pc'[t] = "acquire" <=> installed
  BY DEF Import, After, Goto, PcOK, target, radio
<1>2. c \in Threads
  BY DEF Threads
<1>3. Aimed(c)'
  BY <1>1, <1>2 DEF TargetInv, Aimed, NoLibrary, BeforeOpen
<1> QED BY <1>1, <1>2, <1>3 DEF TargetInv, NoLibrary

LEMMA TargetStep ==
    ASSUME NEW c, Callers = {c}, PcOK, DataOK, RInv, TargetInv(c), [Next]_vars
    PROVE  TargetInv(c)'
<1>1. ASSUME NEW t \in Threads, Open(t) PROVE TargetInv(c)'
  <2>1. CASE Refused(t)
    <3>1. /\ pc[t] = "construct" /\ pc'[t] = "failure"
          /\ \A u \in Threads \ {t} : pc'[u] = pc[u]
          /\ UNCHANGED <<installed, host, port, arg, iface, peer>>
      BY <2>1 DEF Refused, Goto, PcOK, target, radio
    <3>2. \A u \in Threads : pc'[u] # "construct"
      BY <3>1 DEF RInv, LockOK
    <3>3. c \in Threads
      BY DEF Threads
    <3>4. Aimed(c)'
      BY <3>1, <3>2, <3>3 DEF TargetInv, Aimed, BeforeOpen
    <3> QED BY <3>1, <3>3, <3>4 DEF TargetInv, NoLibrary
  <2>2. CASE Subscribe(t) \/ SubscribeFails(t) \/ RecordSuccess(t) \/ RecordFailure(t)
    BY <2>2, TargetKept
       DEF Subscribe, SubscribeFails, RecordSuccess, RecordFailure, After, target,
           radio, BeforeOpen
  <2> QED BY <1>1, <2>1, <2>2, TargetImport, TargetAcquire, TargetConstruct DEF Open
<1>2. CASE Close(c)
  <2>1. /\ pc[c] = "close" /\ pc'[c] = "idle" /\ c \in Threads
        /\ \A u \in Threads \ {c} : pc'[u] = pc[u]
        /\ iface' = NoIface /\ UNCHANGED <<installed, host, port, arg, dial>>
    BY <1>2 DEF Close, Goto, CloseLocked, PcOK, target, Threads
  <2>2. Aimed(c)'
    BY <2>1 DEF TargetInv, Aimed, BeforeOpen
  <2> QED BY <2>1, <2>2 DEF TargetInv, NoLibrary
<1>3. ASSUME NEW s \in Supervisors, SupervisorStep(s), ~Open(s) PROVE TargetInv(c)'
  <2>1. s \in Threads /\ s # c
    BY ManagerAssumption DEF Threads
  <2>2. CASE CheckWant(s) \/ CheckStop(s) \/ CheckIface(s)
    BY <2>1, <2>2, TargetKept DEF CheckWant, CheckStop, CheckIface, target, radio
  <2>3. CASE ChooseWait(s) \/ Wake(s) \/ Exit(s)
    BY <2>1, <2>3, TargetKept DEF ChooseWait, Wake, Exit, target, radio
  <2> QED BY <1>3, <2>2, <2>3 DEF SupervisorStep
<1>4. CASE PublisherStep \/ (\E i \in Ifaces : Die(i)) \/ UNCHANGED vars
  <2>1. UNCHANGED <<pc, installed, host, port, arg, peer, dial>> /\ iface' \in {iface, NoIface}
    BY <1>4 DEF PublisherStep, Publish, OnConnectionLost, Die, vars, target, radio
  <2> QED BY <2>1 DEF TargetInv, Aimed, NoLibrary
<1> QED BY <1>1, <1>2, <1>3, <1>4, TargetCaller, TargetSpawn
        DEF Next, CallerStep, SupervisorStep, Threads

\* As long as one thread calls connect(), a link in use when it has returned
\* goes to the host and the port of its last call (connection.py:310-316).
THEOREM LinkIsOnTarget ==
    ASSUME NEW c, Callers = {c}
    PROVE  Spec => []LinkFollowsTarget
<1>1. Init => TargetInv(c)
  <2> SUFFICES ASSUME Init PROVE TargetInv(c)
    OBVIOUS
  <2>1. \A t \in Threads : pc[t] \in {"idle", "done"}
    BY DEF Init
  <2>2. host = port /\ iface = NoIface /\ c \in Threads
    BY DEF Init, Threads
  <2> QED BY <2>1, <2>2 DEF TargetInv, Aimed, NoLibrary
<1>2. IInv /\ TargetInv(c) /\ [Next]_vars => TargetInv(c)'
  BY TargetStep, TypeSplit DEF IInv
<1>3. TargetInv(c) => LinkFollowsTarget
  BY DEF TargetInv, Aimed, LinkFollowsTarget, Quiet, BeforeOpen
<1> QED BY <1>1, <1>2, <1>3, Inductive, PTL DEF Spec
=============================================================================
