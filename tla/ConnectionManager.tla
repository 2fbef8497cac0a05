-------------------------- MODULE ConnectionManager --------------------------
(***************************************************************************)
(* The process-wide owner of the radio link: connection.py.                *)
(*                                                                         *)
(* Three kinds of threads act on the manager's fields.  Callers run        *)
(* connect() and disconnect() (a tool worker, the platform adapter's       *)
(* executor); supervisors run _supervise(); the radio library's publishing *)
(* thread runs _on_connection_lost().  A step is a stretch of code with at *)
(* most one access to a field that other threads write without the lock,   *)
(* or a whole critical section; only _open() is several steps long while   *)
(* it holds the lock.                                                      *)
(***************************************************************************)
EXTENDS Naturals, FiniteSets

CONSTANTS
    Callers,      \* threads that call connect()
    Leavers,      \* the callers that may also call disconnect()
    Supervisors,  \* identities of supervisor threads
    Ifaces,       \* identities of TCPInterface objects
    Targets,      \* the (host, port) pairs that callers name
    Threshold,    \* failure_threshold()
    NoThread, NoIface, NoTarget

ASSUME ManagerAssumption ==
    /\ Leavers \subseteq Callers
    /\ Callers \cap Supervisors = {}
    /\ NoThread \notin Callers \cup Supervisors
    /\ NoIface \notin Ifaces
    /\ NoTarget \notin Targets
    /\ Threshold \in Nat \ {0}

Threads == Callers \cup Supervisors

VARIABLES
    installed,   \* the meshtastic package can be imported
    want, stop,  \* _want_connected, _stop
    host, port,  \* _host, _port: each is the target it was last written for
    iface,       \* _iface
    stale,       \* _stale_ifaces
    failures,    \* _consecutive_failures, exact up to Threshold
    slow, hard,  \* _slow_retry, _hard_error is not None
    supervisor,  \* _supervisor
    lock,        \* the thread inside _open()'s critical section
    dial,        \* the host argument of the constructor call in progress
    pc, arg,     \* control state of each thread, argument of its connect()
    link,        \* each TCPInterface: "up", "dead" (lost, not closed), "closed"
    peer,        \* the <<host, port>> it was built with
    lossSub,     \* _on_connection_lost is subscribed
    lossQueue,   \* interfaces whose connection.lost is not yet published
    handling,    \* the interface whose loss handler has been entered
    unheard      \* history: the link in use got no loss handler, or was lost
                 \* before it had one

intent  == <<want, stop>>
target  == <<host, port, arg>>
cadence == <<failures, slow, hard>>
radio   == <<iface, stale, link, lossSub, lossQueue, unheard>>
vars == <<installed, intent, target, cadence, radio, supervisor, lock, dial,
          pc, peer, handling>>

CallerLabels == {"idle", "setPort", "setWant", "clearStop", "resetCounters",
                 "hardError", "ensure", "assign", "start", "setStop", "close"}
OpenLabels == {"import", "acquire", "construct", "subscribe", "success", "failure"}
LoopLabels == {"done", "new", "checkWant", "checkStop", "checkIface", "chooseWait",
               "poll", "backoffWait", "slowWait", "exiting"}

TypeOK ==
    /\ installed \in BOOLEAN /\ want \in BOOLEAN /\ stop \in BOOLEAN
    /\ slow \in BOOLEAN /\ hard \in BOOLEAN
    /\ lossSub \in BOOLEAN /\ unheard \in BOOLEAN
    /\ host \in Targets \cup {NoTarget} /\ port \in Targets \cup {NoTarget}
    /\ dial \in Targets \cup {NoTarget}
    /\ iface \in Ifaces \cup {NoIface} /\ handling \in Ifaces \cup {NoIface}
    /\ stale \subseteq Ifaces /\ lossQueue \subseteq Ifaces
    /\ failures \in 0..Threshold
    /\ supervisor \in Supervisors \cup {NoThread}
    /\ lock \in Threads \cup {NoThread}
    /\ pc \in [Threads -> CallerLabels \cup OpenLabels \cup LoopLabels]
    /\ \A c \in Callers : pc[c] \in CallerLabels \cup OpenLabels
    /\ \A s \in Supervisors : pc[s] \in LoopLabels \cup OpenLabels
    /\ arg \in [Callers -> Targets \cup {NoTarget}]
    /\ link \in [Ifaces -> {"up", "dead", "closed"}]
    /\ peer \in [Ifaces -> (Targets \cup {NoTarget}) \X (Targets \cup {NoTarget})]

Init ==
    /\ installed \in BOOLEAN
    /\ want = FALSE /\ stop = FALSE /\ slow = FALSE /\ hard = FALSE
    /\ host = NoTarget /\ port = NoTarget /\ dial = NoTarget
    /\ iface = NoIface /\ stale = {} /\ failures = 0
    /\ supervisor = NoThread /\ lock = NoThread
    /\ pc = [t \in Threads |-> IF t \in Callers THEN "idle" ELSE "done"]
    /\ arg = [c \in Callers |-> NoTarget]
    /\ link = [i \in Ifaces |-> "closed"]
    /\ peer = [i \in Ifaces |-> <<NoTarget, NoTarget>>]
    /\ lossSub = FALSE /\ lossQueue = {} /\ handling = NoIface /\ unheard = FALSE

-----------------------------------------------------------------------------
(* Helpers *)

Goto(t, from, to) == pc[t] = from /\ pc' = [pc EXCEPT ![t] = to]

\* Mutant: connect() goes on to supervise the link in the caller's own thread.
AfterInLoop(t, caller, loop) == loop

\* Where _open()'s caller continues: connect() or _supervise().
After(t, caller, loop) == IF t \in Callers THEN caller ELSE loop

Alive(s) == pc[s] \notin {"done", "new"}

\* Mutant: the stale interfaces are forgotten, not closed.
CloseCurrentOnly ==
    /\ link' = [i \in Ifaces |-> IF i = iface THEN "closed" ELSE link[i]]
    /\ lossQueue' = lossQueue \cup {i \in {iface} \cap Ifaces : link[i] = "up"}
    /\ lossSub' = FALSE /\ stale' = {} /\ iface' = NoIface /\ unheard' = FALSE

\* _close_locked(): drop the loss subscription, close the current and the stale
\* interfaces.  The reader of a closed live interface ends and queues a loss.
CloseLocked ==
    LET doomed == stale \cup ({iface} \ {NoIface}) IN
    /\ link' = [i \in Ifaces |-> IF i \in doomed THEN "closed" ELSE link[i]]
    /\ lossQueue' = lossQueue \cup {i \in doomed : link[i] = "up"}
    /\ lossSub' = FALSE /\ stale' = {} /\ iface' = NoIface /\ unheard' = FALSE

ResetCadence == failures' = 0 /\ slow' = FALSE /\ hard' = FALSE

\* An identity nothing refers to any more stands for a fresh TCPInterface.
Fresh(i) == link[i] = "closed" /\ i \notin stale \cup lossQueue \cup {handling}

-----------------------------------------------------------------------------
(* connect(): write the target and the intent, reset, open, ensure *)

ConnectBegin(c, t) ==
    /\ Goto(c, "idle", "setPort")
    /\ host' = t /\ arg' = [arg EXCEPT ![c] = t]
    /\ UNCHANGED <<installed, intent, port, cadence, radio, supervisor, lock, dial,
                   peer, handling>>

\* Mutant: a port that is set already is kept.
SetPortOnce(c) ==
    /\ Goto(c, "setPort", "setWant")
    /\ port' = IF port = NoTarget THEN arg[c] ELSE port
    /\ UNCHANGED <<installed, intent, host, arg, cadence, radio, supervisor, lock,
                   dial, peer, handling>>

SetPort(c) ==
    /\ Goto(c, "setPort", "setWant")
    /\ port' = arg[c]
    /\ UNCHANGED <<installed, intent, host, arg, cadence, radio, supervisor, lock,
                   dial, peer, handling>>

SetWant(c) ==
    /\ Goto(c, "setWant", "clearStop")
    /\ want' = TRUE
    /\ UNCHANGED <<installed, stop, target, cadence, radio, supervisor, lock, dial,
                   peer, handling>>

ClearStop(c) ==
    /\ Goto(c, "clearStop", "resetCounters")
    /\ stop' = FALSE
    /\ UNCHANGED <<installed, want, target, cadence, radio, supervisor, lock, dial,
                   peer, handling>>

ResetCounters(c) ==
    /\ Goto(c, "resetCounters", "import")
    /\ lock = NoThread
    /\ ResetCadence
    /\ UNCHANGED <<installed, intent, target, radio, supervisor, lock, dial, peer,
                   handling>>

\* MeshtasticUnavailable: remembered, and raised to the caller.
HardError(c) ==
    /\ Goto(c, "hardError", "idle")
    /\ lock = NoThread
    /\ hard' = TRUE
    /\ UNCHANGED <<installed, intent, target, failures, slow, radio, supervisor,
                   lock, dial, peer, handling>>

\* Mutant: no test whether a supervisor is alive.
EnsureAlways(c) ==
    /\ Goto(c, "ensure", "assign")
    /\ UNCHANGED <<installed, intent, target, cadence, radio, supervisor, lock, dial,
                   peer, handling>>

\* _ensure_supervisor(): return when the current one is alive ...
Ensure(c) ==
    /\ Goto(c, "ensure",
            IF supervisor # NoThread /\ Alive(supervisor) THEN "idle" ELSE "assign")
    /\ UNCHANGED <<installed, intent, target, cadence, radio, supervisor, lock, dial,
                   peer, handling>>

\* ... or replace it by a thread not started yet ...
Assign(c, s) ==
    /\ pc[c] = "assign"
    /\ ~Alive(s) /\ ~(s = supervisor /\ pc[s] = "new")
    /\ supervisor' = s
    /\ pc' = [pc EXCEPT ![c] = "start", ![s] = "new"]
    /\ UNCHANGED <<installed, intent, target, cadence, radio, lock, dial, peer,
                   handling>>

\* ... and start whichever thread the field now names.  Starting one that was
\* started already raises, and connect() ends with that error.
Start(c) ==
    /\ pc[c] = "start"
    /\ pc' = [pc EXCEPT ![c] = "idle",
                        ![supervisor] = IF @ = "new" THEN "checkWant" ELSE @]
    /\ UNCHANGED <<installed, intent, target, cadence, radio, supervisor, lock, dial,
                   peer, handling>>

-----------------------------------------------------------------------------
(* _open(), run by callers and by supervisors *)

Import(t) ==
    /\ Goto(t, "import",
            IF installed THEN "acquire" ELSE After(t, "hardError", "failure"))
    /\ UNCHANGED <<installed, intent, target, cadence, radio, supervisor, lock, dial,
                   peer, handling>>

\* Mutant: _open() does not close what it replaces.
AcquireDirty(t) ==
    /\ Goto(t, "acquire", "construct")
    /\ lock = NoThread /\ lock' = t
    /\ dial' = host
    /\ UNCHANGED <<installed, intent, target, cadence, radio, supervisor, peer,
                   handling>>

\* Mutant: _open() does not wait for the lock.
AcquireUnlocked(t) ==
    /\ Goto(t, "acquire", "construct")
    /\ lock' = t
    /\ CloseLocked
    /\ dial' = host
    /\ UNCHANGED <<installed, intent, target, cadence, supervisor, peer, handling>>

\* Take the lock, clean up, and evaluate the first constructor argument.
Acquire(t) ==
    /\ Goto(t, "acquire", "construct")
    /\ lock = NoThread /\ lock' = t
    /\ CloseLocked
    /\ dial' = host
    /\ UNCHANGED <<installed, intent, target, cadence, supervisor, peer, handling>>

\* TCPInterface(host, port) connects; the result becomes _iface.
Construct(t, i) ==
    /\ Goto(t, "construct", "subscribe")
    /\ Fresh(i)
    /\ link' = [link EXCEPT ![i] = "up"]
    /\ peer' = [peer EXCEPT ![i] = <<dial, port>>]
    /\ iface' = i
    /\ dial' = NoTarget
    /\ UNCHANGED <<installed, intent, target, cadence, stale, lossSub, lossQueue,
                   unheard, supervisor, lock, handling>>

\* Connection refused, timeout, unknown host: the exception releases the lock.
Refused(t) ==
    /\ Goto(t, "construct", "failure")
    /\ lock' = NoThread
    /\ dial' = NoTarget
    /\ UNCHANGED <<installed, intent, target, cadence, radio, supervisor, peer,
                   handling>>

\* Mutant: only the packet topic is subscribed again.
SubscribeReceiveOnly(t) ==
    /\ Goto(t, "subscribe", "success")
    /\ lock' = NoThread
    /\ UNCHANGED <<installed, intent, target, cadence, radio, supervisor, dial, peer,
                   handling>>

Subscribe(t) ==
    /\ Goto(t, "subscribe", "success")
    /\ lossSub' = TRUE
    /\ lock' = NoThread
    /\ UNCHANGED <<installed, intent, target, cadence, iface, stale, link, lossQueue,
                   unheard, supervisor, dial, peer, handling>>

\* get_observer() opens the database on its first use, and may raise; so may
\* pub.subscribe().  _iface is set already: the link stays in use, unwatched.
SubscribeFails(t) ==
    /\ Goto(t, "subscribe", "failure")
    /\ lock' = NoThread
    /\ unheard' = TRUE
    /\ UNCHANGED <<installed, intent, target, cadence, iface, stale, link, lossSub,
                   lossQueue, supervisor, dial, peer, handling>>

RecordSuccess(t) ==
    /\ Goto(t, "success", After(t, "ensure", "poll"))
    /\ lock = NoThread
    /\ ResetCadence
    /\ UNCHANGED <<installed, intent, target, radio, supervisor, lock, dial, peer,
                   handling>>

RecordFailure(t) ==
    /\ Goto(t, "failure", After(t, "ensure", "chooseWait"))
    /\ lock = NoThread
    /\ failures' = IF failures < Threshold THEN failures + 1 ELSE Threshold
    /\ slow' = (slow \/ failures' >= Threshold)
    /\ UNCHANGED <<installed, intent, target, hard, radio, supervisor, lock, dial,
                   peer, handling>>

-----------------------------------------------------------------------------
(* _supervise() *)

CheckWant(s) ==
    /\ Goto(s, "checkWant", IF want THEN "checkStop" ELSE "exiting")
    /\ UNCHANGED <<installed, intent, target, cadence, radio, supervisor, lock, dial,
                   peer, handling>>

CheckStop(s) ==
    /\ Goto(s, "checkStop", IF stop THEN "exiting" ELSE "checkIface")
    /\ UNCHANGED <<installed, intent, target, cadence, radio, supervisor, lock, dial,
                   peer, handling>>

CheckIface(s) ==
    /\ Goto(s, "checkIface", IF iface = NoIface THEN "import" ELSE "poll")
    /\ UNCHANGED <<installed, intent, target, cadence, radio, supervisor, lock, dial,
                   peer, handling>>

\* Mutant: past the threshold the supervisor gives up.
ChooseWaitOrGiveUp(s) ==
    /\ Goto(s, "chooseWait", IF slow THEN "exiting" ELSE "backoffWait")
    /\ UNCHANGED <<installed, intent, target, cadence, radio, supervisor, lock, dial,
                   peer, handling>>

\* After a failure: the slow cadence, or the exponential backoff (any length).
ChooseWait(s) ==
    /\ Goto(s, "chooseWait", IF slow THEN "slowWait" ELSE "backoffWait")
    /\ UNCHANGED <<installed, intent, target, cadence, radio, supervisor, lock, dial,
                   peer, handling>>

\* Mutant: after a wait only the interface is looked at again.
WakeInside(s) ==
    /\ \E l \in {"poll", "backoffWait", "slowWait"} : Goto(s, l, "checkIface")
    /\ UNCHANGED <<installed, intent, target, cadence, radio, supervisor, lock, dial,
                   peer, handling>>

\* _stop.wait(): ends at any time, by the timeout or because _stop is set.
Wake(s) ==
    /\ \E l \in {"poll", "backoffWait", "slowWait"} : Goto(s, l, "checkWant")
    /\ UNCHANGED <<installed, intent, target, cadence, radio, supervisor, lock, dial,
                   peer, handling>>

\* The thread is alive until after its target has returned.
Exit(s) ==
    /\ Goto(s, "exiting", "done")
    /\ UNCHANGED <<installed, intent, target, cadence, radio, supervisor, lock, dial,
                   peer, handling>>

-----------------------------------------------------------------------------
(* disconnect() *)

DisconnectBegin(c) ==
    /\ Goto(c, "idle", "setStop")
    /\ want' = FALSE
    /\ UNCHANGED <<installed, stop, target, cadence, radio, supervisor, lock, dial,
                   peer, handling>>

SetStop(c) ==
    /\ Goto(c, "setStop", "close")
    /\ stop' = TRUE
    /\ UNCHANGED <<installed, want, target, cadence, radio, supervisor, lock, dial,
                   peer, handling>>

Close(c) ==
    /\ Goto(c, "close", "idle")
    /\ lock = NoThread
    /\ CloseLocked
    /\ ResetCadence
    /\ UNCHANGED <<installed, intent, target, supervisor, lock, dial, peer, handling>>

-----------------------------------------------------------------------------
(* The library (external): a link dies, and its loss is published once, some *)
(* time later, by the one publishing thread.                                 *)

Die(i) ==
    /\ link[i] = "up"
    /\ link' = [link EXCEPT ![i] = "dead"]
    /\ lossQueue' = lossQueue \cup {i}
    /\ UNCHANGED <<installed, intent, target, cadence, iface, stale, lossSub,
                   unheard, supervisor, lock, dial, pc, peer, handling>>

Publish(i) ==
    /\ handling = NoIface
    /\ i \in lossQueue
    /\ lossQueue' = lossQueue \ {i}
    /\ handling' = IF lossSub THEN i ELSE NoIface
    /\ unheard' = (unheard \/ (i = iface /\ ~lossSub /\ lock # NoThread))
    /\ UNCHANGED <<installed, intent, target, cadence, iface, stale, link, lossSub,
                   supervisor, lock, dial, pc, peer>>

\* Mutant: any loss takes the current link down.
AnyLossTakesDown ==
    /\ handling # NoIface
    /\ lock = NoThread
    /\ stale' = stale \cup {handling}
    /\ iface' = NoIface
    /\ handling' = NoIface
    /\ UNCHANGED <<installed, intent, target, cadence, link, lossSub, lossQueue,
                   unheard, supervisor, lock, dial, pc, peer>>

\* _on_connection_lost(interface): any lost interface is stashed for closing;
\* only the loss of the current one takes the link down.
OnConnectionLost ==
    /\ handling # NoIface
    /\ lock = NoThread
    /\ stale' = stale \cup {handling}
    /\ iface' = IF iface \in {handling, NoIface} THEN NoIface ELSE iface
    /\ handling' = NoIface
    /\ UNCHANGED <<installed, intent, target, cadence, link, lossSub, lossQueue,
                   unheard, supervisor, lock, dial, pc, peer>>

-----------------------------------------------------------------------------
CallerBegin(c) ==
    \/ \E t \in Targets : ConnectBegin(c, t)
    \/ c \in Leavers /\ DisconnectBegin(c)

Open(t) == \/ Import(t) \/ Acquire(t) \/ Refused(t) \/ Subscribe(t)
           \/ SubscribeFails(t) \/ RecordSuccess(t) \/ RecordFailure(t)
           \/ \E i \in Ifaces : Construct(t, i)

CallerStep(c) == \/ SetPort(c) \/ SetWant(c) \/ ClearStop(c) \/ ResetCounters(c)
                 \/ HardError(c) \/ Ensure(c) \/ Start(c) \/ Open(c)
                 \/ SetStop(c) \/ Close(c)
                 \/ \E s \in Supervisors : Assign(c, s)

SupervisorStep(s) == \/ CheckWant(s) \/ CheckStop(s) \/ CheckIface(s) \/ Open(s)
                     \/ ChooseWait(s) \/ Wake(s) \/ Exit(s)

PublisherStep == OnConnectionLost \/ \E i \in Ifaces : Publish(i)

Next == \/ \E c \in Callers : CallerBegin(c) \/ CallerStep(c)
        \/ \E s \in Supervisors : SupervisorStep(s)
        \/ PublisherStep
        \/ \E i \in Ifaces : Die(i)

Spec == Init /\ [][Next]_vars

\* Threads run, and the publishing thread gets the lock if it is free again and
\* again; a radio that is dialled again and again is reached in the end.  No
\* caller has to call.
Fairness ==
    /\ \A c \in Callers : /\ WF_vars(CallerStep(c))
                          /\ SF_vars(\E i \in Ifaces : Construct(c, i))
    /\ \A s \in Supervisors : /\ WF_vars(SupervisorStep(s))
                              /\ SF_vars(\E i \in Ifaces : Construct(s, i))
    /\ SF_vars(PublisherStep)

FairSpec == Spec /\ Fairness

-----------------------------------------------------------------------------
(* Properties *)

Unclosed(i) == link[i] # "closed"

Quiet == \A c \in Callers : pc[c] = "idle"

\* An interface (and its heartbeat timer) that is not closed can still be found
\* and closed: it is _iface or it is in _stale_ifaces.
NothingLeaks == \A i \in Ifaces : Unclosed(i) => i \in stale \cup {iface}

\* Outside _open()'s critical section, the loss of the link in use is waiting to
\* be published to its handler, or being handled; a dead link that the supervisor
\* takes for a live one for good had its subscription fail (connection.py:391-393)
\* or was lost between its constructor and its subscription (:385-393).
LossIsNoticed ==
    iface # NoIface /\ lock = NoThread /\ link[iface] = "dead" =>
        handling = iface \/ (iface \in lossQueue /\ lossSub) \/ unheard

\* A late connection.lost never takes the healthy link of a reconnect down: a
\* link that is dropped is dead, or closed by the same step.
OnlyDeadLinkIsDropped ==
    [][iface # NoIface /\ iface' # iface =>
          link[iface] = "dead" \/ link'[iface] = "closed"]_vars

\* One caller: _ensure_supervisor() never leaves two supervisors running.
OneSupervisor == \A r, s \in Supervisors : Alive(r) /\ Alive(s) => r = s

\* One caller: once connect() or disconnect() has returned, a link in use goes
\* to the target of the last connect(), never to a mixture with an earlier one.
LinkFollowsTarget ==
    Quiet /\ iface # NoIface => host = port /\ peer[iface] = <<host, port>>

\* The supervisor stops after a disconnect() that no connect() follows.
SupervisorsStop == ~want ~> want \/ \A s \in Supervisors : ~Alive(s)

\* A supervisor that is not about to end, of a connection that is desired.
Supervised == \E s \in Supervisors : Alive(s) /\ pc[s] # "exiting"

\* Retrying never stops: while a supervisor is at work and the connection stays
\* desired, a link that is down comes back, in the slow cadence too.
SupervisedLinkHeals ==
    installed /\ want /\ ~stop /\ iface = NoIface /\ Supervised ~>
        iface # NoIface \/ ~want

-----------------------------------------------------------------------------
(* The node's single TCP slot, as the abstract specification sees it *)

Clients == {i \in Ifaces : Unclosed(i)}
Live    == {i \in Ifaces : link[i] = "up"}

Slot == INSTANCE NodeSlot WITH clients <- Clients, live <- Live

\* The manager uses the node the way NodeSlot promises.
SlotSpec == Slot!Spec

-----------------------------------------------------------------------------
(* The link as the manager's users see it *)

Opening == \E t \in Threads : pc[t] = "construct"

Link == INSTANCE RadioLink WITH Links <- Ifaces, NoLink <- NoIface, opening <- Opening

\* Who uses the link never sees one while another is being opened, nor one
\* replaced by another without having been gone: the manager behaves as
\* RadioLink, whoever opens, loses and closes links at the same time
\* (connection.py:380-386, :439-452).
LinkSpec == Link!Spec

=============================================================================
