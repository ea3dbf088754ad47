--------------------------- MODULE SocketManager ---------------------------
(***************************************************************************)
(* SocketManager, the event loop of yazpp (yaz-socket-manager.cpp).        *)
(*                                                                         *)
(* One thread owns a manager.  It alternates between application code,     *)
(* which may call any operation of the manager, and processEvent, which    *)
(* delivers one queued event or polls all sockets and queues what it       *)
(* finds.  The handler of an event (socketNotify) is application code      *)
(* again.  The clock, the sockets and signals move at any time.            *)
(***************************************************************************)
EXTENDS Integers, Sequences, FiniteSets, ListOps

CONSTANTS
    Observers,  \* identities of ISocketObserver objects
    Nobody,     \* no observer
    Fds,        \* socket descriptors
    Masks,      \* the masks observers ask for, sets of I/O events
    Timeouts,   \* arguments of timeoutObserver, in seconds; -1 is none
    MaxTime     \* bound on the clock, for TLC

ASSUME ManagerConstants ==
    /\ Nobody \notin Observers
    /\ Masks \subseteq SUBSET {"read", "write", "except"}
    /\ Timeouts \subseteq Int
    /\ Fds \subseteq Nat
    /\ MaxTime \in Nat

VARIABLES
    observers,      \* list of the registered observers, most recent first
    fd,             \* SocketEntry fields, one function per field
    mask,
    timeout,
    timeout_this,
    last_activity,
    queue,          \* events put and not delivered, front first
    leftover,       \* history: observers with an event in the queue that
                    \* deleteObservers has left there
    ctl,            \* "app", "polling", "notify" or "gone"
    notified,       \* the observer whose socketNotify runs in "notify"
    poll_timeout,   \* argument of the running yaz_poll
    poll_start,     \* when it started
    now             \* time(0)

entryVars == <<observers, fd, mask, timeout, timeout_this, last_activity>>
loopVars  == <<queue, leftover, ctl, notified, poll_timeout, poll_start>>
vars      == <<entryVars, loopVars, now>>

IO == {"read", "write", "except"}

Init ==
    /\ observers = <<>>
    /\ fd = [o \in Observers |-> -1]
    /\ mask = [o \in Observers |-> {}]
    /\ timeout = [o \in Observers |-> -1]
    /\ timeout_this = [o \in Observers |-> -1]
    /\ last_activity = [o \in Observers |-> 0]
    /\ queue = <<>>
    /\ leftover = {}
    /\ ctl = "app"
    /\ notified = Nobody
    /\ poll_timeout = -1
    /\ poll_start = 0
    /\ now = 1

----------------------------------------------------------------------------
(* The operations of ISocketObservable, called from application code.      *)

Calling == ctl \in {"app", "notify"}

(* A descriptor is open in one socket, and a socket has one observer.      *)
FreeFd(o, f) == \A p \in Elements(observers) \ {o} : fd[p] # f

(* lookupObserver, and the insertion at the head when it finds nothing.    *)
Enlisted(o) ==
    IF o \in Elements(observers) THEN observers ELSE <<o>> \o observers

(* addObserver(o); maskObserver(o, m, f): yazpp never calls the first      *)
(* without the second.  timeout_this is not assigned before the next poll. *)
AddObserver(o, f, m) ==
    /\ Calling
    /\ FreeFd(o, f)
    /\ observers' = Enlisted(o)
    /\ fd' = [fd EXCEPT ![o] = f]
    /\ mask' = [mask EXCEPT ![o] = m]
    /\ last_activity' = [last_activity EXCEPT ![o] = 0]
    /\ timeout' = [timeout EXCEPT ![o] = -1]
    /\ UNCHANGED <<timeout_this, loopVars, now>>

(* Fault: the queue is left alone.                                         *)
WithoutEvents_Kept(q, o) == q

(* removeEvent: every event of o leaves the queue.                         *)
WithoutEvents(q, o) == Subsequence(q, {i \in DOMAIN q : q[i].observer # o})

(* The freed entry is modelled by its fields' initial values.  An observer *)
(* without an entry is passed over, with the events it may have.           *)
DeleteObserver(o) ==
    /\ Calling
    /\ o \in Elements(observers)
    /\ queue' = WithoutEvents(queue, o)
    /\ leftover' = leftover \ {o}
    /\ observers' =
           Subsequence(observers, {i \in DOMAIN observers : observers[i] # o})
    /\ fd' = [fd EXCEPT ![o] = -1]
    /\ mask' = [mask EXCEPT ![o] = {}]
    /\ timeout' = [timeout EXCEPT ![o] = -1]
    /\ timeout_this' = [timeout_this EXCEPT ![o] = -1]
    /\ last_activity' = [last_activity EXCEPT ![o] = 0]
    /\ UNCHANGED <<ctl, notified, poll_timeout, poll_start, now>>

MaskObserver(o, m) ==
    /\ Calling
    /\ o \in Elements(observers)
    /\ mask' = [mask EXCEPT ![o] = m]
    /\ UNCHANGED <<observers, fd, timeout, timeout_this, last_activity,
                   loopVars, now>>

TimeoutObserver(o, t) ==
    /\ Calling
    /\ o \in Elements(observers)
    /\ timeout' = [timeout EXCEPT ![o] = t]
    /\ UNCHANGED <<observers, fd, mask, timeout_this, last_activity,
                   loopVars, now>>

(* The observers of the events in q.                                       *)
Addressees(q) == {q[i].observer : i \in DOMAIN q}

(* deleteObservers: every entry is freed, and the events stay.             *)
FreeEntries ==
    /\ observers' = <<>>
    /\ fd' = [o \in Observers |-> -1]
    /\ mask' = [o \in Observers |-> {}]
    /\ timeout' = [o \in Observers |-> -1]
    /\ timeout_this' = [o \in Observers |-> -1]
    /\ last_activity' = [o \in Observers |-> 0]
    /\ leftover' = Addressees(queue)
    /\ UNCHANGED <<queue, notified, poll_timeout, poll_start, now>>

DeleteObservers == Calling /\ FreeEntries /\ UNCHANGED ctl

(* ~SocketManager, outside of processEvent: deleteObservers, and the end.  *)
Destruct == ctl = "app" /\ FreeEntries /\ ctl' = "gone"

----------------------------------------------------------------------------
(* processEvent.                                                           *)

(* getEvent and the call of socketNotify; q is the queue it takes from.    *)
NotifyFront(q) ==
    /\ q # <<>>
    /\ ctl' = "notify"
    /\ notified' = Head(q).observer
    /\ queue' = Tail(q)
    /\ leftover' = leftover \ {Head(q).observer}

DispatchQueued ==
    /\ ctl = "app"
    /\ NotifyFront(queue)
    /\ UNCHANGED <<entryVars, poll_timeout, poll_start, now>>

(* A timeout of 0 counts only when writing is not asked for.               *)
Timed(o) == timeout[o] > 0 \/ (timeout[o] = 0 /\ "write" \notin mask[o])

(* What is left of the timeout of o; an entry never active starts now.     *)
TimeLeft(o) ==
    LET left == IF last_activity[o] # 0
                THEN timeout[o] - (now - last_activity[o]) ELSE timeout[o]
    IN  IF left < 0 \/ left > 2147483646 THEN 0 ELSE left

TimedObservers == {o \in Elements(observers) : Timed(o)}

ShortestTimeLeft ==
    IF TimedObservers = {} THEN -1
    ELSE CHOOSE t \in {TimeLeft(o) : o \in TimedObservers} :
             \A o \in TimedObservers : t <= TimeLeft(o)

(* The pass over the entries that fills fds and timeout_this.              *)
PreparePoll ==
    /\ poll_timeout' = ShortestTimeLeft
    /\ timeout_this' = [o \in Observers |->
           IF o \in TimedObservers THEN TimeLeft(o)
           ELSE IF o \in Elements(observers) THEN -1 ELSE timeout_this[o]]
    /\ poll_start' = now
    /\ ctl' = "polling"
    /\ UNCHANGED <<observers, fd, mask, timeout, queue, leftover, notified,
                   now>>

(* An entry that was never active counts from its first poll on.           *)
StartActivity ==
    last_activity' = [o \in Observers |->
        IF o \in TimedObservers /\ last_activity[o] = 0 THEN now
        ELSE last_activity[o]]

(* Fault: sockets are polled while events wait in the queue.               *)
StartPoll_Eager ==
    /\ ctl = "app" /\ observers # <<>>
    /\ PreparePoll /\ StartActivity

(* Fault: timeout_this is computed only once per entry.                    *)
StartPoll_OldTimeLeft ==
    /\ ctl = "app" /\ queue = <<>> /\ observers # <<>>
    /\ poll_timeout' = ShortestTimeLeft
    /\ timeout_this' = [o \in Observers |->
           IF o \in TimedObservers /\ last_activity[o] = 0
           THEN TimeLeft(o) ELSE timeout_this[o]]
    /\ poll_start' = now
    /\ ctl' = "polling"
    /\ UNCHANGED <<observers, fd, mask, timeout, queue, leftover, notified,
                   now>>
    /\ StartActivity

(* An empty queue makes processEvent poll; without observers it returns 0. *)
StartPoll ==
    /\ ctl = "app"
    /\ queue = <<>>
    /\ observers # <<>>
    /\ PreparePoll
    /\ StartActivity

(* The first entry whose descriptor is that of fds[i].                     *)
EntryOf(i) ==
    observers[CHOOSE j \in DOMAIN observers :
        /\ fd[observers[j]] = fd[observers[i]]
        /\ \A k \in 1 .. j - 1 : fd[observers[k]] # fd[observers[i]]]

(* Fault: a poll that expired times out every entry that has a timeout.    *)
EventAt_AllTimed(i, found, expired) ==
    LET p == EntryOf(i)
    IN  [observer |-> p,
         event |-> IF found[observers[i]] # {} THEN found[observers[i]]
                   ELSE IF expired /\ timeout_this[p] # -1
                        THEN {"timeout"} ELSE {}]

(* The event inspect_poll_result puts for fds[i]; found is what yaz_poll   *)
(* reports per observer, and expired says that it returned 0.              *)
EventAt(i, found, expired) ==
    LET p == EntryOf(i)
    IN  [observer |-> p,
         event |-> IF found[observers[i]] # {} THEN found[observers[i]]
                   ELSE IF expired /\ timeout_this[p] = poll_timeout
                        THEN {"timeout"} ELSE {}]

(* The positions of fds for which an event is put.                         *)
Hits(found, expired) ==
    {i \in DOMAIN observers : EventAt(i, found, expired).event # {}}

NewEvents(found, expired) ==
    Subsequence([i \in DOMAIN observers |-> EventAt(i, found, expired)],
                Hits(found, expired))

(* inspect_poll_result: put the events, then deliver the front one.  With  *)
(* nothing to deliver it warns and returns.                                *)
InspectPollResult(found, expired) ==
    /\ last_activity' = [o \in Observers |->
           IF \E i \in Hits(found, expired) : EntryOf(i) = o
           THEN now ELSE last_activity[o]]
    /\ LET q == queue \o NewEvents(found, expired)
       IN  IF q # <<>> THEN NotifyFront(q)
           ELSE ctl' = "app" /\ UNCHANGED <<queue, leftover, notified>>
    /\ UNCHANGED <<observers, fd, mask, timeout, timeout_this,
                   poll_timeout, poll_start, now>>

(* yaz_poll, external: what it may report as ready.  An error condition    *)
(* comes back as "except" even when it was not asked for.                  *)
Reports ==
    {found \in [Observers -> SUBSET IO] :
        \A o \in Observers :
            found[o] \subseteq IF o \in Elements(observers)
                               THEN mask[o] \cup {"except"} ELSE {}}

NothingFound == [o \in Observers |-> {}]

(* yaz_poll returns a positive count ...                                   *)
PollReady ==
    /\ ctl = "polling"
    /\ \E found \in Reports \ {NothingFound} :
           InspectPollResult(found, FALSE)

(* ... or 0, when its timeout has passed and no socket was ready ...       *)
PollExpired ==
    /\ ctl = "polling"
    /\ poll_timeout # -1
    /\ now >= poll_start + poll_timeout
    /\ InspectPollResult(NothingFound, TRUE)

(* ... or fails with EINTR.  Any other error is polled again at once:      *)
(* "pass" is never incremented, so that the state does not change.         *)
PollInterrupted ==
    /\ ctl = "polling"
    /\ ctl' = "app"
    /\ UNCHANGED <<entryVars, queue, leftover, notified, poll_timeout,
                   poll_start, now>>

(* socketNotify returns, the event is freed and processEvent returns 1.    *)
HandlerReturns ==
    /\ ctl = "notify"
    /\ ctl' = "app"
    /\ notified' = Nobody
    /\ UNCHANGED <<entryVars, queue, leftover, poll_timeout, poll_start, now>>

Tick ==
    /\ now < MaxTime
    /\ now' = now + 1
    /\ UNCHANGED <<entryVars, loopVars>>

----------------------------------------------------------------------------
Operation ==
    \/ \E o \in Observers, f \in Fds, m \in Masks : AddObserver(o, f, m)
    \/ \E o \in Observers : DeleteObserver(o)
    \/ \E o \in Observers, m \in Masks : MaskObserver(o, m)
    \/ \E o \in Observers, t \in Timeouts : TimeoutObserver(o, t)
    \/ DeleteObservers \/ Destruct

Next ==
    \/ Operation
    \/ DispatchQueued \/ StartPoll
    \/ PollReady \/ PollExpired \/ PollInterrupted
    \/ HandlerReturns
    \/ Tick

Spec == Init /\ [][Next]_vars

(* The program calls processEvent again and again and handlers return.     *)
(* Nothing is assumed of the sockets or of when a poll ends.               *)
Fairness ==
    /\ WF_vars(DispatchQueued)
    /\ WF_vars(HandlerReturns)

FairSpec == Spec /\ Fairness

----------------------------------------------------------------------------
(* Properties.                                                             *)

Event == [observer : Observers, event : SUBSET (IO \cup {"timeout"})]

(* Types.  The times left of a poll are never negative (the clamp at the   *)
(* end of the loop of processEvent).                                       *)
TypeOK ==
    /\ observers \in Seq(Observers)
    /\ fd \in [Observers -> Fds \cup {-1}]
    /\ mask \in [Observers -> SUBSET IO]
    /\ timeout \in [Observers -> Timeouts \cup {-1}]
    /\ timeout_this \in [Observers -> Nat \cup {-1}]
    /\ last_activity \in [Observers -> Nat]
    /\ queue \in Seq(Event)
    /\ leftover \subseteq Observers
    /\ ctl \in {"app", "polling", "notify", "gone"}
    /\ notified \in Observers \cup {Nobody}
    /\ poll_timeout \in Nat \cup {-1}
    /\ poll_start \in Nat
    /\ now \in Nat

(* Every event that waits in the queue is for a registered observer, so    *)
(* that getEvent does not lead to a call of socketNotify on a deleted      *)
(* object (removeEvent in deleteObserver); the exceptions are the events   *)
(* that deleteObservers found in the queue, which are not withdrawn.       *)
NoStaleEvents == Addressees(queue) \subseteq Elements(observers) \cup leftover

(* No observer has two events in the queue: sockets are polled only when   *)
(* the queue is empty and every descriptor has one entry, so that the      *)
(* queue is never longer than the list of observers.                       *)
OneEventPerObserver ==
    \A i, j \in DOMAIN queue : queue[i].observer = queue[j].observer => i = j

(* assert(p->last_activity) in inspect_poll_result: an entry that may time *)
(* out in the running poll knows when it was last active.                  *)
ActivityKnown ==
    ctl = "polling" =>
        \A o \in Elements(observers) :
            timeout_this[o] = poll_timeout /\ poll_timeout # -1
                => last_activity[o] # 0

(* The "unhandled socket event" of inspect_poll_result (bug #2035) does    *)
(* not occur: whenever yaz_poll reports something, or its timeout passes,  *)
(* some observer is notified.                                              *)
PollNotifies == [][PollReady \/ PollExpired => ctl' = "notify"]_vars

(* An observer is told of a timeout only when it asked for one and its     *)
(* socket has been without events for at least that long.                  *)
TimeoutNotEarly ==
    [][PollExpired =>
           \A i \in Hits(NothingFound, TRUE) :
               /\ timeout[EntryOf(i)] >= 0
               /\ now - last_activity[EntryOf(i)] >= timeout[EntryOf(i)]]_vars

(* An event does not stay in the queue: its observer is notified or is     *)
(* deleted, or the manager is destroyed.                                   *)
QueueDrains ==
    \A o \in Observers :
        ctl # "gone" /\ o \in Addressees(queue)
            ~> ctl = "gone" \/ o \notin Addressees(queue)

(* The manager implements the interface ISocketObservable.                 *)
Pending ==
    [o \in Observers |->
        UNION {queue[i].event :
                   i \in {j \in DOMAIN queue : queue[j].observer = o}}]

Observable == INSTANCE ISocketObservable WITH
    registered <- Elements(observers),
    interest <- mask,
    pending <- Pending,
    notifying <- notified

(* Every step of the manager is a step its interface allows, or changes    *)
(* nothing an observer can see.                                            *)
ImplementsObservable == Observable!Spec
=============================================================================
