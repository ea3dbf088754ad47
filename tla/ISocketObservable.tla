------------------------- MODULE ISocketObservable -------------------------
(***************************************************************************)
(* What the interface ISocketObservable (socket-observer.h) promises to    *)
(* its observers, whatever implements it: an observer is notified by one   *)
(* notification at a time, of events that were gathered for it while it    *)
(* was registered, each at most once; read and write events are gathered   *)
(* only if it asked for them.  deleteObserver forgets what was gathered;   *)
(* deleteObservers does not, and no more is promised here.  The order in   *)
(* which gathered events are delivered is left open.                       *)
(***************************************************************************)
CONSTANTS
    Observers,  \* the objects that may observe a socket
    Nobody      \* no observer: nobody is being notified

VARIABLES
    registered, \* the observers added and not deleted
    interest,   \* per observer, the I/O events it asked for
    pending,    \* per observer, the events gathered and not yet delivered
    notifying   \* the observer whose socketNotify is running, or Nobody

vars == <<registered, interest, pending, notifying>>

(* SocketObserve, socket-observer.h. *)
IO     == {"read", "write", "except"}
Events == IO \cup {"timeout"}

NoEvents == [o \in Observers |-> {}]

Init ==
    /\ registered = {}
    /\ interest = NoEvents
    /\ pending = NoEvents
    /\ notifying = Nobody

(* addObserver followed by maskObserver. *)
Enrol(o, m) ==
    /\ registered' = registered \cup {o}
    /\ interest' = [interest EXCEPT ![o] = m]
    /\ UNCHANGED <<pending, notifying>>

(* deleteObserver: what was gathered for the observer is forgotten. *)
Retire(o) ==
    /\ o \in registered
    /\ registered' = registered \ {o}
    /\ interest' = [interest EXCEPT ![o] = {}]
    /\ pending' = [pending EXCEPT ![o] = {}]
    /\ UNCHANGED notifying

(* maskObserver. *)
SetInterest(o, m) ==
    /\ o \in registered
    /\ interest' = [interest EXCEPT ![o] = m]
    /\ UNCHANGED <<registered, pending, notifying>>

(* The events one look at the sockets may find.  Exceptions need not be    *)
(* asked for; a timeout comes alone.                                       *)
MayGather(found) ==
    \A o \in Observers :
        \/ found[o] = {}
        \/ /\ o \in registered
           /\ \/ found[o] = {"timeout"}
              \/ /\ found[o] \subseteq IO
                 /\ found[o] \subseteq interest[o] \cup {"except"}

(* Events are gathered when none is left, and the first one is delivered. *)
Gather(found, first) ==
    /\ notifying = Nobody
    /\ pending = NoEvents
    /\ MayGather(found)
    /\ found[first] # {}
    /\ pending' = [found EXCEPT ![first] = {}]
    /\ notifying' = first
    /\ UNCHANGED <<registered, interest>>

(* A gathered event is delivered: socketNotify starts. *)
Deliver(o) ==
    /\ notifying = Nobody
    /\ pending[o] # {}
    /\ pending' = [pending EXCEPT ![o] = {}]
    /\ notifying' = o
    /\ UNCHANGED <<registered, interest>>

(* socketNotify returns. *)
Return ==
    /\ notifying # Nobody
    /\ notifying' = Nobody
    /\ UNCHANGED <<registered, interest, pending>>

(* deleteObservers, at any time: nobody is registered any more. *)
RetireAll ==
    /\ registered' = {}
    /\ interest' = NoEvents
    /\ UNCHANGED <<pending, notifying>>

Next ==
    \/ \E o \in Observers, m \in SUBSET IO : Enrol(o, m) \/ SetInterest(o, m)
    \/ \E o \in Observers : Retire(o) \/ Deliver(o)
    \/ \E found \in [Observers -> SUBSET Events], first \in Observers :
           Gather(found, first)
    \/ Return
    \/ RetireAll

Spec == Init /\ [][Next]_vars
=============================================================================
