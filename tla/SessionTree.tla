---------------------------- MODULE SessionTree ----------------------------
(***************************************************************************)
(* A listening PDU_Assoc and the sessions it accepts (yaz-pdu-assoc.cpp,   *)
(* yaz-z-assoc.cpp): who owns whom, and what the end of one does to the    *)
(* others.                                                                 *)
(*                                                                         *)
(* The listener belongs to a server object of the application, and each    *)
(* accepted association to the session object that sessionNotify returned  *)
(* for it; both are Z_Assoc's, whose destructor destroys and deletes the   *)
(* association.  The listener links the associations it accepted as its    *)
(* children, and its own shutdown and destruction reach them too.  What a  *)
(* session does with its connection is the subject of PduAssoc; here it is *)
(* open (and registered with the socket manager) or closed.                *)
(***************************************************************************)
EXTENDS Integers, Sequences, FiniteSets, ListOps

CONSTANTS
    Sessions,     \* the associations that childNotify may create
    Listener,     \* the association that listens
    MaxDepth,     \* bound on nested callbacks
    ServerDies    \* may a session delete the server while its recv_PDU runs?

ASSUME TreeConstants ==
    /\ Listener \notin Sessions
    /\ MaxDepth \in Nat
    /\ ServerDies \in BOOLEAN

VARIABLES
    server,    \* FALSE once the server object and its listener are deleted
    lstate,    \* the listener: "closed"; "bound", with a COMSTACK that could
               \* not be bound and is not registered; or "listening"
    children,  \* pdu_children of the listener, the latest first
    assoc,     \* each session's association: "none", "open", "closed" or
               \* "deleted"
    parent,    \* is its pdu_parent set?
    owner,     \* its session object: "none", "lives" or "gone"
    pending,   \* associations with an event in the queue of the manager
    stack,     \* callbacks that run, innermost first
    \* History, for the properties only:
    asked,     \* the session called shutdown or close_session
    told       \* the session's failNotify was called

treeVars == <<children, assoc, parent, owner>>
vars == <<server, lstate, treeVars, pending, stack, asked, told>>

Parties == Sessions \cup {Listener}

(* The calls of IPDU_Observer that run.  "session" is sessionNotify of the *)
(* listener's observer, for the new association "of"; "recv_destroyed" is  *)
(* a recv_PDU whose loop was told that its association is gone.            *)
Calls == {"session", "recv", "recv_destroyed", "fail", "timeout"}

Frame(call, x) == [call |-> call, of |-> x]

Push(call, x) == stack' = <<Frame(call, x)>> \o stack

Init ==
    /\ server = TRUE
    /\ lstate = "closed"
    /\ children = <<>>
    /\ assoc = [s \in Sessions |-> "none"]
    /\ parent = [s \in Sessions |-> FALSE]
    /\ owner = [s \in Sessions |-> "none"]
    /\ pending = {}
    /\ stack = <<>>
    /\ asked = [s \in Sessions |-> FALSE]
    /\ told = [s \in Sessions |-> FALSE]

----------------------------------------------------------------------------
(* deleteObserver for each of S.                                           *)
Unqueue(S) == pending' = pending \ S

(* The associations after those in S are shut down.                        *)
Closed(S) ==
    [s \in Sessions |-> IF s \in S THEN "closed" ELSE assoc[s]]

(* shutdown() of the listener: its children first, which are not told.     *)
ShutdownListener ==
    /\ Unqueue(Elements(children) \cup {Listener})
    /\ assoc' = Closed(Elements(children))

(* shutdown() of one session's association, which has no children.         *)
ShutdownOf(s) ==
    /\ Unqueue({s})
    /\ assoc' = Closed({s})

(* failNotify of a session, after the shutdown of its association.         *)
TellFailed(s) ==
    /\ Push("fail", s)
    /\ told' = [told EXCEPT ![s] = TRUE]

----------------------------------------------------------------------------
(* What the application does, between events or in a callback.             *)
Calling == Len(stack) < MaxDepth

(* listen(): shutdown first; then an address that cannot be used, one that *)
(* cannot be bound, or success.                                            *)
Listen ==
    /\ Calling /\ server
    /\ ShutdownListener
    /\ lstate' \in {"closed", "bound", "listening"}
    /\ UNCHANGED <<server, children, parent, owner, stack, asked, told>>

(* listen() with an empty address closes the listener and not its children.*)
ListenNowhere ==
    /\ Calling /\ server
    /\ Unqueue({Listener})
    /\ lstate' = "closed"
    /\ UNCHANGED <<server, treeVars, stack, asked, told>>

(* shutdown() of the listener, called by the application.                  *)
ShutdownServer ==
    /\ Calling /\ server
    /\ ShutdownListener
    /\ lstate' = "closed"
    /\ UNCHANGED <<server, children, parent, owner, stack, asked, told>>

(* No server deletes itself while it makes a session, and, unless          *)
(* ServerDies, none is deleted by a session that receives.                 *)
MayDeleteServer ==
    \A i \in DOMAIN stack :
        /\ stack[i].call # "session"
        /\ stack[i].call = "recv" => ServerDies

(* The destructor of the server: destroy() of the listener, which deletes  *)
(* all children without calling destroy() for them.  Their session objects *)
(* live on, and must not be deleted any more (Owns).                       *)
DeleteServer ==
    /\ Calling /\ server
    /\ MayDeleteServer
    /\ Unqueue(Elements(children) \cup {Listener})
    /\ server' = FALSE
    /\ lstate' = "closed"
    /\ assoc' = [s \in Sessions |->
                    IF s \in Elements(children) THEN "deleted" ELSE assoc[s]]
    /\ children' = <<>>
    /\ parent' = [s \in Sessions |-> FALSE]
    /\ UNCHANGED <<owner, stack, asked, told>>

(* A session object that has its association.                              *)
Owns(s) == owner[s] = "lives" /\ assoc[s] \in {"open", "closed"}

(* shutdown(), called by the session.                                      *)
ShutdownSession(s) ==
    /\ Calling /\ Owns(s)
    /\ ShutdownOf(s)
    /\ asked' = [asked EXCEPT ![s] = TRUE]
    /\ UNCHANGED <<server, lstate, children, parent, owner, stack, told>>

(* close_session(): at once, or deferred until the queue is written.       *)
CloseSession(s) ==
    /\ Calling /\ Owns(s)
    /\ asked' = [asked EXCEPT ![s] = TRUE]
    /\ \/ ShutdownOf(s) /\ TellFailed(s)
       \/ assoc[s] = "open" /\ UNCHANGED <<assoc, pending, stack, told>>
    /\ UNCHANGED <<server, lstate, children, parent, owner>>

(* Fault: the session is not told of the failure.                          *)
SendFails_Untold(s) ==
    /\ Calling /\ Owns(s) /\ assoc[s] = "open"
    /\ ShutdownOf(s)
    /\ UNCHANGED <<server, lstate, children, parent, owner, stack, asked, told>>

(* send_PDU() whose cs_put fails.                                          *)
SendFails(s) ==
    /\ Calling /\ Owns(s) /\ assoc[s] = "open"
    /\ ShutdownOf(s)
    /\ TellFailed(s)
    /\ UNCHANGED <<server, lstate, children, parent, owner, asked>>

(* Fault: the child stays in the list.                                     *)
Unlink_Forgotten(s) == children

(* The list of children without s.                                         *)
Unlink(s) ==
    Subsequence(children, {i \in DOMAIN children : children[i] # s})

(* Fault: the loop around recv_PDU is not told.                            *)
MarkDestroyed_Untold(s) == stack

(* "*m_p->destroyed = 1", read by the loop around recv_PDU.                *)
MarkDestroyed(s) ==
    [i \in DOMAIN stack |->
        IF stack[i] = Frame("recv", s) THEN Frame("recv_destroyed", s)
        ELSE stack[i]]

(* Fault: the association is not destroyed with its session object.        *)
DeleteSession_AssocStays(s) ==
    /\ Calling /\ Owns(s)
    /\ owner' = [owner EXCEPT ![s] = "gone"]
    /\ UNCHANGED <<server, lstate, children, assoc, parent, pending, stack,
                   asked, told>>

(* The destructor of a session: destroy() of its association, which        *)
(* unlinks it from its parent, and delete.                                 *)
DeleteSession(s) ==
    /\ Calling /\ Owns(s)
    /\ Unqueue({s})
    /\ assoc' = [assoc EXCEPT ![s] = "deleted"]
    /\ owner' = [owner EXCEPT ![s] = "gone"]
    /\ children' = IF parent[s] THEN Unlink(s) ELSE children
    /\ parent' = [parent EXCEPT ![s] = FALSE]
    /\ stack' = MarkDestroyed(s)
    /\ UNCHANGED <<server, lstate, asked, told>>

Application ==
    \/ Listen \/ ListenNowhere \/ ShutdownServer \/ DeleteServer
    \/ \E s \in Sessions :
           ShutdownSession(s) \/ CloseSession(s) \/ SendFails(s)
           \/ DeleteSession(s)

----------------------------------------------------------------------------
(* The socket manager: a poll reports events for any of the associations   *)
(* registered; they are delivered one at a time, unless deleted before.    *)
Registered ==
    {s \in Sessions : assoc[s] = "open"}
    \cup (IF lstate = "listening" THEN {Listener} ELSE {})

Gather ==
    /\ stack = <<>>
    /\ pending = {}
    /\ pending' \in (SUBSET Registered) \ {{}}
    /\ UNCHANGED <<server, lstate, treeVars, stack, asked, told>>

Delivered(x) == stack = <<>> /\ x \in pending

(* childNotify creates an association for the accepted COMSTACK and asks   *)
(* the listener's observer for a session.                                  *)
ChildNotify ==
    /\ Delivered(Listener)
    /\ Unqueue({Listener})
    /\ \E s \in Sessions :
           /\ assoc[s] = "none"
           /\ assoc' = [assoc EXCEPT ![s] = "open"]
           /\ Push("session", s)
    /\ UNCHANGED <<server, lstate, children, parent, owner, asked, told>>

(* cs_listen or cs_accept has nothing to accept, or the idle time is over. *)
ListenerIdle ==
    /\ Delivered(Listener)
    /\ Unqueue({Listener})
    /\ Push("timeout", Listener) \/ UNCHANGED stack
    /\ UNCHANGED <<server, lstate, treeVars, asked, told>>

(* An exception on the listener's socket ends it and its children.         *)
ListenerFails ==
    /\ Delivered(Listener)
    /\ ShutdownListener
    /\ lstate' = "closed"
    /\ Push("fail", Listener)
    /\ UNCHANGED <<server, children, parent, owner, asked, told>>

(* A session receives, its idle time is over, or the event makes no call.  *)
SessionEvent(s) ==
    /\ Delivered(s)
    /\ Unqueue({s})
    /\ Push("recv", s) \/ Push("timeout", s) \/ UNCHANGED stack
    /\ UNCHANGED <<server, lstate, treeVars, asked, told>>

(* Its connection is lost.                                                 *)
SessionLost(s) ==
    /\ Delivered(s)
    /\ ShutdownOf(s)
    /\ TellFailed(s)
    /\ UNCHANGED <<server, lstate, children, parent, owner, asked>>

(* The last PDU is written after close_session, which tells nobody.        *)
SessionCloses(s) ==
    /\ Delivered(s)
    /\ asked[s]
    /\ ShutdownOf(s)
    /\ UNCHANGED <<server, lstate, children, parent, owner, stack, asked,
                   told>>

SocketNotify ==
    \/ ChildNotify \/ ListenerIdle \/ ListenerFails
    \/ \E s \in Sessions :
           SessionEvent(s) \/ SessionLost(s) \/ SessionCloses(s)

----------------------------------------------------------------------------
(* Callbacks return.                                                       *)
Returning(call) == stack # <<>> /\ Head(stack).call = call

(* sessionNotify returns a session, and the association becomes the first  *)
(* child.                                                                  *)
SessionAccepted ==
    /\ Returning("session")
    /\ LET s == Head(stack).of IN
           /\ owner' = [owner EXCEPT ![s] = "lives"]
           /\ children' = <<s>> \o children
           /\ parent' = [parent EXCEPT ![s] = TRUE]
    /\ stack' = Tail(stack)
    /\ UNCHANGED <<server, lstate, assoc, pending, asked, told>>

(* Fault: the association of a session that is not wanted stays.           *)
SessionRefused_Kept ==
    /\ Returning("session")
    /\ LET s == Head(stack).of IN ShutdownOf(s)
    /\ stack' = Tail(stack)
    /\ UNCHANGED <<server, lstate, children, parent, owner, asked, told>>

(* It returns no session: the association is shut down and deleted.        *)
SessionRefused ==
    /\ Returning("session")
    /\ LET s == Head(stack).of IN
           /\ Unqueue({s})
           /\ assoc' = [assoc EXCEPT ![s] = "deleted"]
    /\ stack' = Tail(stack)
    /\ UNCHANGED <<server, lstate, children, parent, owner, asked, told>>

(* The other callbacks; what the loop around recv_PDU does afterwards is   *)
(* the subject of PduAssoc.                                                *)
OtherReturns ==
    /\ stack # <<>> /\ ~Returning("session")
    /\ stack' = Tail(stack)
    /\ UNCHANGED <<server, lstate, treeVars, pending, asked, told>>

Return == SessionAccepted \/ SessionRefused \/ OtherReturns

----------------------------------------------------------------------------
Next == Application \/ Gather \/ SocketNotify \/ Return

Spec == Init /\ [][Next]_vars

----------------------------------------------------------------------------
(* Properties.                                                             *)

TypeOK ==
    /\ server \in BOOLEAN
    /\ lstate \in {"closed", "bound", "listening"}
    /\ children \in Seq(Sessions)
    /\ assoc \in [Sessions -> {"none", "open", "closed", "deleted"}]
    /\ parent \in [Sessions -> BOOLEAN]
    /\ owner \in [Sessions -> {"none", "lives", "gone"}]
    /\ pending \in SUBSET Parties
    /\ stack \in Seq([call : Calls, of : Parties])
    /\ asked \in [Sessions -> BOOLEAN]
    /\ told \in [Sessions -> BOOLEAN]

(* The list of children and the pointers to the parent say the same, so    *)
(* that destroy() finds what it unlinks, as it asserts, and no deleted     *)
(* association is in the list for shutdown() or destroy() to walk over.    *)
ListMatchesParents ==
    /\ Elements(children) = {s \in Sessions : parent[s]}
    /\ NoRepeats(children)
    /\ \A s \in Elements(children) : assoc[s] \in {"open", "closed"}

(* Sessions do not outlive the server they came from, whichever of its     *)
(* operations they went through before it was deleted: none is left to     *)
(* call into a tree that is gone.                                          *)
NothingOutlivesServer ==
    ~server => \A s \in Sessions : assoc[s] \in {"none", "deleted"}

(* Events wait only for associations that exist and are registered: those  *)
(* of a child disappear with the shutdown of its parent too.               *)
EventsHaveReceivers == pending \subseteq Registered

(* Every association that exists is reachable: a session object owns it,   *)
(* or sessionNotify is being asked for one.                                *)
NothingLeaks ==
    \A s \in Sessions :
        assoc[s] \in {"open", "closed"} =>
            \/ owner[s] = "lives"
            \/ \E i \in DOMAIN stack : stack[i] = Frame("session", s)

(* No callback returns into code that goes on to use a deleted             *)
(* association: "lock it, so we know if recv_PDU deletes it"; and          *)
(* childNotify still has its listener and its new association.             *)
NoUseAfterFree ==
    \A i \in DOMAIN stack :
        /\ stack[i].call \in {"recv", "session"} =>
               assoc[stack[i].of] # "deleted"
        /\ stack[i].call = "session" => server

(* A callback is made to an observer that exists.                          *)
ObserverExists(x) == IF x = Listener THEN server ELSE owner[x] = "lives"

CallsReachObservers ==
    [][Len(stack') > Len(stack) =>
           \/ Head(stack').call = "session" /\ server
           \/ ObserverExists(Head(stack').of)]_vars

(* A session whose connection ends is told of it in the same step, unless  *)
(* it asked for that itself or the listener is shut down: shutdown() ends  *)
(* the connections of all children and calls failNotify for none.          *)
SessionsAreTold ==
    [][\A s \in Sessions :
           assoc[s] = "open" /\ assoc'[s] = "closed" /\ owner'[s] = "lives"
           => \/ told'[s] \/ asked'[s]
              \/ Listen \/ ShutdownServer \/ ListenerFails]_vars
=============================================================================
