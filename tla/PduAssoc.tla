------------------------------ MODULE PduAssoc ------------------------------
(***************************************************************************)
(* PDU_Assoc (yaz-pdu-assoc.cpp): one association, in the client role or   *)
(* as a session that a listener accepted.                                  *)
(*                                                                         *)
(* The association sits between a socket manager below (its side of        *)
(* ISocketObservable is registered, mask, timed and pending here), a       *)
(* COMSTACK whose results are chosen by the network, and an IPDU_Observer  *)
(* above.  The observer is application code: each callback into it is a    *)
(* frame on "stack", and while a frame is on top the application may call  *)
(* any operation of the association again, delete it included, before the  *)
(* callback returns to the code of PDU_Assoc that made it.                 *)
(***************************************************************************)
EXTENDS Integers, Sequences, FiniteSets

CONSTANTS
    MaxConnects,  \* bound on the calls of connect
    MaxPdus,      \* bound on the PDUs sent per connection
    MaxDepth,     \* bound on nested callbacks
    EarlySend,    \* may the application send before it is connected?
    ReuseClosed   \* may it connect again after close_session?

ASSUME AssocConstants ==
    /\ MaxConnects \in Nat /\ MaxPdus \in Nat /\ MaxDepth \in Nat
    /\ EarlySend \in BOOLEAN /\ ReuseClosed \in BOOLEAN

VARIABLES
    state,              \* PDU_Assoc_priv::state
    cs,                 \* the COMSTACK: "none" (0), "opening", "up", "broken"
    queue_out,          \* PDUs not yet written; a PDU is its number on the
                        \* connection, 1, 2, ...
    m_session_is_dead,  \* set by close_session
    alive,              \* FALSE once destroyed and deleted
    registered,         \* is there an entry for it in the socket manager?
    mask,               \* events that entry asks for
    timed,              \* has that entry a timeout?
    pending,            \* event queued for it in the socket manager, or {}
    stack,              \* callbacks that run, innermost first
    connects,           \* number of connects so far
    \* History of the current connection, for the properties only:
    accepted,           \* PDUs that send_PDU took
    wire,               \* PDUs written completely
    partial,            \* PDU that cs_put has written in part, or 0
    closing,            \* close_session was called since it was opened
    ending              \* "open", or how it ended, or "never"

assocVars   == <<state, cs, queue_out>>
sockVars    == <<registered, mask, timed>>
historyVars == <<accepted, wire, partial, closing, ending>>
vars == <<assocVars, m_session_is_dead, alive, sockVars, pending, stack,
          connects, historyVars>>

RW == {"read", "write"}

States == {"Connecting", "Ready", "Closed", "Writing", "Accepting"}

(* The callbacks of IPDU_Observer.  "recv_destroyed" is a recv_PDU whose   *)
(* caller has been told, through m_p->destroyed, that the object is gone.  *)
Frames == {"recv", "recv_destroyed", "connect", "fail", "timeout"}

(* What io_pending asks for when an operation of COMSTACK is incomplete.   *)
Wants == (SUBSET RW) \ {{}}

Push(frame, stk) == <<frame>> \o stk

(* A PDU_Assoc constructed by the application for later use ...            *)
InitClient ==
    /\ state = "Closed" /\ cs = "none"
    /\ registered = FALSE /\ mask = {}
    /\ ending = "never"

(* ... or by childNotify for an accepted COMSTACK: complete, or with a     *)
(* handshake still going on.                                               *)
InitSession ==
    /\ registered = TRUE
    /\ \/ /\ state = "Ready" /\ cs = "up"
          /\ mask = RW \cup {"except"}
       \/ /\ state = "Accepting" /\ cs = "opening"
          /\ \E want \in Wants : mask = want \cup {"except"}
    /\ ending = "open"

Init ==
    /\ InitClient \/ InitSession
    /\ queue_out = <<>>
    /\ m_session_is_dead = FALSE
    /\ alive = TRUE
    /\ timed = FALSE
    /\ pending = {}
    /\ stack = <<>>
    /\ connects = 0
    /\ accepted = 0 /\ wire = <<>> /\ partial = 0 /\ closing = FALSE

----------------------------------------------------------------------------
(* Parts of the handlers.  A handler may have changed fields before it      *)
(* calls flush_PDU, so flush_PDU gets the values it sees: "at" is the      *)
(* current state with those changes made.  flush_PDU is always the last    *)
(* thing a handler does.                                                   *)
Here == [state |-> state, cs |-> cs, queue |-> queue_out,
         stack |-> stack, pending |-> pending]

(* The manager's entry gets another mask.                                  *)
Ask(m) == mask' = m \cup {"except"} /\ UNCHANGED <<registered, timed>>

(* Fault: deleteObserver leaves queued events.                             *)
Unregister_NoPurge ==
    /\ registered' = FALSE /\ mask' = {} /\ timed' = FALSE
    /\ UNCHANGED pending

(* deleteObserver.                                                         *)
Unregister ==
    /\ registered' = FALSE /\ mask' = {} /\ timed' = FALSE
    /\ pending' = {}

(* shutdown(); how says why, for the history.                              *)
Shutdown(how) ==
    /\ Unregister
    /\ state' = "Closed"
    /\ cs' = "none"
    /\ queue_out' = <<>>
    /\ partial' = 0
    /\ ending' = IF ending = "open" THEN how ELSE ending

(* shutdown() followed by failNotify().                                    *)
ShutdownAndFail(how, stk) ==
    /\ Shutdown(how)
    /\ stack' = Push("fail", stk)

(* An empty queue makes the session Ready, or ends it.                     *)
FlushNothing(at) ==
    IF m_session_is_dead
    THEN ShutdownAndFail("closed", at.stack) /\ UNCHANGED wire
    ELSE /\ state' = "Ready"
         /\ Ask(RW)
         /\ cs' = at.cs /\ queue_out' = <<>>
         /\ stack' = at.stack /\ pending' = at.pending
         /\ UNCHANGED <<wire, partial, ending>>

(* Fault: failNotify without shutdown.                                     *)
PutFails_NoShutdown(at) ==
    /\ stack' = Push("fail", at.stack)
    /\ state' = at.state /\ cs' = at.cs /\ queue_out' = at.queue
    /\ pending' = at.pending
    /\ UNCHANGED <<sockVars, wire, partial, ending>>

(* cs_put fails.                                                           *)
PutFails(at) == ShutdownAndFail("lost", at.stack) /\ UNCHANGED wire

(* Fault: writing is waited for only if COMSTACK wants it.                 *)
PutIncomplete_OnlyWants(at) ==
    /\ at.cs = "up"
    /\ state' = "Writing"
    /\ \E want \in Wants : Ask(want)
    /\ partial' = Head(at.queue)
    /\ cs' = at.cs /\ queue_out' = at.queue
    /\ stack' = at.stack /\ pending' = at.pending
    /\ UNCHANGED <<wire, ending>>

(* cs_put takes a part of the first PDU; a broken connection takes none.   *)
PutIncomplete(at) ==
    /\ at.cs = "up"
    /\ state' = "Writing"
    /\ \E want \in Wants : Ask(want \cup {"write"})
    /\ partial' = Head(at.queue)
    /\ cs' = at.cs /\ queue_out' = at.queue
    /\ stack' = at.stack /\ pending' = at.pending
    /\ UNCHANGED <<wire, ending>>

(* Fault: nothing but exceptions is waited for after the last PDU.         *)
LastWritten_Deaf(at) ==
    IF m_session_is_dead THEN Shutdown("silent")
    ELSE /\ queue_out' = Tail(at.queue) /\ partial' = 0
         /\ cs' = at.cs /\ pending' = at.pending /\ UNCHANGED ending
         /\ state' = "Ready" /\ Ask({})

(* What follows a PDU that was written completely: others wait, and state  *)
(* and mask stay as they are; or it was the last one, and the session      *)
(* waits for input again or, after close_session, is shut down.            *)
KeepWriting(at) == state' = at.state /\ UNCHANGED sockVars

KeepOpen(at) ==
    /\ queue_out' = Tail(at.queue)
    /\ partial' = 0
    /\ cs' = at.cs /\ pending' = at.pending
    /\ UNCHANGED ending

(* Fault: close_session is forgotten once the last PDU is written.         *)
LastWritten_StaysOpen(at) ==
    KeepOpen(at) /\ state' = "Ready" /\ Ask({"read"})

LastWritten(at) ==
    IF m_session_is_dead THEN Shutdown("silent")
    ELSE KeepOpen(at) /\ state' = "Ready" /\ Ask({"read"})

(* cs_put takes the whole PDU.                                             *)
PutComplete(at) ==
    /\ at.cs = "up"
    /\ wire' = Append(wire, Head(at.queue))
    /\ stack' = at.stack
    /\ IF Tail(at.queue) = <<>> THEN LastWritten(at)
       ELSE KeepOpen(at) /\ KeepWriting(at)

(* flush_PDU() does nothing unless the connection is ready to write.       *)
FlushNotReady(at) ==
    /\ state' = at.state /\ cs' = at.cs /\ queue_out' = at.queue
    /\ stack' = at.stack /\ pending' = at.pending
    /\ UNCHANGED <<sockVars, wire, partial, ending>>

FlushPDU(at) ==
    IF at.state \notin {"Ready", "Writing"} THEN FlushNotReady(at)
    ELSE IF at.queue = <<>> THEN FlushNothing(at)
    ELSE PutFails(at) \/ PutIncomplete(at) \/ PutComplete(at)

----------------------------------------------------------------------------
(* Operations of IPDU_Observable.  The application calls them between      *)
(* calls of processEvent or from a callback.                               *)

Calling == alive /\ Len(stack) < MaxDepth

(* Fault: a PDU is put in front of those that wait.                        *)
SendPDU_InFront ==
    /\ Calling
    /\ cs # "none"
    /\ accepted < MaxPdus
    /\ EarlySend \/ state \in {"Ready", "Writing"}
    /\ accepted' = accepted + 1
    /\ LET q == <<accepted + 1>> \o queue_out
       IN  IF queue_out = <<>> THEN FlushPDU([Here EXCEPT !.queue = q])
           ELSE /\ queue_out' = q
                /\ UNCHANGED <<state, cs, sockVars, pending, stack, wire,
                               partial, ending>>
    /\ UNCHANGED <<m_session_is_dead, alive, connects, closing>>

(* send_PDU: with a PDU in the queue already, that is all it does.         *)
SendPDU ==
    /\ Calling
    /\ cs # "none"
    /\ accepted < MaxPdus
    /\ EarlySend \/ state \in {"Ready", "Writing"}
    /\ accepted' = accepted + 1
    /\ LET q == Append(queue_out, accepted + 1)
       IN  IF queue_out = <<>> THEN FlushPDU([Here EXCEPT !.queue = q])
           ELSE /\ queue_out' = q
                /\ UNCHANGED <<state, cs, sockVars, pending, stack, wire,
                               partial, ending>>
    /\ UNCHANGED <<m_session_is_dead, alive, connects, closing>>

(* Fault: the queue is not waited for.                                     *)
CloseSession_AtOnce ==
    /\ Calling
    /\ m_session_is_dead' = TRUE
    /\ closing' = TRUE
    /\ ShutdownAndFail("closed", stack)
    /\ UNCHANGED <<alive, connects, accepted, wire>>

(* close_session: the session ends at once, or once the queue is written.  *)
(* Applications connect first: only then is there an observer to be told.  *)
CloseSession ==
    /\ Calling
    /\ m_session_is_dead' = TRUE
    /\ closing' = TRUE
    /\ IF queue_out = <<>> THEN ShutdownAndFail("closed", stack)
       ELSE UNCHANGED <<assocVars, sockVars, pending, stack, partial, ending>>
    /\ UNCHANGED <<alive, connects, accepted, wire>>

(* shutdown, called by the application itself.                             *)
AppShutdown ==
    /\ Calling
    /\ Shutdown("left")
    /\ UNCHANGED <<m_session_is_dead, alive, stack, connects, accepted, wire,
                   closing>>

(* idleTime: without an entry in the manager it has no effect.             *)
IdleTime ==
    /\ Calling
    /\ registered
    /\ timed' \in BOOLEAN
    /\ UNCHANGED <<assocVars, m_session_is_dead, alive, registered, mask,
                   pending, stack, connects, historyVars>>

(* What connect leaves for each result of cs_connect: 0 (complete), 1      *)
(* (pending) and -1 (failed at once, seen as an event in state Closed).    *)
Opening ==
    \/ state' = "Connecting" /\ cs' = "opening" /\ mask' = RW \cup {"except"}
    \/ /\ state' = "Connecting" /\ cs' = "opening"
       /\ \E want \in Wants : mask' = want \cup {"except"}
    \/ state' = "Closed" /\ cs' = "broken" /\ mask' = {"write", "except"}

(* connect: shutdown, then addObserver and maskObserver for the new socket *)
(* unless cs_create_host fails.                                            *)
Connect ==
    /\ Calling
    /\ connects < MaxConnects
    /\ ReuseClosed \/ ~m_session_is_dead
    /\ connects' = connects + 1
    /\ pending' = {}
    /\ queue_out' = <<>>
    /\ timed' = FALSE
    /\ accepted' = 0 /\ wire' = <<>> /\ partial' = 0 /\ closing' = FALSE
    /\ \/ Opening /\ registered' = TRUE /\ ending' = "open"
       \/ /\ state' = "Closed" /\ cs' = "none"
          /\ registered' = FALSE /\ mask' = {}
          /\ ending' = "never"
    /\ UNCHANGED <<m_session_is_dead, alive, stack>>

(* destroy() and delete, as ~Z_Assoc_priv does.  The flag that m_p->       *)
(* destroyed points to is the local of the recv_PDU loop that runs, if     *)
(* any.  An observer that deletes its association during connectNotify     *)
(* would break the caller, and none in yazpp does.                         *)
NotConnecting == \A i \in DOMAIN stack : stack[i] # "connect"

(* Fault: the loop is not told.                                            *)
MarkDestroyed_Untold(stk) == stk

MarkDestroyed(stk) ==
    [i \in DOMAIN stk |-> IF stk[i] = "recv" THEN "recv_destroyed" ELSE stk[i]]

Destroy ==
    /\ Calling
    /\ NotConnecting
    /\ Shutdown("left")
    /\ alive' = FALSE
    /\ stack' = MarkDestroyed(stack)
    /\ UNCHANGED <<m_session_is_dead, connects, accepted, wire, closing>>

Operation ==
    SendPDU \/ CloseSession \/ AppShutdown \/ IdleTime \/ Connect \/ Destroy

----------------------------------------------------------------------------
(* The socket manager, by its interface: with no handler running and       *)
(* nothing queued, it gathers what the poll reports for the entry.         *)
Gather ==
    /\ stack = <<>>
    /\ registered
    /\ pending = {}
    /\ pending' \in ((SUBSET (mask \cup {"except"})) \ {{}})
                    \cup (IF timed THEN {{"timeout"}} ELSE {})
    /\ UNCHANGED <<assocVars, m_session_is_dead, alive, sockVars, stack,
                   connects, historyVars>>

(* socketNotify.  Each action is one case of it.                           *)
Notified == alive /\ stack = <<>> /\ pending # {}

NotifyUnchanged == UNCHANGED <<m_session_is_dead, alive, connects, accepted,
                               closing>>

(* An exception ends the session, except while connecting.                 *)
NotifyExcept ==
    /\ Notified
    /\ "except" \in pending /\ state # "Connecting"
    /\ ShutdownAndFail("lost", <<>>)
    /\ UNCHANGED wire
    /\ NotifyUnchanged

NotifyTimeout ==
    /\ Notified
    /\ "timeout" \in pending
    /\ pending' = {}
    /\ stack' = <<"timeout">>
    /\ UNCHANGED <<assocVars, sockVars, wire, partial, ending>>
    /\ NotifyUnchanged

(* The event reaches the switch on the state.                              *)
Switch(st) ==
    /\ Notified
    /\ state = st
    /\ "timeout" \notin pending
    /\ "except" \in pending => st = "Connecting"

(* cs_accept fails, is complete, or needs another event.                   *)
NotifyAccepting ==
    /\ Switch("Accepting")
    /\ \/ ShutdownAndFail("lost", <<>>) /\ UNCHANGED wire
       \/ FlushPDU([Here EXCEPT !.state = "Ready", !.cs = "up",
                                !.pending = {}])
       \/ /\ \E want \in Wants : Ask(want)
          /\ pending' = {}
          /\ UNCHANGED <<assocVars, stack, wire, partial, ending>>
    /\ NotifyUnchanged

(* cs_rcvconnect needs another event; any other result, failure included,  *)
(* makes the association Ready and calls connectNotify.                    *)
NotifyConnecting ==
    /\ Switch("Connecting")
    /\ pending' = {}
    /\ \/ (\E want \in Wants : Ask(want)) /\ UNCHANGED <<state, cs, stack>>
       \/ /\ state' = "Ready"
          /\ cs' \in {"up", "broken"}
          /\ stack' = <<"connect">>
          /\ UNCHANGED sockVars
    /\ UNCHANGED <<queue_out, wire, partial, ending>>
    /\ NotifyUnchanged

(* Input is not read before the queue is written.                          *)
NotifyWriting ==
    /\ Switch("Writing")
    /\ FlushPDU([Here EXCEPT !.pending = {}])
    /\ NotifyUnchanged

(* cs_get: nothing complete yet, a failure, or a PDU for recv_PDU.         *)
NotifyReady ==
    /\ Switch("Ready")
    /\ \/ ShutdownAndFail("lost", <<>>)
       \/ /\ cs = "up"
          /\ pending' = {}
          /\ \/ (\E want \in Wants : Ask(want)) /\ UNCHANGED stack
             \/ stack' = <<"recv">> /\ UNCHANGED sockVars
          /\ UNCHANGED <<assocVars, partial, ending>>
    /\ UNCHANGED wire
    /\ NotifyUnchanged

(* The event that follows a cs_connect that failed at once.                *)
NotifyClosed ==
    /\ Switch("Closed")
    /\ ShutdownAndFail("lost", <<>>)
    /\ UNCHANGED wire
    /\ NotifyUnchanged

SocketNotify ==
    \/ NotifyExcept \/ NotifyTimeout
    \/ NotifyAccepting \/ NotifyConnecting
    \/ NotifyWriting \/ NotifyReady \/ NotifyClosed

----------------------------------------------------------------------------
(* Callbacks return.                                                       *)

Returning(frame) == stack # <<>> /\ Head(stack) = frame

(* failNotify and timeoutNotify are the last things their callers do.      *)
ReturnPlain ==
    /\ Returning("fail") \/ Returning("timeout")
    /\ stack' = Tail(stack)
    /\ UNCHANGED <<assocVars, m_session_is_dead, alive, sockVars, pending,
                   connects, historyVars>>

(* The loop around recv_PDU ends when cs_more finds no further PDU; until  *)
(* then the frame stays for the next one.                                  *)
ReturnRecv ==
    /\ Returning("recv")
    /\ stack' = Tail(stack)
    /\ IF cs # "none" /\ state = "Ready" THEN Ask({"read"})
       ELSE UNCHANGED sockVars
    /\ UNCHANGED <<assocVars, m_session_is_dead, alive, pending, connects,
                   historyVars>>

(* "it really was destroyed, return now".                                  *)
ReturnRecvDestroyed ==
    /\ Returning("recv_destroyed")
    /\ stack' = Tail(stack)
    /\ UNCHANGED <<assocVars, m_session_is_dead, alive, sockVars, pending,
                   connects, historyVars>>

(* connectNotify is followed by flush_PDU.                                 *)
ReturnConnect ==
    /\ Returning("connect")
    /\ FlushPDU([Here EXCEPT !.stack = Tail(stack)])
    /\ NotifyUnchanged

Return == ReturnPlain \/ ReturnRecv \/ ReturnRecvDestroyed \/ ReturnConnect

----------------------------------------------------------------------------
Next == Operation \/ Gather \/ SocketNotify \/ Return

Spec == Init /\ [][Next]_vars

(* processEvent is called again and again and callbacks return; and the    *)
(* peer keeps reading, so that its socket becomes writable and takes a     *)
(* whole PDU again and again.                                              *)
PeerReads ==
    /\ SF_vars(Gather /\ "write" \in pending')
    /\ SF_vars(SocketNotify /\ wire' # wire)

Fairness ==
    /\ WF_vars(SocketNotify)
    /\ WF_vars(Return)

FairSpec == Spec /\ Fairness /\ PeerReads

----------------------------------------------------------------------------
(* Properties.                                                             *)

Endings == {"never", "open", "lost", "closed", "silent", "left"}

TypeOK ==
    /\ state \in States
    /\ cs \in {"none", "opening", "up", "broken"}
    /\ queue_out \in Seq(Nat)
    /\ m_session_is_dead \in BOOLEAN
    /\ alive \in BOOLEAN
    /\ registered \in BOOLEAN
    /\ mask \in SUBSET (RW \cup {"except"})
    /\ timed \in BOOLEAN
    /\ pending \in SUBSET (RW \cup {"except", "timeout"})
    /\ stack \in Seq(Frames)
    /\ connects \in Nat
    /\ accepted \in Nat
    /\ wire \in Seq(Nat)
    /\ partial \in Nat
    /\ closing \in BOOLEAN
    /\ ending \in Endings

(* PDUs neither overtake each other nor get lost or written twice: what is *)
(* written and what is queued are together all PDUs the connection         *)
(* accepted, in the order of the calls of send_PDU, from whatever callback *)
(* they were made.                                                         *)
OrderKept ==
    ending = "open" => wire \o queue_out = [i \in 1 .. accepted |-> i]

(* The rest of a PDU that cs_put has written in part is the next thing     *)
(* written: it stays in front of the queue until it is complete or the     *)
(* connection is shut down.                                                *)
PartialFirst ==
    partial # 0 =>
        /\ state = "Writing"
        /\ queue_out # <<>> /\ Head(queue_out) = partial

(* The COMSTACK, the entry in the socket manager and the state go          *)
(* together: flush_PDU and socketNotify use cs without a test in every     *)
(* state but Closed, and after shutdown nothing is queued and no event may *)
(* come.                                                                   *)
ClosedIsClean ==
    /\ registered <=> cs # "none"
    /\ cs = "none" => /\ state = "Closed"
                      /\ queue_out = <<>>
                      /\ pending = {}

(* No callback returns into a handler that goes on to use a deleted        *)
(* association (the "destroyed" flag around recv_PDU).                     *)
NoUseAfterFree ==
    ~alive => \A i \in DOMAIN stack : stack[i] \notin {"recv", "connect"}

(* While Writing the association has something to write and waits for the  *)
(* socket to become writable, also when the loop around recv_PDU goes on   *)
(* reading in that state.                                                  *)
WritingWaits ==
    state = "Writing" => queue_out # <<>> /\ "write" \in mask

(* Between two events a registered association waits for reading or for    *)
(* writing, and not only for an exception that may never come.             *)
NotDeaf == registered /\ stack = <<>> => mask \cap RW # {}

(* A graceful close loses nothing: when close_session has taken effect all *)
(* PDUs accepted on the connection were written.                           *)
CloseLosesNothing ==
    ending \in {"closed", "silent"} => wire = [i \in 1 .. accepted |-> i]

FailNotified ==
    /\ stack' # <<>> /\ Head(stack') = "fail"
    /\ \/ Len(stack') > Len(stack)
       \/ Len(stack') = Len(stack) /\ Head(stack) # "fail"

(* failNotify is called for a connection that was open and is now shut     *)
(* down, hence once for each; only close_session calls it for one that is  *)
(* closed already.                                                         *)
FailedOnce ==
    [][FailNotified =>
           /\ cs' = "none"
           /\ \/ ending = "open" /\ ending' \in {"lost", "closed"}
              \/ CloseSession]_vars

(* As long as the peer reads, whatever was accepted is written or the      *)
(* connection ends.                                                        *)
QueueIsWritten ==
    (ending = "open" /\ Len(wire) < accepted)
        ~> (ending # "open" \/ Len(wire) = accepted)

(* As long as the peer reads, close_session ends the session.              *)
CloseCompletes == (closing /\ ending = "open") ~> (ending # "open" \/ ~closing)

(* The association implements the interface IPDU_Observable.               *)
Observable == INSTANCE IPduObservable WITH
    phase <- IF ending = "silent" THEN "closed" ELSE ending

ImplementsPduObservable == Observable!Spec
=============================================================================
