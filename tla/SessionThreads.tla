--------------------------- MODULE SessionThreads ---------------------------
(***************************************************************************)
(* A server that runs each session in a thread (PDU_AssocThread, and the   *)
(* -T option of yaz-my-server.cpp).                                        *)
(*                                                                         *)
(* A session has a SocketManager and an association of its own; neither is *)
(* known to the listener once its thread was created.  The listener's      *)
(* thread is the one that runs main().  What a thread does between two     *)
(* steps is not seen by the others.                                        *)
(***************************************************************************)
EXTENDS Naturals

CONSTANTS
    Sessions,  \* connections that clients make
    Nobody     \* no session

ASSUME NobodyIsNone == Nobody \notin Sessions

VARIABLES
    session,   \* what there is of each session: see NoSession
    client,    \* its client: "none", "connected" or "gone"
    accepting, \* the session that childNotify is at work for, or Nobody
    main       \* main(): "runs", or "returned"

threadsVars == <<session, client, accepting, main>>

(* The manager of a session, its association ("enlisted" with the manager  *)
(* as long as it exists), its observer, and its thread.                    *)
NoSession ==
    [manager |-> "none", assoc |-> "none", object |-> "none", thread |-> "none"]

ThreadsInit ==
    /\ session = [s \in Sessions |-> NoSession]
    /\ client = [s \in Sessions |-> "none"]
    /\ accepting = Nobody
    /\ main = "runs"

----------------------------------------------------------------------------
(* The listener's thread, in childNotify.                                  *)
Connect(s) ==
    /\ client[s] = "none" /\ main = "runs"
    /\ client' = [client EXCEPT ![s] = "connected"]
    /\ UNCHANGED <<session, accepting, main>>

Disconnect(s) ==
    /\ client[s] = "connected"
    /\ client' = [client EXCEPT ![s] = "gone"]
    /\ UNCHANGED <<session, accepting, main>>

(* A new manager, and an association that enlists itself with it.          *)
ChildNotify(s) ==
    /\ main = "runs" /\ accepting = Nobody
    /\ client[s] # "none" /\ session[s] = NoSession
    /\ session' = [session EXCEPT ![s].manager = "lives", ![s].assoc = "enlisted"]
    /\ accepting' = s
    /\ UNCHANGED <<client, main>>

(* sessionNotify returns an observer.                                      *)
Observed(s) ==
    /\ accepting = s /\ session[s].object = "none"
    /\ session' = [session EXCEPT ![s].object = "lives"]
    /\ UNCHANGED <<client, accepting, main>>

(* Fault: the manager of a refused session stays.                          *)
Refused_ManagerStays(s) ==
    /\ accepting = s /\ session[s].object = "none"
    /\ session' = [session EXCEPT ![s].assoc = "deleted"]
    /\ accepting' = Nobody
    /\ UNCHANGED <<client, main>>

(* sessionNotify refuses: association and manager are deleted.             *)
Refused(s) ==
    /\ accepting = s /\ session[s].object = "none"
    /\ session' = [session EXCEPT ![s].assoc = "deleted",
                                  ![s].manager = "deleted"]
    /\ accepting' = Nobody
    /\ UNCHANGED <<client, main>>

(* Fault: the thread is created before sessionNotify is called.            *)
CreateThread_Early(s) ==
    /\ accepting = s /\ session[s].thread = "none"
    /\ session' = [session EXCEPT ![s].thread = "runs"]
    /\ accepting' = IF session[s].object = "none" THEN s ELSE Nobody
    /\ UNCHANGED <<client, main>>

(* pthread_create: events() runs the worker.                               *)
CreateThread(s) ==
    /\ accepting = s /\ session[s].object # "none"
    /\ session' = [session EXCEPT ![s].thread = "runs"]
    /\ accepting' = Nobody
    /\ UNCHANGED <<client, main>>

(* pthread_create fails: that is logged, and nothing is cleaned up.        *)
CreateThreadFails(s) ==
    /\ accepting = s /\ session[s].object # "none"
    /\ session' = [session EXCEPT ![s].thread = "failed"]
    /\ accepting' = Nobody
    /\ UNCHANGED <<client, main>>

(* The listener is shut down: processEvent returns 0, main() deletes the   *)
(* server and returns, and the process ends whatever its threads do.       *)
MainReturns ==
    /\ main = "runs" /\ accepting = Nobody
    /\ main' = "returned"
    /\ UNCHANGED <<session, client, accepting>>

----------------------------------------------------------------------------
(* The thread of a session.                                                *)

(* Fault: that a client has gone ends nothing.                             *)
SessionEnds_Unnoticed(s) ==
    /\ main = "runs" /\ session[s].thread = "runs"
    /\ session[s].assoc = "enlisted" /\ client[s] = "connected"
    /\ session' = [session EXCEPT ![s].assoc = "deleted",
                                  ![s].object = "deleted"]
    /\ UNCHANGED <<client, accepting, main>>

(* An event that ends the session: the client has gone, it sent what is    *)
(* no request, or nothing for 900 seconds.  Where the association shuts    *)
(* itself down, failNotify follows at once; the observer deletes itself,   *)
(* and with itself the association.                                        *)
SessionEnds(s) ==
    /\ main = "runs" /\ session[s].thread = "runs"
    /\ session[s].assoc = "enlisted"
    /\ session' = [session EXCEPT ![s].assoc = "deleted",
                                  ![s].object = "deleted"]
    /\ UNCHANGED <<client, accepting, main>>

(* Nothing is enlisted with the manager: processEvent returns 0, and the   *)
(* worker deletes the manager.                                             *)
ThreadEnds(s) ==
    /\ main = "runs" /\ session[s].thread = "runs"
    /\ session[s].assoc # "enlisted"
    /\ session' = [session EXCEPT ![s].thread = "ended",
                                  ![s].manager = "deleted"]
    /\ UNCHANGED <<client, accepting, main>>

----------------------------------------------------------------------------
Listener(s) ==
    ChildNotify(s) \/ Observed(s) \/ Refused(s)
    \/ CreateThread(s) \/ CreateThreadFails(s)

ThreadsNext ==
    \/ \E s \in Sessions :
         Connect(s) \/ Disconnect(s) \/ Listener(s)
         \/ SessionEnds(s) \/ ThreadEnds(s)
    \/ MainReturns

(* Every thread goes on, and the event that a client has gone arrives.     *)
ThreadsFairness ==
    \A s \in Sessions :
        /\ WF_threadsVars(Listener(s))
        /\ WF_threadsVars(client[s] = "gone" /\ SessionEnds(s))
        /\ WF_threadsVars(ThreadEnds(s))

ThreadsSpec == ThreadsInit /\ [][ThreadsNext]_threadsVars /\ ThreadsFairness

----------------------------------------------------------------------------
Lives(x) == x \in {"lives", "enlisted"}

Left(s) ==
    \/ Lives(session[s].manager) \/ Lives(session[s].assoc)
    \/ Lives(session[s].object)

(* Whoever uses a session finds what it needs: an association that exists  *)
(* has its manager, with which it is enlisted; an observer has its         *)
(* association; a thread has a manager and, while events can arrive, an    *)
(* observer to notify (worker::run, destroy).                              *)
NothingDangles ==
    \A s \in Sessions :
        LET x == session[s]
        IN /\ Lives(x.assoc) => Lives(x.manager)
           /\ Lives(x.object) => Lives(x.assoc)
           /\ x.thread = "runs" => Lives(x.manager)
           /\ x.thread = "runs" /\ Lives(x.assoc) => Lives(x.object)

(* What is left of a session can still be deleted: by its thread, or by    *)
(* childNotify.  Only a session whose thread was never created is left     *)
(* with nobody (childNotify, worker::run).                                 *)
NothingStranded ==
    \A s \in Sessions : Left(s) =>
        accepting = s \/ session[s].thread \in {"runs", "failed"}

(* A session whose client has gone comes to an end and leaves nothing,     *)
(* unless there is no thread for it, or the process ends.                  *)
SessionsEnd ==
    \A s \in Sessions :
        (client[s] = "gone" /\ Left(s))
        ~> (~Left(s) \/ session[s].thread = "failed" \/ main = "returned")
=============================================================================
