------------------------------ MODULE ZServer ------------------------------
(***************************************************************************)
(* The sessions of a Z_Server with its facilities (yaz-z-server.cpp,       *)
(* yaz-z-server-ill.cpp, yaz-z-server-update.cpp, recv of the retrieval    *)
(* facility), as yaz-my-server.cpp sets them up.                           *)
(*                                                                         *)
(* A session object deletes itself when its connection fails, when it is   *)
(* idle for 900 seconds, and when it gets something that no facility takes.*)
(* What a response holds is the subject of Retrieval; here it is made for  *)
(* a request, or cannot be encoded.                                        *)
(***************************************************************************)
EXTENDS Connections

VARIABLE
    session  \* per connection: the object ("none", "lives", "gone"), its
             \* timer ("off", "set"), its encoder ("ok", "error"), and as
             \* history the requests handled and the responses sent

NoSession ==
    [object |-> "none", timer |-> "off", encoder |-> "ok",
     handled |-> <<>>, sent |-> <<>>]

InitServer == session = [l \in Lines |-> NoSession]

(* Fault: the session is set up without its timer.                         *)
SessionNotify_NoTimer == [NoSession EXCEPT !.object = "lives"]

(* sessionNotify: a new server object with timeout(900) and the facilities.*)
SessionNotify == [NoSession EXCEPT !.object = "lives", !.timer = "set"]

(* failNotify: "delete this", which also closes the connection.            *)
FailNotify(s) == [s EXCEPT !.object = "gone", !.timer = "off"]

----------------------------------------------------------------------------
(* The facilities, in the order in which they are asked.                   *)
Facilities == <<"retrieval", "ill", "update">>

(* recv of a facility returns nonzero for these.                           *)
RetrievalTakes(r) == r.kind \in {"searchRequest", "presentRequest"}

IllTakes(r) == r.kind = "extendedServicesRequest" /\ r.body.task = "itemOrder"

UpdateTakes(r) ==
    r.kind = "extendedServicesRequest" /\ r.body.task \in {"update", "update0"}

Takes(f, r) == CASE f = "retrieval" -> RetrievalTakes(r)
                 [] f = "ill" -> IllTakes(r)
                 [] f = "update" -> UpdateTakes(r)

TakenBy(r) == {f \in DOMAIN Facilities : Takes(Facilities[f], r)}

(* The response to a request: what create_Z_PDU makes for it, with the     *)
(* reference id of the request.                                            *)
ResponseKind(kind) ==
    CASE kind = "initRequest" -> "initResponse"
      [] kind = "searchRequest" -> "searchResponse"
      [] kind = "presentRequest" -> "presentResponse"
      [] kind = "extendedServicesRequest" -> "extendedServicesResponse"

Response(r, body) ==
    [TransferReferenceId(r, CreatePDU(ResponseKind(r.kind), body))
        EXCEPT !.id = r.id]

(* What a response may say: a present has up to the number of records      *)
(* asked for; an init grants the versions asked for.                       *)
Bodies(r) ==
    CASE r.kind = "presentRequest" ->
           [records : 0 .. r.body.number]
      [] r.kind = "initRequest" -> {[granted |-> r.body.versions]}
      [] OTHER -> {NoValue}

----------------------------------------------------------------------------
(* The history of a session.                                               *)
Handles(s, r) == [s EXCEPT !.handled = Append(s.handled, r)]

Sends(s, a) == [s EXCEPT !.sent = Append(s.sent, a)]

(* A connection is accepted.                                               *)
Accept(l) ==
    /\ peer[l] = "open" /\ session[l].object = "none"
    /\ session' = [session EXCEPT ![l] = SessionNotify]
    /\ UNCHANGED wires

(* recv_PDU reads the next request: it may be no PDU at all, or not        *)
(* Z39.50, or nothing that a facility takes; then the session is gone.     *)
Refuse(l) ==
    /\ session[l].object = "lives" /\ up[l] # <<>>
    /\ LET r == Head(up[l])
       IN /\ \/ r.kind \in {"garbage", "http"}
             \/ r.kind # "initRequest" /\ TakenBy(r) = {}
          /\ session' = [session EXCEPT ![l] = FailNotify(Handles(@, r))]
    /\ up' = [up EXCEPT ![l] = Tail(@)]
    /\ UNCHANGED <<peer, down>>

(* An initRequest is answered by the server itself; every other request by *)
(* the first facility that takes it.  A response that cannot be encoded    *)
(* leaves the encoder in error: it and all later ones are lost, and the    *)
(* result of send_Z_PDU is ignored.  send_PDU to a client that has gone    *)
(* may fail, and calls failNotify.                                         *)
Answer(l) ==
    /\ session[l].object = "lives" /\ up[l] # <<>>
    /\ LET r == Head(up[l])
           s == Handles(session[l], r)
       IN /\ r.kind \notin {"garbage", "http"}
          /\ r.kind = "initRequest" \/ TakenBy(r) # {}
          /\ \/ /\ session' = [session EXCEPT ![l] = [s EXCEPT !.encoder = "error"]]
                /\ UNCHANGED down
             \/ /\ s.encoder = "ok"
                /\ \E body \in Bodies(r) :
                     LET response == Response(r, body)
                     IN \/ /\ session' = [session EXCEPT ![l] =
                                               Sends(s, response)]
                           /\ down' = IF peer[l] = "closed" THEN down
                                      ELSE [down EXCEPT ![l] =
                                                Append(@, response)]
                        \/ /\ peer[l] = "closed"
                           /\ session' = [session EXCEPT ![l] = FailNotify(s)]
                           /\ UNCHANGED down
    /\ up' = [up EXCEPT ![l] = Tail(@)]
    /\ UNCHANGED peer

(* Fault: failNotify for a lost connection forgets to delete the session.   *)
PeerCloses_Forgets(l) ==
    /\ session[l].object = "lives" /\ peer[l] = "closed"
    /\ session' = [session EXCEPT ![l].timer = "off"]
    /\ UNCHANGED wires

(* The client has closed its end, with or without requests left to read.   *)
PeerCloses(l) ==
    /\ session[l].object = "lives" /\ peer[l] = "closed"
    /\ session' = [session EXCEPT ![l] = FailNotify(@)]
    /\ UNCHANGED wires

(* timeoutNotify after 900 seconds without an event.                       *)
IdleTimeout(l) ==
    /\ session[l].object = "lives" /\ session[l].timer = "set"
    /\ up[l] = <<>> /\ peer[l] # "closed"
    /\ session' = [session EXCEPT ![l] = FailNotify(@)]
    /\ UNCHANGED wires

ServerStep(l) ==
    \/ Accept(l) \/ Refuse(l) \/ Answer(l) \/ PeerCloses(l) \/ IdleTimeout(l)
=============================================================================
