---------------------------- MODULE Conversation ----------------------------
(***************************************************************************)
(* The sample client and the sample server with the network between them;  *)
(* or, instead of the sample client, a foreign one that sends what it      *)
(* likes, without waiting for answers.                                     *)
(***************************************************************************)
EXTENDS ZServer, MyClient, FiniteSets

CONSTANTS
    ForeignRequests,  \* what a foreign client may send
    MaxForeign        \* bound on how much of it

vars == <<wires, session, c>>

Foreign == c.wait = "foreign"

Init ==
    /\ InitWires
    /\ InitServer
    /\ InitClient

(* The other end of the client's connection is gone.                       *)
Lost ==
    c.line # 0 /\ (peer[c.line] = "broken" \/ session[c.line].object = "gone")

(* Not the sample client, but another one connects.                        *)
ForeignConnect ==
    /\ c.commands = 0 /\ c.wait = "prompt"
    /\ c' = [c EXCEPT !.wait = "foreign", !.line = 1]
    /\ peer' = [peer EXCEPT ![1] = "open"]
    /\ UNCHANGED <<up, down>>

ForeignSend ==
    /\ Foreign /\ peer[1] = "open" /\ c.asked < MaxForeign
    /\ \E r \in ForeignRequests :
         up' = [up EXCEPT ![1] = Append(@, [r EXCEPT !.id = c.asked + 1])]
    /\ c' = [c EXCEPT !.asked = @ + 1]
    /\ UNCHANGED <<peer, down>>

ForeignClose ==
    /\ Foreign /\ peer[1] = "open"
    /\ Hangup(1)
    /\ UNCHANGED <<up, c>>

Server == \E l \in Lines : ServerStep(l) /\ UNCHANGED c

ClientWaits == ClientEvent(Lost) /\ UNCHANGED session

Next ==
    \/ Server
    \/ ClientWaits
    \/ ClientCommand(Lost) /\ UNCHANGED session
    \/ (ForeignConnect \/ ForeignSend \/ ForeignClose) /\ UNCHANGED session

(* Both event loops deliver the events that are there, among them that the *)
(* other end has closed and that a timer has run out.  Nothing makes the   *)
(* user type, or a foreign client send or close.                           *)
Fairness ==
    /\ \A l \in Lines : WF_vars(ServerStep(l) /\ UNCHANGED c)
    /\ WF_vars(ClientWaits)

Spec == Init /\ [][Next]_vars /\ Fairness

----------------------------------------------------------------------------
(* The variables have their types, and the client's connection is one that *)
(* it opened and has not closed.                                           *)
TypeOK ==
    /\ c.wait \in {"prompt", "connect", "open", "answer", "quit", "foreign"}
    /\ c.line \in 0 .. MaxLines /\ c.used \in 0 .. MaxLines
    /\ c.line # 0 => peer[c.line] # "unused"
    /\ c.wait \in {"connect", "open", "answer"} =>
         c.line # 0 /\ peer[c.line] # "closed"
    /\ c.commands \in 0 .. MaxCommands
    /\ \A l \in Lines :
         /\ peer[l] \in {"unused", "dialling", "open", "broken", "closed"}
         /\ session[l].object \in {"none", "lives", "gone"}

(* A client has one connection at most, the one that it uses: the others   *)
(* that it made are closed, whatever the commands and failures between     *)
(* them, and a session of the server belongs to a connection that was made *)
(* (PDU_Assoc::connect and shutdown, PDU_Assoc::listen).                   *)
OneConnection ==
    \A l \in Lines :
        /\ l # c.line => peer[l] \in {"unused", "closed"}
        /\ session[l].object # "none" => peer[l] \in {"open", "closed"}

(* Each response of a session is for the request in its place: requests    *)
(* are answered in order and once, with the kind and the reference id that *)
(* belong to them.  Only an encoder in error and a session that is gone    *)
(* owe an answer (recv_Z_PDU of Z_Server, recv of the facilities).         *)
AnswersKeepOrder ==
    \A l \in Lines :
        LET s == session[l]
        IN /\ Len(s.sent) <= Len(s.handled)
           /\ \A i \in DOMAIN s.sent :
                LET q == s.handled[i]
                    a == s.sent[i]
                IN /\ a.id = q.id /\ a.ref = q.ref
                   /\ a.kind = ResponseKind(q.kind)
           /\ Len(s.sent) < Len(s.handled) =>
                s.encoder = "error" \/ s.object = "gone"

(* What ends a wait of the client is the answer to the request it waits    *)
(* for, never a late one: the client looks at nothing but m_lastReceived.  *)
AnswerFits ==
    c.wait = "prompt" /\ c.lastReceived \notin {"none", "connect", "fail"}
    => c.got = c.asked

(* A search names the databases of the host that its connection was opened *)
(* for, if the host had any, and an initRequest on a connection through a  *)
(* proxy names that host (IR_Assoc::client, send_initRequest).             *)
RequestsNameTheirHost ==
    ~Foreign => \A l \in Lines : \A i \in DOMAIN up[l] :
        LET r == up[l][i]
            h == c.opened[l].host
        IN /\ r.kind = "searchRequest" /\ h.databases # NoValue =>
                r.body.databases = h.databases
           /\ r.kind = "initRequest" /\ c.opened[l].proxy =>
                r.proxied = h.name

(* The client comes back to its prompt: the server's answer, its failure,  *)
(* the 10 seconds of open or the 900 seconds of an idle session end every  *)
(* wait, also when the answer could not be encoded.                        *)
WaitEnds == Waiting ~> c.wait = "prompt"

(* No session outlives its client's connection for ever.                   *)
SessionsEnd ==
    \A l \in Lines :
        (session[l].object = "lives" /\ peer[l] = "closed")
        ~> session[l].object = "gone"

=============================================================================
