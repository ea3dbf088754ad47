------------------------------ MODULE MyClient ------------------------------
(***************************************************************************)
(* The line-mode client (yaz-my-client.cpp) on IR_Assoc (yaz-ir-assoc.cpp).*)
(* It reads a command, sends a request and runs the event loop in wait()   *)
(* until something was received, the connection was made or lost, or no    *)
(* socket is left.  Between commands it does not look at its connection.   *)
(*                                                                         *)
(* close() marks the association as dead, and nothing ever clears that     *)
(* mark (PDU_Assoc::close_session, flush_PDU).                             *)
(***************************************************************************)
EXTENDS Connections

CONSTANTS
    Hosts,        \* arguments of open: records with a name and databases
    MaxCommands   \* bound on commands

ASSUME HostsAreGiven == NoValue \notin Hosts
ASSUME CommandsBound == MaxCommands \in Nat

VARIABLE
    c  \* the client, a record: see InitClient

(* MyClient's constructor and main().  "wait" says what the event loop     *)
(* runs for: nothing ("prompt"), a connection ("connect", "open") or an    *)
(* answer ("answer"); "line" is the connection in use, 0 for none; "got"   *)
(* and "asked" (history) are the last received and the last sent request's *)
(* number, "opened" the host and the way by which each connection was made.*)
InitClient ==
    c = [wait |-> "prompt", line |-> 0, dead |-> FALSE, used |-> 0,
         lastReceived |-> "none", host |-> NoValue, databases |-> "Default",
         proxy |-> FALSE, commands |-> 0, asked |-> 0, got |-> 0,
         opened |-> [l \in Lines |-> NoValue]]

(* shutdown() of the association of client d, before it goes on as e.      *)
Shutdown(d, e) ==
    IF d.line = 0 THEN c' = e /\ UNCHANGED wires
    ELSE c' = [e EXCEPT !.line = 0] /\ Hangup(d.line) /\ UNCHANGED up

(* failNotify, and back at the prompt: wait() returns for it, or because   *)
(* no socket is left.                                                      *)
Failed(d) == [d EXCEPT !.lastReceived = "fail", !.wait = "prompt"]

----------------------------------------------------------------------------
(* Sending.  A request can be lost with the connection only if the other   *)
(* end is gone: "lost" is what the server's side says of that.             *)

(* send_initRequest: through a proxy it names the host to connect to.      *)
InitRequest(d) ==
    LET r == CreatePDU("initRequest", [versions |-> 0..2])
    IN IF d.proxy /\ d.host # NoValue THEN SetProxied(r, d.host.name) ELSE r

(* send_searchRequest, with the databases of set_databaseNames.            *)
SearchRequest(d) ==
    CreatePDU("searchRequest", [databases |-> d.databases])

(* send_presentRequest.                                                    *)
PresentRequest(number) == CreatePDU("presentRequest", [number |-> number])

(* Fault: an answer that was received before ends the wait.                *)
Wait_Stale(d, for) ==
    IF d.lastReceived \in {"none", "connect", "fail"}
    THEN [d EXCEPT !.wait = for, !.lastReceived = "none"]
    ELSE [d EXCEPT !.wait = "prompt"]

(* wait(): m_lastReceived is cleared, and the event loop runs.             *)
Wait(d, for) == [d EXCEPT !.wait = for, !.lastReceived = "none"]

(* send_Z_PDU with a connection, and wait() for the answer.                *)
SendAndWait(d, r) ==
    LET n == d.asked + 1
    IN /\ c' = Wait([d EXCEPT !.asked = n], "answer")
       /\ up' = [up EXCEPT ![d.line] = Append(@, [r EXCEPT !.id = n])]

----------------------------------------------------------------------------
(* The commands.                                                           *)
AtPrompt == c.wait = "prompt" /\ c.commands < MaxCommands

Typed == [c EXCEPT !.commands = @ + 1]

(* Fault: the databases of the host are set when it has answered.          *)
Client_LateDatabases(d, h) == [d EXCEPT !.host = h]

(* IR_Assoc::client: a host without databases leaves the earlier ones.     *)
Client(d, h) ==
    [d EXCEPT !.host = h,
              !.databases = IF h.databases = NoValue THEN @ ELSE h.databases]

(* open and connect, and the host among the arguments of main(): the old   *)
(* connection is shut down first.  An address that cannot be used leaves   *)
(* none, and nobody is told; the wait ends as no socket is left.           *)
OpenRefused(h) ==
    /\ AtPrompt
    /\ Shutdown(c, Client(Typed, h))

Open(h, for) ==
    /\ AtPrompt /\ c.used < MaxLines
    /\ LET l == c.used + 1
           d == Client(Typed, h)
       IN /\ c' = Wait([d EXCEPT !.line = l, !.used = l,
                                 !.opened[l] = [host |-> h, proxy |-> d.proxy]],
                       for)
          /\ peer' = [k \in Lines |-> IF k = l THEN "dialling"
                                      ELSE IF k = c.line THEN "closed"
                                      ELSE peer[k]]
          /\ down' = [k \in Lines |-> IF k = c.line THEN <<>> ELSE down[k]]
          /\ UNCHANGED up

(* close(): close_session shuts the connection down and calls failNotify.  *)
(* Only connect gives the association its observer: before the first one   *)
(* close_session calls through a null pointer, and the program ends.       *)
Closed(d) ==
    IF c.host = NoValue THEN [d EXCEPT !.wait = "quit"]
    ELSE Failed([d EXCEPT !.dead = TRUE])

(* A command that sends r; "lost" if the send finds the connection gone.   *)
(* With no connection the send fails; init then calls close().             *)
Ask(r, d, lost) ==
    \/ /\ c.line # 0
       /\ SendAndWait(d, r)
       /\ UNCHANGED <<peer, down>>
    \/ c.line # 0 /\ lost /\ Shutdown(c, Failed(d))
    \/ c.line = 0 /\ c' = d /\ UNCHANGED wires

InitCommand(lost) ==
    /\ AtPrompt
    /\ \/ /\ c.line # 0
          /\ SendAndWait(Typed, InitRequest(c))
          /\ UNCHANGED <<peer, down>>
       \/ /\ c.line = 0 \/ lost
          /\ Shutdown(c, Closed(Typed))

(* A query that set_rpn cannot parse is not sent.                          *)
Find(lost) ==
    /\ AtPrompt
    /\ \/ Ask(SearchRequest(c), Typed, lost)
       \/ c' = Typed /\ UNCHANGED wires

Show(lost) ==
    /\ AtPrompt
    /\ \E number \in 1..2 : Ask(PresentRequest(number), Typed, lost)

Close ==
    /\ AtPrompt
    /\ Shutdown(c, Closed(Typed))

Proxy ==
    /\ AtPrompt /\ ~c.proxy
    /\ c' = [Typed EXCEPT !.proxy = TRUE]
    /\ UNCHANGED wires

(* quit, or the end of the input: the association is destroyed.            *)
Quit ==
    /\ c.wait = "prompt"
    /\ Shutdown(c, [c EXCEPT !.wait = "quit"])

----------------------------------------------------------------------------
(* Events in wait().                                                       *)
Waiting == c.wait \in {"connect", "open", "answer"}

(* After the connection was made or not, "open" sends an initRequest and   *)
(* waits for the answer; without a connection the send fails and the       *)
(* second wait ends at once.                                               *)
AfterConnect(d) ==
    IF c.wait = "open"
    THEN SendAndWait([d EXCEPT !.wait = "prompt"], InitRequest(d))
    ELSE c' = [d EXCEPT !.wait = "prompt"] /\ UNCHANGED up

(* The connect ends, and connectNotify is called whether or not it was     *)
(* successful ("lost" if not).  flush_PDU follows, and closes the          *)
(* association if it is dead.                                              *)
ConnectNotify(made) ==
    /\ Waiting /\ c.line # 0 /\ peer[c.line] = "dialling"
    /\ \/ /\ c.dead
          /\ Shutdown(c, Failed(c))
       \/ /\ ~c.dead
          /\ AfterConnect([c EXCEPT !.lastReceived = "connect"])
          /\ peer' = [peer EXCEPT ![c.line] = IF made THEN "open" ELSE "broken"]
          /\ UNCHANGED down

(* The connect failed at once, or the initRequest that open sends does.    *)
ConnectFails ==
    /\ Waiting /\ c.line # 0 /\ peer[c.line] = "dialling"
    /\ Shutdown(c, Failed(c))

(* timeoutNotify, 10 seconds after open or connect: close().               *)
ConnectTimeout ==
    /\ Waiting /\ c.line # 0 /\ peer[c.line] = "dialling"
    /\ Shutdown(c, Failed([c EXCEPT !.dead = TRUE]))

(* recv_Z_PDU: m_lastReceived.  The records are printed and forgotten.     *)
RecvPDU ==
    /\ c.wait = "answer" /\ down[c.line] # <<>>
    /\ LET a == Head(down[c.line])
       IN c' = [c EXCEPT !.wait = "prompt", !.lastReceived = a.kind,
                         !.got = a.id]
    /\ down' = [down EXCEPT ![c.line] = Tail(@)]
    /\ UNCHANGED <<peer, up>>

(* The connection is closed by the other end, or was never made.           *)
ConnectionClosed(lost) ==
    /\ c.wait = "answer" /\ lost
    /\ Shutdown(c, Failed(c))

ClientCommand(lost) ==
    \/ \E h \in Hosts : OpenRefused(h) \/ Open(h, "connect") \/ Open(h, "open")
    \/ InitCommand(lost) \/ Find(lost) \/ Show(lost)
    \/ Close \/ Proxy \/ Quit

ClientEvent(lost) ==
    \/ ConnectNotify(TRUE) \/ ConnectNotify(FALSE)
    \/ ConnectFails \/ ConnectTimeout \/ RecvPDU \/ ConnectionClosed(lost)
=============================================================================
