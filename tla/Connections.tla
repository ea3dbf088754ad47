---------------------------- MODULE Connections ----------------------------
(***************************************************************************)
(* The connections between clients and a server, and what is under way on  *)
(* them.  Each is used once: a new connect takes the next number.          *)
(***************************************************************************)
EXTENDS Apdu

CONSTANT MaxLines  \* bound on connections

ASSUME LinesBound == MaxLines \in Nat \ {0}

Lines == 1 .. MaxLines

VARIABLES
    peer,  \* the client's end: "unused", "dialling", "open", "broken" (the
           \* connect failed, and nobody has noticed) or "closed"
    up,    \* requests under way to the server
    down   \* responses under way to the client

wires == <<peer, up, down>>

InitWires ==
    /\ peer = [l \in Lines |-> "unused"]
    /\ up = [l \in Lines |-> <<>>]
    /\ down = [l \in Lines |-> <<>>]

(* The client's end is closed: it will read nothing more.  The requests    *)
(* that it sent may still arrive.                                          *)
Hangup(l) ==
    /\ peer' = [peer EXCEPT ![l] = "closed"]
    /\ down' = [down EXCEPT ![l] = <<>>]
=============================================================================
