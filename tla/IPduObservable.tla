--------------------------- MODULE IPduObservable ---------------------------
(***************************************************************************)
(* What the interface IPDU_Observable (pdu-observer.h) promises to the     *)
(* application that sends PDUs: the PDUs of a connection leave it once and *)
(* in the order they were sent; a connection may be lost at any time, but  *)
(* one that close_session closes has first written all that was accepted,  *)
(* and no connection is closed that way without close_session having been  *)
(* called on it.                                                           *)
(***************************************************************************)
EXTENDS Integers, Sequences

VARIABLES
    phase,     \* "never", "open", or how the connection ended: "lost",
               \* "closed" (by close_session) or "left" (by the application)
    accepted,  \* how many PDUs were accepted; they are numbered 1, 2, ...
    wire,      \* the PDUs written
    closing    \* close_session was called

vars == <<phase, accepted, wire, closing>>

Init ==
    /\ phase \in {"never", "open"}
    /\ accepted = 0 /\ wire = <<>> /\ closing = FALSE

(* A step of an open connection may also end it.                           *)
Settle ==
    \/ phase' \in {"open", "lost", "left"}
    \/ phase' = "closed" /\ closing' /\ Len(wire') = accepted'

WriteNext == wire' = Append(wire, Len(wire) + 1)

(* A PDU is accepted, and written at once if none waits before it.         *)
Send ==
    /\ phase = "open"
    /\ accepted' = accepted + 1
    /\ \/ wire' = wire
       \/ Len(wire) = accepted /\ WriteNext
    /\ UNCHANGED closing
    /\ Settle

Write ==
    /\ phase = "open"
    /\ Len(wire) < accepted
    /\ WriteNext
    /\ UNCHANGED <<accepted, closing>>
    /\ Settle

End ==
    /\ phase = "open"
    /\ UNCHANGED <<accepted, wire, closing>>
    /\ Settle

CloseSession ==
    /\ closing' = TRUE
    /\ UNCHANGED <<accepted, wire>>
    /\ IF phase = "open" THEN Settle ELSE UNCHANGED phase

Connect ==
    /\ phase' \in {"never", "open"}
    /\ accepted' = 0 /\ wire' = <<>> /\ closing' = FALSE

Next == Send \/ Write \/ End \/ CloseSession \/ Connect

Spec == Init /\ [][Next]_vars
=============================================================================
