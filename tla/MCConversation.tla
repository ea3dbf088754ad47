--------------------------- MODULE MCConversation ---------------------------
(***************************************************************************)
(* Instances of Conversation for TLC: a host with databases and one        *)
(* without, and requests of a foreign client of every kind that the server *)
(* tells apart, two of them with a reference id.                           *)
(***************************************************************************)
EXTENDS Conversation

MCHosts == {[name |-> "a", databases |-> "A"],
            [name |-> "b", databases |-> NoValue]}

Foreigner(kind, body) == CreatePDU(kind, body)

MCForeignRequests ==
    {[Foreigner("initRequest", [versions |-> {0, 2}]) EXCEPT !.ref = "ref"],
     [Foreigner("searchRequest", [databases |-> "A"]) EXCEPT !.ref = "ref"],
     Foreigner("presentRequest", [number |-> 1]),
     Foreigner("extendedServicesRequest", [task |-> "itemOrder"]),
     Foreigner("extendedServicesRequest", [task |-> "update"]),
     Foreigner("extendedServicesRequest", [task |-> NoValue]),
     Foreigner("sortRequest", NoValue),
     Foreigner("http", NoValue),
     Foreigner("garbage", NoValue)}
=============================================================================
