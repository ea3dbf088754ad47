-------------------------------- MODULE Apdu --------------------------------
(***************************************************************************)
(* What Z_Assoc (yaz-z-assoc.cpp) knows about APDUs: which of them have a  *)
(* reference id and which have room for other information.  An APDU is a   *)
(* record: its kind, its reference id, the host it names for a proxy, and  *)
(* a body that depends on the kind.  "id" (history) numbers the requests;  *)
(* a response has the number of the request it was made for.               *)
(***************************************************************************)
EXTENDS Naturals, Sequences

CONSTANT NoValue  \* a null pointer

(* get_referenceIdP: the kinds for which it returns a place.               *)
ReferenceKinds ==
    {"initRequest", "initResponse", "searchRequest", "searchResponse",
     "presentRequest", "presentResponse", "deleteResultSetRequest",
     "deleteResultSetResponse", "accessControlRequest",
     "accessControlResponse", "resourceControlRequest",
     "resourceControlResponse", "triggerResourceControlRequest",
     "resourceReportRequest", "resourceReportResponse", "scanRequest",
     "scanResponse", "sortRequest", "sortResponse", "segmentRequest",
     "extendedServicesRequest", "extendedServicesResponse", "close"}

(* get_otherInfoAPDU: the kinds that can carry other information.          *)
OtherInfoKinds ==
    {"initRequest", "searchRequest", "presentRequest", "sortRequest",
     "scanRequest", "extendedServicesRequest", "deleteResultSetRequest",
     "initResponse", "searchResponse", "presentResponse", "sortResponse",
     "scanResponse", "extendedServicesResponse", "deleteResultSetResponse"}

(* create_Z_PDU.                                                           *)
CreatePDU(kind, body) ==
    [kind |-> kind, ref |-> NoValue, proxied |-> NoValue, id |-> 0,
     body |-> body]

(* Fault: the id of the request is not transferred.                        *)
TransferReferenceId_Dropped(from, to) == to

(* transfer_referenceId: the response gets the id of the request, or none. *)
TransferReferenceId(from, to) ==
    IF to.kind \notin ReferenceKinds THEN to
    ELSE [to EXCEPT !.ref = IF from.kind \in ReferenceKinds THEN from.ref
                            ELSE NoValue]

(* set_otherInformationString, for the user information of a proxy.        *)
SetProxied(apdu, host) ==
    IF apdu.kind \in OtherInfoKinds THEN [apdu EXCEPT !.proxied = host]
    ELSE apdu
=============================================================================
