----------------------------- MODULE Retrieval -----------------------------
(***************************************************************************)
(* The retrieval facility of a Z39.50 server (yaz-z-server-sr.cpp): init   *)
(* sets the sizes that responses have to respect, a search may return      *)
(* records at once (piggyback), and presents fetch the rest.               *)
(* pack_records asks the application for one record after the other and    *)
(* stops when the response is full.                                        *)
(*                                                                         *)
(* The client is modelled too: it searches once, and then asks for records *)
(* from the first one that it has not got.  Sizes are in arbitrary units;  *)
(* a record is its position and how it is returned.                        *)
(***************************************************************************)
EXTENDS Ints, ListOps

CONSTANTS
    N,          \* the largest result set
    Sizes,      \* what a record may allocate on the encoding stream
    Overhead,   \* what a response allocates before its first record
    DiagSize,   \* what a surrogate diagnostic allocates
    Offers,     \* message and record sizes that a client offers in init
    Unset,      \* values of the members of the facility before any init
    MaxLost     \* bound on responses that are not sent, for TLC

ASSUME RetrievalConstants ==
    /\ N \in Nat
    /\ Sizes \subseteq Nat \ {0}
    /\ Overhead \in Nat /\ DiagSize \in Nat
    /\ Offers \subseteq Nat
    /\ Unset \subseteq (-IntMax - 1) .. IntMax
    /\ MaxLost \in Nat

VARIABLES
    preferred,  \* m_preferredMessageSize
    maximum,    \* m_maximumRecordSize
    offer,      \* what init offered, <<>> before any
    sizes,      \* size of each record; 0 if sr_record finds none
    hits,       \* the result count, -1 before the search
    phase,      \* "idle", "packing", or "packed" when pack_records is left
    start,      \* position of the first record asked for
    toget,      \* number of records asked for
    list,       \* the records packed so far
    next,       \* nextResultSetPosition
    status,     \* presentStatus: "success", "partial" or "failure"
    total,      \* odr_total of the encoding stream
    dumped,     \* dumped_records
    encoder,    \* "ok", or "error" once a response could not be encoded
    at,         \* the first position the client has not got an answer for
    lost,       \* responses that were not sent
    \* History of the response, for the properties only:
    base,       \* total when pack_records started
    packed      \* total after the record packed last

sessionVars  == <<preferred, maximum, offer>>
resultVars   == <<sizes, hits>>
requestVars  == <<start, toget>>
responseVars == <<list, next, status>>
streamVars   == <<total, dumped, encoder, base, packed>>
clientVars   == <<at, lost>>
vars == <<sessionVars, resultVars, phase, requestVars, responseVars,
          streamVars, clientVars>>

(* A record is returned as it is, or a surrogate diagnostic in its place:  *)
(* 14, 17 or 16.                                                           *)
Kinds == {"record", "missing", "over_maximum", "over_preferred"}

Entry(recno, kind) == [pos |-> recno, kind |-> kind]

Init ==
    /\ preferred \in Unset /\ maximum \in Unset
    /\ offer = <<>>
    /\ sizes \in [1 .. N -> Sizes \cup {0}]
    /\ hits = -1
    /\ phase = "idle"
    /\ start = 1 /\ toget = 0
    /\ list = <<>> /\ next = 0 /\ status = "success"
    /\ total = 0 /\ dumped = 0 /\ base = 0 /\ packed = 0
    /\ encoder = "ok"
    /\ at = 1
    /\ lost = 0

----------------------------------------------------------------------------
(* init: what is too large for an int is not refused.                      *)
InitRequest ==
    /\ phase = "idle"
    /\ offer = <<>>
    /\ \E p, m \in Offers :
           /\ offer' = <<p, m>>
           /\ preferred' = ToInt(p)
           /\ maximum' = ToInt(m)
    /\ UNCHANGED <<resultVars, phase, requestVars, responseVars, streamVars,
                   clientVars>>

(* pack_records starts for n records from s on; the stream holds what the  *)
(* response has allocated, and more if an earlier one could not be encoded.*)
StartPacking(s, n) ==
    /\ phase' = "packing"
    /\ start' = s /\ toget' = n
    /\ list' = <<>> /\ next' = 0 /\ status' = "success"
    /\ total' = total + Overhead
    /\ dumped' = 0
    /\ base' = total + Overhead /\ packed' = base'
    /\ UNCHANGED encoder

(* Records that a search returns at once, by the bounds in the request.    *)
Piggyback(h, small, large, medium) ==
    IF h <= small THEN h
    ELSE IF h < large THEN Least(medium, h)
    ELSE 0

(* search, whose request has any bounds, with and without records.         *)
SearchRequest ==
    /\ phase = "idle"
    /\ hits = -1
    /\ hits' \in 0 .. N
    /\ \E small, medium \in 0 .. N, large \in 0 .. N + 1 :
           LET n == Piggyback(hits', small, large, medium) IN
           IF n # 0 THEN StartPacking(1, n)
           ELSE UNCHANGED <<phase, requestVars, responseVars, streamVars>>
    /\ UNCHANGED <<sessionVars, sizes, clientVars>>

(* The client presents n records from the first it does not have.          *)
PresentRequest(n) ==
    /\ phase = "idle"
    /\ at <= hits
    /\ StartPacking(at, n)
    /\ UNCHANGED <<sessionVars, resultVars, clientVars>>

(* sr_search or sr_present answers without records of its own choice, and  *)
(* the response is sent as it is.                                          *)
BackendAnswers ==
    /\ phase = "idle"
    /\ hits = -1 /\ hits' = 0
    /\ UNCHANGED <<sessionVars, sizes, phase, requestVars, responseVars,
                   streamVars, clientVars>>

----------------------------------------------------------------------------
(* One turn of the loop in pack_records.                                   *)
Recno == start + Len(list)

(* What sr_record finds at position i.                                     *)
Exists(i) == i \in 1 .. hits /\ sizes[i] # 0

Allocates(i) == IF Exists(i) THEN sizes[i] ELSE DiagSize

(* The stream after sr_record, and after diagnostic 14 if it gave nothing. *)
Allocated == total + Allocates(Recno)

TotalLength == Allocated - dumped
ThisLength == Allocated - TotalLength

(* Fault: a response that fills the preferred size exactly is too large.   *)
TooLong_OrEqual == ThisLength + TotalLength >= preferred

(* Fault: only the record is compared with the preferred size.             *)
TooLong_RecordOnly == ThisLength > preferred

TooLong == ThisLength + TotalLength > preferred

(* Fault: the position after the record is not counted.                    *)
Put_SamePosition(kind, allocated) ==
    /\ list' = Append(list, Entry(Recno, kind))
    /\ next' = Recno
    /\ total' = allocated
    /\ packed' = allocated

Put(kind, allocated) ==
    /\ list' = Append(list, Entry(Recno, kind))
    /\ next' = Recno + 1
    /\ total' = allocated
    /\ packed' = allocated

Packing ==
    /\ phase = "packing"
    /\ Len(list) < toget
    /\ UNCHANGED <<sessionVars, resultVars, requestVars, encoder, base,
                   clientVars>>

(* sr_record answers with a diagnostic for the whole response.             *)
PackFails ==
    /\ Packing
    /\ status' = "failure" /\ phase' = "packed"
    /\ list' = <<>>
    /\ UNCHANGED <<next, total, dumped, packed>>

(* "record is small enough, really": it is left for another response.      *)
PackStops ==
    /\ Packing
    /\ TooLong /\ ThisLength <= preferred
    /\ status' = "partial" /\ phase' = "packed"
    /\ total' = Allocated
    /\ UNCHANGED <<list, next, dumped, packed>>

(* "too big entirely", or too big for a response with others: a surrogate  *)
(* diagnostic replaces it.                                                 *)
PackSurrogate ==
    /\ Packing
    /\ TooLong /\ ThisLength > preferred
    /\ \/ /\ ThisLength >= maximum
          /\ Put("over_maximum", Allocated + DiagSize)
       \/ /\ ThisLength < maximum /\ toget > 1
          /\ Put("over_preferred", Allocated + DiagSize)
    /\ dumped' = dumped + ThisLength
    /\ UNCHANGED <<phase, status>>

(* It is packed, also if it is too long and was asked for by itself.       *)
PackRecord ==
    /\ Packing
    /\ TooLong =>
           ThisLength > preferred /\ ThisLength < maximum /\ toget <= 1
    /\ Put(IF Exists(Recno) THEN "record" ELSE "missing", Allocated)
    /\ UNCHANGED <<phase, status, dumped>>

PackTurn == PackStops \/ PackSurrogate \/ PackRecord

(* pack_records is left, and the response can be sent.                     *)
Finished ==
    \/ phase = "packed"
    \/ phase = "packing" /\ Len(list) = toget

(* send_Z_PDU encodes the response and resets the stream; the client goes  *)
(* on after the records it got.                                            *)
Respond ==
    /\ Finished
    /\ encoder = "ok"
    /\ phase' = "idle"
    /\ total' = 0
    /\ at' = at + Len(list)
    /\ UNCHANGED <<sessionVars, resultVars, requestVars, responseVars,
                   dumped, encoder, base, packed, lost>>

(* The response does not encode, or an earlier one did not: encode_GDU     *)
(* returns before it resets the stream, which stays in error and keeps     *)
(* what it has.  Nothing is sent.  The client gives up waiting and asks    *)
(* again.                                                                  *)
RespondFails ==
    /\ Finished
    /\ lost < MaxLost
    /\ lost' = lost + 1
    /\ encoder' = "error"
    /\ phase' = "idle"
    /\ UNCHANGED <<sessionVars, resultVars, requestVars, responseVars,
                   total, dumped, base, packed, at>>

----------------------------------------------------------------------------
NextPresent == \E n \in 1 .. N : PresentRequest(n)

Next ==
    \/ InitRequest \/ SearchRequest \/ BackendAnswers
    \/ PresentRequest(0) \/ NextPresent
    \/ PackFails \/ PackTurn \/ Respond \/ RespondFails

Spec == Init /\ [][Next]_vars

(* The server answers, the application fails a finite number of times, and *)
(* the client asks again and again for the records that it is missing.     *)
FairSpec ==
    /\ Spec
    /\ WF_vars(PackTurn)
    /\ WF_vars(Respond)
    /\ <>[][~PackFails]_vars
    /\ SF_vars(NextPresent)

----------------------------------------------------------------------------
(* Properties.                                                             *)

TypeOK ==
    /\ {preferred, maximum} \subseteq (-IntMax - 1) .. IntMax
    /\ offer \in {<<>>} \cup (Offers \X Offers)
    /\ sizes \in [1 .. N -> Sizes \cup {0}]
    /\ hits \in -1 .. N
    /\ phase \in {"idle", "packing", "packed"}
    /\ start \in Nat \ {0} /\ toget \in 0 .. N
    /\ list \in Seq([pos : Nat, kind : Kinds])
    /\ next \in Nat
    /\ status \in {"success", "partial", "failure"}
    /\ {total, base, packed} \subseteq Nat
    /\ dumped \in Int
    /\ encoder \in {"ok", "error"}
    /\ at \in Nat \ {0}
    /\ lost \in 0 .. MaxLost

(* Whatever the requests were, a response with records never allocates     *)
(* more than the preferred message size, if that is a size at all.         *)
ResponseFits ==
    phase # "idle" /\ preferred >= 0 /\ list # <<>> => packed <= preferred

(* Reference: the stream after the first k records of the response.        *)
BytesUpTo ==
    Sums(base, [k \in 1 .. toget |-> Allocates(start + k - 1)], toget)

Fitting ==
    {k \in 0 .. toget : \A j \in 1 .. k : BytesUpTo[j] <= preferred}

(* A response takes all records asked for that fit, and is partial exactly *)
(* if that are not all.                                                    *)
TakesWhatFits ==
    Finished /\ status # "failure" /\ preferred >= 0 =>
        /\ Len(list) \in Fitting
        /\ \A k \in Fitting : k <= Len(list)
        /\ status = "partial" <=> Len(list) < toget

(* The records of a response are those at the positions asked for, in      *)
(* order and without a gap, and nextResultSetPosition is the position      *)
(* after them.                                                             *)
PositionsFollow ==
    phase # "idle" /\ status # "failure" =>
        /\ \A i \in DOMAIN list : list[i].pos = start + i - 1
        /\ next = IF list = <<>> THEN 0 ELSE start + Len(list)

(* If each record fits a response by itself in the size that init has set, *)
(* a client that goes on after what it got receives the whole result set,  *)
(* through partial and failed responses, unless a response of the session  *)
(* does not encode: after that there are no responses any more.            *)
RecordsFit ==
    /\ offer # <<>>
    /\ \A i \in 1 .. hits : Overhead + Allocates(i) <= preferred

PagingEnds == (1 <= hits /\ RecordsFit) ~> (at > hits \/ encoder = "error")

(* The comments in pack_records say "record can only be fetched by itself":*)
(* a record below the maximum record size is returned to a client that     *)
(* asks for nothing else.                                                  *)
FetchedByItself ==
    Finished /\ status # "failure" /\ offer # <<>> /\ toget = 1
        /\ Exists(start) /\ sizes[start] < maximum
    => list = <<Entry(start, "record")>>
=============================================================================
