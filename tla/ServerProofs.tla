---------------------------- MODULE ServerProofs ----------------------------
(***************************************************************************)
(* Theorems about what a server has around its associations: Retrieval,    *)
(* LimitConnect with TimeStat, and SessionThreads.                         *)
(***************************************************************************)
EXTENDS Retrieval, LimitConnect, SessionThreads, ListOpsProofs

(***************************************************************************)
(* Retrieval, for all result sets, sizes and offers.                       *)
(*                                                                         *)
(* ResponseFits rests on what the arithmetic of pack_records comes to:     *)
(* this_length is dumped_records, and dumped_records stays 0 as long as    *)
(* the preferred size is not negative (NothingDumped).  Then no surrogate  *)
(* is put for a record that is too long, and what is packed is within the  *)
(* preferred size.  TakesWhatFits needs, besides, what the stream has while*)
(* records are packed (PackingInv).                                        *)
(***************************************************************************)

(* With a preferred size that is not negative nothing is ever dumped.      *)
NothingDumped == phase = "packing" /\ preferred >= 0 => dumped = 0

RetrievalInv == TypeOK /\ NothingDumped /\ ResponseFits /\ PositionsFollow

(* Sizes stay sizes: what one record allocates on the stream.              *)
LEMMA AllocatesNat ==
    ASSUME TypeOK, NEW i \in Int
    PROVE  Allocates(i) \in Nat
  <1>1. N \in Nat /\ Sizes \subseteq Nat /\ DiagSize \in Nat
    BY RetrievalConstants DEF RetrievalConstants
  <1>2. hits \in -1 .. N /\ sizes \in [1 .. N -> Sizes \cup {0}]
    BY DEF TypeOK
  <1>3. CASE Exists(i)
    <2>1. i \in 1 .. N
      BY <1>1, <1>2, <1>3 DEF Exists
    <2>2. sizes[i] \in Sizes \cup {0}
      BY <1>2, <2>1, Zenon
    <2>3. \A v \in Sizes \cup {0} : v \in Nat
      BY <1>1
    <2>4. sizes[i] \in Nat
      BY <2>2, <2>3, Zenon
    <2> QED
      BY <1>3, <2>4 DEF Allocates
  <1>4. CASE ~Exists(i)
    BY <1>1, <1>4 DEF Allocates
  <1> QED
    BY <1>3, <1>4

(* this_length is dumped_records, whatever was allocated.                  *)
LEMMA ThisLengthIsDumped ==
    ASSUME TypeOK
    PROVE  /\ Allocated \in Nat
           /\ ThisLength = dumped
           /\ TooLong <=> Allocated > preferred
  <1>1. Allocates(Recno) \in Nat
    <2>1. Recno \in Int
      <3>1. start \in Nat /\ Len(list) \in Nat
        BY DEF TypeOK
      <3> QED
        BY <3>1 DEF Recno
    <2> QED
      BY <2>1, AllocatesNat
  <1>2. Allocated \in Nat /\ dumped \in Int /\ preferred \in Int
    BY <1>1 DEF TypeOK, Allocated
  <1> QED
    BY <1>2 DEF ThisLength, TotalLength, TooLong

(* A conversion to int gives an int.                                       *)
LEMMA ToIntRange ==
    ASSUME NEW x \in Int
    PROVE  ToInt(x) \in (-IntMax - 1) .. IntMax
  <1> DEFINE w == 2 * IntMax + 2
             r == (x + IntMax + 1) % w
  <1>1. w \in Nat /\ w > 0 /\ x + IntMax + 1 \in Int
    BY IntMaxIsNat
  <1>2. r \in 0 .. (w - 1)
    <2> HIDE DEF w
    <2> QED BY <1>1, SMTT(30)
  <1>3. ToInt(x) = r - (IntMax + 1)
    BY DEF ToInt
  <1> QED
    <2> HIDE DEF r
    <2> QED BY <1>2, <1>3, IntMaxIsNat

(* What Put leaves of the list and the position after it.                  *)
LEMMA PutKeeps ==
    ASSUME TypeOK, PositionsFollow, phase = "packing", status # "failure",
           Len(list) < toget,
           NEW kind \in Kinds, NEW allocated \in Nat,
           Put(kind, allocated), start' = start
    PROVE  /\ list' \in Seq([pos : Nat, kind : Kinds]) /\ list' # <<>>
           /\ next' \in Nat /\ total' \in Nat /\ packed' = allocated
           /\ \A i \in DOMAIN list' : list'[i].pos = start' + i - 1
           /\ next' = start' + Len(list')
  <1> DEFINE Entries == [pos : Nat, kind : Kinds]
             e == Entry(Recno, kind)
  <1>1. start \in Nat /\ list \in Seq(Entries) /\ Len(list) \in Nat
    BY DEF TypeOK
  <1>2. e \in Entries /\ e.pos = start + Len(list)
    BY <1>1 DEF Entry, Recno
  <1>3. list' = Append(list, e) /\ next' = Recno + 1
        /\ total' = allocated /\ packed' = allocated
    BY DEF Put
  <1> HIDE DEF e, Entries
  <1>4. /\ list' \in Seq(Entries) /\ list' # <<>>
        /\ Len(list') = Len(list) + 1
        /\ DOMAIN list' = 1 .. Len(list) + 1
        /\ \A i \in 1 .. Len(list) : list'[i] = list[i]
        /\ list'[Len(list) + 1] = e
    BY <1>1, <1>2, <1>3
  <1>5. \A i \in 1 .. Len(list) : list[i].pos = start + i - 1
    BY <1>1 DEF PositionsFollow
  <1>6. ASSUME NEW i \in DOMAIN list'
        PROVE  list'[i].pos = start' + i - 1
    <2>1. CASE i \in 1 .. Len(list)
      BY <1>4, <1>5, <2>1
    <2>2. CASE i = Len(list) + 1
      BY <1>1, <1>2, <1>4, <2>2
    <2> QED
      BY <1>1, <1>4, <2>1, <2>2
  <1>7. next' = start' + Len(list') /\ next' \in Nat
    BY <1>1, <1>3, <1>4 DEF Recno
  <1> QED
    BY <1>3, <1>4, <1>6, <1>7 DEF Entries

(* While pack_records runs nothing has gone wrong yet.                     *)
Running == phase = "packing" => status # "failure"

(* Nothing is packed at first.                                             *)
LEMMA RetrievalInvInit == Init => RetrievalInv /\ Running
  <1> SUFFICES ASSUME Init PROVE RetrievalInv /\ Running
    OBVIOUS
  <1>1. {preferred, maximum} \subseteq (-IntMax - 1) .. IntMax
    BY RetrievalConstants DEF RetrievalConstants, Init
  <1>2. sizes \in [1 .. N -> Sizes \cup {0}]
    BY DEF Init
  <1>3. TypeOK
    BY <1>1, <1>2, RetrievalConstants DEF RetrievalConstants, Init, TypeOK
  <1> QED
    BY <1>3 DEF RetrievalInv, Running, Init, NothingDumped, ResponseFits,
                PositionsFollow

(* A response is begun with nothing packed.                                *)
LEMMA StartKeeps ==
    ASSUME RetrievalInv, NEW s \in Nat \ {0}, NEW n \in 0 .. N,
           StartPacking(s, n),
           hits' \in -1 .. N,
           UNCHANGED <<sessionVars, sizes, clientVars>>
    PROVE  RetrievalInv' /\ Running'
  <1>1. total + Overhead \in Nat
    BY RetrievalConstants DEF RetrievalConstants, RetrievalInv, TypeOK
  <1>2. TypeOK'
    BY <1>1 DEF RetrievalInv, TypeOK, StartPacking, sessionVars, clientVars
  <1> QED
    BY <1>2 DEF RetrievalInv, Running, StartPacking, NothingDumped,
                ResponseFits, PositionsFollow

(* One step for each action of the server and of the client.               *)
LEMMA RetrievalInvNext ==
    RetrievalInv /\ Running /\ [Next]_vars => RetrievalInv' /\ Running'
  <1> SUFFICES ASSUME RetrievalInv, Running, [Next]_vars
               PROVE  RetrievalInv' /\ Running'
    OBVIOUS
  <1> USE DEF RetrievalInv
  <1>0. N \in Nat /\ DiagSize \in Nat /\ Offers \subseteq Nat
    BY RetrievalConstants DEF RetrievalConstants
  <1>1. CASE InitRequest
    <2>1. PICK p \in Offers, m \in Offers :
              /\ offer' = <<p, m>>
              /\ preferred' = ToInt(p) /\ maximum' = ToInt(m)
      BY <1>1 DEF InitRequest
    <2>2. {preferred, maximum}' \subseteq (-IntMax - 1) .. IntMax
      BY <1>0, <2>1, ToIntRange
    <2>3. TypeOK'
      BY <1>1, <2>1, <2>2 DEF InitRequest, TypeOK, resultVars, requestVars,
                              responseVars, streamVars, clientVars
    <2>4. phase' = "idle"
      BY <1>1 DEF InitRequest
    <2> QED
      BY <2>3, <2>4 DEF Running, NothingDumped, ResponseFits, PositionsFollow
  <1>2. CASE SearchRequest
    <2>1. PICK small \in 0 .. N, medium \in 0 .. N, large \in 0 .. N + 1 :
              LET n == Piggyback(hits', small, large, medium) IN
              IF n # 0 THEN StartPacking(1, n)
              ELSE UNCHANGED <<phase, requestVars, responseVars, streamVars>>
      BY <1>2 DEF SearchRequest
    <2> DEFINE n == Piggyback(hits', small, large, medium)
    <2>2. hits' \in 0 .. N /\ UNCHANGED <<sessionVars, sizes, clientVars>>
          /\ phase = "idle"
      BY <1>2 DEF SearchRequest
    <2>3. n \in 0 .. N
      BY <1>0, <2>2 DEF Piggyback, Least
    <2>4. hits' \in -1 .. N
      BY <1>0, <2>2
    <2>5. CASE n # 0
      BY <2>1, <2>2, <2>3, <2>4, <2>5, StartKeeps
    <2>6. CASE n = 0
      <3>1. UNCHANGED <<phase, requestVars, responseVars, streamVars>>
        BY <2>1, <2>6
      <3>2. TypeOK'
        BY <2>2, <2>4, <3>1 DEF TypeOK, sessionVars, requestVars,
                                responseVars, streamVars, clientVars
      <3> QED
        BY <2>2, <3>1, <3>2 DEF Running, NothingDumped, ResponseFits,
                                PositionsFollow
    <2> QED
      BY <2>5, <2>6
  <1>3. ASSUME NEW n \in 0 .. N, PresentRequest(n)
        PROVE  RetrievalInv' /\ Running'
    <2>1. at \in Nat \ {0} /\ hits \in -1 .. N
      BY DEF TypeOK
    <2>2. StartPacking(at, n) /\ hits' = hits
          /\ UNCHANGED <<sessionVars, sizes, clientVars>>
      BY <1>3 DEF PresentRequest, resultVars
    <2> QED
      BY <2>1, <2>2, StartKeeps
  <1>4. CASE BackendAnswers
    <2>1. phase = "idle" /\ phase' = "idle"
      BY <1>4 DEF BackendAnswers
    <2>2. TypeOK'
      BY <1>0, <1>4 DEF BackendAnswers, TypeOK, sessionVars, requestVars,
                        responseVars, streamVars, clientVars
    <2> QED
      BY <2>1, <2>2 DEF Running, NothingDumped, ResponseFits, PositionsFollow
  <1>5. CASE PackFails
    <2>1. TypeOK'
      BY <1>5 DEF PackFails, Packing, TypeOK, sessionVars, resultVars,
                  requestVars, clientVars
    <2> QED
      BY <1>5, <2>1 DEF PackFails, Running, NothingDumped, ResponseFits,
                        PositionsFollow
  <1>6. CASE PackStops
    <2>1. TypeOK'
      BY <1>6, ThisLengthIsDumped
         DEF PackStops, Packing, TypeOK, sessionVars, resultVars,
             requestVars, clientVars
    <2> QED
      BY <1>6, <2>1
         DEF PackStops, Packing, Running, NothingDumped, ResponseFits,
             PositionsFollow, sessionVars, requestVars
  <1>7. CASE PackSurrogate
    <2>1. PICK kind \in {"over_maximum", "over_preferred"} :
              Put(kind, Allocated + DiagSize)
      BY <1>7 DEF PackSurrogate
    <2>2. /\ Allocated + DiagSize \in Nat
          /\ ThisLength = dumped /\ dumped \in Int /\ preferred \in Int
          /\ ThisLength > preferred
      BY <1>0, <1>7, ThisLengthIsDumped DEF TypeOK, PackSurrogate
    <2>3. /\ phase = "packing" /\ phase' = phase /\ status' = status
          /\ dumped' = dumped + ThisLength
          /\ Len(list) < toget
          /\ UNCHANGED <<sessionVars, resultVars, requestVars, encoder,
                         base, clientVars>>
      BY <1>7 DEF PackSurrogate, Packing
    <2>4. start' = start /\ kind \in Kinds /\ status # "failure"
      BY <2>3 DEF requestVars, Kinds, Running
    <2>5. /\ list' \in Seq([pos : Nat, kind : Kinds]) /\ list' # <<>>
          /\ next' \in Nat /\ total' \in Nat
          /\ packed' = Allocated + DiagSize
          /\ \A i \in DOMAIN list' : list'[i].pos = start' + i - 1
          /\ next' = start' + Len(list')
      BY <2>1, <2>2, <2>3, <2>4, PutKeeps
    <2>6. TypeOK'
      BY <2>2, <2>3, <2>5
         DEF TypeOK, sessionVars, resultVars, requestVars, clientVars
    <2>7. ~(preferred >= 0)
      BY <2>2, <2>3 DEF NothingDumped
    <2> QED
      BY <2>3, <2>4, <2>5, <2>6, <2>7
         DEF Running, NothingDumped, ResponseFits, PositionsFollow,
             sessionVars
  <1>8. CASE PackRecord
    <2> DEFINE kind == IF Exists(Recno) THEN "record" ELSE "missing"
    <2>1. Put(kind, Allocated)
      BY <1>8 DEF PackRecord
    <2>2. /\ Allocated \in Nat
          /\ ThisLength = dumped
          /\ TooLong <=> Allocated > preferred
      BY ThisLengthIsDumped
    <2>3. /\ phase = "packing" /\ phase' = phase /\ status' = status
          /\ dumped' = dumped
          /\ Len(list) < toget
          /\ UNCHANGED <<sessionVars, resultVars, requestVars, encoder,
                         base, clientVars>>
      BY <1>8 DEF PackRecord, Packing
    <2>4. start' = start /\ kind \in Kinds /\ status # "failure"
      BY <2>3 DEF requestVars, Kinds, Running
    <2>5. /\ list' \in Seq([pos : Nat, kind : Kinds]) /\ list' # <<>>
          /\ next' \in Nat /\ total' \in Nat /\ packed' = Allocated
          /\ \A i \in DOMAIN list' : list'[i].pos = start' + i - 1
          /\ next' = start' + Len(list')
      <3> HIDE DEF kind
      <3> QED
        BY <2>1, <2>2, <2>3, <2>4, PutKeeps
    <2>6. TypeOK'
      BY <2>2, <2>3, <2>5
         DEF TypeOK, sessionVars, resultVars, requestVars, clientVars
    <2>7. preferred >= 0 => Allocated <= preferred
      <3>1. preferred \in Int /\ dumped \in Int
        BY DEF TypeOK
      <3>2. TooLong => ThisLength > preferred
        BY <1>8 DEF PackRecord
      <3> QED
        BY <2>2, <2>3, <3>1, <3>2 DEF NothingDumped
    <2> QED
      BY <2>3, <2>4, <2>5, <2>6, <2>7
         DEF Running, NothingDumped, ResponseFits, PositionsFollow,
             sessionVars
  <1>9. CASE Respond
    <2>1. at + Len(list) \in Nat \ {0}
      BY DEF TypeOK
    <2>2. TypeOK'
      BY <1>9, <2>1 DEF Respond, TypeOK, sessionVars, resultVars,
                        requestVars, responseVars
    <2> QED
      BY <1>9, <2>2 DEF Respond, Running, NothingDumped, ResponseFits,
                        PositionsFollow
  <1>10. CASE RespondFails
    <2>1. lost + 1 \in 0 .. MaxLost
      BY <1>10, RetrievalConstants
         DEF RetrievalConstants, RespondFails, TypeOK
    <2>2. TypeOK'
      BY <1>10, <2>1 DEF RespondFails, TypeOK, sessionVars, resultVars,
                         requestVars, responseVars, streamVars
    <2> QED
      BY <1>10, <2>2 DEF RespondFails, Running, NothingDumped, ResponseFits,
                         PositionsFollow
  <1>11. CASE UNCHANGED vars
    <2>1. TypeOK'
      BY <1>11 DEF vars, TypeOK, sessionVars, resultVars, requestVars,
                   responseVars, streamVars, clientVars
    <2> QED
      BY <1>11, <2>1
         DEF vars, sessionVars, requestVars, responseVars, streamVars,
             Running, NothingDumped, ResponseFits, PositionsFollow
  <1>12. (\E n \in 1 .. N : PresentRequest(n)) => RetrievalInv' /\ Running'
    BY <1>0, <1>3
  <1>13. PresentRequest(0) => RetrievalInv' /\ Running'
    BY <1>0, <1>3
  <1> QED
    BY <1>1, <1>2, <1>4, <1>5, <1>6, <1>7, <1>8, <1>9, <1>10, <1>11, <1>12,
       <1>13
    DEF Next, NextPresent, PackTurn

(* The invariant holds for every result set, every size and every client.  *)
LEMMA RetrievalInvariance == Spec => []RetrievalInv
  <1> USE DEF Spec
  <1>1. Init => RetrievalInv /\ Running
    BY RetrievalInvInit
  <1>2. RetrievalInv /\ Running /\ [Next]_vars => (RetrievalInv /\ Running)'
    BY RetrievalInvNext
  <1> QED
    BY <1>1, <1>2, PTL

(* Every variable keeps its type, and what init stores fits an int.        *)
THEOREM TypeCorrect == Spec => []TypeOK
  <1>1. RetrievalInv => TypeOK
    BY DEF RetrievalInv
  <1> QED
    BY <1>1, RetrievalInvariance, PTL

(* A response with records never exceeds the preferred message size.       *)
THEOREM ResponsesFit == Spec => []ResponseFits
  <1>1. RetrievalInv => ResponseFits
    BY DEF RetrievalInv
  <1> QED
    BY <1>1, RetrievalInvariance, PTL

(* A response holds the positions asked for, in order and without a gap.   *)
THEOREM PositionsAreKept == Spec => []PositionsFollow
  <1>1. RetrievalInv => PositionsFollow
    BY DEF RetrievalInv
  <1> QED
    BY <1>1, RetrievalInvariance, PTL

----------------------------------------------------------------------------
(* While records are packed, those that are in the list fit and are all    *)
(* that the stream has since the response was begun.                       *)
PackedSoFar ==
    phase = "packing" /\ preferred >= 0 =>
        /\ status = "success"
        /\ Len(list) \in Fitting
        /\ total = BytesUpTo[Len(list)]

(* If pack_records was left early, the next record would not fit.          *)
StoppedAtLimit ==
    phase = "packed" /\ status # "failure" /\ preferred >= 0 =>
        /\ status = "partial"
        /\ Len(list) \in Fitting /\ Len(list) < toget
        /\ BytesUpTo[Len(list) + 1] > preferred

PackingInv == PackedSoFar /\ StoppedAtLimit

(* The reference adds up what the records allocate, one after the other.   *)
LEMMA BytesStep ==
    TypeOK => /\ BytesUpTo \in [0 .. toget -> Int]
              /\ BytesUpTo[0] = base
              /\ \A k \in 0 .. toget - 1 :
                   BytesUpTo[k + 1] = BytesUpTo[k] + Allocates(start + k)
  <1> SUFFICES ASSUME TypeOK
               PROVE  /\ BytesUpTo \in [0 .. toget -> Int]
                      /\ BytesUpTo[0] = base
                      /\ \A k \in 0 .. toget - 1 :
                           BytesUpTo[k + 1]
                             = BytesUpTo[k] + Allocates(start + k)
    OBVIOUS
  <1> DEFINE x == [k \in 1 .. toget |-> Allocates(start + k - 1)]
  <1>1. base \in Int /\ toget \in Nat /\ start \in Nat
    BY RetrievalConstants DEF TypeOK, RetrievalConstants
  <1>2. \A i \in Int : Allocates(i) \in Int
    BY AllocatesNat
  <1>3. x \in [1 .. toget -> Int]
    BY <1>1, <1>2
  <1>4. \A k \in 0 .. toget - 1 : k + 1 \in 1 .. toget /\ (k + 1) - 1 = k
                                  /\ x[k + 1] = Allocates(start + k)
    <2> TAKE k \in 0 .. toget - 1
    <2>1. /\ k + 1 \in 1 .. toget /\ (k + 1) - 1 = k
          /\ start + (k + 1) - 1 = start + k
      BY <1>1
    <2> QED BY <2>1
  <1>5. BytesUpTo = Sums(base, x, toget)
    BY DEF BytesUpTo
  <1> HIDE DEF x
  <1>6. /\ Sums(base, x, toget) \in [0 .. toget -> Int]
        /\ Sums(base, x, toget)[0] = base
        /\ \A k \in 1 .. toget :
             Sums(base, x, toget)[k] = Sums(base, x, toget)[k - 1] + x[k]
    BY <1>1, <1>3, SumsSteps
  <1> QED BY <1>4, <1>5, <1>6

BytesBegin == BytesUpTo[0] = base

(* The reference begins with what the response allocates itself.           *)
LEMMA BytesBegins == TypeOK => BytesBegin
  BY BytesStep DEF BytesBegin

(* While a response is packed, its reference does not change.              *)
LEMMA BytesStay ==
    ASSUME UNCHANGED <<base, toget, start, hits, sizes, preferred>>
    PROVE  BytesUpTo' = BytesUpTo /\ Fitting' = Fitting
  <1>1. \A i : Allocates(i)' = Allocates(i)
    BY DEF Allocates, Exists
  <1>2. BytesUpTo' = BytesUpTo
    BY <1>1 DEF BytesUpTo
  <1> QED BY <1>2 DEF Fitting

(* Before any request nothing is claimed.                                  *)
LEMMA PackingInit == Init => PackingInv
  BY DEF Init, PackingInv, PackedSoFar, StoppedAtLimit

(* A response that is begun.                                               *)
LEMMA PackingBegins ==
    ASSUME TypeOK', phase' = "packing", list' = <<>>, status' = "success",
           total' = base'
    PROVE  PackingInv'
  <1>1. TypeOK' => BytesBegin'
    BY BytesBegins, PTL
  <1>2. toget' \in Nat /\ Len(list') = 0
    BY RetrievalConstants DEF TypeOK, RetrievalConstants
  <1>3. 0 \in Fitting'
    BY <1>2 DEF Fitting
  <1> QED BY <1>1, <1>2, <1>3
          DEF BytesBegin, PackingInv, PackedSoFar, StoppedAtLimit

(* One step for each action: only a turn of the loop needs an argument.    *)
LEMMA PackingNext ==
    RetrievalInv /\ Running /\ PackingInv /\ [Next]_vars /\ RetrievalInv'
      => PackingInv'
  <1> SUFFICES ASSUME RetrievalInv, Running, PackingInv, [Next]_vars,
                      RetrievalInv'
               PROVE  PackingInv'
    OBVIOUS
  <1>0. TypeOK /\ TypeOK' /\ NothingDumped
    BY DEF RetrievalInv
  <1>1. ASSUME phase' = "idle" PROVE PackingInv'
    BY <1>1 DEF PackingInv, PackedSoFar, StoppedAtLimit
  <1>2. ASSUME NEW s, NEW n, StartPacking(s, n) PROVE PackingInv'
    BY <1>0, <1>2, PackingBegins DEF StartPacking
  <1>3. CASE InitRequest \/ BackendAnswers \/ Respond \/ RespondFails
    BY <1>1, <1>3 DEF InitRequest, BackendAnswers, Respond, RespondFails
  <1>4. CASE SearchRequest
    <2>1. PICK small \in 0 .. N, medium \in 0 .. N, large \in 0 .. N + 1 :
              LET n == Piggyback(hits', small, large, medium) IN
              IF n # 0 THEN StartPacking(1, n)
              ELSE UNCHANGED <<phase, requestVars, responseVars, streamVars>>
      BY <1>4 DEF SearchRequest
    <2> QED BY <1>1, <1>2, <1>4, <2>1 DEF SearchRequest
  <1>5. ASSUME NEW n, PresentRequest(n) PROVE PackingInv'
    BY <1>2, <1>5 DEF PresentRequest
  <1>6. CASE PackFails
    BY <1>6 DEF PackFails, PackingInv, PackedSoFar, StoppedAtLimit
  <1>7. CASE UNCHANGED vars
    <2>1. BytesUpTo' = BytesUpTo /\ Fitting' = Fitting
      BY <1>7, BytesStay
         DEF vars, sessionVars, resultVars, requestVars, streamVars
    <2> QED BY <1>7, <2>1 DEF vars, sessionVars, responseVars, streamVars,
                          requestVars, PackingInv, PackedSoFar, StoppedAtLimit
  <1>8. CASE PackTurn
    <2>1. /\ phase = "packing" /\ Len(list) < toget
          /\ UNCHANGED <<sessionVars, resultVars, requestVars, base>>
      BY <1>8 DEF PackTurn, PackStops, PackSurrogate, PackRecord, Packing
    <2>2. /\ BytesUpTo' = BytesUpTo /\ Fitting' = Fitting
          /\ preferred' = preferred /\ toget' = toget
      BY <2>1, BytesStay DEF sessionVars, resultVars, requestVars
    <2> SUFFICES ASSUME preferred >= 0 PROVE PackingInv'
      BY <2>2 DEF PackingInv, PackedSoFar, StoppedAtLimit
    <2> DEFINE k == Len(list)
    <2>3. /\ status = "success" /\ k \in Fitting /\ total = BytesUpTo[k]
          /\ k \in 0 .. toget - 1 /\ preferred \in Int /\ toget \in Nat
      <3>1. preferred \in Int /\ toget \in Nat /\ Len(list) \in Nat
        BY <1>0, RetrievalConstants DEF TypeOK, RetrievalConstants
      <3>2. status = "success" /\ Len(list) \in Fitting
            /\ total = BytesUpTo[Len(list)]
        BY <2>1 DEF PackingInv, PackedSoFar
      <3> QED BY <2>1, <3>1, <3>2
    <2>4. BytesUpTo[k + 1] = Allocated /\ Allocated \in Nat
      <3>1. BytesUpTo[k + 1] = BytesUpTo[k] + Allocates(start + k)
        BY <1>0, <2>3, BytesStep
      <3> QED BY <1>0, <2>3, <3>1, ThisLengthIsDumped DEF Allocated, Recno
    <2>5. /\ ThisLength = 0
          /\ TooLong <=> Allocated > preferred
      BY <1>0, <2>1, ThisLengthIsDumped DEF NothingDumped
    <2>6. CASE PackStops
      <3>1. /\ phase' = "packed" /\ status' = "partial" /\ list' = list
            /\ Allocated > preferred
        BY <2>5, <2>6 DEF PackStops
      <3> QED BY <2>1, <2>2, <2>3, <2>4, <3>1
              DEF PackingInv, PackedSoFar, StoppedAtLimit
    <2>7. CASE PackSurrogate
      BY <2>3, <2>5, <2>7 DEF PackSurrogate
    <2>8. CASE PackRecord
      <3>1. ~(Allocated > preferred)
        BY <2>3, <2>5, <2>8 DEF PackRecord
      <3>2. /\ phase' = phase /\ status' = status /\ total' = Allocated
            /\ list' = Append(list, Entry(Recno, IF Exists(Recno) THEN "record"
                                                 ELSE "missing"))
        BY <2>8 DEF PackRecord, Put
      <3>3. Len(list') = k + 1
        BY <1>0, <3>2 DEF TypeOK
      <3>4. k + 1 \in Fitting
        <4>1. \A j \in 1 .. k : BytesUpTo[j] <= preferred
          BY <2>3 DEF Fitting
        <4>2. BytesUpTo[k + 1] <= preferred
          BY <2>3, <2>4, <3>1
        <4>3. \A j \in 1 .. k + 1 : j \in 1 .. k \/ j = k + 1
          BY <2>3
        <4>4. k + 1 \in 0 .. toget
          BY <2>3
        <4> HIDE DEF k
        <4> QED BY <4>1, <4>2, <4>3, <4>4 DEF Fitting
      <3> HIDE DEF k
      <3> QED BY <2>1, <2>2, <2>3, <2>4, <3>2, <3>3, <3>4
              DEF PackingInv, PackedSoFar, StoppedAtLimit
    <2> QED BY <1>8, <2>6, <2>7, <2>8 DEF PackTurn
  <1> QED BY <1>3, <1>4, <1>5, <1>6, <1>7, <1>8 DEF Next, NextPresent

(* A response takes all records that fit, in any response to any request.  *)
THEOREM TakesAllThatFits == Spec => []TakesWhatFits
  <1>1. RetrievalInv /\ PackingInv => TakesWhatFits
    <2> SUFFICES ASSUME RetrievalInv, PackingInv,
                        Finished, status # "failure", preferred >= 0
                 PROVE  /\ Len(list) \in Fitting
                        /\ \A k \in Fitting : k <= Len(list)
                        /\ status = "partial" <=> Len(list) < toget
      BY DEF TakesWhatFits
    <2>1. Len(list) \in Nat /\ toget \in Nat /\ preferred \in Int
          /\ TypeOK
      BY RetrievalConstants DEF RetrievalConstants, RetrievalInv, TypeOK
    <2>2. CASE phase = "packing" /\ Len(list) = toget
      BY <2>1, <2>2 DEF PackingInv, PackedSoFar, Fitting
    <2>3. CASE phase = "packed"
      <3>1. /\ status = "partial" /\ Len(list) \in Fitting
            /\ Len(list) < toget /\ BytesUpTo[Len(list) + 1] > preferred
        BY <2>3 DEF PackingInv, StoppedAtLimit
      <3>2. ASSUME NEW k \in Fitting PROVE k <= Len(list)
        <4> SUFFICES ASSUME ~(k <= Len(list)) PROVE FALSE
          OBVIOUS
        <4>1. k \in 0 .. toget /\ Len(list) + 1 \in 1 .. k
          BY <2>1 DEF Fitting
        <4>2. BytesUpTo[Len(list) + 1] <= preferred
          BY <4>1 DEF Fitting
        <4>3. BytesUpTo[Len(list) + 1] \in Int
          BY <2>1, <3>1, BytesStep
        <4> QED BY <2>1, <3>1, <4>2, <4>3
      <3> QED BY <3>1, <3>2
    <2> QED BY <2>2, <2>3 DEF Finished
  <1>2. Init => RetrievalInv /\ Running /\ PackingInv
    BY RetrievalInvInit, PackingInit
  <1>3. RetrievalInv /\ Running /\ PackingInv /\ [Next]_vars
          => (RetrievalInv /\ Running /\ PackingInv)'
    BY RetrievalInvNext, PackingNext
  <1> QED BY <1>1, <1>2, <1>3, PTL DEF Spec

(***************************************************************************)
(* LimitConnect, for all peers, periods and clocks.                        *)
(*                                                                         *)
(* The bucket that is j behind ptr counts the connections of the second    *)
(* sec - j.  An assignment of the connections to buckets says which one    *)
(* counts which (Counts, Exactly): AddBytes keeps it, whatever time has    *)
(* passed, and the sum over the buckets is the number of those assigned.   *)
(***************************************************************************)

(* In a ring of n places, 0 .. n - 1: the place j after ptr, and how far   *)
(* place i - 1, the one of bucket i, is behind ptr.                        *)
Place(n, ptr, j) == IF ptr + j < n THEN ptr + j ELSE ptr + j - n

Behind(n, ptr, i) == IF i <= ptr + 1 THEN ptr + 1 - i ELSE ptr + 1 - i + n

(* The seconds since the one whose connections bucket i counts.            *)
Age(s, i) == Behind(s.size, s.ptr, i)

SecondOf(s, i) == s.sec - Age(s, i)

(* The remainder for a number below twice the divisor.                     *)
LEMMA Modulo ==
    ASSUME NEW n \in Nat \ {0}, NEW x \in 0 .. 2 * n - 1
    PROVE  x % n = IF x < n THEN x ELSE x - n
  <1> DEFINE q == x \div n
             r == x % n
  <1>1. x = q * n + r /\ r \in 0 .. n - 1 /\ q \in Int
    BY SMTT(30)
  <1> HIDE DEF q, r
  <1>2. q >= 2 => q * n >= 2 * n
    BY <1>1
  <1>3. q < 0 => q * n <= -n
    BY <1>1
  <1>4. q \in {0, 1}
    BY <1>1, <1>2, <1>3
  <1>5. CASE q = 0
    BY <1>1, <1>5 DEF r
  <1>6. CASE q = 1
    BY <1>1, <1>6 DEF r
  <1> QED BY <1>4, <1>5, <1>6

(* What fits an int is kept, and what is too large by less than the range  *)
(* of an int becomes negative.                                             *)
LEMMA ToIntIs ==
    ASSUME NEW x \in Int
    PROVE  /\ x \in 0 .. IntMax => ToInt(x) = x
           /\ x \in IntMax + 1 .. 2 * IntMax => ToInt(x) < 0
  <1> DEFINE w == 2 * IntMax + 2
             y == x + IntMax + 1
  <1>1. w \in Nat \ {0}
    BY IntMaxIsNat
  <1>2. ASSUME x \in 0 .. 2 * IntMax
        PROVE  y % w = IF y < w THEN y ELSE y - w
    <2>1. y \in 0 .. 2 * w - 1
      BY <1>2, IntMaxIsNat
    <2> HIDE DEF y, w
    <2> QED BY <1>1, <2>1, Modulo
  <1>3. ToInt(x) = (y % w) - (IntMax + 1)
    BY DEF ToInt
  <1>4. ASSUME NEW z \in Int, z = IF y < w THEN y ELSE y - w
        PROVE  /\ x \in 0 .. IntMax => z - (IntMax + 1) = x
               /\ x \in IntMax + 1 .. 2 * IntMax => z - (IntMax + 1) < 0
    BY <1>4, IntMaxIsNat
  <1>5. x \in 0 .. IntMax \/ x \in IntMax + 1 .. 2 * IntMax
          => x \in 0 .. 2 * IntMax
    BY IntMaxIsNat
  <1>6. (IF y < w THEN y ELSE y - w) \in Int
    BY IntMaxIsNat
  <1> HIDE DEF y, w
  <1> QED BY <1>2, <1>3, <1>4, <1>5, <1>6

(* Ages are the numbers below the size of the ring; the newest bucket is 0.*)
LEMMA AgeRange ==
    ASSUME NEW n \in Nat \ {0}, NEW s \in Stats(n), NEW i \in 1 .. n
    PROVE  /\ Age(s, i) \in 0 .. n - 1
           /\ Age(s, i) = 0 <=> i = s.ptr + 1
           /\ s.ptr + 1 \in 1 .. n
  <1>1. s.size = n /\ s.ptr \in 0 .. n - 1
    BY DEF Stats
  <1> QED BY <1>1 DEF Age, Behind

(* What the % in add_bytes comes to.                                       *)
LEMMA PlaceIs ==
    ASSUME NEW n \in Nat \ {0}, NEW ptr \in 0 .. n - 1, NEW j \in 1 .. n
    PROVE  (ptr + j) % n = Place(n, ptr, j)
  <1> DEFINE x == ptr + j
  <1>1. x \in 0 .. 2 * n - 1
    OBVIOUS
  <1>2. Place(n, ptr, j) = IF x < n THEN x ELSE x - n
    BY DEF Place
  <1> HIDE DEF x
  <1>3. x % n = Place(n, ptr, j)
    BY <1>1, <1>2, Modulo
  <1> QED BY <1>3 DEF x

(* A pointer that goes d places on in a ring passes those that are less    *)
(* than d behind it then.                                                  *)
LEMMA Turning ==
    ASSUME NEW n \in Nat \ {0}, NEW ptr \in 0 .. n - 1, NEW d \in 1 .. n,
           NEW i \in 1 .. n
    PROVE  /\ Place(n, ptr, d) \in 0 .. n - 1
           /\ Behind(n, Place(n, ptr, d), i) < d
                <=> \E j \in 1 .. d : i = Place(n, ptr, j) + 1
           /\ ~(Behind(n, Place(n, ptr, d), i) < d) =>
                Behind(n, Place(n, ptr, d), i) = Behind(n, ptr, i) + d
           /\ Behind(n, ptr, i) + d < n =>
                Behind(n, Place(n, ptr, d), i) = Behind(n, ptr, i) + d
  <1> DEFINE p == Place(n, ptr, d)
             a == Behind(n, p, i)
  <1>1. p \in 0 .. n - 1 /\ a \in 0 .. n - 1
    BY DEF Place, Behind
  <1>2. ASSUME NEW j \in 1 .. d, i = Place(n, ptr, j) + 1
        PROVE  a < d
    BY <1>2 DEF Place, Behind
  <1>3. ASSUME a < d
        PROVE  d - a \in 1 .. d /\ i = Place(n, ptr, d - a) + 1
    BY <1>1, <1>3 DEF Place, Behind
  <1>4. ~(a < d) => a = Behind(n, ptr, i) + d
    BY <1>1 DEF Place, Behind
  <1>5. Behind(n, ptr, i) + d < n => a = Behind(n, ptr, i) + d
    BY DEF Place, Behind
  <1> QED BY <1>1, <1>2, <1>3, <1>4, <1>5

(* The loop of add_bytes: the d newest buckets are empty afterwards, and    *)
(* the others are d seconds older.                                         *)
LEMMA RotateKeeps ==
    ASSUME NEW n \in Nat \ {0}, NEW s \in Stats(n), NEW d \in 1 .. n
    PROVE  LET r == Rotate(s, d)
           IN /\ r \in Stats(n) /\ r.sec = s.sec
              /\ \A i \in 1 .. n :
                   /\ IF Age(r, i) < d THEN r.bucket[i] = 0
                      ELSE /\ r.bucket[i] = s.bucket[i]
                           /\ Age(r, i) = Age(s, i) + d
                   /\ Age(s, i) + d < n => Age(r, i) = Age(s, i) + d
  <1> DEFINE p == Place(n, s.ptr, d)
             gone == {((s.ptr + j) % s.size) + 1 : j \in 1 .. d}
             bucket == [i \in 1 .. n |-> IF i \in gone THEN 0 ELSE s.bucket[i]]
             r == [sec |-> s.sec, size |-> n, ptr |-> p, bucket |-> bucket]
  <1>1. /\ s = [sec |-> s.sec, size |-> n, ptr |-> s.ptr, bucket |-> s.bucket]
        /\ s.size = n /\ s.ptr \in 0 .. n - 1 /\ s.sec \in Nat
        /\ s.bucket \in [1 .. n -> Int]
    BY DEF Stats
  <1>2. \A j \in 1 .. n : (s.ptr + j) % n = Place(n, s.ptr, j)
    BY <1>1, PlaceIs
  <1>3. Rotate(s, d) = r
    <2>1. (s.ptr + d) % s.size = p
      BY <1>1, <1>2
    <2>2. [i \in DOMAIN s.bucket |-> IF i \in gone THEN 0 ELSE s.bucket[i]]
            = bucket
      <3>1. DOMAIN s.bucket = 1 .. n
        BY <1>1
      <3> HIDE DEF gone
      <3> QED BY <3>1
    <2>3. Rotate(s, d) = [s EXCEPT !.ptr = p, !.bucket = bucket]
      <3> HIDE DEF p, bucket
      <3> QED BY <2>1, <2>2 DEF Rotate
    <2> HIDE DEF p, bucket
    <2>4. [s EXCEPT !.ptr = p, !.bucket = bucket] = r
      <3> DEFINE y == [s EXCEPT !.ptr = p]
      <3>1. y = [sec |-> s.sec, size |-> n, ptr |-> p, bucket |-> s.bucket]
        BY <1>1
      <3>2. [s EXCEPT !.ptr = p, !.bucket = bucket]
              = [y EXCEPT !.bucket = bucket]
        OBVIOUS
      <3> HIDE DEF y
      <3> QED BY <3>1, <3>2
    <2> QED BY <2>3, <2>4
  <1>4. p \in 0 .. n - 1
    BY <1>1, Turning
  <1>5. bucket \in [1 .. n -> Int]
    BY <1>1
  <1>6. r \in Stats(n)
    <2> HIDE DEF p, bucket
    <2> QED BY <1>1, <1>4, <1>5 DEF Stats
  <1>7. ASSUME NEW i \in 1 .. n
        PROVE  /\ i \in gone <=> Age(r, i) < d
               /\ ~(Age(r, i) < d) => Age(r, i) = Age(s, i) + d
               /\ Age(s, i) + d < n => Age(r, i) = Age(s, i) + d
    <2>1. i \in gone <=> \E j \in 1 .. d : i = Place(n, s.ptr, j) + 1
      <3>1. \A j \in 1 .. d : (s.ptr + j) % s.size = Place(n, s.ptr, j)
        BY <1>1, <1>2
      <3> QED BY <3>1
    <2>2. Age(r, i) = Behind(n, p, i) /\ Age(s, i) = Behind(n, s.ptr, i)
      BY <1>1 DEF Age
    <2>3. s.ptr \in 0 .. n - 1
      BY <1>1
    <2> HIDE DEF gone, r
    <2> QED BY <2>1, <2>2, <2>3, Turning
  <1> HIDE DEF gone, p
  <1>8. \A i \in 1 .. n :
                   /\ IF Age(r, i) < d THEN r.bucket[i] = 0
                      ELSE /\ r.bucket[i] = s.bucket[i]
                           /\ Age(r, i) = Age(s, i) + d
                   /\ Age(s, i) + d < n => Age(r, i) = Age(s, i) + d
    BY <1>7
  <1> QED BY <1>1, <1>3, <1>6, <1>8

(* An object as a record.                                                  *)
LEMMA StatsAre ==
    ASSUME NEW n \in Nat \ {0}, NEW s \in Stats(n)
    PROVE  /\ s = [sec |-> s.sec, size |-> n, ptr |-> s.ptr,
                   bucket |-> s.bucket]
           /\ s.size = n /\ s.sec \in Nat /\ s.ptr \in 0 .. n - 1
           /\ s.bucket \in [1 .. n -> Int]
  BY DEF Stats

(* A clock that does not go back, and by no more than an int at once: the  *)
(* buckets of the seconds since the last call are empty, and the others    *)
(* are those of the same seconds as before.                                *)
LEMMA AddBytesForward ==
    ASSUME NEW n \in Nat \ {0}, NEW s \in Stats(n), NEW b \in Int,
           NEW t \in Nat, t - s.sec \in 0 .. IntMax
    PROVE  LET r == AddBytes(s, b, t)
           IN /\ r \in Stats(n) /\ r.sec = t
              /\ \A i \in 1 .. n :
                   /\ r.bucket[i] =
                        (IF Age(r, i) < t - s.sec THEN 0 ELSE s.bucket[i])
                        + (IF Age(r, i) = 0 THEN b ELSE 0)
                   /\ Age(r, i) >= t - s.sec => SecondOf(r, i) = SecondOf(s, i)
                   /\ SecondOf(s, i) > t - n => Age(r, i) >= t - s.sec
  <1> DEFINE e == t - s.sec
             d == IF e < n THEN e ELSE n
             q == IF d > 0 THEN Rotate(s, d) ELSE s
             bucket == [q.bucket EXCEPT ![q.ptr + 1] = @ + b]
             r == [sec |-> t, size |-> n, ptr |-> q.ptr, bucket |-> bucket]
  <1>1. s.sec \in Nat /\ s.size = n /\ ~(t < s.sec) /\ e \in Nat
    BY StatsAre
  <1>2. Least(ToInt(t - s.sec), s.size) = d
    <2>1. ToInt(e) = e
      BY <1>1, ToIntIs
    <2> QED BY <1>1, <2>1 DEF Least
  <1>3. d \in 0 .. n
    BY <1>1
  <1>4. /\ q \in Stats(n) /\ q.sec = s.sec
        /\ \A i \in 1 .. n :
             /\ IF Age(q, i) < d THEN q.bucket[i] = 0
                ELSE /\ q.bucket[i] = s.bucket[i]
                     /\ Age(q, i) = Age(s, i) + d
             /\ Age(s, i) + d < n => Age(q, i) = Age(s, i) + d
    <2>1. CASE d > 0
      <3>1. d \in 1 .. n /\ q = Rotate(s, d)
        BY <1>3, <2>1
      <3> HIDE DEF d, q
      <3> QED BY <3>1, RotateKeeps
    <2>2. CASE d = 0
      <3>1. q = s
        BY <2>2
      <3>2. \A i \in 1 .. n : Age(s, i) \in Nat
        BY AgeRange
      <3> HIDE DEF d, q
      <3> QED BY <2>2, <3>1, <3>2
    <2> HIDE DEF d, q
    <2> QED BY <1>3, <2>1, <2>2
  <1> HIDE DEF d
  <1>5. AddBytes(s, b, t) = [q EXCEPT !.sec = t, !.bucket[q.ptr + 1] = @ + b]
    BY <1>1, <1>2 DEF AddBytes
  <1> HIDE DEF q
  <1>6. q = [sec |-> q.sec, size |-> n, ptr |-> q.ptr, bucket |-> q.bucket]
        /\ q.ptr + 1 \in 1 .. n /\ q.bucket \in [1 .. n -> Int]
    BY <1>4, StatsAre
  <1>7. AddBytes(s, b, t) = r
    <2> DEFINE y == [q EXCEPT !.sec = t]
    <2>1. y = [sec |-> t, size |-> n, ptr |-> q.ptr, bucket |-> q.bucket]
      BY <1>6
    <2>2. AddBytes(s, b, t) = [y EXCEPT !.bucket[q.ptr + 1] = @ + b]
      BY <1>5
    <2>3. [y EXCEPT !.bucket[q.ptr + 1] = @ + b] = r
      <3> HIDE DEF y
      <3> QED BY <2>1
    <2> QED BY <2>2, <2>3
  <1>8. /\ bucket \in [1 .. n -> Int]
        /\ \A i \in 1 .. n : bucket[i] = IF i = q.ptr + 1 THEN q.bucket[i] + b
                                         ELSE q.bucket[i]
    BY <1>6
  <1> HIDE DEF bucket
  <1>9. r \in Stats(n) /\ r.sec = t
    BY <1>4, <1>6, <1>8, StatsAre DEF Stats
  <1>10. ASSUME NEW i \in 1 .. n
         PROVE  /\ r.bucket[i] = (IF Age(r, i) < t - s.sec THEN 0
                                  ELSE s.bucket[i])
                                 + (IF Age(r, i) = 0 THEN b ELSE 0)
                /\ Age(r, i) >= t - s.sec => SecondOf(r, i) = SecondOf(s, i)
                /\ SecondOf(s, i) > t - n => Age(r, i) >= t - s.sec
    <2>1. Age(r, i) = Age(q, i)
      <3>1. r.size = q.size /\ r.ptr = q.ptr
        BY <1>6
      <3> QED BY <3>1 DEF Age
    <2>2. /\ Age(q, i) \in 0 .. n - 1
          /\ Age(q, i) = 0 <=> i = q.ptr + 1
          /\ Age(s, i) \in 0 .. n - 1
      BY <1>4, AgeRange
    <2>3. Age(q, i) < d <=> Age(q, i) < e
      BY <1>1, <2>2 DEF d
    <2>4. ~(Age(q, i) < e) => d = e
      BY <1>1, <2>2 DEF d
    <2>5. r.bucket[i] = bucket[i] /\ r.sec = t
      OBVIOUS
    <2>6. bucket[i] = (IF Age(q, i) < e THEN 0 ELSE s.bucket[i])
                      + (IF Age(q, i) = 0 THEN b ELSE 0)
      <3>1. q.bucket[i] \in Int
        BY <1>6
      <3>2. q.bucket[i] = IF Age(q, i) < e THEN 0 ELSE s.bucket[i]
        BY <1>4, <2>3
      <3>3. bucket[i] = IF Age(q, i) = 0 THEN q.bucket[i] + b ELSE q.bucket[i]
        BY <1>8, <2>2
      <3> HIDE DEF e
      <3> QED BY <3>1, <3>2, <3>3
    <2> HIDE DEF r
    <2>7. ASSUME Age(q, i) >= e PROVE SecondOf(r, i) = SecondOf(s, i)
      <3>1. Age(q, i) = Age(s, i) + e
        BY <1>1, <1>4, <2>2, <2>3, <2>4, <2>7
      <3> QED BY <1>1, <2>1, <2>2, <2>5, <3>1 DEF SecondOf
    <2>8. ASSUME SecondOf(s, i) > t - n PROVE Age(q, i) >= e
      <3>1. Age(s, i) + e < n
        BY <1>1, <2>2, <2>8 DEF SecondOf
      <3>2. d = e
        BY <1>1, <2>2, <3>1 DEF d
      <3>3. Age(q, i) = Age(s, i) + e
        BY <1>4, <3>1, <3>2
      <3> QED BY <1>1, <2>2, <3>3
    <2> QED BY <2>1, <2>5, <2>6, <2>7, <2>8
  <1> QED BY <1>7, <1>9, <1>10

(* A clock that was set back: only the time is noted.                      *)
LEMMA AddBytesBack ==
    ASSUME NEW n \in Nat \ {0}, NEW s \in Stats(n), NEW b,
           NEW t \in Nat, t < s.sec
    PROVE  LET r == AddBytes(s, b, t)
           IN /\ r \in Stats(n) /\ r.sec = t /\ r.bucket = s.bucket
              /\ \A i \in 1 .. n : Age(r, i) = Age(s, i)
  <1>1. AddBytes(s, b, t) = [s EXCEPT !.sec = t]
    BY DEF AddBytes
  <1>2. [s EXCEPT !.sec = t] = [sec |-> t, size |-> n, ptr |-> s.ptr,
                                bucket |-> s.bucket]
    BY StatsAre
  <1> DEFINE r == [sec |-> t, size |-> n, ptr |-> s.ptr, bucket |-> s.bucket]
  <1>3. r \in Stats(n)
    BY StatsAre DEF Stats
  <1>4. \A i \in 1 .. n : Age(r, i) = Age(s, i)
    BY StatsAre DEF Age
  <1>5. r.sec = t /\ r.bucket = s.bucket
    OBVIOUS
  <1> HIDE DEF r
  <1> QED BY <1>1, <1>2, <1>3, <1>4, <1>5 DEF r

(* m tells which bucket of s counts a connection in C, 0 if none does: the *)
(* bucket of its second, or of an earlier one if the clock was set back.   *)
(* Buckets of the seconds up to u may hold anything.                       *)
Counts(s, C, u, m) ==
    /\ m \in [C -> 0 .. s.size]
    /\ \A c \in C : m[c] # 0 => c.at >= SecondOf(s, m[c])
    /\ \A i \in 1 .. s.size : SecondOf(s, i) > u =>
         s.bucket[i] = Cardinality({c \in C : m[c] = i})

(* Each connection in the window is counted, and in its own second.        *)
Exactly(s, C, m) ==
    \A c \in C : /\ c.at <= s.sec
                 /\ c.at > s.sec - s.size =>
                      m[c] # 0 /\ SecondOf(s, m[c]) = c.at

(* The connections New, b in number, are added at time t.                  *)
LEMMA CountsForward ==
    ASSUME NEW n \in Nat \ {0}, NEW s \in Stats(n), NEW u \in Nat,
           NEW t \in Nat, t - s.sec \in 0 .. IntMax,
           NEW C, IsFiniteSet(C), \A c \in C : c.at \in Nat,
           NEW New, IsFiniteSet(New), \A c \in New : c.at = t, C \cap New = {},
           NEW m, Counts(s, C, u, m)
    PROVE  \E k : /\ Counts(AddBytes(s, Cardinality(New), t), C \cup New, u, k)
                  /\ Exactly(s, C, m) =>
                       Exactly(AddBytes(s, Cardinality(New), t), C \cup New, k)
  <1> DEFINE b == Cardinality(New)
             r == AddBytes(s, b, t)
             e == t - s.sec
             kept(c) == m[c] # 0 /\ Age(r, m[c]) >= e
             k == [c \in C \cup New |->
                     IF c \in New THEN r.ptr + 1
                     ELSE IF kept(c) THEN m[c] ELSE 0]
             old(i) == {c \in C : m[c] = i}
  <1>1. b \in Nat /\ s.size = n /\ s.sec \in Nat /\ e \in Nat
    BY FS_CardinalityType, StatsAre
  <1> HIDE DEF b
  <1>2. /\ r \in Stats(n) /\ r.sec = t
        /\ \A i \in 1 .. n :
             /\ r.bucket[i] = (IF Age(r, i) < e THEN 0 ELSE s.bucket[i])
                              + (IF Age(r, i) = 0 THEN b ELSE 0)
             /\ Age(r, i) >= e => SecondOf(r, i) = SecondOf(s, i)
             /\ SecondOf(s, i) > t - n => Age(r, i) >= e
    BY <1>1, AddBytesForward
  <1> HIDE DEF r
  <1>3. r.size = n /\ r.ptr + 1 \in 1 .. n
    BY <1>2, AgeRange, StatsAre
  <1>4. /\ m \in [C -> 0 .. n]
        /\ \A c \in C : m[c] # 0 => c.at >= SecondOf(s, m[c])
        /\ \A i \in 1 .. n : SecondOf(s, i) > u =>
             s.bucket[i] = Cardinality(old(i))
    BY <1>1 DEF Counts
  <1>5. \A i \in 1 .. n : /\ Age(r, i) \in 0 .. n - 1
                          /\ Age(r, i) = 0 <=> i = r.ptr + 1
    BY <1>2, AgeRange
  <1>6. k \in [C \cup New -> 0 .. n]
    BY <1>3, <1>4
  <1>7. /\ \A c \in New : k[c] = r.ptr + 1
        /\ \A c \in C : k[c] = IF kept(c) THEN m[c] ELSE 0
    OBVIOUS
  <1> HIDE DEF k
  <1>8. ASSUME NEW c \in C \cup New, k[c] # 0
        PROVE  c.at >= SecondOf(r, k[c])
    <2>1. CASE c \in New
      <3>1. SecondOf(r, k[c]) = t
        BY <1>1, <1>2, <1>3, <1>5, <1>7, <2>1 DEF SecondOf
      <3> QED BY <2>1, <3>1
    <2>2. CASE c \in C
      <3>1. kept(c) /\ k[c] = m[c]
        BY <1>7, <1>8, <2>2
      <3>2. m[c] \in 1 .. n
        BY <1>4, <2>2, <3>1
      <3>3. SecondOf(r, m[c]) = SecondOf(s, m[c])
        BY <1>2, <3>1, <3>2
      <3> QED BY <1>4, <2>2, <3>1, <3>3
    <2> QED BY <2>1, <2>2
  <1>9. ASSUME NEW i \in 1 .. n, SecondOf(r, i) > u
        PROVE  r.bucket[i] = Cardinality({c \in C \cup New : k[c] = i})
    <2> DEFINE A == IF Age(r, i) < e THEN {} ELSE old(i)
               B == IF Age(r, i) = 0 THEN New ELSE {}
    <2>1. {c \in C \cup New : k[c] = i} = A \cup B
      <3>1. ASSUME NEW c \in C PROVE k[c] = i <=> c \in A
        BY <1>1, <1>4, <1>5, <1>7
      <3>2. ASSUME NEW c \in New PROVE k[c] = i <=> c \in B
        BY <1>5, <1>7
      <3>3. A \subseteq C /\ B \subseteq New
        OBVIOUS
      <3> HIDE DEF A, B
      <3> QED BY <3>1, <3>2, <3>3
    <2>2. IsFiniteSet(A) /\ IsFiniteSet(B) /\ A \cap B = {}
      BY FS_Subset, FS_EmptySet
    <2>3. Cardinality(A \cup B) = Cardinality(A) + Cardinality(B)
      <3> HIDE DEF A, B
      <3>1. Cardinality(A) \in Nat /\ Cardinality(B) \in Nat
        BY <2>2, FS_CardinalityType
      <3>2. Cardinality(A \cup B)
              = Cardinality(A) + Cardinality(B) - Cardinality(A \cap B)
        BY <2>2, FS_Union
      <3>3. Cardinality(A \cap B) = 0
        BY <2>2, FS_EmptySet
      <3> QED BY <3>1, <3>2, <3>3
    <2>4. Cardinality(B) = IF Age(r, i) = 0 THEN b ELSE 0
      BY FS_EmptySet DEF b
    <2>5. Cardinality(A) = IF Age(r, i) < e THEN 0 ELSE s.bucket[i]
      <3>1. CASE Age(r, i) < e
        BY <3>1, FS_EmptySet
      <3>2. CASE ~(Age(r, i) < e)
        <4>1. Age(r, i) >= e
          BY <1>1, <1>5, <3>2
        <4>2. SecondOf(s, i) > u
          BY <1>2, <1>9, <4>1
        <4>3. A = old(i)
          BY <3>2
        <4> HIDE DEF A, old
        <4> QED BY <1>4, <3>2, <4>2, <4>3
      <3> QED BY <3>1, <3>2
    <2> HIDE DEF A, B
    <2> QED BY <1>2, <2>1, <2>3, <2>4, <2>5
  <1>10. Counts(r, C \cup New, u, k)
    BY <1>3, <1>6, <1>8, <1>9 DEF Counts
  <1>11. ASSUME Exactly(s, C, m), NEW c \in C \cup New
         PROVE  /\ c.at <= t
                /\ c.at > t - n => k[c] # 0 /\ SecondOf(r, k[c]) = c.at
    <2>1. CASE c \in New
      <3>1. SecondOf(r, k[c]) = t /\ k[c] # 0
        BY <1>1, <1>2, <1>3, <1>5, <1>7, <2>1 DEF SecondOf
      <3> QED BY <1>1, <2>1, <3>1
    <2>2. CASE c \in C
      <3>1. /\ c.at \in Nat /\ c.at <= s.sec
            /\ c.at > s.sec - n => m[c] # 0 /\ SecondOf(s, m[c]) = c.at
        BY <1>1, <1>11, <2>2 DEF Exactly
      <3>2. c.at <= t
        BY <1>1, <3>1
      <3>3. ASSUME c.at > t - n
            PROVE  k[c] # 0 /\ SecondOf(r, k[c]) = c.at
        <4>1. m[c] \in 1 .. n /\ SecondOf(s, m[c]) = c.at
          BY <1>1, <1>4, <2>2, <3>1, <3>3
        <4>2. Age(r, m[c]) >= e
          BY <1>2, <3>3, <4>1
        <4>3. k[c] = m[c]
          BY <1>7, <2>2, <4>1, <4>2
        <4> QED BY <1>2, <4>1, <4>2, <4>3
      <3> QED BY <3>2, <3>3
    <2> QED BY <2>1, <2>2
  <1>12. Exactly(s, C, m) => Exactly(r, C \cup New, k)
    BY <1>2, <1>3, <1>11 DEF Exactly
  <1> QED BY <1>10, <1>12 DEF r, b

(* If the clock was set back the connections New are not counted.          *)
LEMMA CountsBack ==
    ASSUME NEW n \in Nat \ {0}, NEW s \in Stats(n), NEW u \in Nat, NEW b,
           NEW t \in Nat, t < s.sec,
           NEW C, \A c \in C : c.at \in Nat, NEW New, C \cap New = {},
           NEW m, Counts(s, C, u, m)
    PROVE  \E k : Counts(AddBytes(s, b, t), C \cup New, u, k)
  <1> DEFINE r == AddBytes(s, b, t)
             k == [c \in C \cup New |-> IF c \in C THEN m[c] ELSE 0]
  <1>1. s.size = n /\ s.sec \in Nat
    BY StatsAre
  <1>2. /\ r \in Stats(n) /\ r.sec = t /\ r.bucket = s.bucket
        /\ \A i \in 1 .. n : Age(r, i) = Age(s, i)
    BY AddBytesBack
  <1> HIDE DEF r
  <1>3. /\ r.size = n
        /\ \A i \in 1 .. n : SecondOf(r, i) \in Int /\ SecondOf(s, i) \in Int
                             /\ SecondOf(r, i) < SecondOf(s, i)
    BY <1>1, <1>2, StatsAre, AgeRange DEF SecondOf
  <1>4. /\ m \in [C -> 0 .. n]
        /\ \A c \in C : m[c] # 0 => c.at >= SecondOf(s, m[c])
        /\ \A i \in 1 .. n : SecondOf(s, i) > u =>
             s.bucket[i] = Cardinality({c \in C : m[c] = i})
    BY <1>1 DEF Counts
  <1>5. k \in [C \cup New -> 0 .. n]
    BY <1>4
  <1>6. ASSUME NEW c \in C \cup New, k[c] # 0
        PROVE  c.at >= SecondOf(r, k[c])
    <2>1. c \in C /\ k[c] = m[c] /\ m[c] \in 1 .. n
      BY <1>4, <1>6
    <2> HIDE DEF k
    <2> QED BY <1>3, <1>4, <1>6, <2>1
  <1>7. ASSUME NEW i \in 1 .. n, SecondOf(r, i) > u
        PROVE  r.bucket[i] = Cardinality({c \in C \cup New : k[c] = i})
    <2>1. {c \in C \cup New : k[c] = i} = {c \in C : m[c] = i}
      OBVIOUS
    <2>2. SecondOf(s, i) > u
      BY <1>3, <1>7
    <2> HIDE DEF k
    <2> QED BY <1>2, <1>4, <2>1, <2>2
  <1> HIDE DEF k
  <1>8. Counts(r, C \cup New, u, k)
    BY <1>3, <1>5, <1>6, <1>7 DEF Counts
  <1> QED BY <1>8 DEF r

(* The total of a ring all of whose buckets are in order.                  *)
LEMMA TotalCounts ==
    ASSUME NEW n \in Nat \ {0}, NEW s \in Stats(n), NEW u \in Nat,
           NEW C, IsFiniteSet(C), NEW m, Counts(s, C, u, m),
           \A i \in 1 .. n : SecondOf(s, i) > u
    PROVE  Total(s) = Cardinality(Classed(C, m))
  <1>1. s.size = n /\ s.bucket \in [1 .. n -> Int]
    BY StatsAre
  <1>2. m \in [C -> 0 .. n]
        /\ \A i \in 1 .. n : s.bucket[i] = Cardinality({c \in C : m[c] = i})
    BY <1>1 DEF Counts
  <1> DEFINE x == s.bucket
  <1>3. Total(s) = Sums(0, x, n)[n]
    BY <1>1 DEF Total
  <1> HIDE DEF x
  <1>4. /\ x \in [1 .. n -> Int]
        /\ \A i \in 1 .. n : x[i] = Cardinality(Class(C, m, i))
    BY <1>1, <1>2 DEF x, Class
  <1>5. m \in [C -> 0 .. n] /\ n \in Nat
    BY <1>2
  <1>6. Sums(0, x, n)[n] = Cardinality(Classed(C, m))
    BY <1>4, <1>5, SumsCount
  <1> QED BY <1>3, <1>6

(* What is known of the object of a peer whose connections are C: exact    *)
(* says that the clock was never set back.                                 *)
Sound(s, C, u, exact, t) ==
    /\ s.size \in Periods /\ s \in Stats(s.size)
    /\ s.sec \in StartTime .. MaxTime
    /\ exact => s.sec <= t
    /\ \E m : Counts(s, C, u, m) /\ (exact => Exactly(s, C, m))

(* What is assumed of the constants, in the form in which it is used.      *)
LEMMA ConstantsAre ==
    /\ StartTime \in Nat /\ StartTime <= IntMax /\ MaxTime \in Nat
    /\ MaxTime \in StartTime .. StartTime + IntMax
    /\ IntMax \in Nat
    /\ \A n \in Periods : n \in Nat \ {0} /\ n <= StartTime
  BY Sane, IntMaxIsNat DEF Sane

(* add_bytes, for connections that are made, or none.                      *)
LEMMA SoundAfterAddBytes ==
    ASSUME NEW s, NEW C, NEW u \in Nat, NEW exact \in BOOLEAN,
           NEW t \in StartTime .. MaxTime,
           Sound(s, C, u, exact, t),
           IsFiniteSet(C), \A c \in C : c.at \in Nat,
           NEW New, IsFiniteSet(New), \A c \in New : c.at = t, C \cap New = {}
    PROVE  LET r == AddBytes(s, Cardinality(New), t)
           IN Sound(r, C \cup New, u, exact, t) /\ r.size = s.size /\ r.sec = t
  <1> DEFINE n == s.size
             r == AddBytes(s, Cardinality(New), t)
  <1>1. /\ n \in Nat \ {0} /\ n \in Periods /\ s \in Stats(n)
        /\ s.sec \in StartTime .. MaxTime /\ t \in Nat /\ s.sec \in Nat
        /\ exact => s.sec <= t
    BY ConstantsAre DEF Sound
  <1>2. PICK m : Counts(s, C, u, m) /\ (exact => Exactly(s, C, m))
    BY DEF Sound
  <1>3. CASE s.sec <= t
    <2>1. t - s.sec \in 0 .. IntMax
      BY <1>1, <1>3, ConstantsAre
    <2>2. PICK k : /\ Counts(r, C \cup New, u, k)
                   /\ Exactly(s, C, m) => Exactly(r, C \cup New, k)
      BY <1>1, <1>2, <2>1, CountsForward
    <2>3. Cardinality(New) \in Int
      BY FS_CardinalityType
    <2>4. r \in Stats(n) /\ r.sec = t
      BY <1>1, <2>1, <2>3, AddBytesForward
    <2>5. r.size = n
      BY <1>1, <2>4, StatsAre
    <2> HIDE DEF r, n
    <2>6. Sound(r, C \cup New, u, exact, t)
      BY <1>1, <1>2, <2>2, <2>4, <2>5 DEF Sound
    <2> QED BY <2>4, <2>5, <2>6 DEF r, n
  <1>4. CASE t < s.sec
    <2>1. ~exact
      BY <1>1, <1>4
    <2>2. PICK k : Counts(r, C \cup New, u, k)
      BY <1>1, <1>2, <1>4, CountsBack
    <2>3. r \in Stats(n) /\ r.sec = t
      BY <1>1, <1>4, AddBytesBack
    <2>4. r.size = n
      BY <1>1, <2>3, StatsAre
    <2> HIDE DEF r, n
    <2>5. Sound(r, C \cup New, u, exact, t)
      BY <1>1, <2>1, <2>2, <2>3, <2>4 DEF Sound
    <2> QED BY <2>3, <2>4, <2>5 DEF r, n
  <1> HIDE DEF r
  <1> QED BY <1>1, <1>3, <1>4 DEF r

(* The first connection of a peer, whatever the new buckets hold.          *)
LEMMA SoundAtFirst ==
    ASSUME NEW n \in Periods, NEW s \in NewStats(n),
           NEW t \in StartTime .. MaxTime, NEW exact \in BOOLEAN,
           NEW c, c.at = t
    PROVE  Sound(AddBytes(s, 1, t), {c}, IF t <= IntMax THEN 0 ELSE t,
                 exact, t)
  <1> DEFINE r == AddBytes(s, 1, t)
  <1>1. n \in Nat \ {0} /\ n <= StartTime /\ t \in Nat /\ t >= n
    BY ConstantsAre
  <1>2. PICK b \in [1 .. n -> Junk] :
          s = [sec |-> 0, size |-> n, ptr |-> 0, bucket |-> b]
    BY DEF NewStats
  <1>3. b \in [1 .. n -> Int]
    BY JunkIsInts
  <1>4. s \in Stats(n) /\ s.sec = 0 /\ s.size = n /\ s.ptr = 0
    BY <1>1, <1>2, <1>3 DEF Stats
  <1>5. IsFiniteSet({}) /\ IsFiniteSet({c}) /\ Cardinality({c}) = 1
    BY FS_EmptySet, FS_Singleton
  <1>6. CASE t <= IntMax
    <2> DEFINE none == [x \in {} |-> 0]
    <2>1. Counts(s, {}, 0, none)
      <3>1. \A i \in 1 .. n : ~(SecondOf(s, i) > 0)
        <4>1. \A i \in 1 .. n : Age(s, i) \in Nat
          BY <1>1, <1>4, AgeRange
        <4> QED BY <1>4, <4>1 DEF SecondOf
      <3> QED BY <1>4, <3>1 DEF Counts
    <2>2. Exactly(s, {}, none)
      BY DEF Exactly
    <2>3. t - s.sec \in 0 .. IntMax
      BY <1>1, <1>4, <1>6, ConstantsAre
    <2> HIDE DEF none
    <2>4. PICK k : /\ Counts(r, {} \cup {c}, 0, k)
                   /\ Exactly(r, {} \cup {c}, k)
      <3>1. PICK k : /\ Counts(AddBytes(s, Cardinality({c}), t),
                               {} \cup {c}, 0, k)
                     /\ Exactly(s, {}, none) =>
                          Exactly(AddBytes(s, Cardinality({c}), t),
                                  {} \cup {c}, k)
        BY <1>1, <1>4, <1>5, <2>1, <2>3, CountsForward
      <3> QED BY <1>5, <2>2, <3>1
    <2>5. r \in Stats(n) /\ r.sec = t
      BY <1>1, <1>4, <2>3, AddBytesForward
    <2>6. r.size = n
      BY <1>1, <2>5, StatsAre
    <2>7. {} \cup {c} = {c}
      OBVIOUS
    <2> HIDE DEF r
    <2>8. Sound(r, {c}, 0, exact, t)
      BY <2>4, <2>5, <2>6, <2>7 DEF Sound
    <2> QED BY <1>6, <2>8 DEF r
  <1>7. CASE t > IntMax
    <2> DEFINE bucket == [b EXCEPT ![1] = @ + 1]
               k == [x \in {c} |-> 1]
    <2>1. t - s.sec = t /\ t \in IntMax + 1 .. 2 * IntMax
      BY <1>1, <1>4, <1>7, ConstantsAre
    <2>2. ToInt(t) < 0 /\ ToInt(t) \in Int
      <3>1. ToInt(t) < 0
        BY <1>1, <2>1, ToIntIs
      <3>2. ToInt(t) \in Int
        BY <1>1, IntMaxIsNat DEF ToInt
      <3> QED BY <3>1, <3>2
    <2>3. ~(Least(ToInt(t - s.sec), s.size) > 0)
      BY <1>1, <1>4, <2>1, <2>2 DEF Least
    <2>4. r = [s EXCEPT !.sec = t, !.bucket[1] = @ + 1]
      <3> DEFINE d == Least(ToInt(t - s.sec), s.size)
      <3>1. (IF d > 0 THEN Rotate(s, d) ELSE s) = s
        BY <2>3
      <3>2. ~(t < s.sec) /\ s.ptr + 1 = 1
        BY <1>1, <1>4
      <3> HIDE DEF d
      <3> QED BY <3>1, <3>2 DEF AddBytes, d
    <2>5. r = [sec |-> t, size |-> n, ptr |-> 0, bucket |-> bucket]
      <3> DEFINE y == [s EXCEPT !.sec = t]
      <3>1. y = [sec |-> t, size |-> n, ptr |-> 0, bucket |-> b]
        BY <1>2
      <3>2. r = [y EXCEPT !.bucket[1] = @ + 1]
        BY <2>4
      <3> HIDE DEF y, r
      <3> QED BY <3>1, <3>2
    <2>6. bucket \in [1 .. n -> Int]
      BY <1>1, <1>3
    <2> HIDE DEF r, bucket
    <2>7. r \in Stats(n) /\ r.sec = t /\ r.size = n
      BY <1>1, <2>5, <2>6 DEF Stats
    <2>8. /\ \A i \in 1 .. n : ~(SecondOf(r, i) > t)
          /\ SecondOf(r, 1) = t /\ 1 \in 1 .. n
      <3>1. /\ \A i \in 1 .. n : Age(r, i) \in Nat
            /\ Age(r, 1) = 0
        BY <1>1, <2>5, <2>7, AgeRange
      <3> QED BY <1>1, <2>7, <3>1 DEF SecondOf
    <2>9. Counts(r, {c}, t, k) /\ Exactly(r, {c}, k)
      BY <1>1, <2>7, <2>8 DEF Counts, Exactly
    <2> HIDE DEF k
    <2>10. Sound(r, {c}, t, exact, t)
      BY <1>1, <2>7, <2>9 DEF Sound
    <2> QED BY <1>1, <1>7, <2>10, ConstantsAre DEF r
  <1> QED BY <1>1, <1>6, <1>7, ConstantsAre

(* An object that is up to date stays as it is if nothing is added.        *)
LEMMA UpToDate ==
    ASSUME NEW n \in Nat \ {0}, NEW s \in Stats(n)
    PROVE  AddBytes(s, 0, s.sec) = s
  <1> DEFINE d == Least(ToInt(s.sec - s.sec), s.size)
  <1>1. /\ s = [sec |-> s.sec, size |-> n, ptr |-> s.ptr, bucket |-> s.bucket]
        /\ s.size = n /\ s.sec \in Nat /\ s.ptr + 1 \in 1 .. n
        /\ s.bucket \in [1 .. n -> Int]
    BY StatsAre
  <1>2. ~(d > 0)
    <2>1. s.sec - s.sec = 0 /\ 0 \in 0 .. IntMax /\ 0 \in Int
      BY <1>1, IntMaxIsNat
    <2>2. ToInt(s.sec - s.sec) = 0
      BY <2>1, ToIntIs
    <2> QED BY <1>1, <2>2 DEF Least
  <1>3. ~(s.sec < s.sec)
    BY <1>1
  <1>4. (IF d > 0 THEN Rotate(s, d) ELSE s) = s
    BY <1>2
  <1> HIDE DEF d
  <1>5. AddBytes(s, 0, s.sec)
          = [s EXCEPT !.sec = s.sec, !.bucket[s.ptr + 1] = @ + 0]
    BY <1>3, <1>4 DEF AddBytes, d
  <1>6. [s EXCEPT !.sec = s.sec] = s
    BY <1>1
  <1>7. [s EXCEPT !.sec = s.sec, !.bucket[s.ptr + 1] = @ + 0]
          = [[s EXCEPT !.sec = s.sec] EXCEPT !.bucket[s.ptr + 1] = @ + 0]
    OBVIOUS
  <1>8. [s.bucket EXCEPT ![s.ptr + 1] = @ + 0] = s.bucket
    BY <1>1
  <1>9. [s EXCEPT !.bucket[s.ptr + 1] = @ + 0] = s
    BY <1>1, <1>8
  <1> QED BY <1>5, <1>6, <1>7, <1>9

(* The connections of a peer, and those of them in one second.             *)
Of(p) == {c \in connects : c.peer = p}

At(p, t) == {c \in connects : c.peer = p /\ c.at = t}

ConnectsOK ==
    /\ IsFiniteSet(connects)
    /\ \A c \in connects : /\ c.peer \in Peers /\ peers[c.peer] # NoPeer
                           /\ c.at \in Nat /\ c.nth \in Nat
                           /\ c.nth < Cardinality(At(c.peer, c.at))

RingOK(p) ==
    peers[p] # NoPeer => Sound(peers[p], Of(p), unset[p], back = 0, now)

LimitTypes ==
    /\ now \in StartTime .. MaxTime
    /\ period \in Periods
    /\ back \in Nat
    /\ peers = [p \in Peers |-> peers[p]]
    /\ unset \in [Peers -> Nat]

LimitInv ==
    /\ LimitTypes
    /\ ConnectsOK
    /\ \A p \in Peers : RingOK(p)

(* A sound object is not the one that lookup gives for no object.          *)
LEMMA SoundIsNone ==
    ASSUME NEW s, NEW C, NEW u, NEW exact, NEW t, Sound(s, C, u, exact, t)
    PROVE  s # NoPeer
  BY NoPeerIsNone DEF Sound

(* The connections of a peer are finitely many.                            *)
LEMMA OfFinite ==
    ASSUME ConnectsOK, NEW p
    PROVE  IsFiniteSet(Of(p)) /\ \A c \in Of(p) : c.at \in Nat
  BY FS_Subset DEF ConnectsOK, Of

(* An object that is brought up to date, or to whatever the clock says.    *)
LEMMA SoundAfterGet ==
    ASSUME LimitInv, NEW p \in Peers, peers[p] # NoPeer
    PROVE  LET r == AddBytes(peers[p], 0, now)
           IN /\ Sound(r, Of(p), unset[p], back = 0, now)
              /\ r.size = peers[p].size /\ r.sec = now
  <1> DEFINE exact == back = 0
  <1>1. /\ Sound(peers[p], Of(p), unset[p], exact, now)
        /\ unset[p] \in Nat /\ exact \in BOOLEAN
        /\ now \in StartTime .. MaxTime
    BY DEF LimitInv, LimitTypes, RingOK
  <1> HIDE DEF exact
  <1>2. IsFiniteSet(Of(p)) /\ \A c \in Of(p) : c.at \in Nat
    BY OfFinite DEF LimitInv
  <1> DEFINE None == {}
  <1>3. /\ IsFiniteSet(None) /\ Cardinality(None) = 0
        /\ \A c \in None : c.at = now
        /\ Of(p) \cap None = {} /\ Of(p) \cup None = Of(p)
    BY FS_EmptySet
  <1> HIDE DEF None
  <1>4. LET r == AddBytes(peers[p], Cardinality(None), now)
        IN /\ Sound(r, Of(p) \cup None, unset[p], exact, now)
           /\ r.size = peers[p].size /\ r.sec = now
    BY <1>1, <1>2, <1>3, SoundAfterAddBytes
  <1> QED BY <1>3, <1>4 DEF exact

(* No peer has an object at first.                                         *)
LEMMA LimitInvAtFirst == LimitInit => LimitInv
  <1> SUFFICES ASSUME LimitInit PROVE LimitInv
    OBVIOUS
  <1>1. LimitTypes
    BY ConstantsAre DEF LimitInit, LimitTypes
  <1>2. ConnectsOK
    BY FS_EmptySet DEF LimitInit, ConnectsOK
  <1>3. \A p \in Peers : RingOK(p)
    BY DEF LimitInit, RingOK
  <1> QED BY <1>1, <1>2, <1>3 DEF LimitInv

(* The objects keep the period with which they were made.                  *)
LEMMA SetPeriodKeeps == LimitInv /\ SetPeriod => LimitInv'
  BY DEF SetPeriod, LimitInv, LimitTypes, ConnectsOK, RingOK, Of, At

(* An object is not older for the time that passes.                        *)
LEMMA TickKeeps == LimitInv /\ Tick => LimitInv'
  <1> SUFFICES ASSUME LimitInv, Tick PROVE LimitInv'
    OBVIOUS
  <1>1. LimitTypes'
    BY ConstantsAre DEF Tick, LimitInv, LimitTypes
  <1>2. ConnectsOK'
    BY DEF Tick, LimitInv, ConnectsOK, At
  <1>3. ASSUME NEW p \in Peers PROVE RingOK(p)'
    <2>1. RingOK(p)
      BY DEF LimitInv
    <2>2. ASSUME NEW s, NEW C, NEW u, NEW exact \in BOOLEAN,
                 Sound(s, C, u, exact, now)
          PROVE  Sound(s, C, u, exact, now')
      BY <2>2, ConstantsAre DEF Tick, LimitInv, LimitTypes, Sound
    <2> QED BY <2>1, <2>2 DEF Tick, RingOK, Of
  <1> QED BY <1>1, <1>2, <1>3 DEF LimitInv

(* From now on connections may be missing.                                 *)
LEMMA SetBackKeeps == LimitInv /\ SetBack => LimitInv'
  <1> SUFFICES ASSUME LimitInv, SetBack PROVE LimitInv'
    OBVIOUS
  <1>1. LimitTypes'
    BY ConstantsAre DEF SetBack, LimitInv, LimitTypes
  <1>2. ConnectsOK'
    BY DEF SetBack, LimitInv, ConnectsOK, At
  <1>3. ASSUME NEW p \in Peers PROVE RingOK(p)'
    <2>1. RingOK(p)
      BY DEF LimitInv
    <2>2. ASSUME NEW s, NEW C, NEW u, NEW exact \in BOOLEAN, NEW t, NEW w,
                 Sound(s, C, u, exact, t)
          PROVE  Sound(s, C, u, FALSE, w)
      BY <2>2 DEF Sound
    <2>3. (back' = 0) = FALSE
      BY DEF SetBack, LimitInv, LimitTypes
    <2>4. peers' = peers /\ unset' = unset /\ Of(p)' = Of(p)
      BY DEF SetBack, Of
    <2>5. (back = 0) \in BOOLEAN
      OBVIOUS
    <2> QED BY <2>1, <2>2, <2>3, <2>4, <2>5 DEF RingOK
  <1> QED BY <1>1, <1>2, <1>3 DEF LimitInv

(* get_total brings the object of one peer up to date.                     *)
LEMMA GetTotalOfKeeps ==
    ASSUME NEW p \in Peers
    PROVE  LimitInv /\ GetTotalOf(p) => LimitInv'
  <1> SUFFICES ASSUME LimitInv, GetTotalOf(p) PROVE LimitInv'
    OBVIOUS
  <1> DEFINE r == AddBytes(peers[p], 0, now)
  <1>1. Sound(r, Of(p), unset[p], back = 0, now)
    BY SoundAfterGet DEF GetTotalOf
  <1>2. /\ peers' = [q \in Peers |-> IF q = p THEN r ELSE peers[q]]
        /\ peers[p] # NoPeer
        /\ UNCHANGED <<period, now, connects, unset, back>>
    BY DEF GetTotalOf, LimitInv, LimitTypes
  <1> HIDE DEF r
  <1>3. r # NoPeer
    BY <1>1, SoundIsNone
  <1>4. LimitTypes'
    BY <1>2 DEF LimitInv, LimitTypes
  <1>5. ConnectsOK'
    BY <1>2, <1>3 DEF LimitInv, ConnectsOK, At
  <1>6. ASSUME NEW q \in Peers PROVE RingOK(q)'
    <2>1. Of(q)' = Of(q)
      BY <1>2 DEF Of
    <2> QED BY <1>1, <1>2, <2>1 DEF LimitInv, RingOK
  <1> QED BY <1>4, <1>5, <1>6 DEF LimitInv

(* The connection that is counted now.                                     *)
NewConnect(p) ==
    [peer |-> p, at |-> now, nth |-> Cardinality(At(p, now))]

(* It is none of those that were counted in the same second.               *)
LEMMA NewConnectIsNew ==
    ASSUME LimitInv, NEW p
    PROVE  NewConnect(p) \notin connects
  <1> SUFFICES ASSUME NewConnect(p) \in connects PROVE FALSE
    OBVIOUS
  <1> DEFINE n == Cardinality(At(p, now))
  <1>1. n < n
    BY DEF LimitInv, ConnectsOK, NewConnect
  <1>2. n \in Nat
    <2>1. IsFiniteSet(At(p, now))
      BY FS_Subset DEF LimitInv, ConnectsOK, At
    <2> QED BY <2>1, FS_CardinalityType
  <1> HIDE DEF n
  <1> QED BY <1>1, <1>2

(* The connections are numbered in each second.                            *)
LEMMA ConnectsAfterAdd ==
    ASSUME LimitInv, NEW p \in Peers, AddConnect(p), peers'[p] # NoPeer
    PROVE  /\ NewConnect(p) \notin connects
           /\ connects' = connects \cup {NewConnect(p)}
           /\ NewConnect(p).peer = p /\ NewConnect(p).at = now
           /\ ConnectsOK'
  <1> DEFINE c0 == NewConnect(p)
  <1>1. connects' = connects \cup {c0}
    BY DEF AddConnect, At, NewConnect
  <1>2. /\ now \in Nat /\ IsFiniteSet(connects)
        /\ \A c \in connects : /\ c.peer \in Peers /\ peers[c.peer] # NoPeer
                               /\ c.at \in Nat /\ c.nth \in Nat
                               /\ c.nth < Cardinality(At(c.peer, c.at))
    BY ConstantsAre DEF LimitInv, LimitTypes, ConnectsOK
  <1>3. \A q, t : IsFiniteSet(At(q, t)) /\ Cardinality(At(q, t)) \in Nat
    BY <1>2, FS_Subset, FS_CardinalityType DEF At
  <1>4. /\ c0.peer = p /\ c0.at = now /\ c0.nth = Cardinality(At(p, now))
        /\ c0.nth \in Nat
    BY <1>3 DEF NewConnect
  <1> HIDE DEF c0
  <1>5. c0 \notin connects
    BY NewConnectIsNew DEF c0
  <1>6. IsFiniteSet(connects')
    BY <1>1, <1>2, FS_AddElement
  <1>7. \A q, t : IsFiniteSet(At(q, t)') /\ Cardinality(At(q, t)') \in Nat
    BY <1>6, FS_Subset, FS_CardinalityType DEF At
  <1>8. \A q, t : Cardinality(At(q, t)) <= Cardinality(At(q, t)')
    <2> TAKE q, t
    <2>1. At(q, t) \subseteq At(q, t)'
      BY <1>1 DEF At
    <2> QED BY <1>7, <2>1, FS_Subset
  <1>9. \A t : t = now => Cardinality(At(p, t)') = Cardinality(At(p, t)) + 1
    <2> TAKE t
    <2> HAVE t = now
    <2>1. At(p, t)' = At(p, t) \cup {c0} /\ c0 \notin At(p, t)
      BY <1>1, <1>4, <1>5 DEF At
    <2> QED BY <1>3, <2>1, FS_AddElement
  <1>10. ASSUME NEW c \in connects'
         PROVE  /\ c.peer \in Peers /\ peers'[c.peer] # NoPeer
                /\ c.at \in Nat /\ c.nth \in Nat
                /\ c.nth < Cardinality(At(c.peer, c.at)')
    <2>1. CASE c \in connects
      <3>1. peers'[c.peer] # NoPeer
        <4>1. \A q \in Peers : q # p => peers'[q] = peers[q]
          BY DEF AddConnect, LimitInv, LimitTypes
        <4> QED BY <1>2, <2>1, <4>1
      <3>2. /\ Cardinality(At(c.peer, c.at)) \in Nat
            /\ Cardinality(At(c.peer, c.at)') \in Nat
            /\ Cardinality(At(c.peer, c.at)) <= Cardinality(At(c.peer, c.at)')
        BY <1>3, <1>7, <1>8
      <3> QED BY <1>2, <2>1, <3>1, <3>2
    <2>2. CASE c = c0
      <3>1. c.peer = p /\ c.at = now /\ c.nth = Cardinality(At(p, c.at))
        BY <1>4, <2>2
      <3>2. Cardinality(At(p, c.at)') = Cardinality(At(p, c.at)) + 1
        BY <1>9, <3>1
      <3> QED BY <1>2, <1>3, <3>1, <3>2
    <2> QED BY <1>1, <2>1, <2>2
  <1>11. ConnectsOK'
    BY <1>6, <1>10 DEF ConnectsOK
  <1> QED BY <1>1, <1>4, <1>5, <1>11 DEF c0

(* An object after one connection.                                         *)
LEMMA SoundAfterOne ==
    ASSUME NEW s, NEW C, NEW u \in Nat, NEW exact \in BOOLEAN,
           NEW t \in StartTime .. MaxTime, Sound(s, C, u, exact, t),
           IsFiniteSet(C), \A c \in C : c.at \in Nat,
           NEW x, x.at = t, x \notin C
    PROVE  Sound(AddBytes(s, 1, t), C \cup {x}, u, exact, t)
  <1> DEFINE One == {x}
  <1>1. /\ IsFiniteSet(One) /\ Cardinality(One) = 1
        /\ \A c \in One : c.at = t
        /\ C \cap One = {}
    BY FS_Singleton
  <1> HIDE DEF One
  <1>2. Sound(AddBytes(s, Cardinality(One), t), C \cup One, u, exact, t)
    BY <1>1, SoundAfterAddBytes
  <1> QED BY <1>1, <1>2 DEF One

(* add_connect, for a peer that has an object, and for one that gets one.  *)
LEMMA AddConnectKeeps ==
    ASSUME NEW p \in Peers
    PROVE  LimitInv /\ AddConnect(p) => LimitInv'
  <1> SUFFICES ASSUME LimitInv, AddConnect(p) PROVE LimitInv'
    OBVIOUS
  <1> DEFINE exact == back = 0
             c0 == NewConnect(p)
  <1>1. PICK s \in (IF peers[p] = NoPeer THEN NewStats(period)
                    ELSE {peers[p]}) :
          peers' = [peers EXCEPT ![p] = AddBytes(s, 1, now)]
    BY DEF AddConnect
  <1> DEFINE r == AddBytes(s, 1, now)
  <1>2. /\ peers' = [q \in Peers |-> IF q = p THEN r ELSE peers[q]]
        /\ now' = now /\ period' = period /\ back' = back
        /\ now \in StartTime .. MaxTime /\ now \in Nat /\ period \in Periods
        /\ unset \in [Peers -> Nat] /\ exact \in BOOLEAN
    BY <1>1, ConstantsAre DEF AddConnect, LimitInv, LimitTypes
  <1>3. unset' = IF peers[p] # NoPeer THEN unset
                 ELSE [unset EXCEPT ![p] = IF now <= IntMax THEN 0 ELSE now]
    BY DEF AddConnect
  <1>4. c0.peer = p /\ c0.at = now /\ connects' = connects \cup {c0}
    BY DEF AddConnect, NewConnect, At
  <1>5. /\ Of(p)' = Of(p) \cup {c0}
        /\ \A q \in Peers : q # p => Of(q)' = Of(q)
    BY <1>4 DEF Of
  <1> HIDE DEF exact, c0
  <1>6. Sound(r, Of(p) \cup {c0}, unset'[p], exact, now)
    <2>1. CASE peers[p] = NoPeer
      <3>1. s \in NewStats(period)
        BY <1>1, <2>1
      <3>2. unset'[p] = IF now <= IntMax THEN 0 ELSE now
        BY <1>2, <1>3, <2>1
      <3>3. Of(p) \cup {c0} = {c0}
        BY <2>1 DEF LimitInv, ConnectsOK, Of
      <3>4. Sound(r, {c0}, IF now <= IntMax THEN 0 ELSE now, exact, now)
        BY <1>2, <1>4, <3>1, SoundAtFirst
      <3> QED BY <3>2, <3>3, <3>4
    <2>2. CASE peers[p] # NoPeer
      <3>1. s = peers[p] /\ unset'[p] = unset[p] /\ unset[p] \in Nat
        BY <1>1, <1>2, <1>3, <2>2
      <3>2. Sound(s, Of(p), unset[p], exact, now)
        BY <2>2, <3>1 DEF LimitInv, RingOK, exact
      <3>3. IsFiniteSet(Of(p)) /\ \A c \in Of(p) : c.at \in Nat
        BY OfFinite DEF LimitInv
      <3>4. c0 \notin Of(p)
        BY NewConnectIsNew DEF Of, c0
      <3>5. now \in StartTime .. MaxTime /\ exact \in BOOLEAN
        BY <1>2
      <3> QED BY <1>4, <3>1, <3>2, <3>3, <3>4, <3>5, SoundAfterOne
    <2> QED BY <2>1, <2>2
  <1> HIDE DEF r
  <1>7. r # NoPeer
    BY <1>6, SoundIsNone
  <1>8. LimitTypes'
    BY <1>2, <1>3 DEF LimitInv, LimitTypes
  <1>9. ConnectsOK'
    <2>1. peers'[p] # NoPeer
      BY <1>2, <1>7
    <2> QED BY <2>1, ConnectsAfterAdd
  <1>10. ASSUME NEW q \in Peers PROVE RingOK(q)'
    <2>1. CASE q = p
      <3>1. Sound(r, Of(p)', unset'[p], back' = 0, now')
        BY <1>2, <1>5, <1>6 DEF exact
      <3> QED BY <1>2, <2>1, <3>1 DEF RingOK
    <2>2. CASE q # p
      <3>1. peers'[q] = peers[q] /\ unset'[q] = unset[q] /\ Of(q)' = Of(q)
        BY <1>2, <1>3, <1>5, <2>2
      <3> QED BY <1>2, <3>1 DEF LimitInv, RingOK
    <2> QED BY <2>1, <2>2
  <1> QED BY <1>8, <1>9, <1>10 DEF LimitInv

(* What cleanup leaves of a peer.                                          *)
LEMMA AfterCleanup ==
    ASSUME LimitInv, NEW all \in BOOLEAN, Cleanup(all), NEW p \in Peers
    PROVE  LET r == AddBytes(peers[p], 0, now)
           IN /\ peers'[p] = NoPeer \/ (peers[p] # NoPeer /\ peers'[p] = r)
              /\ peers[p] # NoPeer /\ peers'[p] = NoPeer => all \/ Idle(r)
              /\ peers'[p] = NoPeer => Of(p)' = {} /\ unset'[p] = 0
              /\ peers'[p] # NoPeer => Of(p)' = Of(p) /\ unset'[p] = unset[p]
  <1> DEFINE r == AddBytes(peers[p], 0, now)
  <1>1. peers'[p] = IF peers[p] = NoPeer THEN NoPeer
                    ELSE IF all \/ Idle(r) THEN NoPeer ELSE r
    BY DEF Cleanup
  <1>2. /\ connects' = {c \in connects : peers'[c.peer] # NoPeer}
        /\ unset'[p] = IF peers'[p] = NoPeer THEN 0 ELSE unset[p]
    BY DEF Cleanup
  <1>3. Of(p)' = {c \in Of(p) : peers'[p] # NoPeer}
    BY <1>2 DEF Of
  <1> HIDE DEF r
  <1>4. peers'[p] = NoPeer \/ (peers[p] # NoPeer /\ peers'[p] = r)
    BY <1>1
  <1>5. peers[p] # NoPeer /\ peers'[p] = NoPeer => all \/ Idle(r)
    <2>1. peers[p] # NoPeer => r # NoPeer
      BY SoundAfterGet, SoundIsNone DEF r
    <2> QED BY <1>1, <2>1
  <1> QED BY <1>2, <1>3, <1>4, <1>5 DEF r

(* cleanup, of all peers or of those that are idle.                        *)
LEMMA CleanupKeeps ==
    ASSUME NEW all \in BOOLEAN
    PROVE  LimitInv /\ Cleanup(all) => LimitInv'
  <1> SUFFICES ASSUME LimitInv, Cleanup(all) PROVE LimitInv'
    OBVIOUS
  <1>1. LimitTypes'
    <2>1. peers' = [p \in Peers |-> peers'[p]]
      BY DEF Cleanup
    <2>2. unset' = [p \in Peers |-> IF peers'[p] = NoPeer THEN 0 ELSE unset[p]]
          /\ UNCHANGED <<period, now, back>>
      BY DEF Cleanup
    <2>3. unset' \in [Peers -> Nat]
      BY <2>2 DEF LimitInv, LimitTypes
    <2> QED BY <2>1, <2>2, <2>3 DEF LimitInv, LimitTypes
  <1>2. ConnectsOK'
    <2>1. connects' = {c \in connects : peers'[c.peer] # NoPeer}
      BY DEF Cleanup
    <2>2. IsFiniteSet(connects')
      BY <2>1, FS_Subset DEF LimitInv, ConnectsOK
    <2>3. ASSUME NEW c \in connects'
          PROVE  At(c.peer, c.at)' = At(c.peer, c.at)
      BY <2>1 DEF At
    <2> QED BY <2>1, <2>2, <2>3 DEF LimitInv, ConnectsOK
  <1>3. ASSUME NEW p \in Peers PROVE RingOK(p)'
    <2> SUFFICES ASSUME peers'[p] # NoPeer
                 PROVE  Sound(peers'[p], Of(p)', unset'[p], back' = 0, now')
      BY DEF RingOK
    <2> DEFINE r == AddBytes(peers[p], 0, now)
    <2>1. /\ peers[p] # NoPeer /\ peers'[p] = r
          /\ Of(p)' = Of(p) /\ unset'[p] = unset[p]
      BY AfterCleanup
    <2>2. Sound(r, Of(p), unset[p], back = 0, now)
      BY <2>1, SoundAfterGet
    <2>3. back' = back /\ now' = now
      BY DEF Cleanup
    <2> HIDE DEF r
    <2> QED BY <2>1, <2>2, <2>3
  <1> QED BY <1>1, <1>2, <1>3 DEF LimitInv

(* In all states each object counts the connections of its peer.           *)
LEMMA LimitInvariance == LimitSpec => []LimitInv
  <1>1. LimitInit => LimitInv
    BY LimitInvAtFirst
  <1>2. LimitInv /\ [LimitNext]_limitVars => LimitInv'
    <2> SUFFICES ASSUME LimitInv, [LimitNext]_limitVars PROVE LimitInv'
      OBVIOUS
    <2>1. CASE UNCHANGED limitVars
      BY <2>1 DEF limitVars, LimitInv, LimitTypes, ConnectsOK, RingOK, Of, At
    <2>2. CASE SetPeriod
      BY <2>2, SetPeriodKeeps
    <2>3. CASE Tick
      BY <2>3, TickKeeps
    <2>4. CASE SetBack
      BY <2>4, SetBackKeeps
    <2>5. CASE \E p \in Peers : AddConnect(p) \/ GetTotalOf(p)
      BY <2>5, AddConnectKeeps, GetTotalOfKeeps
    <2>6. CASE \E all \in BOOLEAN : Cleanup(all)
      BY <2>6, CleanupKeeps
    <2> QED BY <2>1, <2>2, <2>3, <2>4, <2>5, <2>6 DEF LimitNext
  <1> QED BY <1>1, <1>2, PTL DEF LimitSpec

(* All buckets of an object are those of seconds after the one in which it *)
(* was made, or were cleared then.                                         *)
LEMMA SettledIs ==
    ASSUME NEW n \in Nat \ {0}, NEW s \in Stats(n), NEW u \in Nat,
           s.sec >= n, u = 0 \/ s.sec >= u + n
    PROVE  \A i \in 1 .. n : SecondOf(s, i) > u
  BY StatsAre, AgeRange DEF SecondOf

(* With all buckets in order, the sum over them is over the window.        *)
LEMMA WindowExactInv == LimitInv => WindowExact
  <1> SUFFICES ASSUME LimitInv, NEW p \in Peers, peers[p] # NoPeer, Settled(p)
               PROVE  IF back = 0 THEN TotalOf(p) = Cardinality(InWindow(p))
                      ELSE TotalOf(p) <= Cardinality(InWindow(p))
    BY DEF WindowExact
  <1> DEFINE s == peers[p]
             n == s.size
             u == unset[p]
             C == Of(p)
             r == AddBytes(s, 0, now)
             W == InWindow(p)
  <1>1. /\ Sound(s, C, u, back = 0, now)
        /\ u \in Nat /\ now \in Nat /\ now \in StartTime .. MaxTime
    BY ConstantsAre DEF LimitInv, LimitTypes, RingOK
  <1>2. /\ n \in Nat \ {0} /\ n <= StartTime /\ s \in Stats(n)
        /\ s.sec \in Nat /\ s.sec >= n
    BY <1>1, ConstantsAre DEF Sound
  <1>3. IsFiniteSet(C) /\ \A c \in C : c.at \in Nat
    BY OfFinite DEF LimitInv
  <1>4. W = {c \in C : c.at > now - n}
    BY DEF InWindow, Of
  <1>5. IsFiniteSet(W) /\ Cardinality(W) \in Nat
    BY <1>3, <1>4, FS_Subset, FS_CardinalityType
  <1>6. TotalOf(p) = Total(r)
    BY DEF TotalOf, GetTotal
  <1>7. u = 0 \/ s.sec >= u + n
    BY DEF Settled
  <1>8. /\ Sound(r, C, u, back = 0, now)
        /\ r.size = n /\ r.sec = now
    BY SoundAfterGet
  <1>9. r \in Stats(n)
    BY <1>8 DEF Sound
  <1>10. ASSUME NEW m \in [C -> 0 .. n], Classed(C, m) \subseteq W
         PROVE  Cardinality(Classed(C, m)) <= Cardinality(W)
    BY <1>5, <1>10, FS_Subset
  <1> HIDE DEF r, s, n, u, C, W
  <1>11. CASE s.sec <= now
    <2>1. \A i \in 1 .. n : SecondOf(r, i) > u
      <3>1. now >= n /\ (u = 0 \/ now >= u + n)
        BY <1>1, <1>2, <1>7, <1>11
      <3> QED BY <1>1, <1>2, <1>8, <1>9, <3>1, SettledIs
    <2>2. PICK m : Counts(r, C, u, m) /\ (back = 0 => Exactly(r, C, m))
      BY <1>8 DEF Sound
    <2>3. /\ m \in [C -> 0 .. n]
          /\ \A c \in C : m[c] # 0 => c.at >= SecondOf(r, m[c])
      BY <1>8, <2>2 DEF Counts
    <2>4. Total(r) = Cardinality(Classed(C, m))
      BY <1>1, <1>2, <1>3, <1>9, <2>1, <2>2, TotalCounts
    <2>5. ASSUME NEW c \in C, m[c] # 0 PROVE c.at > now - n
      <3>1. m[c] \in 1 .. n
        BY <2>3, <2>5
      <3>2. Age(r, m[c]) \in 0 .. n - 1
        BY <1>2, <1>9, <3>1, AgeRange
      <3>3. c.at >= now - Age(r, m[c]) /\ c.at \in Nat
        BY <1>3, <1>8, <2>3, <2>5 DEF SecondOf
      <3> QED BY <1>1, <1>2, <3>2, <3>3
    <2>6. Classed(C, m) \subseteq W
      BY <1>4, <2>5 DEF Classed
    <2>7. back = 0 => Classed(C, m) = W
      BY <1>4, <1>8, <2>2, <2>6 DEF Exactly, Classed
    <2> QED BY <1>5, <1>6, <1>10, <2>3, <2>4, <2>6, <2>7 DEF W
  <1>12. CASE ~(s.sec <= now)
    <2>1. now < s.sec /\ back # 0
      BY <1>1, <1>2, <1>12 DEF Sound
    <2>2. \A i \in 1 .. n : SecondOf(s, i) > u
      BY <1>1, <1>2, <1>7, SettledIs
    <2>3. PICK m : Counts(s, C, u, m)
      BY <1>1 DEF Sound
    <2>4. /\ m \in [C -> 0 .. n]
          /\ \A c \in C : m[c] # 0 => c.at >= SecondOf(s, m[c])
      BY <2>3 DEF Counts, n
    <2>5. Total(r) = Cardinality(Classed(C, m))
      <3>1. Total(s) = Cardinality(Classed(C, m))
        BY <1>1, <1>2, <1>3, <2>2, <2>3, TotalCounts
      <3>2. r.bucket = s.bucket
        BY <1>1, <1>2, <2>1, AddBytesBack DEF r
      <3> QED BY <1>8, <3>1, <3>2 DEF Total, n
    <2>6. ASSUME NEW c \in C, m[c] # 0 PROVE c.at > now - n
      <3>1. m[c] \in 1 .. n
        BY <2>4, <2>6
      <3>2. Age(s, m[c]) \in 0 .. n - 1
        BY <1>2, <3>1, AgeRange
      <3>3. c.at >= s.sec - Age(s, m[c]) /\ c.at \in Nat
        BY <1>3, <2>4, <2>6 DEF SecondOf
      <3> QED BY <1>1, <1>2, <2>1, <3>2, <3>3
    <2>7. Classed(C, m) \subseteq W
      BY <1>4, <2>6 DEF Classed
    <2> QED BY <1>6, <1>10, <2>1, <2>4, <2>5, <2>7 DEF W
  <1> QED BY <1>11, <1>12

(* The total of a peer is the number of its connections in the last        *)
(* period, or at most that if the clock was set back (add_bytes,           *)
(* get_total).                                                             *)
THEOREM TotalsCountTheWindow == LimitSpec => []WindowExact
  BY LimitInvariance, WindowExactInv, PTL

(* What cleanup keeps is up to date, and what it deletes had a total of 0. *)
LEMMA CleanupKeepsTotal ==
    ASSUME LimitInv, Cleanup(FALSE), NEW p \in Peers
    PROVE  TotalOf(p)' = TotalOf(p)
  <1> DEFINE r == AddBytes(peers[p], 0, now)
  <1>1. now' = now
    BY DEF Cleanup
  <1>2. /\ peers'[p] = NoPeer \/ (peers[p] # NoPeer /\ peers'[p] = r)
        /\ peers[p] # NoPeer /\ peers'[p] = NoPeer => Idle(r)
    BY AfterCleanup
  <1>3. TotalOf(p) = IF peers[p] = NoPeer THEN 0 ELSE Total(r)
    BY DEF TotalOf, GetTotal
  <1>4. TotalOf(p)' = IF peers'[p] = NoPeer THEN 0
                      ELSE Total(AddBytes(peers'[p], 0, now))
    BY <1>1 DEF TotalOf, GetTotal
  <1>5. ASSUME peers[p] # NoPeer PROVE AddBytes(r, 0, now) = r
    <2>1. r.size \in Nat \ {0} /\ r \in Stats(r.size) /\ r.sec = now
      BY <1>5, SoundAfterGet, ConstantsAre DEF Sound
    <2> HIDE DEF r
    <2> QED BY <2>1, UpToDate
  <1> HIDE DEF r
  <1>6. CASE peers'[p] = NoPeer
    BY <1>2, <1>3, <1>4, <1>6 DEF Idle
  <1>7. CASE peers'[p] # NoPeer
    BY <1>2, <1>3, <1>4, <1>5, <1>7
  <1> QED BY <1>6, <1>7

(* cleanup of idle peers changes no total.                                 *)
THEOREM CleanupLosesNothing == LimitSpec => CleanupKeepsTotals
  <1>1. LimitInv /\ [LimitNext]_limitVars =>
          [Cleanup(FALSE) =>
             \A p \in Peers : TotalOf(p)' = TotalOf(p)]_limitVars
    BY CleanupKeepsTotal
  <1> QED BY <1>1, LimitInvariance, PTL DEF LimitSpec, CleanupKeepsTotals

(***************************************************************************)
(* SessionThreads, for any number of sessions.                             *)
(*                                                                         *)
(* The invariant lists what there can be of a session.  Which part of it   *)
(* is whose follows from "accepting": childNotify has the session that it  *)
(* is at work for, and the session's thread has all others that are left.  *)
(***************************************************************************)

Parts(m, a, o, t) == [manager |-> m, assoc |-> a, object |-> o, thread |-> t]

(* A session that childNotify is at work for, with and without observer.   *)
Starting ==
    {Parts("lives", "enlisted", "none", "none"),
     Parts("lives", "enlisted", "lives", "none")}

(* The others: none, refused, or with a thread that failed, runs, has an   *)
(* association no more, or ended.                                          *)
Placed ==
    {NoSession,
     Parts("deleted", "deleted", "none", "none"),
     Parts("lives", "enlisted", "lives", "failed"),
     Parts("lives", "enlisted", "lives", "runs"),
     Parts("lives", "deleted", "deleted", "runs"),
     Parts("deleted", "deleted", "deleted", "ended")}

ThreadsTypes ==
    /\ DOMAIN session = Sessions
    /\ session = [s \in Sessions |-> session[s]]
    /\ accepting \in Sessions \cup {Nobody}

Owned == \A s \in Sessions :
    session[s] \in IF accepting = s THEN Starting ELSE Placed

ThreadsInv == ThreadsTypes /\ Owned

----------------------------------------------------------------------------
(* A step that gives one session new parts, and accepting a new value,     *)
(* keeps the invariant if the new parts fit the new value and accepting    *)
(* was, and is, that session or nobody.                                    *)
LEMMA OneChanges ==
    ASSUME ThreadsInv, NEW s \in Sessions, NEW x,
           session' = [session EXCEPT ![s] = x],
           x \in IF accepting' = s THEN Starting ELSE Placed,
           \/ accepting' = accepting
           \/ accepting \in {s, Nobody} /\ accepting' \in {s, Nobody}
    PROVE  ThreadsInv'
<1>1. ThreadsTypes'
  BY DEF ThreadsInv, ThreadsTypes
<1>2. ASSUME NEW r \in Sessions
      PROVE  session'[r] \in IF accepting' = r THEN Starting ELSE Placed
  <2>1. CASE r = s
    BY <2>1 DEF ThreadsInv, ThreadsTypes
  <2>2. CASE r # s
    <3>1. session'[r] = session[r]
      BY <2>2 DEF ThreadsInv, ThreadsTypes
    <3>2. accepting' = r <=> accepting = r
      BY <2>2, NobodyIsNone
    <3> QED BY <3>1, <3>2 DEF ThreadsInv, Owned
  <2> QED BY <2>1, <2>2
<1> QED BY <1>1, <1>2 DEF ThreadsInv, Owned

(* No session has begun.                                                   *)
LEMMA ThreadsInvInit == ThreadsInit => ThreadsInv
<1> SUFFICES ASSUME ThreadsInit PROVE ThreadsInv
  OBVIOUS
<1>1. ThreadsTypes
  BY DEF ThreadsInit, ThreadsTypes
<1>2. Owned
  BY NobodyIsNone DEF ThreadsInit, Owned, Placed
<1> QED BY <1>1, <1>2 DEF ThreadsInv

(* One step for each action of the listener and of a session's thread.     *)
LEMMA ThreadsInvNext == ThreadsInv /\ [ThreadsNext]_threadsVars => ThreadsInv'
<1> SUFFICES ASSUME ThreadsInv, [ThreadsNext]_threadsVars PROVE ThreadsInv'
  OBVIOUS
<1> USE DEF Parts, NoSession
<1>1. ASSUME NEW s \in Sessions, ChildNotify(s) PROVE ThreadsInv'
  <2> DEFINE x == [session[s] EXCEPT !.manager = "lives", !.assoc = "enlisted"]
  <2>1. session' = [session EXCEPT ![s] = x]
    BY <1>1 DEF ChildNotify, ThreadsInv, ThreadsTypes
  <2>2. x \in Starting
    <3>1. session[s] = Parts("none", "none", "none", "none")
      BY <1>1 DEF ChildNotify
    <3> DEFINE y == [session[s] EXCEPT !.manager = "lives"]
    <3>2. y = Parts("lives", "none", "none", "none")
      BY <3>1
    <3>3. x = [y EXCEPT !.assoc = "enlisted"]
      OBVIOUS
    <3> HIDE DEF x, y
    <3>4. x = Parts("lives", "enlisted", "none", "none")
      BY <3>2, <3>3
    <3> QED BY <3>4 DEF Starting
  <2>3. accepting = Nobody /\ accepting' = s
    BY <1>1 DEF ChildNotify
  <2> HIDE DEF x
  <2> QED BY <2>1, <2>2, <2>3, OneChanges
<1>2. ASSUME NEW s \in Sessions, Observed(s) PROVE ThreadsInv'
  <2> DEFINE x == [session[s] EXCEPT !.object = "lives"]
  <2>1. session' = [session EXCEPT ![s] = x]
    BY <1>2 DEF Observed, ThreadsInv, ThreadsTypes
  <2>2. x \in Starting
    BY <1>2 DEF Observed, ThreadsInv, Owned, Starting
  <2>3. accepting = s /\ accepting' = s
    BY <1>2 DEF Observed
  <2> HIDE DEF x
  <2> QED BY <2>1, <2>2, <2>3, OneChanges
<1>3. ASSUME NEW s \in Sessions, Refused(s) PROVE ThreadsInv'
  <2> DEFINE x == [session[s] EXCEPT !.assoc = "deleted",
                                     !.manager = "deleted"]
  <2>1. session' = [session EXCEPT ![s] = x]
    BY <1>3 DEF Refused, ThreadsInv, ThreadsTypes
  <2>2. x \in Placed
    <3>1. session[s] = Parts("lives", "enlisted", "none", "none")
      BY <1>3 DEF Refused, ThreadsInv, Owned, Starting
    <3> DEFINE y == [session[s] EXCEPT !.assoc = "deleted"]
    <3>2. y = Parts("lives", "deleted", "none", "none")
      BY <3>1
    <3>3. x = [y EXCEPT !.manager = "deleted"]
      OBVIOUS
    <3> HIDE DEF x, y
    <3>4. x = Parts("deleted", "deleted", "none", "none")
      BY <3>2, <3>3
    <3> QED BY <3>4 DEF Placed
  <2>3. accepting = s /\ accepting' = Nobody
    BY <1>3 DEF Refused
  <2> HIDE DEF x
  <2> QED BY <2>1, <2>2, <2>3, OneChanges, NobodyIsNone
<1>4. ASSUME NEW s \in Sessions, CreateThread(s) PROVE ThreadsInv'
  <2> DEFINE x == [session[s] EXCEPT !.thread = "runs"]
  <2>1. session' = [session EXCEPT ![s] = x]
    BY <1>4 DEF CreateThread, ThreadsInv, ThreadsTypes
  <2>2. x \in Placed
    BY <1>4 DEF CreateThread, ThreadsInv, Owned, Starting, Placed
  <2>3. accepting = s /\ accepting' = Nobody
    BY <1>4 DEF CreateThread
  <2> HIDE DEF x
  <2> QED BY <2>1, <2>2, <2>3, OneChanges, NobodyIsNone
<1>5. ASSUME NEW s \in Sessions, CreateThreadFails(s) PROVE ThreadsInv'
  <2> DEFINE x == [session[s] EXCEPT !.thread = "failed"]
  <2>1. session' = [session EXCEPT ![s] = x]
    BY <1>5 DEF CreateThreadFails, ThreadsInv, ThreadsTypes
  <2>2. x \in Placed
    BY <1>5 DEF CreateThreadFails, ThreadsInv, Owned, Starting, Placed
  <2>3. accepting = s /\ accepting' = Nobody
    BY <1>5 DEF CreateThreadFails
  <2> HIDE DEF x
  <2> QED BY <2>1, <2>2, <2>3, OneChanges, NobodyIsNone
<1>6. ASSUME NEW s \in Sessions, SessionEnds(s) PROVE ThreadsInv'
  <2> DEFINE x == [session[s] EXCEPT !.assoc = "deleted", !.object = "deleted"]
  <2>1. session' = [session EXCEPT ![s] = x] /\ accepting' = accepting
    BY <1>6 DEF SessionEnds, ThreadsInv, ThreadsTypes
  <2>2. accepting # s
    BY <1>6 DEF SessionEnds, ThreadsInv, Owned, Starting
  <2>3. x \in Placed
    <3>1. session[s] = Parts("lives", "enlisted", "lives", "runs")
      BY <1>6, <2>2 DEF SessionEnds, ThreadsInv, Owned, Placed
    <3> DEFINE y == [session[s] EXCEPT !.assoc = "deleted"]
    <3>2. y = Parts("lives", "deleted", "lives", "runs")
      BY <3>1
    <3>3. x = [y EXCEPT !.object = "deleted"]
      OBVIOUS
    <3> HIDE DEF x, y
    <3>4. x = Parts("lives", "deleted", "deleted", "runs")
      BY <3>2, <3>3
    <3> QED BY <3>4 DEF Placed
  <2> HIDE DEF x
  <2> QED BY <2>1, <2>2, <2>3, OneChanges
<1>7. ASSUME NEW s \in Sessions, ThreadEnds(s) PROVE ThreadsInv'
  <2> DEFINE x == [session[s] EXCEPT !.thread = "ended", !.manager = "deleted"]
  <2>1. session' = [session EXCEPT ![s] = x] /\ accepting' = accepting
    BY <1>7 DEF ThreadEnds, ThreadsInv, ThreadsTypes
  <2>2. accepting # s
    BY <1>7 DEF ThreadEnds, ThreadsInv, Owned, Starting
  <2>3. x \in Placed
    <3>1. session[s] = Parts("lives", "deleted", "deleted", "runs")
      BY <1>7, <2>2 DEF ThreadEnds, ThreadsInv, Owned, Placed
    <3> DEFINE y == [session[s] EXCEPT !.thread = "ended"]
    <3>2. y = Parts("lives", "deleted", "deleted", "ended")
      BY <3>1
    <3>3. x = [y EXCEPT !.manager = "deleted"]
      OBVIOUS
    <3> HIDE DEF x, y
    <3>4. x = Parts("deleted", "deleted", "deleted", "ended")
      BY <3>2, <3>3
    <3> QED BY <3>4 DEF Placed
  <2> HIDE DEF x
  <2> QED BY <2>1, <2>2, <2>3, OneChanges
<1>8. ASSUME UNCHANGED <<session, accepting>> PROVE ThreadsInv'
  BY <1>8 DEF ThreadsInv, ThreadsTypes, Owned
<1>9. CASE \E s \in Sessions : Connect(s) \/ Disconnect(s)
  BY <1>8, <1>9 DEF Connect, Disconnect
<1>10. CASE MainReturns
  BY <1>8, <1>10 DEF MainReturns
<1>11. CASE UNCHANGED threadsVars
  BY <1>8, <1>11 DEF threadsVars
<1> QED BY <1>1, <1>2, <1>3, <1>4, <1>5, <1>6, <1>7, <1>9, <1>10, <1>11
        DEF ThreadsNext, Listener

(* In all states each session is in one of the listed conditions.          *)
LEMMA ThreadsInvariance == ThreadsSpec => []ThreadsInv
<1> QED BY ThreadsInvInit, ThreadsInvNext, PTL DEF ThreadsSpec

----------------------------------------------------------------------------
(* An association has its manager, an observer its association, and a      *)
(* thread its manager and its observer, in every order of the steps of     *)
(* childNotify and of the threads (PDU_AssocThread::childNotify).          *)
THEOREM NothingEverDangles == ThreadsSpec => []NothingDangles
<1>1. ASSUME ThreadsInv, NEW s \in Sessions
      PROVE  /\ Lives(session[s].assoc) => Lives(session[s].manager)
             /\ Lives(session[s].object) => Lives(session[s].assoc)
             /\ session[s].thread = "runs" => Lives(session[s].manager)
             /\ session[s].thread = "runs" /\ Lives(session[s].assoc) =>
                  Lives(session[s].object)
  <2>1. session[s] \in Starting \cup Placed
    BY <1>1 DEF ThreadsInv, Owned
  <2> QED BY <2>1 DEF Starting, Placed, Lives, Parts, NoSession
<1>2. ThreadsInv => NothingDangles
  BY <1>1 DEF NothingDangles
<1> QED BY <1>2, ThreadsInvariance, PTL

(* What is left of a session is childNotify's or its thread's to delete,   *)
(* unless pthread_create failed (PDU_AssocThread::childNotify, run).       *)
THEOREM NothingIsStranded == ThreadsSpec => []NothingStranded
<1>1. ThreadsInv => NothingStranded
  BY DEF ThreadsInv, Owned, Starting, Placed, NothingStranded, Left, Lives,
         Parts, NoSession
<1> QED BY <1>1, ThreadsInvariance, PTL
=============================================================================
