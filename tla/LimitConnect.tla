---------------------------- MODULE LimitConnect ----------------------------
(***************************************************************************)
(* LimitConnect (limit-connect.cpp): how many connections each peer has    *)
(* made in the last period, in a TimeStat per peer.  A server asks for the *)
(* total to refuse those that connect too often; it is not part of the     *)
(* repository.  The clock is time(0); it may be set back.                  *)
(***************************************************************************)
EXTENDS TimeStat

CONSTANTS
    Peers,       \* names of peers
    NoPeer,      \* what lookup finds for a name that is not in the list
    Periods,     \* arguments of set_period
    StartTime,   \* of the clock
    MaxTime,     \* bound on the clock
    MaxBack,     \* bound on how often it is set back
    MaxConnects  \* bound on the connections counted

(* A period of 0 would index buckets that do not exist; a clock that       *)
(* starts within a period from 1970 would leave buckets uninitialised; no  *)
(* run is so long (68 years) that its seconds do not fit an int.           *)
ASSUME Sane ==
    /\ \A p \in Periods : p \in Nat \ {0} /\ p <= StartTime
    /\ StartTime \in Nat /\ StartTime <= IntMax
    /\ MaxTime \in StartTime .. StartTime + IntMax

(* NoPeer is not an object.                                                *)
ASSUME NoPeerIsNone == \A p \in Periods : NoPeer \notin Stats(p)

VARIABLES
    peers,     \* m_peers, by name
    period,    \* m_period
    now,       \* the clock
    connects,  \* history: the connections of the peers in the list
    unset,     \* history: when a peer's object was made, if its buckets
               \* were not all cleared then; otherwise 0
    back       \* history: how often the clock was set back

limitVars == <<peers, period, now, connects, unset, back>>

LimitInit ==
    /\ peers = [p \in Peers |-> NoPeer]
    /\ period \in Periods
    /\ now = StartTime
    /\ connects = {}
    /\ unset = [p \in Peers |-> 0]
    /\ back = 0

(* For the peers that exist already nothing changes.                       *)
SetPeriod ==
    /\ period' \in Periods
    /\ UNCHANGED <<peers, now, connects, unset, back>>

AddConnect(p) ==
    /\ Cardinality(connects) < MaxConnects
    /\ \E s \in IF peers[p] = NoPeer THEN NewStats(period) ELSE {peers[p]} :
         peers' = [peers EXCEPT ![p] = AddBytes(s, 1, now)]
    /\ unset' = IF peers[p] # NoPeer THEN unset
                ELSE [unset EXCEPT ![p] = IF now <= IntMax THEN 0 ELSE now]
    /\ connects' = connects \cup
         {[peer |-> p, at |-> now,
           nth |-> Cardinality({c \in connects : c.peer = p /\ c.at = now})]}
    /\ UNCHANGED <<period, now, back>>

(* get_total for a server that asks before it accepts: the object of the   *)
(* peer is brought up to now.                                              *)
GetTotalOf(p) ==
    /\ peers[p] # NoPeer
    /\ peers' = [peers EXCEPT ![p] = AddBytes(@, 0, now)]
    /\ UNCHANGED <<period, now, connects, unset, back>>

(* Fault: a peer is idle if its newest bucket is empty.                    *)
Idle_Newest(s) == s.bucket[s.ptr + 1] = 0

Idle(s) == Total(s) = 0

(* cleanup: the total of each peer is asked for, and idle ones go.         *)
Cleanup(all) ==
    /\ peers' = [p \in Peers |->
         IF peers[p] = NoPeer THEN NoPeer
         ELSE LET s == AddBytes(peers[p], 0, now)
              IN IF all \/ Idle(s) THEN NoPeer ELSE s]
    /\ connects' = {c \in connects : peers'[c.peer] # NoPeer}
    /\ unset' = [p \in Peers |-> IF peers'[p] = NoPeer THEN 0 ELSE unset[p]]
    /\ UNCHANGED <<period, now, back>>

Tick ==
    /\ now < MaxTime /\ now' = now + 1
    /\ UNCHANGED <<peers, period, connects, unset, back>>

(* Somebody sets the clock back.                                           *)
SetBack ==
    /\ back < MaxBack
    /\ \E t \in StartTime .. now - 1 : now' = t
    /\ back' = back + 1
    /\ UNCHANGED <<peers, period, connects, unset>>

LimitNext ==
    \/ SetPeriod \/ Tick \/ SetBack
    \/ \E p \in Peers : AddConnect(p) \/ GetTotalOf(p)
    \/ \E all \in BOOLEAN : Cleanup(all)

LimitSpec == LimitInit /\ [][LimitNext]_limitVars

----------------------------------------------------------------------------
(* The total that get_total would return now; none for an unknown peer.    *)
TotalOf(p) == IF peers[p] = NoPeer THEN 0 ELSE GetTotal(peers[p], now)

InWindow(p) ==
    {c \in connects : c.peer = p /\ c.at > now - peers[p].size}

(* Uninitialised buckets are left if the time did not fit an int when the  *)
(* object was made, until it has gone round the ring once.                 *)
Settled(p) ==
    unset[p] = 0 \/ peers[p].sec >= unset[p] + peers[p].size

(* The total of a peer is the number of its connections in the last        *)
(* period, however many of them, of seconds between them and of turns of   *)
(* the ring there were.  If the clock was set back, connections may be     *)
(* missing, but none is counted that is older than the period.  Nothing is *)
(* said of a peer first seen after 2038 until its ring has turned once     *)
(* (Settled; add_bytes, get_total).                                        *)
WindowExact ==
    \A p \in Peers : peers[p] # NoPeer /\ Settled(p) =>
        LET n == Cardinality(InWindow(p))
        IN IF back = 0 THEN TotalOf(p) = n ELSE TotalOf(p) <= n

(* cleanup of idle peers loses no connection that still counts: all totals *)
(* are the same afterwards.                                                *)
CleanupKeepsTotals ==
    [][ Cleanup(FALSE) => \A p \in Peers : TotalOf(p)' = TotalOf(p) ]_limitVars
=============================================================================
