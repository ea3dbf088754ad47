---------------------------- MODULE RecordCache ----------------------------
(***************************************************************************)
(* The cache of retrieval records (yaz-z-cache.cpp), and a proxy that uses *)
(* it for one result set at a time.                                        *)
(*                                                                         *)
(* An entry does not hold the request that its record was fetched with: it *)
(* is labelled, when it is added, with the composition in the request that *)
(* the cache has a copy of.  The proxy is not part of the repository; it   *)
(* has at most one request outstanding, and clears the cache for a search. *)
(***************************************************************************)
EXTENDS Integers, Sequences, SequencesExt

CONSTANTS
    Syntaxes,    \* record syntaxes
    ElementSets, \* names of element sets
    NoValue,     \* a null pointer: no composition, syntax or request
    Miss,        \* lookup returns 0
    MaxPosition, \* bound on the size of result sets
    DefaultSize, \* max_size of a new cache, counted in allocations
    MaxUsed,     \* bound on requests: none is made when more is used
    MaxSearches, \* bound on searches
    MaxEdition   \* bound on the changes of the target's records

ASSUME Bounds ==
    /\ MaxPosition \in Nat \ {0} /\ DefaultSize \in Nat /\ MaxUsed \in Nat
    /\ MaxSearches \in Nat /\ MaxEdition \in Nat

(* Compositions: none, or a simple one with the name of an element set.    *)
Comps == [simple : ElementSets] \cup {NoValue}

SearchRequests ==
    [smallSetUpperBound : 0 .. MaxPosition,
     small : ElementSets \cup {NoValue}, medium : ElementSets \cup {NoValue}]

PresentRequests ==
    [start : 1 .. MaxPosition, num : 1 .. MaxPosition,
     syntax : Syntaxes \cup {NoValue}, comp : Comps]

ASSUME NoValueIsNone ==
    /\ NoValue \notin Syntaxes /\ NoValue \notin ElementSets
    /\ NoValue \notin SearchRequests /\ NoValue \notin PresentRequests

VARIABLES
    cache,    \* RecordCache::Rep, a record: see NewCache
    target,   \* its result set: number, size, edition of the records
    pending,  \* the request of the proxy that the target has to answer
    call      \* the last call of the proxy to the cache, and its answer

vars == <<cache, target, pending, call>>

NoCall == [op |-> "none"]

----------------------------------------------------------------------------
(* The cache.  "entries" is m_next's list, newest first; "used" stands for *)
(* nmem_total, in allocations.                                             *)
NewCache ==
    [entries |-> <<>>, used |-> 0, max_size |-> DefaultSize,
     searchRequest |-> NoValue, presentRequest |-> NoValue]

SetMaxSize(k, sz) == [k EXCEPT !.max_size = sz]

(* Everything is forgotten but the size.                                   *)
Clear(k) == SetMaxSize(NewCache, k.max_size)

(* Copying a request replaces both.                                        *)
CopySearchRequest(k, sr) ==
    [k EXCEPT !.searchRequest = sr, !.presentRequest = NoValue, !.used = @ + 1]

CopyPresentRequest(k, pr) ==
    [k EXCEPT !.searchRequest = NoValue, !.presentRequest = pr, !.used = @ + 1]

(* yaz_clone_z_RecordComposition encodes and decodes: a simple composition *)
(* without a name does not encode, and becomes none.                       *)
CloneComp(comp) == IF comp = [simple |-> NoValue] THEN NoValue ELSE comp

(* The entries for the records of a response, the last one in front.       *)
NewEntries(records, start, comp) ==
    Reverse([i \in 1 .. Len(records) |->
        [offset |-> start + i - 1, record |-> records[i],
         comp |-> CloneComp(comp)]])

(* Fault: new entries come after the old ones.                             *)
AddRecords_Behind(k, records, start, comp) ==
    IF k.used > k.max_size THEN k
    ELSE [k EXCEPT !.entries = @ \o NewEntries(records, start, comp),
                   !.used = @ + Len(records)]

(* add with a composition: the new entries come in front of the old ones,  *)
(* unless too much is used already.                                        *)
AddRecords(k, records, start, comp) ==
    IF k.used > k.max_size THEN k
    ELSE [k EXCEPT !.entries = NewEntries(records, start, comp) \o @,
                   !.used = @ + Len(records)]

(* The composition of a response: that of the present request if hits is   *)
(* -1; otherwise that of a small or a medium set of the search request.    *)
CompOf(k, hits) ==
    IF hits = -1 /\ k.presentRequest # NoValue THEN k.presentRequest.comp
    ELSE IF hits > 0 /\ k.searchRequest # NoValue
    THEN IF hits <= k.searchRequest.smallSetUpperBound
         THEN [simple |-> k.searchRequest.small]
         ELSE [simple |-> k.searchRequest.medium]
    ELSE NoValue

Add(k, records, start, hits) == AddRecords(k, records, start, CompOf(k, hits))

(* Fault: a record matches in any syntax.                                  *)
Matches_AnySyntax(entry, syntax, offset, comp) ==
    /\ entry.comp = comp
    /\ syntax # NoValue
    /\ entry.offset = offset
    /\ entry.record.which = "databaseRecord"

(* match: no syntax, and diagnostics instead of a record, never match.     *)
Matches(entry, syntax, offset, comp) ==
    /\ entry.comp = comp
    /\ syntax # NoValue
    /\ entry.offset = offset
    /\ entry.record.which = "databaseRecord"
    /\ entry.record.syntax = syntax

First(js) == CHOOSE j \in js : \A h \in js : j <= h

(* lookup: for each position the first entry that matches, or nothing at   *)
(* all if one has none.                                                    *)
Lookup(k, start, num, syntax, comp) ==
    LET at(i) == {j \in DOMAIN k.entries :
                    Matches(k.entries[j], syntax, start + i - 1, comp)}
    IN IF \E i \in 1 .. num : at(i) = {} THEN Miss
       ELSE [i \in 1 .. num |-> k.entries[First(at(i))].record]

----------------------------------------------------------------------------
(* The proxy and the target.                                               *)
Init ==
    /\ cache = NewCache
    /\ target = [set |-> 0, size |-> 0, edition |-> 0]
    /\ pending = NoValue
    /\ call = NoCall

(* The record at a position of the target's result set now, in a syntax    *)
(* and a composition.                                                      *)
RecordAt(position, syntax, comp) ==
    [which |-> "databaseRecord", set |-> target.set, edition |-> target.edition,
     position |-> position, syntax |-> syntax, comp |-> comp]

(* The first n records from start, some of them diagnostics instead.       *)
Records(start, comp, n, bad, syntax) ==
    [i \in 1 .. n |-> IF i \in bad THEN [which |-> "surrogateDiagnostic"]
                      ELSE RecordAt(start + i - 1, syntax, comp)]

(* The target returns up to num records from start, in a syntax of its     *)
(* choice or, if it can, in the one that was asked for.                    *)
Returned(start, num, comp) ==
    {Records(start, comp, n, bad, syntax) :
        n \in 0 .. num, bad \in SUBSET {1}, syntax \in Syntaxes}

(* What the proxy has fetched when it gets records from start: those that  *)
(* are no diagnostics, by position, syntax and composition.                *)
Fetched(records, start, comp) ==
    LET good == {i \in DOMAIN records : records[i].which = "databaseRecord"}
        key(i) == [offset |-> start + i - 1, syntax |-> records[i].syntax,
                   comp |-> comp]
    IN [k \in {key(i) : i \in good} |-> records[k.offset - start + 1]]

(* The proxy's configuration sets the size of the cache.                   *)
Configure ==
    /\ target.set = 0
    /\ \E sz \in 0 .. DefaultSize : cache' = SetMaxSize(cache, sz)
    /\ call' = NoCall
    /\ UNCHANGED <<target, pending>>

(* A search: the result set of the last one is gone.                       *)
Search ==
    /\ pending = NoValue /\ target.set < MaxSearches
    /\ \E sr \in SearchRequests :
         /\ cache' = CopySearchRequest(Clear(cache), sr)
         /\ pending' = sr
    /\ target' = [target EXCEPT !.set = @ + 1]
    /\ call' = [op |-> "clear"]

(* Its response, with records of the element set for its size.             *)
SearchResponse ==
    /\ pending \in SearchRequests
    /\ \E hits \in 0 .. MaxPosition :
         LET name == IF hits > pending.smallSetUpperBound THEN pending.medium
                     ELSE pending.small
             comp == IF name = NoValue THEN NoValue ELSE [simple |-> name]
         IN \E records \in Returned(1, hits, comp) :
              /\ cache' = Add(cache, records, 1, hits)
              /\ target' = [target EXCEPT !.size = hits]
              /\ call' = [op |-> "add", fetched |-> Fetched(records, 1, comp)]
    /\ pending' = NoValue

(* The proxy answers a present request from the cache, or forwards it.     *)
Present ==
    /\ pending = NoValue /\ cache.used <= MaxUsed
    /\ \E pr \in PresentRequests :
         LET found == Lookup(cache, pr.start, pr.num, pr.syntax, pr.comp)
         IN /\ pr.start + pr.num - 1 <= target.size
            /\ call' = [op |-> "lookup", answer |-> found, keys |->
                   [i \in 1 .. pr.num |->
                       [offset |-> pr.start + i - 1, syntax |-> pr.syntax,
                        comp |-> pr.comp]]]
            /\ IF found = Miss
               THEN /\ cache' = CopyPresentRequest(cache, pr)
                    /\ pending' = pr
               ELSE UNCHANGED <<cache, pending>>
    /\ UNCHANGED target

PresentResponse ==
    /\ pending \in PresentRequests
    /\ \E records \in Returned(pending.start, pending.num, pending.comp) :
         /\ cache' = Add(cache, records, pending.start, -1)
         /\ call' = [op |-> "add", fetched |->
                        Fetched(records, pending.start, pending.comp)]
    /\ pending' = NoValue
    /\ UNCHANGED target

(* A present request fails: there are no records to add.                   *)
PresentFails ==
    /\ pending \in PresentRequests
    /\ pending' = NoValue
    /\ call' = NoCall
    /\ UNCHANGED <<cache, target>>

(* The target's records change, but not its result set.                    *)
TargetUpdates ==
    /\ target.edition < MaxEdition
    /\ target' = [target EXCEPT !.edition = @ + 1]
    /\ call' = NoCall
    /\ UNCHANGED <<cache, pending>>

Next ==
    \/ Configure \/ Search \/ SearchResponse
    \/ Present \/ PresentResponse \/ PresentFails \/ TargetUpdates

Spec == Init /\ [][Next]_vars

----------------------------------------------------------------------------
(* The variables have their types, and entries are for positions of the    *)
(* result set.                                                             *)
TypeOK ==
    /\ cache.used \in Nat /\ cache.max_size \in 0 .. DefaultSize
    /\ target.set \in 0 .. MaxSearches /\ target.size \in 0 .. MaxPosition
    /\ target.edition \in 0 .. MaxEdition
    /\ pending \in SearchRequests \cup PresentRequests \cup {NoValue}
    /\ \A j \in DOMAIN cache.entries :
         cache.entries[j].offset \in 1 .. target.size

(* The list of a cache is longer than its size by one response at most,    *)
(* however often the records of a result set are fetched again: add looks  *)
(* at what was used before it adds, and all that was added is in what was  *)
(* used (RecordCache::add, nmem_total).                                    *)
SizeBounded == Len(cache.entries) <= cache.max_size + MaxPosition

(* An answer from the cache is what the target would have returned for the *)
(* request: records of the present result set, at the positions, in the    *)
(* syntax and in the composition asked for.  That needs every entry to be  *)
(* labelled with what its record was fetched with (add), and none to be    *)
(* left of an earlier result set (clear).                                  *)
HitsAreRight ==
    call.op = "lookup" /\ call.answer # Miss =>
        /\ Len(call.answer) = Len(call.keys)
        /\ \A i \in DOMAIN call.answer :
             LET r == call.answer[i]
                 k == call.keys[i]
             IN /\ r.which = "databaseRecord" /\ r.set = target.set
                /\ r.position = k.offset /\ r.syntax = k.syntax
                /\ r.comp = k.comp

(* The map that entries stand for: for each key its first entry.           *)
Held(entries) ==
    {j \in DOMAIN entries : entries[j].record.which = "databaseRecord"}

KeyOf(entry) ==
    [offset |-> entry.offset, syntax |-> entry.record.syntax,
     comp |-> entry.comp]

At(entries, key) == {j \in Held(entries) : KeyOf(entries[j]) = key}

Meaning(entries) ==
    [key \in {KeyOf(entries[j]) : j \in Held(entries)} |->
        entries[First(At(entries, key))].record]

Known == Meaning(cache.entries)

Map == INSTANCE IRecordCache WITH known <- Known

(* The cache implements the map: what it answers is the record that was    *)
(* fetched last for each key, of those that it has kept, and it answers    *)
(* whenever it has all of them (add, lookup).                              *)
ImplementsMap == Map!Spec
=============================================================================
