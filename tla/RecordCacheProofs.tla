------------------------- MODULE RecordCacheProofs -------------------------
(***************************************************************************)
(* Proofs about RecordCache, for any syntaxes, element sets and sizes: a   *)
(* hit is what was asked for, and the cache implements IRecordCache.       *)
(*                                                                         *)
(* Both rest on what the entries are labelled with.  The second needs also *)
(* that the meaning of a list of entries, the map from the keys to the     *)
(* first entry of each, turns concatenation into Override.                 *)
(***************************************************************************)
EXTENDS RecordCache, ListOpsProofs

(* The first of some positions is one of them, and before the others.      *)
LEMMA FirstIsFirst ==
    ASSUME NEW js \in SUBSET Nat, js # {}
    PROVE  First(js) \in js /\ \A h \in js : First(js) <= h
<1>1. \E j \in js : \A h \in js : j <= h
  BY LeastNatural
<1> QED BY <1>1, Zenon DEF First

(* There is only one first.                                                *)
LEMMA FirstIsUnique ==
    ASSUME NEW js \in SUBSET Nat, NEW i \in js, \A h \in js : i <= h
    PROVE  First(js) = i
<1>1. First(js) \in js /\ First(js) <= i /\ i <= First(js)
  BY FirstIsFirst
<1>2. First(js) \in Nat /\ i \in Nat
  BY <1>1
<1> QED BY <1>1, <1>2

(* A function on the first numbers is a sequence.                          *)
LEMMA FunctionIsSeq ==
    ASSUME NEW n \in Nat, NEW f, f = [i \in 1 .. n |-> f[i]]
    PROVE  IsSeq(f) /\ Len(f) = n
<1>1. DOMAIN f = 1 .. n
  OBVIOUS
<1>2. f \in Seq(Elements(f))
  BY <1>1, IsASeq DEF Elements
<1> QED BY <1>1, <1>2, LenProperties DEF IsSeq

(* What is in a concatenation.                                             *)
LEMMA ElementsOfConcat ==
    ASSUME NEW e, NEW d, IsSeq(e), IsSeq(d)
    PROVE  /\ IsSeq(e \o d) /\ Len(e \o d) = Len(e) + Len(d)
           /\ Elements(e \o d) = Elements(e) \cup Elements(d)
<1>1. /\ IsSeq(e \o d)
      /\ Len(e \o d) = Len(e) + Len(d)
      /\ \A i \in 1 .. Len(e) : (e \o d)[i] = e[i]
      /\ \A i \in 1 .. Len(d) :
           (e \o d)[Len(e) + i] = d[i]
  BY ConcatAnything
<1>2. /\ Len(e) \in Nat /\ DOMAIN e = 1 .. Len(e)
      /\ Len(d) \in Nat /\ DOMAIN d = 1 .. Len(d)
      /\ DOMAIN (e \o d) = 1 .. Len(e) + Len(d)
  BY <1>1, IsSeqProperties
<1> DEFINE ed == e \o d
<1> HIDE DEF ed
<1>3. ASSUME NEW i \in 1 .. Len(e) + Len(d)
      PROVE  ed[i] \in Elements(e) \cup Elements(d)
  <2>1. CASE i \in 1 .. Len(e)
    BY <2>1, <1>1, <1>2 DEF Elements, ed
  <2>2. CASE i - Len(e) \in 1 .. Len(d)
    <3>1. Len(e) + (i - Len(e)) = i
      BY <1>2
    <3> QED BY <3>1, <2>2, <1>1, <1>2 DEF Elements, ed
  <2> QED BY <2>1, <2>2, <1>2
<1>4. ASSUME NEW i \in 1 .. Len(e)
      PROVE  e[i] \in Elements(ed)
  <2>1. i \in 1 .. Len(e) + Len(d)
    BY <1>2
  <2> QED BY <2>1, <1>1, <1>2 DEF Elements, ed
<1>5. ASSUME NEW i \in 1 .. Len(d)
      PROVE  d[i] \in Elements(ed)
  <2>1. Len(e) + i \in 1 .. Len(e) + Len(d)
    BY <1>2
  <2> QED BY <2>1, <1>1, <1>2 DEF Elements, ed
<1>6. Elements(ed) = Elements(e) \cup Elements(d)
  BY <1>2, <1>3, <1>4, <1>5 DEF Elements, ed
<1> QED BY <1>1, <1>6 DEF ed

----------------------------------------------------------------------------
(* What the entries say.                                                   *)

Keys(entries) == {KeyOf(entries[j]) : j \in Held(entries)}

(* The entries of a key are positions of the list.                         *)
LEMMA AtIsPositions ==
    ASSUME NEW a, IsSeq(a), NEW key
    PROVE  /\ At(a, key) \in SUBSET Nat
           /\ At(a, key) \subseteq 1 .. Len(a)
           /\ key \in Keys(a) <=> At(a, key) # {}
BY IsSeqProperties DEF At, Held, Keys

(* The meaning of a list is a function, on the keys that have an entry.    *)
LEMMA MeaningOf ==
    ASSUME NEW a
    PROVE  /\ Meaning(a) = [key \in Keys(a) |-> Meaning(a)[key]]
           /\ DOMAIN Meaning(a) = Keys(a)
           /\ \A key \in Keys(a) : Meaning(a)[key] = a[First(At(a, key))].record
BY DEF Meaning, Keys

(* Entries in front of others hide those with the same key.                *)
LEMMA MeaningOfConcat ==
    ASSUME NEW a, IsSeq(a), NEW b, IsSeq(b)
    PROVE  Meaning(a \o b) = Map!Override(Meaning(a), Meaning(b))
<1> DEFINE ab == a \o b
<1>1. /\ IsSeq(ab) /\ Len(ab) = Len(a) + Len(b)
      /\ \A i \in 1 .. Len(a) : ab[i] = a[i]
      /\ \A i \in 1 .. Len(b) : ab[Len(a) + i] = b[i]
  BY ConcatAnything
<1>2. /\ Len(a) \in Nat /\ DOMAIN a = 1 .. Len(a)
      /\ Len(b) \in Nat /\ DOMAIN b = 1 .. Len(b)
      /\ DOMAIN ab = 1 .. Len(a) + Len(b)
  BY <1>1, IsSeqProperties
<1>3. ASSUME NEW j \in 1 .. Len(a)
      PROVE  \A key : j \in At(ab, key) <=> j \in At(a, key)
  BY <1>1, <1>2 DEF At, Held
<1>4. ASSUME NEW j \in 1 .. Len(b)
      PROVE  \A key : Len(a) + j \in At(ab, key) <=> j \in At(b, key)
  BY <1>1, <1>2 DEF At, Held
<1>5. ASSUME NEW key, NEW h \in At(ab, key)
      PROVE  \/ h \in At(a, key)
             \/ h - Len(a) \in At(b, key)
  <2>1. h \in 1 .. Len(a) + Len(b)
    BY <1>1, <1>2, AtIsPositions
  <2>2. CASE h \in 1 .. Len(a)
    BY <2>2, <1>3
  <2>3. CASE h - Len(a) \in 1 .. Len(b)
    <3>1. Len(a) + (h - Len(a)) = h
      BY <2>1, <1>2
    <3> QED BY <2>3, <3>1, <1>4
  <2> QED BY <2>1, <2>2, <2>3, <1>2
<1>6. ASSUME NEW key \in Keys(a)
      PROVE  key \in Keys(ab) /\ Meaning(ab)[key] = Meaning(a)[key]
  <2> DEFINE i == First(At(a, key))
  <2>1. i \in At(a, key) /\ i \in 1 .. Len(a) /\ \A h \in At(a, key) : i <= h
    BY AtIsPositions, FirstIsFirst
  <2>2. i \in At(ab, key)
    BY <2>1, <1>3
  <2>3. ASSUME NEW h \in At(ab, key)
        PROVE  i <= h
    <3>1. CASE h \in At(a, key)
      BY <3>1, <2>1
    <3>2. CASE h - Len(a) \in At(b, key)
      <4>1. h \in 1 .. Len(a) + Len(b) /\ h - Len(a) \in 1 .. Len(b)
        BY <3>2, <1>1, <1>2, AtIsPositions
      <4> QED BY <4>1, <2>1, <1>2
    <3> QED BY <3>1, <3>2, <1>5
  <2>4. At(ab, key) \in SUBSET Nat /\ key \in Keys(ab)
    BY <1>1, <2>2, AtIsPositions
  <2>5. First(At(ab, key)) = i
    BY <2>2, <2>3, <2>4, FirstIsUnique
  <2>6. Meaning(ab)[key] = ab[i].record
    BY <2>4, <2>5, MeaningOf
  <2>7. Meaning(a)[key] = a[i].record
    BY MeaningOf
  <2> QED BY <2>1, <2>4, <2>6, <2>7, <1>1
<1>7. ASSUME NEW key \in Keys(b), key \notin Keys(a)
      PROVE  key \in Keys(ab) /\ Meaning(ab)[key] = Meaning(b)[key]
  <2> DEFINE i == First(At(b, key))
  <2>1. i \in At(b, key) /\ i \in 1 .. Len(b) /\ \A h \in At(b, key) : i <= h
    BY AtIsPositions, FirstIsFirst
  <2>2. Len(a) + i \in At(ab, key)
    BY <2>1, <1>4
  <2>3. ASSUME NEW h \in At(ab, key)
        PROVE  Len(a) + i <= h
    <3>1. h \notin At(a, key)
      BY <1>7, AtIsPositions
    <3>2. h - Len(a) \in At(b, key)
      BY <3>1, <1>5
    <3>3. i <= h - Len(a) /\ h \in Nat
      BY <3>2, <2>1, <1>1, AtIsPositions
    <3> QED BY <3>3, <2>1, <1>2
  <2>4. At(ab, key) \in SUBSET Nat /\ key \in Keys(ab)
    BY <1>1, <2>2, AtIsPositions
  <2>5. First(At(ab, key)) = Len(a) + i
    BY <2>2, <2>3, <2>4, FirstIsUnique
  <2>6. Meaning(ab)[key] = ab[Len(a) + i].record
    BY <2>4, <2>5, MeaningOf
  <2>7. Meaning(b)[key] = b[i].record
    BY MeaningOf
  <2> QED BY <2>1, <2>4, <2>6, <2>7, <1>1
<1>8. Keys(ab) = Keys(a) \cup Keys(b)
  <2>1. ASSUME NEW key \in Keys(ab)
        PROVE  key \in Keys(a) \cup Keys(b)
    BY <1>1, <1>5, AtIsPositions
  <2> QED BY <2>1, <1>6, <1>7
<1>9. Meaning(ab) = [key \in Keys(a) \cup Keys(b) |->
                        IF key \in Keys(a) THEN Meaning(a)[key]
                        ELSE Meaning(b)[key]]
  BY <1>6, <1>7, <1>8, MeaningOf
<1> QED BY <1>9, MeaningOf DEF Map!Override

(* The new entries mean what was fetched: no two of them have a key.       *)
LEMMA MeaningOfNewEntries ==
    ASSUME NEW records, IsSeq(records), NEW start \in Int, NEW comp
    PROVE  /\ IsSeq(NewEntries(records, start, comp))
           /\ Len(NewEntries(records, start, comp)) = Len(records)
           /\ Elements(NewEntries(records, start, comp)) =
                {[offset |-> start + i - 1, record |-> records[i],
                  comp |-> CloneComp(comp)] : i \in DOMAIN records}
           /\ Meaning(NewEntries(records, start, comp)) =
                Fetched(records, start, CloneComp(comp))
<1> DEFINE n == Len(records)
           c == CloneComp(comp)
           new(i) == [offset |-> start + i - 1, record |-> records[i],
                      comp |-> c]
           f == [i \in 1 .. n |-> new(i)]
           e == NewEntries(records, start, comp)
           good == {i \in DOMAIN records :
                       records[i].which = "databaseRecord"}
           key(i) == [offset |-> start + i - 1, syntax |-> records[i].syntax,
                      comp |-> c]
<1>1. n \in Nat /\ DOMAIN records = 1 .. n
  BY IsSeqProperties
<1>2. Len(f) = n
  <2>1. f \in Seq({new(i) : i \in 1 .. n})
    BY <1>1, IsASeq
  <2> QED BY <2>1, <1>1, LenProperties
<1>3. e = [i \in 1 .. n |-> f[n - i + 1]]
  <2>1. e = Reverse(f)
    BY DEF NewEntries
  <2>2. Reverse(f) = [i \in 1 .. Len(f) |-> f[(Len(f) - i) + 1]]
    BY DEF Reverse
  <2>3. \A i \in 1 .. n : (n - i) + 1 = n - i + 1
    OBVIOUS
  <2> QED BY <2>1, <2>2, <1>2
<1> HIDE DEF e
<1>4. /\ DOMAIN e = 1 .. n
      /\ \A i \in 1 .. n : n - i + 1 \in 1 .. n /\ e[i] = new(n - i + 1)
  <2>1. \A i \in 1 .. n : n - i + 1 \in 1 .. n
    BY <1>1
  <2> QED BY <1>3, <2>1
<1>5. IsSeq(e)
  <2>1. \A i \in 1 .. n : e[i] \in {new(j) : j \in 1 .. n}
    BY <1>4
  <2>2. e = [i \in 1 .. n |-> e[i]]
    BY <1>3
  <2>3. e \in Seq({new(j) : j \in 1 .. n})
    BY <2>1, <2>2, <1>1, IsASeq
  <2> QED BY <2>3, SeqOfAnything
<1>6. ASSUME NEW i \in 1 .. n
      PROVE  n - i + 1 \in 1 .. n /\ e[n - i + 1] = new(i)
  <2>1. n - i + 1 \in 1 .. n /\ n - (n - i + 1) + 1 = i
    BY <1>1
  <2> QED BY <2>1, <1>4
<1>7. Elements(e) = {new(i) : i \in DOMAIN records}
  <2>1. ASSUME NEW x \in Elements(e)
        PROVE  x \in {new(i) : i \in 1 .. n}
    BY <1>4 DEF Elements
  <2>2. ASSUME NEW i \in 1 .. n
        PROVE  new(i) \in Elements(e)
    BY <1>4, <1>6 DEF Elements
  <2> QED BY <2>1, <2>2, <1>1
<1>8. ASSUME NEW i \in 1 .. n
      PROVE  /\ e[n - i + 1].record = records[i]
             /\ i \in good <=> n - i + 1 \in Held(e)
             /\ KeyOf(e[n - i + 1]) = key(i)
  <2>1. /\ e[n - i + 1].record = records[i]
        /\ e[n - i + 1].offset = start + i - 1
        /\ e[n - i + 1].comp = c
    <3>1. e[n - i + 1] = new(i)
      BY <1>6
    <3>2. /\ new(i).record = records[i] /\ new(i).offset = start + i - 1
          /\ new(i).comp = c
      OBVIOUS
    <3> HIDE DEF new
    <3> QED BY <3>1, <3>2
  <2> QED BY <2>1, <1>1, <1>4, <1>6 DEF Held, KeyOf
<1>9. ASSUME NEW j \in Held(e)
      PROVE  j \in 1 .. n /\ n - j + 1 \in good /\ j = n - (n - j + 1) + 1
  <2>1. j \in 1 .. n /\ n - j + 1 \in 1 .. n /\ j = n - (n - j + 1) + 1
    BY <1>1, <1>4 DEF Held
  <2> QED BY <2>1, <1>8
<1>10. Keys(e) = {key(i) : i \in good}
  <2>1. ASSUME NEW j \in Held(e)
        PROVE  KeyOf(e[j]) = key(n - j + 1)
    BY <1>8, <1>9, <1>1
  <2>2. ASSUME NEW i \in good
        PROVE  key(i) \in Keys(e)
    <3>1. i \in 1 .. n
      BY <1>1
    <3> QED BY <3>1, <1>8 DEF Keys
  <2>3. ASSUME NEW k \in Keys(e)
        PROVE  k \in {key(i) : i \in good}
    <3>1. PICK j \in Held(e) : k = KeyOf(e[j])
      BY DEF Keys
    <3>2. k = key(n - j + 1) /\ n - j + 1 \in good
      BY <3>1, <2>1, <1>9
    <3> QED BY <3>2
  <2> QED BY <2>2, <2>3
<1>11. ASSUME NEW i \in good
       PROVE  Meaning(e)[key(i)] = records[key(i).offset - start + 1]
  <2> DEFINE m == n - i + 1
  <2>1. i \in 1 .. n /\ m \in Held(e) /\ KeyOf(e[m]) = key(i)
    BY <1>1, <1>8
  <2>2. m \in At(e, key(i))
    BY <2>1 DEF At
  <2>3. ASSUME NEW h \in At(e, key(i))
        PROVE  m <= h
    <3>1. h \in Held(e) /\ KeyOf(e[h]) = key(i)
      BY DEF At
    <3>2. n - h + 1 \in good /\ KeyOf(e[h]) = key(n - h + 1)
      BY <3>1, <1>8, <1>9, <1>1
    <3>3. key(n - h + 1).offset = key(i).offset
      BY <3>1, <3>2
    <3>4. start + (n - h + 1) - 1 = start + i - 1
      BY <3>3
    <3>5. i \in Nat /\ n \in Nat /\ h \in 1 .. n
      BY <3>1, <2>1, <1>1, <1>9
    <3> HIDE DEF key, good, new, f
    <3> QED BY <3>4, <3>5
  <2>4. At(e, key(i)) \in SUBSET Nat /\ key(i) \in Keys(e)
    BY <2>2, <1>5, AtIsPositions
  <2>5. First(At(e, key(i))) = m
    BY <2>2, <2>3, <2>4, FirstIsUnique
  <2>6. Meaning(e)[key(i)] = e[m].record
    BY <2>4, <2>5, MeaningOf
  <2>7. key(i).offset - start + 1 = i
    BY <2>1
  <2> QED BY <2>1, <2>6, <2>7, <1>8
<1>12. Fetched(records, start, c) =
         [k \in {key(i) : i \in good} |-> records[k.offset - start + 1]]
  BY DEF Fetched
<1>13. ASSUME NEW k \in Keys(e)
       PROVE  Meaning(e)[k] = records[k.offset - start + 1]
  <2>1. PICK i \in good : k = key(i)
    BY <1>10
  <2> QED BY <2>1, <1>11
<1>14. Meaning(e) = Fetched(records, start, c)
  BY <1>10, <1>12, <1>13, MeaningOf
<1>15. Len(e) = n
  BY <1>1, <1>4, <1>5, IsSeqProperties
<1> QED BY <1>5, <1>7, <1>14, <1>15 DEF e

----------------------------------------------------------------------------
(* The inductive invariant: an entry with a record is labelled with the    *)
(* position and the composition of the record, which is one of the present *)
(* result set; and the cache has a copy of the request that is pending.    *)

EntryOK(entry, set) ==
    entry.record.which = "databaseRecord" =>
        /\ entry.record.set = set /\ entry.record.position = entry.offset
        /\ entry.record.comp = entry.comp /\ entry.record.syntax # NoValue

CacheOK(k, set) ==
    /\ k = [entries |-> k.entries, used |-> k.used, max_size |-> k.max_size,
            searchRequest |-> k.searchRequest,
            presentRequest |-> k.presentRequest]
    /\ IsSeq(k.entries)
    /\ \A entry \in Elements(k.entries) : EntryOK(entry, set)

RequestCopied ==
    /\ pending \in SearchRequests => cache.searchRequest = pending
    /\ pending \in PresentRequests => cache.presentRequest = pending

CacheInv ==
    /\ CacheOK(cache, target.set)
    /\ target = [set |-> target.set, size |-> target.size,
                 edition |-> target.edition]
    /\ RequestCopied

(* Records as the target returns them, for a request with composition comp.*)
AsAsked(records, start, comp, set) ==
    \A i \in DOMAIN records :
        records[i].which = "databaseRecord" =>
            /\ records[i].set = set /\ records[i].position = start + i - 1
            /\ records[i].comp = comp /\ records[i].syntax # NoValue

LEMMA ReturnedAsAsked ==
    ASSUME NEW start \in Int, NEW num \in Nat, NEW comp,
           NEW records \in Returned(start, num, comp)
    PROVE  /\ IsSeq(records)
           /\ AsAsked(records, start, comp, target.set)
           /\ Len(records) \in 0 .. num
<1>1. PICK n \in 0 .. num, bad \in SUBSET {1}, syntax \in Syntaxes :
        records = Records(start, comp, n, bad, syntax)
  BY DEF Returned
<1>2. DOMAIN records = 1 .. n /\ n \in Nat
  BY <1>1 DEF Records
<1>3. IsSeq(records) /\ Len(records) = n
  <2>1. records = [i \in 1 .. n |-> records[i]]
    BY <1>1 DEF Records
  <2> QED BY <2>1, <1>2, FunctionIsSeq
<1>4. ASSUME NEW i \in 1 .. n, records[i].which = "databaseRecord"
      PROVE  /\ records[i].set = target.set
             /\ records[i].position = start + i - 1
             /\ records[i].comp = comp /\ records[i].syntax # NoValue
  <2>1. i \notin bad
    BY <1>1, <1>4 DEF Records
  <2>2. records[i] = RecordAt(start + i - 1, syntax, comp)
    BY <1>1, <2>1 DEF Records
  <2> QED BY <2>2, NoValueIsNone DEF RecordAt
<1> QED BY <1>2, <1>3, <1>4 DEF AsAsked

(* Adding records that were returned as asked for, with the composition    *)
(* that was asked for, keeps the cache good, and overrides what it knows   *)
(* with what was fetched, or keeps it.                                     *)
LEMMA AddKeeps ==
    ASSUME NEW k, NEW set, CacheOK(k, set), NEW records, IsSeq(records),
           NEW start \in Int, NEW hits, NEW comp,
           AsAsked(records, start, comp, set),
           Len(records) = 0 \/ CloneComp(CompOf(k, hits)) = comp
    PROVE  /\ CacheOK(Add(k, records, start, hits), set)
           /\ \/ Meaning(Add(k, records, start, hits).entries) =
                   Map!Override(Fetched(records, start, comp),
                                Meaning(k.entries))
              \/ Add(k, records, start, hits).entries = k.entries
<1> DEFINE c == CloneComp(CompOf(k, hits))
           e == NewEntries(records, start, CompOf(k, hits))
           r == Add(k, records, start, hits)
<1>1. CASE k.used > k.max_size
  BY <1>1 DEF Add, AddRecords
<1>2. CASE ~(k.used > k.max_size)
  <2>1. r = [k EXCEPT !.entries = e \o @, !.used = @ + Len(records)]
    BY <1>2 DEF Add, AddRecords
  <2>2. /\ IsSeq(e)
        /\ Elements(e) = {[offset |-> start + i - 1, record |-> records[i],
                           comp |-> c] : i \in DOMAIN records}
        /\ Meaning(e) = Fetched(records, start, c)
    BY MeaningOfNewEntries
  <2> HIDE DEF e
  <2>3. IsSeq(k.entries)
    BY DEF CacheOK
  <2>4. r = [entries |-> e \o k.entries, used |-> k.used + Len(records),
             max_size |-> k.max_size, searchRequest |-> k.searchRequest,
             presentRequest |-> k.presentRequest]
    BY <2>1 DEF CacheOK
  <2>5. /\ IsSeq(e \o k.entries)
        /\ Elements(e \o k.entries) = Elements(e) \cup Elements(k.entries)
    BY <2>2, <2>3, ElementsOfConcat
  <2>6. ASSUME NEW x \in Elements(e)
        PROVE  EntryOK(x, set)
    <3>1. PICK i \in DOMAIN records :
            x = [offset |-> start + i - 1, record |-> records[i], comp |-> c]
      BY <2>2
    <3>2. DOMAIN records = 1 .. Len(records) /\ Len(records) \in Nat
      BY IsSeqProperties
    <3>3. c = comp
      BY <3>1, <3>2
    <3>4. /\ x.offset = start + i - 1 /\ x.record = records[i]
          /\ x.comp = comp
      BY <3>1, <3>3
    <3> QED BY <3>4 DEF EntryOK, AsAsked
  <2>7. CacheOK(r, set)
    BY <2>4, <2>5, <2>6 DEF CacheOK
  <2>8. Meaning(r.entries) = Map!Override(Meaning(e), Meaning(k.entries))
    <3>1. r.entries = e \o k.entries
      BY <2>4
    <3> QED BY <3>1, <2>2, <2>3, MeaningOfConcat
  <2>9. Fetched(records, start, c) = Fetched(records, start, comp)
    <3>1. CASE Len(records) = 0
      <4>1. {i \in DOMAIN records : records[i].which = "databaseRecord"} = {}
        BY <3>1, IsSeqProperties
      <4> QED BY <4>1 DEF Fetched
    <3> QED BY <3>1
  <2> QED BY <2>2, <2>7, <2>8, <2>9
<1> QED BY <1>1, <1>2

(* The i-th key of a request, the answer of the map, and what a record     *)
(* must be to answer for a key.                                            *)
Key(start, i, syntax, comp) ==
    [offset |-> start + i - 1, syntax |-> syntax, comp |-> comp]

Answer(entries, start, num, syntax, comp) ==
    IF \A i \in 1 .. num :
         Key(start, i, syntax, comp) \in DOMAIN Meaning(entries)
    THEN [i \in 1 .. num |-> Meaning(entries)[Key(start, i, syntax, comp)]]
    ELSE Miss

IsAsked(r, key, set) ==
    /\ r.which = "databaseRecord" /\ r.set = set
    /\ r.position = key.offset /\ r.syntax = key.syntax /\ r.comp = key.comp

(* What the cache answers is what the map says, and what was asked for.    *)
LEMMA LookupAnswers ==
    ASSUME NEW k, NEW set, CacheOK(k, set), NEW start, NEW num,
           NEW syntax, NEW comp
    PROVE  /\ Lookup(k, start, num, syntax, comp) =
                Answer(k.entries, start, num, syntax, comp)
           /\ \A i \in 1 .. num :
                Key(start, i, syntax, comp) \in DOMAIN Meaning(k.entries)
                  => IsAsked(Meaning(k.entries)[Key(start, i, syntax, comp)],
                             Key(start, i, syntax, comp), set)
<1> DEFINE es == k.entries
           key(i) == Key(start, i, syntax, comp)
           at(i) == {j \in DOMAIN es :
                       Matches(es[j], syntax, start + i - 1, comp)}
<1>1. IsSeq(es) /\ \A j \in DOMAIN es : EntryOK(es[j], set)
  BY DEF CacheOK, Elements
<1>2. ASSUME NEW i, NEW j \in DOMAIN es
      PROVE  Matches(es[j], syntax, start + i - 1, comp)
               <=> /\ es[j].record.which = "databaseRecord"
                   /\ KeyOf(es[j]) = key(i)
  <2>1. KeyOf(es[j]) = key(i)
          <=> /\ es[j].offset = start + i - 1
              /\ es[j].record.syntax = syntax /\ es[j].comp = comp
    BY DEF KeyOf, Key
  <2> QED BY <2>1, <1>1 DEF Matches, EntryOK
<1>3. \A i : at(i) = At(es, key(i))
  BY <1>2 DEF At, Held
<1> HIDE DEF key
<1>4. \A i : at(i) # {} <=> key(i) \in DOMAIN Meaning(es)
  <2>1. \A x : x \in Keys(es) <=> At(es, x) # {}
    BY <1>1, AtIsPositions
  <2>2. DOMAIN Meaning(es) = Keys(es)
    BY MeaningOf
  <2> HIDE DEF es, at
  <2> QED BY ONLY <1>3, <2>1, <2>2
<1>5. ASSUME NEW i, key(i) \in DOMAIN Meaning(es)
      PROVE  Meaning(es)[key(i)] = es[First(at(i))].record
  <2>1. Meaning(es)[key(i)] = es[First(At(es, key(i)))].record
    <3>1. \A x \in Keys(es) : Meaning(es)[x] = es[First(At(es, x))].record
      BY MeaningOf
    <3>2. key(i) \in Keys(es)
      BY <1>5, MeaningOf
    <3> HIDE DEF es, at
    <3> QED BY ONLY <3>1, <3>2
  <2>2. at(i) = At(es, key(i))
    BY <1>3
  <2> HIDE DEF at
  <2> QED BY <2>1, <2>2
<1>6. Lookup(k, start, num, syntax, comp) =
        Answer(es, start, num, syntax, comp)
  <2>1. Lookup(k, start, num, syntax, comp) =
          IF \E i \in 1 .. num : at(i) = {} THEN Miss
          ELSE [i \in 1 .. num |-> es[First(at(i))].record]
    BY DEF Lookup
  <2>2. Answer(es, start, num, syntax, comp) =
          IF \A i \in 1 .. num : key(i) \in DOMAIN Meaning(es)
          THEN [i \in 1 .. num |-> Meaning(es)[key(i)]] ELSE Miss
    BY DEF Answer, key
  <2> HIDE DEF at
  <2> QED BY <2>1, <2>2, <1>4, <1>5
<1>7. ASSUME NEW i \in 1 .. num, key(i) \in DOMAIN Meaning(es)
      PROVE  IsAsked(Meaning(es)[key(i)], key(i), set)
  <2> DEFINE j == First(at(i))
  <2>1. j \in at(i) /\ j \in DOMAIN es
    <3>1. at(i) # {} /\ at(i) \in SUBSET Nat
      BY <1>1, <1>3, <1>4, <1>7, AtIsPositions
    <3>2. First(at(i)) \in at(i)
      BY <3>1, FirstIsFirst
    <3> QED BY <3>2
  <2>2. /\ es[j].record.which = "databaseRecord" /\ es[j].offset = start + i - 1
        /\ es[j].comp = comp /\ es[j].record.syntax = syntax
    BY <2>1 DEF Matches
  <2> HIDE DEF j
  <2>3. EntryOK(es[j], set)
    BY <2>1, <1>1
  <2>4. /\ key(i).offset = start + i - 1
        /\ key(i).syntax = syntax /\ key(i).comp = comp
    BY DEF key, Key
  <2> QED BY <2>2, <2>3, <2>4, <1>5, <1>7 DEF EntryOK, IsAsked, j
<1> QED BY <1>6, <1>7 DEF key

----------------------------------------------------------------------------
(* The steps.                                                              *)

LEMMA InitMaps == Init => CacheInv /\ Map!Init
<1> SUFFICES ASSUME Init PROVE CacheInv /\ Map!Init
  OBVIOUS
<1>1. cache.entries = <<>> /\ IsSeq(<<>>) /\ Elements(<<>>) = {}
  BY DEF Init, NewCache, IsSeq, Elements
<1>2. CacheInv
  BY <1>1, NoValueIsNone
     DEF CacheInv, CacheOK, RequestCopied, Init, NewCache
<1>3. Held(<<>>) = {} /\ Keys(<<>>) = {}
  BY DEF Held, Keys
<1>4. Known = Map!Empty
  BY <1>1, <1>3, MeaningOf DEF Known, Map!Empty
<1> QED BY <1>2, <1>4 DEF Map!Init, Init, NoCall

(* What each step does to the invariant, to hits, and to the map.          *)
StepOK == CacheInv' /\ HitsAreRight' /\ Map!Next

LEMMA ConfigureStep == ASSUME CacheInv, Configure PROVE StepOK
<1>1. PICK sz \in 0 .. DefaultSize : cache' = SetMaxSize(cache, sz)
  BY DEF Configure
<1>2. cache' = [entries |-> cache.entries, used |-> cache.used,
                max_size |-> sz, searchRequest |-> cache.searchRequest,
                presentRequest |-> cache.presentRequest]
  BY <1>1 DEF SetMaxSize, CacheInv, CacheOK
<1>3. CacheInv'
  BY <1>2 DEF CacheInv, CacheOK, RequestCopied, Configure
<1>4. Known' = Known /\ call'.op = "none"
  BY <1>2 DEF Known, Configure, NoCall
<1> QED BY <1>3, <1>4 DEF StepOK, HitsAreRight, Map!Next, Map!Other

LEMMA SearchStep == ASSUME CacheInv, Search PROVE StepOK
<1>1. PICK sr \in SearchRequests :
        cache' = CopySearchRequest(Clear(cache), sr) /\ pending' = sr
  BY DEF Search
<1> DEFINE k == Clear(cache)
<1>2. cache' = [entries |-> k.entries, used |-> k.used + 1,
                max_size |-> k.max_size, searchRequest |-> sr,
                presentRequest |-> NoValue]
  <2>1. k = [entries |-> k.entries, used |-> k.used, max_size |-> k.max_size,
             searchRequest |-> NoValue, presentRequest |-> NoValue]
    BY DEF Clear, SetMaxSize, NewCache
  <2> HIDE DEF k
  <2> QED BY <1>1, <2>1 DEF CopySearchRequest, k
<1>2a. cache'.entries = <<>>
  <2>1. k.entries = <<>>
    BY DEF Clear, SetMaxSize, NewCache
  <2> QED BY <1>2, <2>1
<1> HIDE DEF k
<1>3. IsSeq(<<>>) /\ Elements(<<>>) = {} /\ Held(<<>>) = {} /\ Keys(<<>>) = {}
  BY DEF IsSeq, Elements, Held, Keys
<1>4. sr \notin PresentRequests
  BY DEF SearchRequests, PresentRequests
<1>5. CacheInv'
  BY <1>1, <1>2, <1>2a, <1>3, <1>4 DEF CacheInv, CacheOK, RequestCopied, Search
<1>6. Known' = Map!Empty
  BY <1>2a, <1>3, MeaningOf DEF Known, Map!Empty
<1>7. call'.op = "clear"
  BY DEF Search
<1> QED BY <1>5, <1>6, <1>7 DEF StepOK, HitsAreRight, Map!Next, Map!Clear

LEMMA SearchResponseStep == ASSUME CacheInv, SearchResponse PROVE StepOK
<1> DEFINE name(hits) == IF hits > pending.smallSetUpperBound
                         THEN pending.medium ELSE pending.small
           comp(hits) == IF name(hits) = NoValue THEN NoValue
                         ELSE [simple |-> name(hits)]
<1>1. PICK hits \in 0 .. MaxPosition :
        \E records \in Returned(1, hits, comp(hits)) :
          /\ cache' = Add(cache, records, 1, hits)
          /\ target' = [target EXCEPT !.size = hits]
          /\ call' = [op |-> "add",
                      fetched |-> Fetched(records, 1, comp(hits))]
  BY DEF SearchResponse
<1>2. PICK records \in Returned(1, hits, comp(hits)) :
        /\ cache' = Add(cache, records, 1, hits)
        /\ target' = [target EXCEPT !.size = hits]
        /\ call' = [op |-> "add",
                    fetched |-> Fetched(records, 1, comp(hits))]
  BY <1>1
<1>3. /\ IsSeq(records) /\ AsAsked(records, 1, comp(hits), target.set)
      /\ hits = 0 => Len(records) = 0
  BY Bounds, ReturnedAsAsked
<1>4. Len(records) = 0 \/ CloneComp(CompOf(cache, hits)) = comp(hits)
  <2>1. /\ pending \in SearchRequests /\ pending # NoValue
        /\ cache.searchRequest = pending
    BY NoValueIsNone DEF SearchResponse, CacheInv, RequestCopied
  <2>2. pending.smallSetUpperBound \in Int /\ hits \in Int
    BY <2>1, Bounds DEF SearchRequests
  <2>3. CASE hits > 0
    <3>1. CompOf(cache, hits) = [simple |-> name(hits)]
      BY <2>1, <2>2, <2>3 DEF CompOf
    <3>2. [simple |-> name(hits)] = [simple |-> NoValue]
            <=> name(hits) = NoValue
      OBVIOUS
    <3> QED BY <3>1, <3>2 DEF CloneComp
  <2>4. CASE hits = 0
    BY <2>4, <1>3
  <2> QED BY <2>2, <2>3, <2>4
<1> HIDE DEF comp
<1>5. /\ CacheOK(cache', target.set)
      /\ \/ Known' = Map!Override(Fetched(records, 1, comp(hits)), Known)
         \/ Known' = Known
  <2>1. CacheOK(cache, target.set)
    BY DEF CacheInv
  <2> DEFINE r == Add(cache, records, 1, hits)
  <2>2. /\ CacheOK(r, target.set)
        /\ \/ Meaning(r.entries) =
                Map!Override(Fetched(records, 1, comp(hits)),
                             Meaning(cache.entries))
           \/ r.entries = cache.entries
    BY <2>1, <1>3, <1>4, AddKeeps
  <2>3. cache' = r
    BY <1>2
  <2> HIDE DEF r
  <2> QED BY <2>2, <2>3 DEF Known
<1>6. /\ target' = [set |-> target.set, size |-> hits,
                    edition |-> target.edition]
      /\ pending' = NoValue
  BY <1>2 DEF CacheInv, SearchResponse
<1>7. CacheInv'
  BY <1>5, <1>6, NoValueIsNone DEF CacheInv, RequestCopied
<1>8. call'.op = "add" /\ call'.fetched = Fetched(records, 1, comp(hits))
  BY <1>2
<1> QED BY <1>5, <1>7, <1>8 DEF StepOK, HitsAreRight, Map!Next, Map!Add

LEMMA PresentStep == ASSUME CacheInv, Present PROVE StepOK
<1> DEFINE found(pr) ==
             Lookup(cache, pr.start, pr.num, pr.syntax, pr.comp)
           keys(pr) == [i \in 1 .. pr.num |->
                          [offset |-> pr.start + i - 1, syntax |-> pr.syntax,
                           comp |-> pr.comp]]
<1>1. PICK pr \in PresentRequests :
        /\ call' = [op |-> "lookup", answer |-> found(pr), keys |-> keys(pr)]
        /\ IF found(pr) = Miss
           THEN cache' = CopyPresentRequest(cache, pr) /\ pending' = pr
           ELSE UNCHANGED <<cache, pending>>
  BY DEF Present
<1> DEFINE n == pr.num
           answer == found(pr)
           key(i) == Key(pr.start, i, pr.syntax, pr.comp)
<1>2. /\ call'.op = "lookup" /\ call'.answer = answer
      /\ call'.keys = [i \in 1 .. n |-> key(i)]
      /\ UNCHANGED target
  BY <1>1 DEF Present, Key
<1>3. n \in Nat /\ pr \notin SearchRequests
  BY Bounds DEF PresentRequests, SearchRequests
<1>4. /\ answer = IF \A i \in 1 .. n : key(i) \in DOMAIN Known
                  THEN [i \in 1 .. n |-> Known[key(i)]] ELSE Miss
      /\ \A i \in 1 .. n : key(i) \in DOMAIN Known =>
           IsAsked(Known[key(i)], key(i), target.set)
  <2>1. CacheOK(cache, target.set)
    BY DEF CacheInv
  <2>2. /\ answer = Answer(cache.entries, pr.start, n, pr.syntax, pr.comp)
        /\ \A i \in 1 .. n : key(i) \in DOMAIN Meaning(cache.entries) =>
             IsAsked(Meaning(cache.entries)[key(i)], key(i), target.set)
    BY <2>1, LookupAnswers
  <2> QED BY <2>2 DEF Known, Answer
<1>5. CacheInv' /\ Known' = Known
  <2>1. CASE answer = Miss
    <3>1. /\ cache' = [entries |-> cache.entries, used |-> cache.used + 1,
                       max_size |-> cache.max_size, searchRequest |-> NoValue,
                       presentRequest |-> pr]
          /\ pending' = pr
      BY <1>1, <2>1 DEF CacheInv, CacheOK, CopyPresentRequest
    <3> QED BY <1>2, <1>3, <3>1 DEF CacheInv, CacheOK, RequestCopied, Known
  <2>2. CASE answer # Miss
    <3>1. cache' = cache /\ pending' = pending
      BY <1>1, <2>2
    <3> QED BY <1>2, <3>1 DEF CacheInv, RequestCopied, Known
  <2> QED BY <2>1, <2>2
<1> HIDE DEF answer
<1>6. Map!Lookup
  <2> DEFINE ks == call'.keys
  <2>1. ks = [i \in 1 .. n |-> key(i)]
    BY <1>2
  <2> HIDE DEF ks, key
  <2>2. DOMAIN ks = 1 .. n /\ \A i \in 1 .. n : ks[i] = key(i)
    BY ONLY <2>1
  <2>3. answer = IF \A i \in DOMAIN ks : ks[i] \in DOMAIN Known
                 THEN [i \in DOMAIN ks |-> Known[ks[i]]] ELSE Miss
    <3>1. [i \in 1 .. n |-> Known[key(i)]] = [i \in DOMAIN ks |-> Known[ks[i]]]
      BY ONLY <2>2
    <3>2. (\A i \in DOMAIN ks : ks[i] \in DOMAIN Known)
            <=> \A i \in 1 .. n : key(i) \in DOMAIN Known
      BY ONLY <2>2
    <3>3. answer = IF \A i \in 1 .. n : key(i) \in DOMAIN Known
                   THEN [i \in 1 .. n |-> Known[key(i)]] ELSE Miss
      BY <1>4
    <3> QED BY ONLY <3>1, <3>2, <3>3
  <2>4. call'.op = "lookup" /\ call'.answer = answer /\ UNCHANGED Known
    BY <1>2, <1>5
  <2> QED BY <2>3, <2>4 DEF Map!Lookup, ks
<1>7. HitsAreRight'
  <2>1. SUFFICES ASSUME answer # Miss
        PROVE  /\ Len(call'.answer) = Len(call'.keys)
               /\ \A i \in DOMAIN call'.answer :
                    LET r == call'.answer[i]
                        k == call'.keys[i]
                    IN /\ r.which = "databaseRecord" /\ r.set = target'.set
                       /\ r.position = k.offset /\ r.syntax = k.syntax
                       /\ r.comp = k.comp
    BY <1>2 DEF HitsAreRight
  <2>2. /\ \A i \in 1 .. n : key(i) \in DOMAIN Known
        /\ call'.answer = [i \in 1 .. n |-> Known[key(i)]]
    BY <1>2, <1>4, <2>1
  <2>3. Len(call'.answer) = n /\ Len(call'.keys) = n
    <3>1. /\ call'.answer = [i \in 1 .. n |-> call'.answer[i]]
          /\ call'.keys = [i \in 1 .. n |-> call'.keys[i]]
      BY <1>2, <2>2
    <3> QED BY <1>3, <3>1, FunctionIsSeq
  <2>4. ASSUME NEW i \in 1 .. n
        PROVE  /\ call'.answer[i].which = "databaseRecord"
               /\ call'.answer[i].set = target'.set
               /\ call'.answer[i].position = call'.keys[i].offset
               /\ call'.answer[i].syntax = call'.keys[i].syntax
               /\ call'.answer[i].comp = call'.keys[i].comp
    <3>1. call'.keys[i] = key(i) /\ call'.answer[i] = Known[key(i)]
      BY <1>2, <2>2
    <3> HIDE DEF key
    <3> QED BY <1>2, <1>4, <2>2, <3>1 DEF IsAsked
  <2> QED BY <2>2, <2>3, <2>4
<1> QED BY <1>5, <1>6, <1>7 DEF StepOK, Map!Next

LEMMA PresentResponseStep == ASSUME CacheInv, PresentResponse PROVE StepOK
<1> DEFINE comp == pending.comp
           start == pending.start
           num == pending.num
<1>1. PICK records \in Returned(start, num, comp) :
        /\ cache' = Add(cache, records, start, -1)
        /\ call' = [op |-> "add", fetched |-> Fetched(records, start, comp)]
  BY DEF PresentResponse
<1>2. /\ pending \in PresentRequests /\ pending # NoValue
      /\ cache.presentRequest = pending
  BY NoValueIsNone DEF PresentResponse, CacheInv, RequestCopied
<1>3. start \in Int /\ num \in Nat /\ comp \in Comps
  BY <1>2, Bounds DEF PresentRequests
<1>4. IsSeq(records) /\ AsAsked(records, start, comp, target.set)
  BY <1>3, ReturnedAsAsked
<1>5. CloneComp(CompOf(cache, -1)) = comp
  <2>1. CompOf(cache, -1) = comp
    BY <1>2 DEF CompOf
  <2>2. comp # [simple |-> NoValue] \/ comp = NoValue
    BY <1>3, NoValueIsNone DEF Comps
  <2>3. CloneComp(comp) = comp
    BY <2>2 DEF CloneComp
  <2> QED BY <2>1, <2>3
<1> HIDE DEF comp, start, num
<1>6. /\ CacheOK(cache', target.set)
      /\ \/ Known' = Map!Override(Fetched(records, start, comp), Known)
         \/ Known' = Known
  <2> DEFINE r == Add(cache, records, start, -1)
  <2>1. CacheOK(cache, target.set)
    BY DEF CacheInv
  <2>2. /\ CacheOK(r, target.set)
        /\ \/ Meaning(r.entries) =
                Map!Override(Fetched(records, start, comp),
                             Meaning(cache.entries))
           \/ r.entries = cache.entries
    BY <2>1, <1>3, <1>4, <1>5, AddKeeps
  <2>3. cache' = r
    BY <1>1
  <2> HIDE DEF r
  <2> QED BY <2>2, <2>3 DEF Known
<1>7. CacheInv'
  BY <1>6, NoValueIsNone DEF CacheInv, RequestCopied, PresentResponse
<1>8. call'.op = "add" /\ call'.fetched = Fetched(records, start, comp)
  BY <1>1
<1> QED BY <1>6, <1>7, <1>8 DEF StepOK, HitsAreRight, Map!Next, Map!Add

LEMMA OtherStep ==
    ASSUME CacheInv, PresentFails \/ TargetUpdates
    PROVE  StepOK
<1>1. cache' = cache /\ Known' = Known /\ call'.op = "none"
  BY DEF PresentFails, TargetUpdates, Known, NoCall
<1>2. target' = [set |-> target.set, size |-> target.size,
                 edition |-> target'.edition]
  BY DEF PresentFails, TargetUpdates, CacheInv
<1>3. pending' \in {pending, NoValue}
  BY DEF PresentFails, TargetUpdates
<1>4. CacheInv'
  BY <1>1, <1>2, <1>3, NoValueIsNone DEF CacheInv, RequestCopied
<1> QED BY <1>1, <1>4 DEF StepOK, HitsAreRight, Map!Next, Map!Other

LEMMA EveryStep == CacheInv /\ [Next]_vars => CacheInv' /\ [Map!Next]_(Map!vars)
<1> SUFFICES ASSUME CacheInv, [Next]_vars
             PROVE  CacheInv' /\ [Map!Next]_(Map!vars)
  OBVIOUS
<1>1. CASE Next
  BY <1>1, ConfigureStep, SearchStep, SearchResponseStep, PresentStep,
     PresentResponseStep, OtherStep DEF Next, StepOK
<1>2. CASE UNCHANGED vars
  BY <1>2 DEF vars, CacheInv, RequestCopied, Map!vars, Known
<1> QED BY <1>1, <1>2

LEMMA HitsStep == CacheInv /\ HitsAreRight /\ [Next]_vars => HitsAreRight'
<1> SUFFICES ASSUME CacheInv, HitsAreRight, [Next]_vars PROVE HitsAreRight'
  OBVIOUS
<1>1. CASE Next
  BY <1>1, ConfigureStep, SearchStep, SearchResponseStep, PresentStep,
     PresentResponseStep, OtherStep DEF Next, StepOK
<1>2. CASE UNCHANGED vars
  BY <1>2 DEF vars, HitsAreRight
<1> QED BY <1>1, <1>2

----------------------------------------------------------------------------
(* What the cache answers with are records of the present result set, at   *)
(* the positions and in the syntax and composition that were asked for     *)
(* (RecordCache::add, lookup and clear): see HitsAreRight.                 *)
THEOREM HitsAreAlwaysRight == Spec => []HitsAreRight
<1>1. Init => CacheInv /\ HitsAreRight
  BY InitMaps DEF Init, HitsAreRight, NoCall
<1>2. CacheInv /\ HitsAreRight /\ [Next]_vars => (CacheInv /\ HitsAreRight)'
  BY EveryStep, HitsStep
<1> QED BY <1>1, <1>2, PTL DEF Spec

(* The cache is a map that may decline to keep records, and forgets all    *)
(* only for a new result set (RecordCache::add, lookup): it implements     *)
(* IRecordCache.                                                           *)
THEOREM CacheImplementsMap == Spec => ImplementsMap
<1>1. Init => CacheInv /\ Map!Init
  BY InitMaps
<1>2. CacheInv /\ [Next]_vars => CacheInv' /\ [Map!Next]_(Map!vars)
  BY EveryStep
<1> QED BY <1>1, <1>2, PTL DEF Spec, ImplementsMap, Map!Spec

----------------------------------------------------------------------------
(* The size of the cache.  All that is on the list counts as used, and the *)
(* list was no longer than the size before the last response was added.    *)
SizeOK(k) ==
    /\ k.used \in Nat /\ k.max_size \in 0 .. DefaultSize
    /\ Len(k.entries) <= k.used
    /\ Len(k.entries) <= k.max_size + MaxPosition

OffsetsOK(k, size) ==
    \A entry \in Elements(k.entries) : entry.offset \in 1 .. size

TargetOK ==
    /\ target.set \in 0 .. MaxSearches /\ target.size \in 0 .. MaxPosition
    /\ target.edition \in 0 .. MaxEdition
    /\ target.set = 0 => target.size = 0

(* A size is set, and a search is answered, while the list is empty.       *)
PendingOK ==
    /\ pending \in SearchRequests \cup PresentRequests \cup {NoValue}
    /\ target.set = 0 => pending = NoValue
    /\ target.set = 0 \/ pending \in SearchRequests => cache.entries = <<>>
    /\ pending \in PresentRequests =>
         pending.start + pending.num - 1 <= target.size

SizeInv ==
    SizeOK(cache) /\ OffsetsOK(cache, target.size) /\ TargetOK /\ PendingOK

LEMMA AddGrows ==
    ASSUME NEW k, NEW set, CacheOK(k, set), SizeOK(k),
           NEW records, IsSeq(records), Len(records) <= MaxPosition,
           NEW start \in Int, NEW hits, NEW size, OffsetsOK(k, size),
           \A i \in DOMAIN records : start + i - 1 \in 1 .. size
    PROVE  /\ SizeOK(Add(k, records, start, hits))
           /\ OffsetsOK(Add(k, records, start, hits), size)
<1> DEFINE e == NewEntries(records, start, CompOf(k, hits))
           d == k.entries
           r == Add(k, records, start, hits)
<1>1. CASE k.used > k.max_size
  BY <1>1 DEF Add, AddRecords
<1>2. CASE ~(k.used > k.max_size)
  <2>1. r = [k EXCEPT !.entries = e \o @, !.used = @ + Len(records)]
    BY <1>2 DEF Add, AddRecords
  <2>2. /\ IsSeq(e) /\ Len(e) = Len(records)
        /\ Elements(e) = {[offset |-> start + i - 1, record |-> records[i],
                           comp |-> CloneComp(CompOf(k, hits))] :
                              i \in DOMAIN records}
    BY MeaningOfNewEntries
  <2> HIDE DEF e
  <2>3. /\ r.entries = e \o d /\ r.used = k.used + Len(records)
        /\ r.max_size = k.max_size
    <3>1. r = [entries |-> e \o d, used |-> k.used + Len(records),
               max_size |-> k.max_size, searchRequest |-> k.searchRequest,
               presentRequest |-> k.presentRequest]
      BY <2>1 DEF CacheOK
    <3> HIDE DEF r
    <3> QED BY <3>1
  <2>4. /\ Len(e \o d) = Len(e) + Len(d)
        /\ Elements(e \o d) = Elements(e) \cup Elements(d)
    BY <2>2, ElementsOfConcat DEF CacheOK
  <2> HIDE DEF r
  <2>5. SizeOK(r)
    <3>1. Len(records) \in Nat /\ Len(d) \in Nat
      BY IsSeqProperties DEF CacheOK
    <3>2. /\ k.used \in Nat /\ k.max_size \in 0 .. DefaultSize
          /\ k.max_size \in Nat /\ Len(d) <= k.used /\ k.used <= k.max_size
      BY <1>2, Bounds DEF SizeOK
    <3>3. Len(r.entries) = Len(records) + Len(d)
      BY <2>2, <2>3, <2>4
    <3> QED BY <2>3, <3>1, <3>2, <3>3, Bounds DEF SizeOK
  <2>6. OffsetsOK(r, size)
    <3>1. \A entry \in Elements(e) : entry.offset \in 1 .. size
      BY <2>2
    <3> QED BY <2>3, <2>4, <3>1 DEF OffsetsOK
  <2> QED BY <2>5, <2>6 DEF r
<1> QED BY <1>1, <1>2

LEMMA SearchResponseGrows ==
    ASSUME CacheInv, SizeInv, SearchResponse
    PROVE  SizeInv'
<1>1. PICK hits \in 0 .. MaxPosition :
        \E comp : \E records \in Returned(1, hits, comp) :
          /\ cache' = Add(cache, records, 1, hits)
          /\ target' = [target EXCEPT !.size = hits]
  BY DEF SearchResponse
<1>2. PICK comp, records :
          /\ records \in Returned(1, hits, comp)
          /\ cache' = Add(cache, records, 1, hits)
          /\ target' = [target EXCEPT !.size = hits]
  BY <1>1
<1>3. hits \in Nat /\ hits <= MaxPosition
  BY Bounds
<1>4. IsSeq(records) /\ Len(records) \in 0 .. hits
  BY <1>2, <1>3, ReturnedAsAsked
<1>5. /\ Len(records) <= MaxPosition
      /\ \A i \in DOMAIN records : 1 + i - 1 \in 1 .. hits
  <2>1. DOMAIN records = 1 .. Len(records)
    BY <1>4, IsSeqProperties
  <2> QED BY <1>3, <1>4, <2>1, Bounds
<1>6. OffsetsOK(cache, hits)
  <2>1. cache.entries = <<>> /\ Elements(<<>>) = {}
    BY DEF SizeInv, PendingOK, SearchResponse, Elements
  <2> QED BY <2>1 DEF OffsetsOK
<1>7. SizeOK(cache') /\ OffsetsOK(cache', hits)
  <2> DEFINE r == Add(cache, records, 1, hits)
  <2>1. CacheOK(cache, target.set) /\ SizeOK(cache) /\ 1 \in Int
    BY DEF SizeInv, CacheInv
  <2>2. SizeOK(r) /\ OffsetsOK(r, hits)
    BY <2>1, <1>4, <1>5, <1>6, AddGrows
  <2> QED BY <1>2, <2>2
<1>8. /\ target'.set = target.set /\ target'.size = hits
      /\ target'.edition = target.edition /\ pending' = NoValue
      /\ target.set # 0
  BY <1>2, NoValueIsNone
     DEF CacheInv, SizeInv, PendingOK, SearchResponse
<1>9. TargetOK' /\ PendingOK'
  BY <1>8, NoValueIsNone DEF SizeInv, TargetOK, PendingOK
<1> QED BY <1>7, <1>8, <1>9 DEF SizeInv

LEMMA PresentResponseGrows ==
    ASSUME CacheInv, SizeInv, PresentResponse
    PROVE  SizeInv'
<1> DEFINE start == pending.start
           num == pending.num
<1>1. PICK records \in Returned(start, num, pending.comp) :
        cache' = Add(cache, records, start, -1)
  BY DEF PresentResponse
<1>2. /\ pending \in PresentRequests /\ start \in 1 .. MaxPosition
      /\ num \in 1 .. MaxPosition /\ start + num - 1 <= target.size
  BY DEF PresentResponse, PresentRequests, SizeInv, PendingOK
<1> HIDE DEF start, num
<1>3. /\ start \in Nat /\ num \in Nat /\ start >= 1 /\ num <= MaxPosition
      /\ target.size \in Nat
  BY <1>2, Bounds DEF SizeInv, TargetOK
<1>4. IsSeq(records) /\ Len(records) \in 0 .. num
  BY <1>3, ReturnedAsAsked
<1>5. /\ Len(records) <= MaxPosition
      /\ \A i \in DOMAIN records : start + i - 1 \in 1 .. target.size
  <2>1. DOMAIN records = 1 .. Len(records)
    BY <1>4, IsSeqProperties
  <2> QED BY <1>2, <1>3, <1>4, <2>1, Bounds
<1>6. SizeOK(cache') /\ OffsetsOK(cache', target.size)
  BY <1>1, <1>3, <1>4, <1>5, AddGrows DEF SizeInv, CacheInv
<1>7. target' = target /\ pending' = NoValue /\ target.set # 0
  BY NoValueIsNone DEF SizeInv, PendingOK, PresentResponse
<1> QED BY <1>6, <1>7, NoValueIsNone DEF SizeInv, TargetOK, PendingOK

LEMMA PresentGrows ==
    ASSUME CacheInv, SizeInv, Present
    PROVE  SizeInv'
<1>1. PICK pr \in PresentRequests :
        /\ pr.start + pr.num - 1 <= target.size
        /\ \/ cache' = CopyPresentRequest(cache, pr) /\ pending' = pr
           \/ UNCHANGED <<cache, pending>>
  BY DEF Present
<1>2. target' = target /\ pending = NoValue
  BY DEF Present
<1>3. CASE UNCHANGED <<cache, pending>>
  BY <1>2, <1>3 DEF SizeInv, TargetOK, PendingOK
<1>4. CASE cache' = CopyPresentRequest(cache, pr) /\ pending' = pr
  <2>1. /\ cache'.entries = cache.entries /\ cache'.used = cache.used + 1
        /\ cache'.max_size = cache.max_size
    BY <1>4 DEF CacheInv, CacheOK, CopyPresentRequest
  <2>2. SizeOK(cache')
    <3>1. Len(cache.entries) \in Nat
      BY IsSeqProperties DEF CacheInv, CacheOK
    <3> QED BY <2>1, <3>1 DEF SizeInv, SizeOK
  <2>3. pr \notin SearchRequests
    BY DEF SearchRequests, PresentRequests
  <2>4. target.set # 0
    <3>1. pr.start + pr.num - 1 >= 1
      BY Bounds DEF PresentRequests
    <3>2. target.size # 0
      BY <1>1, <3>1, Bounds DEF PresentRequests
    <3> QED BY <3>2 DEF SizeInv, TargetOK
  <2>5. OffsetsOK(cache', target.size)
    BY <2>1 DEF SizeInv, OffsetsOK
  <2> QED BY <1>1, <1>2, <1>4, <2>2, <2>3, <2>4, <2>5
          DEF SizeInv, TargetOK, PendingOK
<1> QED BY <1>1, <1>3, <1>4

LEMMA SearchEmpties ==
    ASSUME CacheInv, SizeInv, Search
    PROVE  SizeInv'
<1>1. PICK sr \in SearchRequests :
        cache' = CopySearchRequest(Clear(cache), sr) /\ pending' = sr
  BY DEF Search
<1>2. /\ cache'.entries = <<>> /\ cache'.used = 1
      /\ cache'.max_size = cache.max_size
  <2> DEFINE k == Clear(cache)
  <2>1. k = [entries |-> <<>>, used |-> 0, max_size |-> cache.max_size,
             searchRequest |-> NoValue, presentRequest |-> NoValue]
    BY DEF Clear, SetMaxSize, NewCache
  <2> HIDE DEF k
  <2>2. /\ k.entries = <<>> /\ k.used = 0 /\ k.max_size = cache.max_size
    <3> DEFINE none == <<>>
               d == cache.max_size
    <3>1. k = [entries |-> none, used |-> 0, max_size |-> d,
               searchRequest |-> NoValue, presentRequest |-> NoValue]
      BY <2>1
    <3>2. k.entries = none /\ k.used = 0 /\ k.max_size = d
      <4> HIDE DEF none, d
      <4> QED BY ONLY <3>1
    <3> QED BY <3>2
  <2>3. cache' = [entries |-> k.entries, used |-> k.used + 1,
                  max_size |-> k.max_size, searchRequest |-> sr,
                  presentRequest |-> NoValue]
    <3>1. k = [entries |-> k.entries, used |-> k.used,
               max_size |-> k.max_size, searchRequest |-> NoValue,
               presentRequest |-> NoValue]
      BY <2>1, <2>2
    <3> QED BY <1>1, <3>1 DEF CopySearchRequest, k
  <2> QED BY <2>2, <2>3
<1>3. /\ target'.set = target.set + 1 /\ target'.size = target.size
      /\ target'.edition = target.edition /\ target.set < MaxSearches
  BY DEF Search, CacheInv
<1>4. sr \notin PresentRequests
  BY DEF SearchRequests, PresentRequests
<1>5. Len(<<>>) = 0 /\ Elements(<<>>) = {}
  BY EmptySeq DEF Elements
<1>6. SizeOK(cache') /\ OffsetsOK(cache', target'.size)
  BY <1>2, <1>5, Bounds DEF SizeInv, SizeOK, OffsetsOK
<1>7. TargetOK' /\ target'.set # 0
  BY <1>3, Bounds DEF SizeInv, TargetOK
<1> QED BY <1>1, <1>2, <1>4, <1>6, <1>7 DEF SizeInv, PendingOK

LEMMA ConfigureSizes ==
    ASSUME CacheInv, SizeInv, Configure
    PROVE  SizeInv'
<1>1. PICK sz \in 0 .. DefaultSize : cache' = SetMaxSize(cache, sz)
  BY DEF Configure
<1>2. /\ cache'.entries = cache.entries /\ cache'.used = cache.used
      /\ cache'.max_size = sz
  BY <1>1 DEF SetMaxSize, CacheInv, CacheOK
<1>3. cache.entries = <<>> /\ target' = target /\ pending' = pending
  BY DEF Configure, SizeInv, PendingOK
<1>4. Len(<<>>) = 0
  BY EmptySeq
<1>5. SizeOK(cache')
  BY <1>2, <1>3, <1>4, Bounds DEF SizeInv, SizeOK
<1>6. OffsetsOK(cache', target.size)
  BY <1>2 DEF SizeInv, OffsetsOK
<1> QED BY <1>2, <1>3, <1>5, <1>6 DEF SizeInv, TargetOK, PendingOK

LEMMA SizeStep == CacheInv /\ SizeInv /\ [Next]_vars => SizeInv'
<1> SUFFICES ASSUME CacheInv, SizeInv, [Next]_vars PROVE SizeInv'
  OBVIOUS
<1>1. CASE PresentFails
  BY <1>1, NoValueIsNone DEF PresentFails, SizeInv, TargetOK, PendingOK
<1>2. CASE TargetUpdates
  <2>1. /\ target'.set = target.set /\ target'.size = target.size
        /\ target'.edition = target.edition + 1
        /\ target.edition < MaxEdition /\ UNCHANGED <<cache, pending>>
    BY <1>2 DEF TargetUpdates, CacheInv
  <2> QED BY <2>1, Bounds DEF SizeInv, TargetOK, PendingOK
<1>3. CASE UNCHANGED vars
  BY <1>3 DEF vars, SizeInv, TargetOK, PendingOK
<1> QED
  BY <1>1, <1>2, <1>3, ConfigureSizes, SearchEmpties, SearchResponseGrows,
     PresentGrows, PresentResponseGrows DEF Next

LEMMA SizeInvariance == Spec => [](CacheInv /\ SizeInv)
<1>1. Init => CacheInv /\ SizeInv
  <2> SUFFICES ASSUME Init PROVE SizeInv
    BY InitMaps
  <2>1. /\ cache.entries = <<>> /\ cache.used = 0
        /\ cache.max_size = DefaultSize /\ pending = NoValue
        /\ target.set = 0 /\ target.size = 0 /\ target.edition = 0
    BY DEF Init, NewCache
  <2>2. Len(<<>>) = 0 /\ Elements(<<>>) = {}
    BY EmptySeq DEF Elements
  <2> QED BY <2>1, <2>2, Bounds, NoValueIsNone
          DEF SizeInv, SizeOK, OffsetsOK, TargetOK, PendingOK
<1>2. CacheInv /\ SizeInv /\ [Next]_vars => (CacheInv /\ SizeInv)'
  BY EveryStep, SizeStep
<1> QED BY <1>1, <1>2, PTL DEF Spec

(* The list of a cache exceeds its size by one response at most, for any   *)
(* sizes and any number of requests (RecordCache::add).                    *)
THEOREM CacheIsBounded == Spec => []SizeBounded
<1>1. SizeInv => SizeBounded
  BY DEF SizeInv, SizeOK, SizeBounded
<1> QED BY <1>1, SizeInvariance, PTL

(* The variables have their types: sizes are never negative, and entries   *)
(* are for positions of the target's result set.                           *)
THEOREM TypeCorrect == Spec => []TypeOK
<1>1. SizeInv => TypeOK
  BY DEF SizeInv, SizeOK, OffsetsOK, TargetOK, PendingOK, Elements, TypeOK
<1> QED BY <1>1, SizeInvariance, PTL
=============================================================================
