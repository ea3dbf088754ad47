------------------------ MODULE SocketManagerProofs ------------------------
(***************************************************************************)
(* Theorems about SocketManager, for every set of observers, descriptors,  *)
(* masks and timeouts.                                                     *)
(*                                                                         *)
(* inspect_poll_result finds the entry of a descriptor by walking the list *)
(* of observers: that it finds the right one needs the descriptors of the  *)
(* entries to be different (EntriesDistinct).  It puts one event for each  *)
(* entry on a queue that is empty while yaz_poll runs, and the timeout of  *)
(* the poll is what some entry has left (PollPrepared).                    *)
(***************************************************************************)
EXTENDS SocketManager, ListOpsProofs

(* A descriptor belongs to one entry, and an observer has one entry.       *)
EntriesDistinct ==
    /\ NoRepeats(observers)
    /\ \A o, p \in Elements(observers) : fd[o] = fd[p] => o = p

(* Nothing the manager remembers is later than now.                        *)
ClockKept ==
    /\ now # 0 /\ poll_start <= now
    /\ \A o \in Observers : last_activity[o] <= now

(* What the entries are like while yaz_poll runs.                          *)
PollPrepared ==
    ctl = "polling" =>
        /\ queue = <<>>
        /\ poll_timeout # -1 =>
               \E o \in Elements(observers) : timeout_this[o] = poll_timeout
        /\ \A o \in Elements(observers) :
               timeout_this[o] # -1 => last_activity[o] # 0 /\ timeout[o] >= 0

IInv ==
    /\ TypeOK /\ EntriesDistinct /\ ClockKept /\ PollPrepared
    /\ NoStaleEvents /\ OneEventPerObserver

----------------------------------------------------------------------------
(* Facts about the data.                                                   *)

(* The rest of a queue is a queue, and its events are where they were.     *)
LEMMA TailProperties ==
    ASSUME NEW S, NEW q \in Seq(S), q # <<>>
    PROVE  /\ Tail(q) \in Seq(S) /\ Head(q) \in S
           /\ DOMAIN Tail(q) = 1 .. Len(q) - 1
           /\ \A i \in DOMAIN Tail(q) : i + 1 \in DOMAIN q /\ Tail(q)[i] = q[i + 1]
  OBVIOUS

(* An event list, to be used as a queue: typed, for entries of the list of *)
(* observers and what deleteObservers left only, one for each at most.     *)
GoodQueue(q) ==
    /\ q \in Seq(Event)
    /\ \A i \in DOMAIN q : q[i].observer \in Elements(observers) \cup leftover
    /\ \A i, j \in DOMAIN q : q[i].observer = q[j].observer => i = j

(* Taking events out of a queue keeps it good.                             *)
LEMMA SubsequenceOfQueue ==
    ASSUME NEW q \in Seq(Event), NEW K \in SUBSET (DOMAIN q),
           \A i, j \in DOMAIN q : q[i].observer = q[j].observer => i = j
    PROVE  /\ Subsequence(q, K) \in Seq(Event)
           /\ \A k \in DOMAIN Subsequence(q, K) :
                  \E i \in K : Subsequence(q, K)[k] = q[i]
           /\ \A k, l \in DOMAIN Subsequence(q, K) :
                  Subsequence(q, K)[k].observer = Subsequence(q, K)[l].observer
                      => k = l
  <1> DEFINE sub == Subsequence(q, K)
  <1>1. /\ sub \in Seq(Event)
        /\ Elements(sub) = {q[i] : i \in K}
        /\ NoRepeats(q) => NoRepeats(sub)
    BY SubsequenceProperties
  <1>2. NoRepeats(q)
    BY DEF NoRepeats
  <1> HIDE DEF sub
  <1>3. \A k \in DOMAIN sub : \E i \in K : sub[k] = q[i]
    BY <1>1 DEF Elements
  <1>4. ASSUME NEW k \in DOMAIN sub, NEW l \in DOMAIN sub,
               sub[k].observer = sub[l].observer
        PROVE  k = l
    <2>1. PICK i \in K : sub[k] = q[i]
      BY <1>3
    <2>2. PICK j \in K : sub[l] = q[j]
      BY <1>3
    <2>3. i = j
      BY <1>4, <2>1, <2>2
    <2> QED
      BY <1>1, <1>2, <2>1, <2>2, <2>3 DEF NoRepeats
  <1> QED
    BY <1>1, <1>3, <1>4 DEF sub

(* What is left of a timeout is never negative.                            *)
LEMMA TimeLeftNat ==
    ASSUME TypeOK, NEW o \in Observers
    PROVE  TimeLeft(o) \in Nat
  <1>1. timeout[o] \in Int
    <2>1. timeout[o] \in Timeouts \cup {-1}
      BY DEF TypeOK
    <2>2. \A t \in Timeouts \cup {-1} : t \in Int
      BY ManagerConstants DEF ManagerConstants
    <2> QED
      BY <2>1, <2>2, Zenon
  <1>2. now \in Int /\ last_activity[o] \in Int
    BY DEF TypeOK
  <1>3. timeout[o] - (now - last_activity[o]) \in Int
    BY <1>1, <1>2
  <1> QED
    BY <1>1, <1>3 DEF TimeLeft

(* The timeout of a poll is what one of the timed entries has left.        *)
LEMMA ShortestIsOne ==
    ASSUME TypeOK
    PROVE  \/ TimedObservers = {} /\ ShortestTimeLeft = -1
           \/ \E o \in TimedObservers :
                  ShortestTimeLeft = TimeLeft(o) /\ TimeLeft(o) \in Nat
  <1> DEFINE Lefts == {TimeLeft(o) : o \in TimedObservers}
  <1>1. TimedObservers \subseteq Observers
    BY DEF TimedObservers, TypeOK, Elements
  <1>2. Lefts \in SUBSET Nat
    BY <1>1, TimeLeftNat
  <1>3. CASE TimedObservers = {}
    BY <1>3 DEF ShortestTimeLeft
  <1>4. CASE TimedObservers # {}
    <2>1. Lefts # {}
      BY <1>4
    <2>2. \E t \in Lefts : \A u \in Lefts : t <= u
      BY <1>2, <2>1, LeastNatural
    <2>3. \E t \in Lefts : \A o \in TimedObservers : t <= TimeLeft(o)
      BY <2>2
    <2>4. ShortestTimeLeft \in Lefts
      BY <1>4, <2>3 DEF ShortestTimeLeft
    <2> QED
      BY <1>2, <2>4
  <1> QED
    BY <1>3, <1>4

(* With a descriptor per entry, the entry found is the one that was polled.*)
LEMMA EntryIsItsOwn ==
    ASSUME TypeOK, EntriesDistinct, NEW i \in DOMAIN observers
    PROVE  EntryOf(i) = observers[i]
  <1> DEFINE First(j) ==
                 /\ fd[observers[j]] = fd[observers[i]]
                 /\ \A k \in 1 .. j - 1 : fd[observers[k]] # fd[observers[i]]
  <1>1. ASSUME NEW j \in DOMAIN observers,
               fd[observers[j]] = fd[observers[i]]
        PROVE  j = i
    <2>1. observers[j] \in Elements(observers)
          /\ observers[i] \in Elements(observers)
      BY DEF Elements
    <2>2. observers[j] = observers[i]
      BY <1>1, <2>1 DEF EntriesDistinct
    <2> QED
      BY <2>2 DEF EntriesDistinct, NoRepeats
  <1>2. DOMAIN observers = 1 .. Len(observers) /\ Len(observers) \in Nat
    BY DEF TypeOK
  <1>3. \A k \in 1 .. i - 1 : k \in DOMAIN observers /\ k # i
    BY <1>2
  <1>4. First(i)
    BY <1>1, <1>3
  <1>5. (CHOOSE j \in DOMAIN observers : First(j)) = i
    BY <1>1, <1>4
  <1> QED
    BY <1>5 DEF EntryOf

(* Adding an observer lists it once.                                       *)
LEMMA EnlistedProperties ==
    ASSUME TypeOK, EntriesDistinct, NEW o \in Observers
    PROVE  /\ Enlisted(o) \in Seq(Observers)
           /\ Elements(Enlisted(o)) = Elements(observers) \cup {o}
           /\ NoRepeats(Enlisted(o))
  <1>1. observers \in Seq(Observers) /\ NoRepeats(observers)
    BY DEF TypeOK, EntriesDistinct
  <1>2. CASE o \in Elements(observers)
    BY <1>1, <1>2 DEF Enlisted
  <1>3. CASE o \notin Elements(observers)
    <2> DEFINE e == <<o>> \o observers
    <2>1. /\ e \in Seq(Observers)
          /\ Len(e) = Len(observers) + 1 /\ Len(observers) \in Nat
          /\ e[1] = o
          /\ \A i \in DOMAIN observers : e[i + 1] = observers[i]
          /\ DOMAIN e = 1 .. Len(e) /\ DOMAIN observers = 1 .. Len(observers)
      BY <1>1
    <2> HIDE DEF e
    <2>2. \A i \in DOMAIN e :
              \/ i = 1
              \/ i - 1 \in DOMAIN observers /\ e[i] = observers[i - 1]
      BY <2>1
    <2>3. Elements(e) = Elements(observers) \cup {o}
      <3>1. \A i \in DOMAIN observers : i + 1 \in DOMAIN e
        BY <2>1
      <3>2. 1 \in DOMAIN e
        BY <2>1
      <3> QED
        BY <2>1, <2>2, <3>1, <3>2 DEF Elements
    <2>4. ASSUME NEW i \in DOMAIN e, NEW j \in DOMAIN e, e[i] = e[j]
          PROVE  i = j
      <3>1. \A k \in DOMAIN observers : observers[k] # o
        BY <1>3 DEF Elements
      <3>2. CASE i = 1 \/ j = 1
        BY <2>1, <2>2, <2>4, <3>1, <3>2
      <3>3. CASE i # 1 /\ j # 1
        <4>1. i - 1 = j - 1
          BY <1>1, <2>2, <2>4, <3>3 DEF NoRepeats
        <4> QED
          BY <2>1, <4>1
      <3> QED
        BY <3>2, <3>3
    <2>5. e = Enlisted(o)
      BY <1>3 DEF Enlisted, e
    <2> QED
      BY <2>1, <2>3, <2>4, <2>5 DEF NoRepeats
  <1> QED
    BY <1>2, <1>3

(* What inspect_poll_result puts is a good queue, and it puts an event for *)
(* each hit.                                                               *)
LEMMA NewEventsGood ==
    ASSUME TypeOK, EntriesDistinct,
           NEW found \in [Observers -> SUBSET IO], NEW expired \in BOOLEAN
    PROVE  /\ GoodQueue(NewEvents(found, expired))
           /\ Hits(found, expired) # {} => NewEvents(found, expired) # <<>>
  <1> DEFINE all == [i \in DOMAIN observers |-> EventAt(i, found, expired)]
             K == Hits(found, expired)
  <1>1. observers \in Seq(Observers)
    BY DEF TypeOK
  <1>2. ASSUME NEW i \in DOMAIN observers
        PROVE  /\ EventAt(i, found, expired) \in Event
               /\ EventAt(i, found, expired).observer = observers[i]
    <2>1. EntryOf(i) = observers[i] /\ observers[i] \in Observers
      BY <1>1, EntryIsItsOwn
    <2>2. found[observers[i]] \in SUBSET IO
      BY <2>1
    <2> QED
      BY <2>1, <2>2 DEF EventAt, Event
  <1>3. all \in Seq(Event) /\ DOMAIN all = DOMAIN observers
    BY <1>1, <1>2
  <1>4. \A i \in DOMAIN all : all[i].observer = observers[i]
    BY <1>2
  <1>5. K \in SUBSET (DOMAIN all)
    BY DEF Hits
  <1>6. NewEvents(found, expired) = Subsequence(all, K)
    BY DEF NewEvents
  <1> HIDE DEF all, K
  <1>7. \A i, j \in DOMAIN all : all[i].observer = all[j].observer => i = j
    BY <1>3, <1>4 DEF EntriesDistinct, NoRepeats
  <1>8. GoodQueue(Subsequence(all, K))
    <2>1. \A i \in DOMAIN all : all[i].observer \in Elements(observers)
      BY <1>3, <1>4 DEF Elements
    <2> DEFINE sub == Subsequence(all, K)
    <2>2. /\ sub \in Seq(Event)
          /\ \A k \in DOMAIN sub : \E i \in K : sub[k] = all[i]
          /\ \A k, l \in DOMAIN sub : sub[k].observer = sub[l].observer => k = l
      BY <1>3, <1>5, <1>7, SubsequenceOfQueue
    <2> HIDE DEF sub
    <2>3. \A k \in DOMAIN sub : sub[k].observer \in Elements(observers)
      BY <1>5, <2>1, <2>2
    <2> QED
      BY <2>2, <2>3 DEF GoodQueue, sub
  <1>9. ASSUME K # {}
        PROVE  Subsequence(all, K) # <<>>
    <2>1. PICK i \in K : TRUE
      BY <1>9
    <2>2. Elements(Subsequence(all, K)) = {all[j] : j \in K}
      BY <1>3, <1>5, SubsequenceProperties
    <2>3. Elements(Subsequence(all, K)) # {}
      BY <2>1, <2>2
    <2> QED
      BY <2>3 DEF Elements
  <1> QED
    BY <1>6, <1>8, <1>9 DEF K

----------------------------------------------------------------------------
(* The invariant is inductive.                                             *)

LEMMA InitIInv == Init => IInv
  <1> SUFFICES ASSUME Init
               PROVE  IInv
    OBVIOUS
  <1> USE DEF Init
  <1>1. TypeOK
    BY DEF TypeOK
  <1>2. EntriesDistinct
    BY DEF EntriesDistinct, NoRepeats, Elements
  <1>3. ClockKept
    BY DEF ClockKept
  <1>4. PollPrepared /\ NoStaleEvents /\ OneEventPerObserver
    BY DEF PollPrepared, NoStaleEvents, Addressees, OneEventPerObserver
  <1> QED
    BY <1>1, <1>2, <1>3, <1>4 DEF IInv

LEMMA StepAddObserver ==
    ASSUME IInv, NEW o \in Observers, NEW f \in Fds, NEW m \in Masks,
           AddObserver(o, f, m)
    PROVE  IInv'
  <1> USE DEF AddObserver, Calling
  <1>1. /\ Enlisted(o) \in Seq(Observers)
        /\ Elements(Enlisted(o)) = Elements(observers) \cup {o}
        /\ NoRepeats(Enlisted(o))
    BY EnlistedProperties DEF IInv
  <1>2. m \in SUBSET IO
    BY ManagerConstants DEF ManagerConstants, IO
  <1>3. TypeOK'
    BY <1>1, <1>2 DEF IInv, TypeOK, entryVars, loopVars
  <1>4. EntriesDistinct'
    <2>1. Elements(observers)' = Elements(observers) \cup {o}
      BY <1>1 DEF Elements
    <2>2. Elements(observers) \subseteq Observers
      BY DEF IInv, TypeOK, Elements
    <2>3. ASSUME NEW p \in Elements(observers)', NEW q \in Elements(observers)',
                 fd'[p] = fd'[q]
          PROVE  p = q
      <3>1. fd' = [fd EXCEPT ![o] = f] /\ fd \in [Observers -> Fds \cup {-1}]
        BY DEF IInv, TypeOK
      <3>2. p \in Observers /\ q \in Observers
        BY <2>1, <2>2
      <3>3. \A r \in Elements(observers) \ {o} : fd[r] # f
        BY DEF FreeFd
      <3>4. \A r, t \in Elements(observers) : fd[r] = fd[t] => r = t
        BY DEF IInv, EntriesDistinct
      <3> QED
        BY <2>1, <2>3, <3>1, <3>2, <3>3, <3>4
    <2>4. NoRepeats(observers)'
      BY <1>1 DEF NoRepeats
    <2> QED
      BY <2>3, <2>4 DEF EntriesDistinct
  <1>5. ClockKept'
    BY DEF IInv, TypeOK, ClockKept, loopVars
  <1>6. PollPrepared'
    BY DEF PollPrepared, loopVars
  <1>7. NoStaleEvents'
    <2>1. Elements(observers)' = Elements(observers) \cup {o}
      BY <1>1 DEF Elements
    <2> QED
      BY <2>1 DEF IInv, NoStaleEvents, Addressees, loopVars
  <1>8. OneEventPerObserver'
    BY DEF IInv, OneEventPerObserver, loopVars
  <1> QED
    BY <1>3, <1>4, <1>5, <1>6, <1>7, <1>8 DEF IInv

LEMMA StepMaskOrTimeout ==
    ASSUME IInv, NEW o \in Observers,
           \/ \E m \in Masks : MaskObserver(o, m)
           \/ \E t \in Timeouts : TimeoutObserver(o, t)
    PROVE  IInv'
  <1> USE DEF MaskObserver, TimeoutObserver, Calling
  <1>0. Masks \subseteq SUBSET IO
    BY ManagerConstants DEF ManagerConstants, IO
  <1>1. mask' \in [Observers -> SUBSET IO]
    <2>1. ASSUME NEW m \in Masks, MaskObserver(o, m)
          PROVE  mask' \in [Observers -> SUBSET IO]
      BY <1>0, <2>1 DEF IInv, TypeOK
    <2>2. ASSUME NEW t \in Timeouts, TimeoutObserver(o, t)
          PROVE  mask' \in [Observers -> SUBSET IO]
      BY <2>2 DEF IInv, TypeOK
    <2> QED
      BY <2>1, <2>2
  <1>2. timeout' \in [Observers -> Timeouts \cup {-1}]
    BY DEF IInv, TypeOK
  <1>3. UNCHANGED <<observers, fd, timeout_this, last_activity, loopVars, now>>
    OBVIOUS
  <1>4. TypeOK'
    BY <1>1, <1>2, <1>3 DEF IInv, TypeOK, loopVars
  <1>5. EntriesDistinct'
    BY <1>3 DEF IInv, EntriesDistinct, NoRepeats, Elements
  <1>6. ClockKept'
    BY <1>3 DEF IInv, ClockKept, loopVars
  <1>7. PollPrepared'
    BY <1>3 DEF PollPrepared, loopVars
  <1>8. NoStaleEvents' /\ OneEventPerObserver'
    BY <1>3
    DEF IInv, NoStaleEvents, Addressees, OneEventPerObserver, loopVars, Elements
  <1> QED
    BY <1>4, <1>5, <1>6, <1>7, <1>8 DEF IInv

LEMMA StepDeleteObserver ==
    ASSUME IInv, NEW o \in Observers, DeleteObserver(o)
    PROVE  IInv'
  <1> USE DEF DeleteObserver, Calling
  <1> DEFINE Q == {i \in DOMAIN queue : queue[i].observer # o}
             K == {i \in DOMAIN observers : observers[i] # o}
  <1>1. /\ queue' \in Seq(Event)
        /\ \A k \in DOMAIN queue' : \E i \in Q : queue'[k] = queue[i]
        /\ OneEventPerObserver'
    <2>1. queue \in Seq(Event) /\ Q \in SUBSET (DOMAIN queue)
      BY DEF IInv, TypeOK
    <2>2. \A i, j \in DOMAIN queue :
              queue[i].observer = queue[j].observer => i = j
      BY DEF IInv, OneEventPerObserver
    <2>3. queue' = Subsequence(queue, Q)
      BY DEF WithoutEvents
    <2> HIDE DEF Q, DeleteObserver
    <2> QED
      BY <2>1, <2>2, <2>3, SubsequenceOfQueue DEF OneEventPerObserver
  <1>2. /\ observers' \in Seq(Observers)
        /\ Elements(observers)' = Elements(observers) \ {o}
        /\ NoRepeats(observers)'
    <2>1. observers \in Seq(Observers) /\ K \in SUBSET (DOMAIN observers)
      BY DEF IInv, TypeOK
    <2>2. observers' = Subsequence(observers, K) /\ NoRepeats(observers)
      BY DEF IInv, EntriesDistinct
    <2>3. /\ Subsequence(observers, K) \in Seq(Observers)
          /\ Elements(Subsequence(observers, K)) = {observers[i] : i \in K}
          /\ NoRepeats(Subsequence(observers, K))
      BY <2>1, <2>2, SubsequenceProperties
    <2>4. {observers[i] : i \in K} = Elements(observers) \ {o}
      BY DEF Elements
    <2>5. /\ Elements(observers)' = Elements(Subsequence(observers, K))
          /\ NoRepeats(observers)' = NoRepeats(Subsequence(observers, K))
      BY <2>2 DEF Elements, NoRepeats
    <2> QED
      BY <2>2, <2>3, <2>4, <2>5
  <1>3. TypeOK'
    BY <1>1, <1>2 DEF IInv, TypeOK
  <1>4. EntriesDistinct'
    BY <1>2 DEF IInv, TypeOK, EntriesDistinct
  <1>5. ClockKept'
    BY DEF IInv, TypeOK, ClockKept
  <1>6. PollPrepared'
    BY DEF PollPrepared
  <1>7. NoStaleEvents'
    <2>1. leftover' = leftover \ {o}
      OBVIOUS
    <2>2. ASSUME NEW k \in DOMAIN queue'
          PROVE  queue'[k].observer \in Elements(observers)' \cup leftover'
      <3>1. PICK i \in Q : queue'[k] = queue[i]
        BY <1>1
      <3>2. /\ queue[i].observer \in Elements(observers) \cup leftover
            /\ queue[i].observer # o
        BY <3>1 DEF IInv, NoStaleEvents, Addressees
      <3> QED
        BY <1>2, <2>1, <3>1, <3>2
    <2> HIDE DEF DeleteObserver
    <2> QED
      BY <2>2 DEF NoStaleEvents, Addressees
  <1> QED
    BY <1>1, <1>3, <1>4, <1>5, <1>6, <1>7 DEF IInv

LEMMA StepFreeEntries ==
    ASSUME IInv, DeleteObservers \/ Destruct
    PROVE  IInv'
  <1>1. FreeEntries /\ ctl' \in {"app", "notify", "gone"}
    BY DEF DeleteObservers, Destruct, Calling
  <1> USE DEF FreeEntries
  <1>2. TypeOK'
    <2>1. leftover' \subseteq Observers
      <3>1. \A i \in DOMAIN queue : queue[i] \in Event
        BY DEF IInv, TypeOK
      <3>2. \A i \in DOMAIN queue : queue[i].observer \in Observers
        BY <3>1 DEF Event
      <3> QED
        BY <1>1, <3>2 DEF Addressees
    <2> QED
      BY <1>1, <2>1 DEF IInv, TypeOK
  <1>3. EntriesDistinct'
    BY <1>1 DEF EntriesDistinct, NoRepeats, Elements
  <1>4. ClockKept'
    BY <1>1 DEF IInv, TypeOK, ClockKept
  <1>5. PollPrepared' /\ OneEventPerObserver'
    BY <1>1 DEF IInv, PollPrepared, OneEventPerObserver
  <1>6. NoStaleEvents'
    BY <1>1 DEF NoStaleEvents, Addressees
  <1> QED
    BY <1>2, <1>3, <1>4, <1>5, <1>6 DEF IInv

(* Delivering the front event of a good queue.                             *)
LEMMA NotifyFrontGood ==
    ASSUME TypeOK, NEW q, GoodQueue(q), NotifyFront(q),
           UNCHANGED observers
    PROVE  /\ queue' \in Seq(Event) /\ notified' \in Observers
           /\ ctl' = "notify" /\ leftover' \subseteq Observers
           /\ NoStaleEvents' /\ OneEventPerObserver'
  <1>1. q \in Seq(Event) /\ q # <<>> /\ queue' = Tail(q)
        /\ notified' = Head(q).observer /\ ctl' = "notify"
        /\ leftover' = leftover \ {Head(q).observer}
    BY DEF GoodQueue, NotifyFront
  <1>2. /\ queue' \in Seq(Event) /\ Head(q) \in Event
        /\ DOMAIN queue' = 1 .. Len(q) - 1
        /\ \A i \in DOMAIN queue' : i + 1 \in DOMAIN q /\ queue'[i] = q[i + 1]
    BY <1>1, TailProperties
  <1>3. notified' \in Observers
    BY <1>1, <1>2 DEF Event
  <1>4. Elements(observers)' = Elements(observers)
    BY DEF Elements
  <1>5. NoStaleEvents'
    <2> SUFFICES ASSUME NEW i \in DOMAIN queue'
                 PROVE  queue'[i].observer \in Elements(observers)' \cup leftover'
      BY DEF NoStaleEvents, Addressees
    <2>1. /\ i + 1 \in DOMAIN q /\ queue'[i] = q[i + 1]
          /\ 1 \in DOMAIN q /\ Head(q) = q[1] /\ i + 1 # 1
      BY <1>1, <1>2
    <2>2. /\ q[i + 1].observer \in Elements(observers) \cup leftover
          /\ q[i + 1].observer # q[1].observer
      BY <2>1 DEF GoodQueue
    <2> QED
      BY <1>1, <1>4, <2>1, <2>2
  <1>6. ASSUME NEW i \in DOMAIN queue', NEW j \in DOMAIN queue',
               queue'[i].observer = queue'[j].observer
        PROVE  i = j
    <2>1. i + 1 = j + 1
      BY <1>2, <1>6 DEF GoodQueue
    <2> QED
      BY <1>1, <1>2, <2>1
  <1> QED
    BY <1>1, <1>2, <1>3, <1>5, <1>6 DEF OneEventPerObserver, TypeOK

LEMMA StepDispatchQueued ==
    ASSUME IInv, DispatchQueued
    PROVE  IInv'
  <1> USE DEF DispatchQueued
  <1>1. GoodQueue(queue)
    BY DEF IInv, TypeOK, NoStaleEvents, Addressees, OneEventPerObserver,
           GoodQueue
  <1>2. UNCHANGED <<observers, fd, mask, timeout, timeout_this, last_activity,
                    poll_timeout, poll_start, now>>
    BY DEF entryVars
  <1>3. /\ queue' \in Seq(Event) /\ notified' \in Observers
        /\ ctl' = "notify" /\ leftover' \subseteq Observers
        /\ NoStaleEvents' /\ OneEventPerObserver'
    BY <1>1, <1>2, NotifyFrontGood DEF IInv
  <1>4. TypeOK'
    BY <1>2, <1>3 DEF IInv, TypeOK
  <1>5. EntriesDistinct'
    BY <1>2 DEF IInv, EntriesDistinct, NoRepeats, Elements
  <1>6. ClockKept'
    BY <1>2 DEF IInv, ClockKept
  <1>7. PollPrepared'
    BY <1>3 DEF PollPrepared
  <1> QED
    BY <1>3, <1>4, <1>5, <1>6, <1>7 DEF IInv

LEMMA StepStartPoll ==
    ASSUME IInv, StartPoll
    PROVE  IInv'
  <1> USE DEF StartPoll, PreparePoll, StartActivity
  <1>1. UNCHANGED <<observers, fd, mask, timeout, queue, leftover, notified,
                    now>>
        /\ ctl' = "polling" /\ queue = <<>>
    OBVIOUS
  <1>2. Elements(observers) \subseteq Observers
        /\ Elements(observers)' = Elements(observers)
    BY <1>1 DEF IInv, TypeOK, Elements
  <1>3. TimedObservers \subseteq Elements(observers)
    BY DEF TimedObservers
  <1>4. \A o \in Observers : TimeLeft(o) \in Nat
    BY TimeLeftNat DEF IInv
  <1>5. \/ TimedObservers = {} /\ poll_timeout' = -1
        \/ \E o \in TimedObservers :
               poll_timeout' = TimeLeft(o) /\ TimeLeft(o) \in Nat
    BY ShortestIsOne DEF IInv
  <1>6. \A o \in Observers :
            /\ o \in TimedObservers => timeout_this'[o] = TimeLeft(o)
            /\ o \in Elements(observers) \ TimedObservers =>
                   timeout_this'[o] = -1
    BY <1>3
  <1>7. TypeOK'
    <2>1. timeout_this' \in [Observers -> Nat \cup {-1}]
      BY <1>4 DEF IInv, TypeOK
    <2>2. last_activity' \in [Observers -> Nat]
      BY DEF IInv, TypeOK
    <2>3. poll_timeout' \in Nat \cup {-1}
      BY <1>5
    <2> QED
      BY <1>1, <2>1, <2>2, <2>3 DEF IInv, TypeOK
  <1>8. EntriesDistinct'
    BY <1>1 DEF IInv, EntriesDistinct, NoRepeats, Elements
  <1>9. ClockKept'
    BY DEF IInv, TypeOK, ClockKept
  <1>10. PollPrepared'
    <2>1. poll_timeout' # -1 =>
              \E o \in Elements(observers) : timeout_this'[o] = poll_timeout'
      BY <1>2, <1>3, <1>5, <1>6
    <2>2. ASSUME NEW o \in Elements(observers), timeout_this'[o] # -1
          PROVE  last_activity'[o] # 0 /\ timeout'[o] >= 0
      <3>1. o \in TimedObservers /\ o \in Observers
        BY <1>2, <1>6, <2>2
      <3>2. timeout[o] \in Int
        <4>1. timeout[o] \in Timeouts \cup {-1}
          BY <3>1 DEF IInv, TypeOK
        <4>2. \A t \in Timeouts \cup {-1} : t \in Int
          BY ManagerConstants DEF ManagerConstants
        <4> QED
          BY <4>1, <4>2, Zenon
      <3>3. timeout[o] >= 0
        BY <3>1, <3>2 DEF TimedObservers, Timed
      <3>4. last_activity'[o] # 0
        BY <3>1 DEF IInv, ClockKept, TypeOK
      <3> QED
        BY <1>1, <3>3, <3>4
    <2> QED
      BY <1>1, <1>2, <2>1, <2>2 DEF PollPrepared
  <1>11. NoStaleEvents' /\ OneEventPerObserver'
    BY <1>1 DEF NoStaleEvents, Addressees, OneEventPerObserver
  <1> QED
    BY <1>7, <1>8, <1>9, <1>10, <1>11 DEF IInv

(* The end of a poll, whatever it found.                                   *)
LEMMA StepInspect ==
    ASSUME IInv, ctl = "polling",
           NEW found \in [Observers -> SUBSET IO], NEW expired \in BOOLEAN,
           InspectPollResult(found, expired)
    PROVE  /\ IInv'
           /\ Hits(found, expired) # {} => ctl' = "notify"
  <1> USE DEF InspectPollResult
  <1> DEFINE new == NewEvents(found, expired)
             q == queue \o new
  <1>1. GoodQueue(new) /\ (Hits(found, expired) # {} => new # <<>>)
    BY NewEventsGood DEF IInv
  <1>2. q = new
    <2>1. queue = <<>> /\ new \in Seq(Event)
      BY <1>1 DEF IInv, PollPrepared, GoodQueue
    <2> QED
      BY <2>1
  <1>3. UNCHANGED <<observers, fd, mask, timeout, timeout_this, poll_timeout,
                    poll_start, now>>
    OBVIOUS
  <1>4. \/ new # <<>> /\ NotifyFront(new)
        \/ new = <<>> /\ ctl' = "app" /\ UNCHANGED <<queue, leftover, notified>>
    BY <1>2
  <1>5. /\ queue' \in Seq(Event) /\ notified' \in Observers \cup {Nobody}
        /\ ctl' \in {"app", "notify"} /\ leftover' \subseteq Observers
        /\ NoStaleEvents' /\ OneEventPerObserver'
        /\ new # <<>> => ctl' = "notify"
    <2>1. CASE new # <<>>
      BY <1>1, <1>3, <1>4, <2>1, NotifyFrontGood DEF IInv
    <2>2. CASE new = <<>>
      <3>1. queue' = <<>>
        BY <1>4, <2>2 DEF IInv, PollPrepared
      <3> QED
        BY <1>4, <2>2, <3>1
        DEF IInv, TypeOK, NoStaleEvents, Addressees, OneEventPerObserver
    <2> QED
      BY <2>1, <2>2
  <1>6. /\ last_activity' \in [Observers -> Nat]
        /\ \A o \in Observers : last_activity'[o] <= now
    BY DEF IInv, TypeOK, ClockKept
  <1>7. TypeOK'
    BY <1>3, <1>5, <1>6 DEF IInv, TypeOK
  <1>8. EntriesDistinct'
    BY <1>3 DEF IInv, EntriesDistinct, NoRepeats, Elements
  <1>9. ClockKept'
    BY <1>3, <1>6 DEF IInv, ClockKept
  <1>10. PollPrepared'
    BY <1>5 DEF PollPrepared
  <1> QED
    BY <1>1, <1>5, <1>7, <1>8, <1>9, <1>10 DEF IInv

(* yaz_poll reports a condition of some entry: there is a hit.             *)
LEMMA ReadyHits ==
    ASSUME TypeOK, EntriesDistinct, NEW found \in Reports \ {NothingFound}
    PROVE  Hits(found, FALSE) # {}
  <1>1. found \in [Observers -> SUBSET IO] /\ found # NothingFound
    BY DEF Reports
  <1>2. PICK o \in Observers : found[o] # {}
    BY <1>1 DEF NothingFound
  <1>3. o \in Elements(observers)
    BY <1>2 DEF Reports
  <1>4. PICK i \in DOMAIN observers : observers[i] = o
    BY <1>3 DEF Elements
  <1>5. EventAt(i, found, FALSE).event # {}
    BY <1>2, <1>4 DEF EventAt
  <1> QED
    BY <1>4, <1>5 DEF Hits

(* The timeout that passed is what some entry had left: there is a hit.    *)
LEMMA ExpiredHits ==
    ASSUME IInv, PollExpired
    PROVE  Hits(NothingFound, TRUE) # {}
  <1>1. PICK o \in Elements(observers) : timeout_this[o] = poll_timeout
    BY DEF IInv, PollPrepared, PollExpired
  <1>2. PICK i \in DOMAIN observers : observers[i] = o
    BY <1>1 DEF Elements
  <1>3. EntryOf(i) = o
    BY <1>2, EntryIsItsOwn DEF IInv
  <1>4. observers[i] \in Observers
    BY DEF IInv, TypeOK
  <1>5. EventAt(i, NothingFound, TRUE).event = {"timeout"}
    BY <1>1, <1>3, <1>4 DEF EventAt, NothingFound
  <1> QED
    BY <1>5 DEF Hits

LEMMA StepPoll ==
    ASSUME IInv, PollReady \/ PollExpired
    PROVE  IInv' /\ ctl' = "notify"
  <1>1. CASE PollReady
    <2>1. PICK found \in Reports \ {NothingFound} :
              InspectPollResult(found, FALSE)
      BY <1>1 DEF PollReady
    <2>2. found \in [Observers -> SUBSET IO] /\ ctl = "polling"
      BY <1>1 DEF Reports, PollReady
    <2>3. Hits(found, FALSE) # {}
      BY ReadyHits DEF IInv
    <2> QED
      BY <2>1, <2>2, <2>3, StepInspect
  <1>2. CASE PollExpired
    <2>1. NothingFound \in [Observers -> SUBSET IO]
      BY DEF NothingFound
    <2>2. ctl = "polling" /\ InspectPollResult(NothingFound, TRUE)
      BY <1>2 DEF PollExpired
    <2>3. Hits(NothingFound, TRUE) # {}
      BY <1>2, ExpiredHits
    <2> QED
      BY <2>1, <2>2, <2>3, StepInspect
  <1> QED
    BY <1>1, <1>2

LEMMA StepRest ==
    ASSUME IInv, PollInterrupted \/ HandlerReturns \/ Tick
    PROVE  IInv'
  <1> USE DEF PollInterrupted, HandlerReturns, Tick, entryVars, loopVars
  <1>1. UNCHANGED <<observers, fd, mask, timeout, timeout_this, last_activity,
                    queue, leftover, poll_timeout, poll_start>>
    OBVIOUS
  <1>2. /\ ctl' \in {"app", "polling", "notify", "gone"}
        /\ ctl' = "polling" => ctl = "polling"
        /\ ctl = "gone" => ctl' = "gone"
        /\ notified' \in Observers \cup {Nobody}
    BY DEF IInv, TypeOK
  <1>3. now \in Nat /\ now' \in {now, now + 1}
    BY DEF IInv, TypeOK
  <1>4. TypeOK'
    BY <1>1, <1>2, <1>3 DEF IInv, TypeOK
  <1>5. EntriesDistinct'
    BY <1>1 DEF IInv, EntriesDistinct, NoRepeats, Elements
  <1>6. ClockKept'
    BY <1>1, <1>3 DEF IInv, TypeOK, ClockKept
  <1>7. PollPrepared'
    BY <1>1, <1>2 DEF IInv, PollPrepared, Elements
  <1>8. NoStaleEvents' /\ OneEventPerObserver'
    BY <1>1, <1>2
    DEF IInv, NoStaleEvents, Addressees, OneEventPerObserver, Elements
  <1> QED
    BY <1>4, <1>5, <1>6, <1>7, <1>8 DEF IInv

LEMMA NextIInv ==
    ASSUME IInv, [Next]_vars
    PROVE  IInv'
  <1>1. ASSUME NEW o \in Observers, NEW f \in Fds, NEW m \in Masks,
               AddObserver(o, f, m)
        PROVE  IInv'
    BY <1>1, StepAddObserver
  <1>2. ASSUME NEW o \in Observers, DeleteObserver(o)
        PROVE  IInv'
    BY <1>2, StepDeleteObserver
  <1>3. ASSUME NEW o \in Observers,
               \/ \E m \in Masks : MaskObserver(o, m)
               \/ \E t \in Timeouts : TimeoutObserver(o, t)
        PROVE  IInv'
    BY <1>3, StepMaskOrTimeout
  <1>4. CASE DeleteObservers \/ Destruct
    BY <1>4, StepFreeEntries
  <1>5. CASE DispatchQueued
    BY <1>5, StepDispatchQueued
  <1>6. CASE StartPoll
    BY <1>6, StepStartPoll
  <1>7. CASE PollReady \/ PollExpired
    BY <1>7, StepPoll
  <1>8. CASE PollInterrupted \/ HandlerReturns \/ Tick
    BY <1>8, StepRest
  <1>9. CASE UNCHANGED vars
    BY <1>9
    DEF vars, entryVars, loopVars, IInv, TypeOK, EntriesDistinct, ClockKept,
        PollPrepared, NoStaleEvents, Addressees, OneEventPerObserver, NoRepeats,
        Elements
  <1> QED
    BY <1>1, <1>2, <1>3, <1>4, <1>5, <1>6, <1>7, <1>8, <1>9
    DEF Next, Operation

LEMMA Invariance == Spec => []IInv
  <1>1. Init => IInv
    BY InitIInv
  <1>2. IInv /\ [Next]_vars => IInv'
    BY NextIInv
  <1> QED
    BY <1>1, <1>2, PTL DEF Spec

----------------------------------------------------------------------------
(* The theorems.                                                           *)

(* Every variable keeps its type; no time left of a poll is negative.      *)
THEOREM TypeCorrect == Spec => []TypeOK
  <1>1. IInv => TypeOK
    BY DEF IInv
  <1> QED
    BY <1>1, Invariance, PTL

(* No event waits for an observer that deleteObserver has deleted: what    *)
(* waits is for a registered one, or was left by deleteObservers.          *)
THEOREM EventsAreFresh == Spec => []NoStaleEvents
  <1>1. IInv => NoStaleEvents
    BY DEF IInv
  <1> QED
    BY <1>1, Invariance, PTL

(* At most one event waits for an observer.                                *)
THEOREM OneEventEach == Spec => []OneEventPerObserver
  <1>1. IInv => OneEventPerObserver
    BY DEF IInv
  <1> QED
    BY <1>1, Invariance, PTL

(* assert(p->last_activity) in inspect_poll_result never fails.            *)
THEOREM ActivityIsKnown == Spec => []ActivityKnown
  <1>1. IInv => ActivityKnown
    BY DEF IInv, PollPrepared, ActivityKnown
  <1> QED
    BY <1>1, Invariance, PTL

(* Every poll that ends with sockets ready or with its timeout passed      *)
(* notifies an observer.                                                   *)
THEOREM EveryPollNotifies == Spec => PollNotifies
  <1>1. IInv /\ [Next]_vars
            => [PollReady \/ PollExpired => ctl' = "notify"]_vars
    BY StepPoll
  <1> QED
    BY <1>1, Invariance, PTL DEF Spec, PollNotifies

----------------------------------------------------------------------------
(* Timeouts are not early.  A timeout of INT_MAX would be: what is left of *)
(* it is clamped to 0.                                                     *)

(* What a poll waits for an entry is not less than what it has left.       *)
TimeLeftKept ==
    ctl = "polling" =>
        \A o \in Elements(observers) :
            timeout_this[o] # -1 =>
                timeout[o] - (poll_start - last_activity[o]) <= timeout_this[o]

(* Every timeout that observers ask for is less than INT_MAX.              *)
ShortTimeouts == \A t \in Timeouts : t <= 2147483646

LEMMA StepTimeLeft ==
    ASSUME ShortTimeouts, IInv, TimeLeftKept, [Next]_vars
    PROVE  TimeLeftKept'
  <1>1. CASE StartPoll
    <2> USE DEF StartPoll, PreparePoll, StartActivity
    <2>1. Elements(observers)' = Elements(observers)
          /\ Elements(observers) \subseteq Observers
      BY <1>1 DEF IInv, TypeOK, Elements
    <2>2. ASSUME NEW o \in Elements(observers), timeout_this'[o] # -1
          PROVE  timeout'[o] - (poll_start' - last_activity'[o])
                     <= timeout_this'[o]
      <3>1. o \in Observers /\ o \in TimedObservers
        BY <1>1, <2>1, <2>2
      <3>2. timeout[o] \in Int /\ timeout[o] <= 2147483646
        <4> DEFINE Short(t) == t \in Int /\ t <= 2147483646
        <4>1. timeout[o] \in Timeouts \cup {-1}
          BY <3>1 DEF IInv, TypeOK
        <4>2. \A t \in Timeouts \cup {-1} : Short(t)
          BY ManagerConstants, SMT DEF ManagerConstants, ShortTimeouts
        <4> HIDE DEF Short
        <4>3. Short(timeout[o])
          BY <4>1, <4>2, Zenon
        <4> QED
          BY <4>3, SMT DEF Short
      <3>3. now \in Nat /\ last_activity[o] \in Nat /\ last_activity[o] <= now
        BY <3>1 DEF IInv, TypeOK, ClockKept
      <3>4. /\ timeout' = timeout /\ poll_start' = now
            /\ timeout_this'[o] = TimeLeft(o)
            /\ last_activity'[o] = IF last_activity[o] = 0 THEN now
                                   ELSE last_activity[o]
        BY <1>1, <3>1
      <3>5. CASE last_activity[o] = 0
        BY <3>2, <3>3, <3>4, <3>5, SMT DEF TimeLeft
      <3>6. CASE last_activity[o] # 0
        BY <3>2, <3>3, <3>4, <3>6, SMT DEF TimeLeft
      <3> QED
        BY <3>5, <3>6
    <2> QED
      BY <2>1, <2>2 DEF TimeLeftKept
  <1>2. CASE Tick \/ UNCHANGED vars
    BY <1>2 DEF Tick, vars, entryVars, loopVars, TimeLeftKept, Elements
  <1>3. CASE Operation \/ DispatchQueued \/ HandlerReturns \/ PollInterrupted
    <2>1. ctl' # "polling"
      BY <1>3
      DEF Operation, AddObserver, DeleteObserver, MaskObserver,
          TimeoutObserver, DeleteObservers, Destruct, Calling, loopVars,
          DispatchQueued,
          NotifyFront, HandlerReturns, PollInterrupted
    <2> QED
      BY <2>1 DEF TimeLeftKept
  <1>4. CASE PollReady \/ PollExpired
    BY <1>4, StepPoll DEF TimeLeftKept
  <1> QED
    BY <1>1, <1>2, <1>3, <1>4 DEF Next

(* A poll whose timeout passes notifies only entries that have waited for  *)
(* as long as they asked for.                                              *)
LEMMA ExpiredNotEarly ==
    ASSUME IInv, TimeLeftKept, PollExpired, NEW i \in Hits(NothingFound, TRUE)
    PROVE  /\ timeout[EntryOf(i)] >= 0
           /\ now - last_activity[EntryOf(i)] >= timeout[EntryOf(i)]
  <1> DEFINE o == EntryOf(i)
  <1>1. i \in DOMAIN observers /\ EventAt(i, NothingFound, TRUE).event # {}
    BY DEF Hits
  <1>2. o = observers[i] /\ o \in Elements(observers) /\ o \in Observers
    BY <1>1, EntryIsItsOwn DEF IInv, TypeOK, Elements
  <1> HIDE DEF o
  <1>3. timeout_this[o] = poll_timeout
    BY <1>1, <1>2 DEF EventAt, NothingFound, o
  <1>4. ctl = "polling" /\ poll_timeout # -1
        /\ now >= poll_start + poll_timeout
    BY DEF PollExpired
  <1>5. /\ timeout[o] >= 0
        /\ timeout[o] - (poll_start - last_activity[o]) <= poll_timeout
    BY <1>2, <1>3, <1>4 DEF IInv, PollPrepared, TimeLeftKept
  <1>6. timeout[o] \in Int
    <2>1. timeout[o] \in Timeouts \cup {-1}
      BY <1>2 DEF IInv, TypeOK
    <2>2. \A t \in Timeouts \cup {-1} : t \in Int
      BY ManagerConstants DEF ManagerConstants
    <2> QED
      BY <2>1, <2>2, Zenon
  <1>7. /\ now \in Int /\ poll_start \in Int /\ poll_timeout \in Int
        /\ last_activity[o] \in Int
    BY <1>2 DEF IInv, TypeOK
  <1> QED
    BY <1>4, <1>5, <1>6, <1>7 DEF o

(* An observer is told of a timeout only when it asked for one and its     *)
(* socket has been without events for that long.                           *)
THEOREM TimeoutsAreNotEarly ==
    ASSUME ShortTimeouts
    PROVE  Spec => TimeoutNotEarly
  <1>1. Init => TimeLeftKept
    BY DEF Init, TimeLeftKept
  <1>2. IInv /\ TimeLeftKept /\ [Next]_vars => TimeLeftKept'
    BY StepTimeLeft
  <1>3. IInv /\ TimeLeftKept /\ [Next]_vars
            => [PollExpired =>
               \A i \in Hits(NothingFound, TRUE) :
                   /\ timeout[EntryOf(i)] >= 0
                   /\ now - last_activity[EntryOf(i)] >= timeout[EntryOf(i)]]_vars
    BY ExpiredNotEarly
  <1> QED
    BY <1>1, <1>2, <1>3, Invariance, PTL DEF Spec, TimeoutNotEarly

----------------------------------------------------------------------------
(* The manager implements its interface.                                   *)

(* What the events of a queue mean to the observers.                       *)
Meaning(q) ==
    [o \in Observers |->
        UNION {q[i].event : i \in {j \in DOMAIN q : q[j].observer = o}}]

(* An event is not empty, and a timeout comes alone.                       *)
Proper(e) == e # {} /\ (e = {"timeout"} \/ e \subseteq IO)

(* An observer is notified exactly while its handler runs, an observer     *)
(* that is not registered has no mask, and no queued event is empty.       *)
Shown ==
    /\ notified = Nobody <=> ctl # "notify"
    /\ \A o \in Observers \ Elements(observers) : mask[o] = {}
    /\ \A e \in Elements(queue) : Proper(e.event)

(* The meaning of a queue is that of the events in it, wherever they are.  *)
LEMMA MeaningByElements ==
    ASSUME NEW q, NEW o \in Observers
    PROVE  Meaning(q)[o] =
               UNION {e.event : e \in {x \in Elements(q) : x.observer = o}}
  <1> DEFINE A == {q[i].event : i \in {j \in DOMAIN q : q[j].observer = o}}
             B == {e.event : e \in {x \in Elements(q) : x.observer = o}}
  <1>1. A \subseteq B
    BY DEF Elements
  <1>2. B \subseteq A
    BY DEF Elements
  <1>3. Meaning(q)[o] = UNION A
    BY DEF Meaning
  <1> HIDE DEF A, B
  <1>4. A = B
    BY <1>1, <1>2
  <1> QED
    BY <1>3, <1>4 DEF B

(* An observer for which no event is queued has nothing pending.           *)
LEMMA MeaningWithout ==
    ASSUME NEW q, NEW o \in Observers,
           \A e \in Elements(q) : e.observer # o
    PROVE  Meaning(q)[o] = {}
  <1>1. {x \in Elements(q) : x.observer = o} = {}
    OBVIOUS
  <1>2. {e.event : e \in {x \in Elements(q) : x.observer = o}} = {}
    BY <1>1
  <1> QED
    BY <1>2, MeaningByElements

(* An observer for which one event is queued has that one pending.         *)
LEMMA MeaningOfOne ==
    ASSUME NEW q, NEW a \in Elements(q), a.observer \in Observers,
           \A e \in Elements(q) : e.observer = a.observer => e = a
    PROVE  Meaning(q)[a.observer] = a.event
  <1> DEFINE X == {x \in Elements(q) : x.observer = a.observer}
  <1>1. X = {a}
    OBVIOUS
  <1>2. Meaning(q)[a.observer] = UNION {e.event : e \in X}
    BY MeaningByElements
  <1> HIDE DEF X
  <1>3. {e.event : e \in X} = {a.event}
    BY <1>1
  <1> QED
    BY <1>2, <1>3

(* Two queues with the same events for an observer mean the same to it.    *)
LEMMA MeaningAgrees ==
    ASSUME NEW q, NEW r, NEW o \in Observers,
           \A e : e.observer = o => (e \in Elements(q) <=> e \in Elements(r))
    PROVE  Meaning(q)[o] = Meaning(r)[o]
  <1>1. {x \in Elements(q) : x.observer = o}
            = {x \in Elements(r) : x.observer = o}
    OBVIOUS
  <1> QED
    BY <1>1, MeaningByElements

(* Two events in a good queue for the same observer are the same.          *)
LEMMA GoodQueueElements ==
    ASSUME NEW q, GoodQueue(q)
    PROVE  /\ \A e \in Elements(q) : e \in Event
           /\ \A d, e \in Elements(q) : d.observer = e.observer => d = e
  BY DEF GoodQueue, Elements

(* Taking the front event of a good queue.                                 *)
LEMMA MeaningOfTail ==
    ASSUME NEW q, GoodQueue(q), q # <<>>
    PROVE  /\ Head(q) \in Elements(q)
           /\ Head(q).observer \in Observers
           /\ Elements(Tail(q)) \subseteq Elements(q)
           /\ Meaning(q)[Head(q).observer] = Head(q).event
           /\ Meaning(Tail(q)) =
                  [Meaning(q) EXCEPT ![Head(q).observer] = {}]
  <1> DEFINE a == Head(q)
  <1>1. q \in Seq(Event)
    BY DEF GoodQueue
  <1>2. a = q[1] /\ 1 \in DOMAIN q /\ DOMAIN q = 1 .. Len(q) /\ Len(q) \in Nat
    BY <1>1
  <1>3. /\ DOMAIN Tail(q) = 1 .. Len(q) - 1
        /\ \A i \in DOMAIN Tail(q) : i + 1 \in DOMAIN q /\ Tail(q)[i] = q[i + 1]
    BY <1>1, TailProperties
  <1>4. a \in Elements(q) /\ a.observer \in Observers
    <2>1. a \in Event
      BY <1>1, <1>2
    <2> QED
      BY <1>2, <2>1 DEF Elements, Event
  <1>5. Elements(Tail(q)) \subseteq Elements(q)
    BY <1>3 DEF Elements
  <1>6. \A e \in Elements(q) : e \in Elements(Tail(q)) \/ e = a
    <2> SUFFICES ASSUME NEW i \in DOMAIN q
                 PROVE  q[i] \in Elements(Tail(q)) \/ q[i] = a
      BY DEF Elements
    <2>1. CASE i = 1
      BY <1>2, <2>1
    <2>2. CASE i # 1
      <3>1. i - 1 \in DOMAIN Tail(q) /\ i - 1 + 1 = i
        BY <1>2, <1>3, <2>2
      <3>2. Tail(q)[i - 1] = q[i]
        BY <1>3, <3>1
      <3> QED
        BY <3>1, <3>2 DEF Elements
    <2> QED
      BY <2>1, <2>2
  <1>7. \A e \in Elements(Tail(q)) : e.observer # a.observer
    <2> SUFFICES ASSUME NEW i \in DOMAIN Tail(q)
                 PROVE  Tail(q)[i].observer # a.observer
      BY DEF Elements
    <2>1. i + 1 \in DOMAIN q /\ Tail(q)[i] = q[i + 1] /\ i + 1 # 1
      BY <1>2, <1>3
    <2> QED
      BY <1>2, <2>1 DEF GoodQueue
  <1>8. Meaning(q)[a.observer] = a.event
    BY <1>4, GoodQueueElements, MeaningOfOne
  <1> HIDE DEF a
  <1>9. ASSUME NEW o \in Observers
        PROVE  Meaning(Tail(q))[o] =
                   IF o = a.observer THEN {} ELSE Meaning(q)[o]
    <2>1. CASE o = a.observer
      BY <1>7, <2>1, MeaningWithout
    <2>2. CASE o # a.observer
      <3>1. \A e : e.observer = o
                => (e \in Elements(Tail(q)) <=> e \in Elements(q))
        BY <1>5, <1>6, <2>2
      <3> QED
        BY <2>2, <3>1, MeaningAgrees
    <2> QED
      BY <2>1, <2>2
  <1>10. Meaning(Tail(q)) = [Meaning(q) EXCEPT ![a.observer] = {}]
    BY <1>4, <1>9 DEF Meaning
  <1> QED
    BY <1>4, <1>5, <1>8, <1>10 DEF a

(* removeEvent forgets what was gathered for one observer.                 *)
LEMMA MeaningOfRemoval ==
    ASSUME NEW q \in Seq(Event), NEW o \in Observers
    PROVE  /\ Elements(WithoutEvents(q, o)) \subseteq Elements(q)
           /\ Meaning(WithoutEvents(q, o)) = [Meaning(q) EXCEPT ![o] = {}]
  <1> DEFINE K == {i \in DOMAIN q : q[i].observer # o}
  <1>1. K \in SUBSET (DOMAIN q)
    OBVIOUS
  <1>2. Elements(WithoutEvents(q, o)) = {q[i] : i \in K}
    BY <1>1, SubsequenceProperties DEF WithoutEvents
  <1>3. \A e : e \in Elements(WithoutEvents(q, o))
                  <=> e \in Elements(q) /\ e.observer # o
    BY <1>2 DEF Elements
  <1>4. ASSUME NEW p \in Observers
        PROVE  Meaning(WithoutEvents(q, o))[p] =
                   IF p = o THEN {} ELSE Meaning(q)[p]
    <2>1. CASE p = o
      BY <1>3, <2>1, MeaningWithout
    <2>2. CASE p # o
      <3>1. \A e : e.observer = p
                => (e \in Elements(WithoutEvents(q, o)) <=> e \in Elements(q))
        BY <1>3, <2>2
      <3> QED
        BY <2>2, <3>1, MeaningAgrees
    <2> QED
      BY <2>1, <2>2
  <1>5. Meaning(WithoutEvents(q, o)) = [Meaning(q) EXCEPT ![o] = {}]
    BY <1>4 DEF Meaning
  <1> QED
    BY <1>3, <1>5

(* What a poll puts is what an observer may be told.                       *)
LEMMA NewEventsMayGather ==
    ASSUME TypeOK, EntriesDistinct,
           NEW found \in Reports, NEW expired \in BOOLEAN
    PROVE  /\ \A e \in Elements(NewEvents(found, expired)) : Proper(e.event)
           /\ Meaning(NewEvents(found, expired))
                  \in [Observers -> SUBSET Observable!Events]
           /\ Observable!MayGather(Meaning(NewEvents(found, expired)))
  <1> DEFINE new == NewEvents(found, expired)
             all == [i \in DOMAIN observers |-> EventAt(i, found, expired)]
             K == Hits(found, expired)
  <1>1. observers \in Seq(Observers) /\ found \in [Observers -> SUBSET IO]
    BY DEF TypeOK, Reports
  <1>2. ASSUME NEW i \in DOMAIN observers
        PROVE  /\ EventAt(i, found, expired) \in Event
               /\ EventAt(i, found, expired).observer = observers[i]
               /\ EventAt(i, found, expired).event
                      \in {found[observers[i]], {"timeout"}, {}}
    <2>1. EntryOf(i) = observers[i] /\ observers[i] \in Observers
      BY <1>1, EntryIsItsOwn
    <2>2. found[observers[i]] \in SUBSET IO
      BY <1>1, <2>1
    <2> QED
      BY <2>1, <2>2 DEF EventAt, Event
  <1>3. all \in Seq(Event) /\ DOMAIN all = DOMAIN observers
    BY <1>1, <1>2
  <1>4. K \in SUBSET (DOMAIN all)
    BY DEF Hits
  <1>5. Elements(new) = {all[i] : i \in K}
    BY <1>3, <1>4, SubsequenceProperties DEF NewEvents
  <1>6. GoodQueue(new)
    BY <1>1, NewEventsGood
  <1>7. ASSUME NEW e \in Elements(new)
        PROVE  /\ e.observer \in Observers /\ e.observer \in Elements(observers)
               /\ Proper(e.event)
               /\ \/ e.event = {"timeout"}
                  \/ e.event \subseteq mask[e.observer] \cup {"except"}
    <2>1. PICK i \in K : e = all[i]
      BY <1>5
    <2>2. i \in DOMAIN observers /\ e = EventAt(i, found, expired) /\ e.event # {}
      BY <2>1 DEF Hits
    <2>3. e.observer = observers[i] /\ e.event \in {found[e.observer], {"timeout"}}
      BY <1>2, <2>2
    <2>4. e.observer \in Observers /\ e.observer \in Elements(observers)
      BY <1>1, <2>2, <2>3 DEF Elements
    <2>5. /\ found[e.observer] \subseteq IO
          /\ found[e.observer] \subseteq mask[e.observer] \cup {"except"}
      BY <2>4 DEF Reports
    <2> QED
      BY <2>2, <2>3, <2>4, <2>5 DEF Proper
  <1> HIDE DEF new
  <1>8. ASSUME NEW o \in Observers
        PROVE  \/ Meaning(new)[o] = {}
               \/ /\ o \in Elements(observers)
                  /\ \/ Meaning(new)[o] = {"timeout"}
                     \/ /\ Meaning(new)[o] \subseteq IO
                        /\ Meaning(new)[o] \subseteq mask[o] \cup {"except"}
    <2>1. CASE \A e \in Elements(new) : e.observer # o
      BY <2>1, MeaningWithout
    <2>2. CASE \E e \in Elements(new) : e.observer = o
      <3>1. PICK e \in Elements(new) : e.observer = o
        BY <2>2
      <3>2. Meaning(new)[o] = e.event
        BY <1>6, <3>1, GoodQueueElements, MeaningOfOne
      <3> QED
        BY <1>7, <3>1, <3>2 DEF Proper
    <2> QED
      BY <2>1, <2>2
  <1>9. Observable!MayGather(Meaning(new))
    BY <1>8 DEF Observable!MayGather, Observable!IO, IO
  <1>10. Meaning(new) \in [Observers -> SUBSET Observable!Events]
    <2>1. \A o \in Observers :
              Meaning(new)[o] \in SUBSET (IO \cup {"timeout"})
      BY <1>8
    <2>2. Observable!Events = IO \cup {"timeout"}
      BY DEF Observable!Events, Observable!IO, IO
    <2>3. Meaning(new) = [o \in Observers |-> Meaning(new)[o]]
      BY DEF Meaning
    <2> QED
      BY <2>1, <2>2, <2>3
  <1> QED
    BY <1>7, <1>9, <1>10 DEF new

(* What one step shows to the observers.                                   *)
Effect == Shown' /\ [Observable!Next]_(Observable!vars)

LEMMA EffectAddObserver ==
    ASSUME IInv, Shown, NEW o \in Observers, NEW f \in Fds, NEW m \in Masks,
           AddObserver(o, f, m)
    PROVE  Effect
  <1> USE DEF AddObserver, Calling
  <1>1. Elements(observers)' = Elements(observers) \cup {o}
    BY EnlistedProperties DEF IInv, Elements
  <1>2. m \in SUBSET IO
    BY ManagerConstants DEF ManagerConstants, IO
  <1>3. mask' = [mask EXCEPT ![o] = m] /\ mask \in [Observers -> SUBSET IO]
    BY DEF IInv, TypeOK
  <1>4. UNCHANGED <<queue, ctl, notified>>
    BY DEF loopVars
  <1>5. Shown'
    <2>1. \A p \in Observers \ Elements(observers)' : mask'[p] = {}
      BY <1>1, <1>3 DEF Shown
    <2>2. Elements(queue)' = Elements(queue)
      BY <1>4 DEF Elements
    <2> QED
      BY <1>4, <2>1, <2>2 DEF Shown
  <1>6. Pending' = Pending
    BY <1>4 DEF Pending
  <1>7. Observable!Enrol(o, m)
    BY <1>1, <1>3, <1>4, <1>6 DEF Observable!Enrol
  <1> QED
    BY <1>2, <1>5, <1>7 DEF Effect, Observable!Next, Observable!IO, IO

LEMMA EffectDeleteObserver ==
    ASSUME IInv, Shown, NEW o \in Observers, DeleteObserver(o)
    PROVE  Effect
  <1> USE DEF DeleteObserver, Calling
  <1> DEFINE K == {i \in DOMAIN observers : observers[i] # o}
  <1>1. Elements(observers)' = Elements(observers) \ {o}
    <2>1. observers \in Seq(Observers) /\ K \in SUBSET (DOMAIN observers)
      BY DEF IInv, TypeOK
    <2>2. Elements(Subsequence(observers, K)) = {observers[i] : i \in K}
      BY <2>1, SubsequenceProperties
    <2>3. {observers[i] : i \in K} = Elements(observers) \ {o}
      BY DEF Elements
    <2> QED
      BY <2>2, <2>3 DEF Elements
  <1>2. /\ Elements(queue)' \subseteq Elements(queue)
        /\ Meaning(queue)' = [Meaning(queue) EXCEPT ![o] = {}]
    <2>1. queue \in Seq(Event) /\ queue' = WithoutEvents(queue, o)
      BY DEF IInv, TypeOK
    <2> HIDE DEF DeleteObserver
    <2>2. /\ Elements(WithoutEvents(queue, o)) \subseteq Elements(queue)
          /\ Meaning(WithoutEvents(queue, o)) = [Meaning(queue) EXCEPT ![o] = {}]
      BY <2>1, MeaningOfRemoval
    <2>3. /\ Elements(queue)' = Elements(WithoutEvents(queue, o))
          /\ Meaning(queue)' = Meaning(WithoutEvents(queue, o))
      BY <2>1 DEF Elements, Meaning
    <2> QED
      BY <2>2, <2>3
  <1>3. Pending = Meaning(queue) /\ Pending' = Meaning(queue)'
    BY DEF Pending, Meaning
  <1>4. mask' = [mask EXCEPT ![o] = {}] /\ UNCHANGED <<ctl, notified>>
    OBVIOUS
  <1>5. Shown'
    <2>1. \A p \in Observers \ Elements(observers)' : mask'[p] = {}
      BY <1>1, <1>4 DEF Shown, IInv, TypeOK
    <2> QED
      BY <1>2, <1>4, <2>1 DEF Shown
  <1>6. Observable!Retire(o)
    <2>1. o \in Elements(observers)
      OBVIOUS
    <2> QED
      BY <1>1, <1>2, <1>3, <1>4, <2>1 DEF Observable!Retire
  <1> QED
    BY <1>5, <1>6 DEF Effect, Observable!Next

LEMMA EffectMaskObserver ==
    ASSUME IInv, Shown, NEW o \in Observers, NEW m \in Masks,
           MaskObserver(o, m)
    PROVE  Effect
  <1> USE DEF MaskObserver, Calling
  <1>1. m \in SUBSET IO
    BY ManagerConstants DEF ManagerConstants, IO
  <1>2. UNCHANGED <<observers, queue, ctl, notified>>
    BY DEF loopVars
  <1>3. /\ Elements(observers)' = Elements(observers)
        /\ Elements(queue)' = Elements(queue)
        /\ Pending' = Pending
    BY <1>2 DEF Elements, Pending
  <1>4. mask' = [mask EXCEPT ![o] = m] /\ o \in Elements(observers)
    OBVIOUS
  <1>5. Shown'
    <2>1. \A p \in Observers \ Elements(observers)' : mask'[p] = {}
      BY <1>3, <1>4 DEF Shown, IInv, TypeOK
    <2> QED
      BY <1>2, <1>3, <2>1 DEF Shown
  <1>6. Observable!SetInterest(o, m)
    BY <1>2, <1>3, <1>4 DEF Observable!SetInterest
  <1> QED
    BY <1>1, <1>5, <1>6 DEF Effect, Observable!Next, Observable!IO, IO

LEMMA EffectFreeEntries ==
    ASSUME IInv, Shown, DeleteObservers \/ Destruct
    PROVE  Effect
  <1>1. /\ observers' = <<>> /\ mask' = [o \in Observers |-> {}]
        /\ UNCHANGED <<queue, notified>>
        /\ ctl = "notify" <=> ctl' = "notify"
    BY DEF DeleteObservers, Destruct, FreeEntries
  <1>2. /\ Elements(observers)' = {}
        /\ Elements(queue)' = Elements(queue)
        /\ Pending' = Pending
    BY <1>1 DEF Elements, Pending
  <1>3. Shown'
    BY <1>1, <1>2 DEF Shown
  <1>4. Observable!RetireAll
    BY <1>1, <1>2 DEF Observable!RetireAll, Observable!NoEvents
  <1> QED
    BY <1>3, <1>4 DEF Effect, Observable!Next

LEMMA EffectDispatchQueued ==
    ASSUME IInv, Shown, DispatchQueued
    PROVE  Effect
  <1> USE DEF DispatchQueued
  <1>1. GoodQueue(queue)
    BY DEF IInv, TypeOK, NoStaleEvents, Addressees, OneEventPerObserver,
           GoodQueue
  <1> DEFINE o == Head(queue).observer
  <1>2. /\ queue # <<>> /\ queue' = Tail(queue)
        /\ notified' = o /\ ctl = "app" /\ ctl' = "notify"
        /\ UNCHANGED <<observers, mask>>
    BY DEF NotifyFront, entryVars
  <1>3. /\ Head(queue) \in Elements(queue) /\ o \in Observers
        /\ Elements(queue)' \subseteq Elements(queue)
        /\ Meaning(queue)[o] = Head(queue).event
        /\ Meaning(queue)' = [Meaning(queue) EXCEPT ![o] = {}]
    <2>1. /\ Elements(queue)' = Elements(Tail(queue))
          /\ Meaning(queue)' = Meaning(Tail(queue))
      BY <1>2 DEF Elements, Meaning
    <2> QED
      BY <1>1, <1>2, <2>1, MeaningOfTail
  <1>4. Pending = Meaning(queue) /\ Pending' = Meaning(queue)'
    BY <1>2 DEF Pending, Meaning
  <1>5. Elements(observers)' = Elements(observers) /\ o # Nobody
    BY <1>2, <1>3, ManagerConstants DEF ManagerConstants, Elements
  <1> HIDE DEF o
  <1>6. Shown'
    BY <1>2, <1>3, <1>5 DEF Shown
  <1>7. Observable!Deliver(o)
    <2>1. Pending[o] # {}
      BY <1>3, <1>4 DEF Shown, Proper
    <2> QED
      BY <1>2, <1>3, <1>4, <1>5, <2>1 DEF Shown, Observable!Deliver
  <1> QED
    BY <1>3, <1>6, <1>7 DEF Effect, Observable!Next

(* The end of a poll that found something.                                 *)
LEMMA EffectInspect ==
    ASSUME IInv, Shown, ctl = "polling",
           NEW found \in Reports, NEW expired \in BOOLEAN,
           InspectPollResult(found, expired), Hits(found, expired) # {}
    PROVE  Effect
  <1> USE DEF InspectPollResult
  <1> DEFINE new == NewEvents(found, expired)
             o == Head(new).observer
  <1>1. GoodQueue(new) /\ new # <<>>
    BY NewEventsGood DEF IInv, Reports
  <1>2. queue = <<>> /\ queue \o new = new
    <2>1. queue = <<>> /\ new \in Seq(Event)
      BY <1>1 DEF IInv, PollPrepared, GoodQueue
    <2> QED
      BY <2>1
  <1>3. /\ queue' = Tail(new) /\ notified' = o /\ ctl' = "notify"
        /\ UNCHANGED <<observers, mask>>
    BY <1>1, <1>2 DEF NotifyFront
  <1>4. /\ Head(new) \in Elements(new) /\ o \in Observers
        /\ Elements(queue)' \subseteq Elements(new)
        /\ Meaning(new)[o] = Head(new).event
        /\ Meaning(queue)' = [Meaning(new) EXCEPT ![o] = {}]
    <2>1. /\ Elements(queue)' = Elements(Tail(new))
          /\ Meaning(queue)' = Meaning(Tail(new))
      BY <1>3 DEF Elements, Meaning
    <2> QED
      BY <1>1, <2>1, MeaningOfTail
  <1>5. /\ \A e \in Elements(new) : Proper(e.event)
        /\ Meaning(new) \in [Observers -> SUBSET Observable!Events]
        /\ Observable!MayGather(Meaning(new))
    BY NewEventsMayGather DEF IInv
  <1> HIDE DEF new, o
  <1>6. Pending = Observable!NoEvents /\ Pending' = Meaning(queue)'
    BY <1>2, <1>3 DEF Pending, Meaning, Observable!NoEvents
  <1>7. Elements(observers)' = Elements(observers) /\ o # Nobody
    BY <1>3, <1>4, ManagerConstants DEF ManagerConstants, Elements
  <1>8. Shown'
    BY <1>3, <1>4, <1>5, <1>7 DEF Shown
  <1>9. Observable!Gather(Meaning(new), o)
    <2>1. Meaning(new)[o] # {}
      BY <1>4, <1>5 DEF Proper
    <2> QED
      BY <1>3, <1>4, <1>5, <1>6, <1>7, <2>1 DEF Shown, Observable!Gather
  <1> QED
    BY <1>4, <1>5, <1>8, <1>9 DEF Effect, Observable!Next

LEMMA EffectPoll ==
    ASSUME IInv, Shown, PollReady \/ PollExpired
    PROVE  Effect
  <1>1. CASE PollReady
    <2>1. PICK found \in Reports \ {NothingFound} :
              InspectPollResult(found, FALSE)
      BY <1>1 DEF PollReady
    <2>2. Hits(found, FALSE) # {}
      BY ReadyHits DEF IInv
    <2> QED
      BY <1>1, <2>1, <2>2, EffectInspect DEF PollReady
  <1>2. CASE PollExpired
    <2>1. NothingFound \in Reports
      BY DEF NothingFound, Reports
    <2>2. ctl = "polling" /\ InspectPollResult(NothingFound, TRUE)
      BY <1>2 DEF PollExpired
    <2>3. Hits(NothingFound, TRUE) # {}
      BY <1>2, ExpiredHits
    <2> QED
      BY <2>1, <2>2, <2>3, EffectInspect
  <1> QED
    BY <1>1, <1>2

LEMMA EffectHandlerReturns ==
    ASSUME IInv, Shown, HandlerReturns
    PROVE  Effect
  <1> USE DEF HandlerReturns
  <1>1. UNCHANGED <<observers, mask, queue>> /\ ctl = "notify" /\ ctl' = "app"
        /\ notified' = Nobody
    BY DEF entryVars
  <1>2. /\ Elements(observers)' = Elements(observers)
        /\ Elements(queue)' = Elements(queue)
        /\ Pending' = Pending
    BY <1>1 DEF Elements, Pending
  <1>3. Shown'
    BY <1>1, <1>2 DEF Shown
  <1>4. Observable!Return
    BY <1>1, <1>2 DEF Shown, Observable!Return
  <1> QED
    BY <1>3, <1>4 DEF Effect, Observable!Next

(* What observers do not see.                                              *)
LEMMA EffectOfRest ==
    ASSUME IInv, Shown,
           \/ \E o \in Observers, t \in Timeouts : TimeoutObserver(o, t)
           \/ StartPoll \/ PollInterrupted \/ Tick
           \/ UNCHANGED vars
    PROVE  Effect
  <1>1. UNCHANGED <<observers, mask, queue, notified>>
    BY DEF TimeoutObserver, StartPoll, PreparePoll, PollInterrupted, Tick, vars,
           entryVars, loopVars
  <1>2. ctl = "notify" <=> ctl' = "notify"
    BY DEF TimeoutObserver, StartPoll, PreparePoll, PollInterrupted, Tick, vars,
           entryVars, loopVars
  <1>3. /\ Elements(observers)' = Elements(observers)
        /\ Elements(queue)' = Elements(queue)
        /\ Pending' = Pending
    BY <1>1, <1>2 DEF Elements, Pending
  <1>4. Shown'
    BY <1>1, <1>2, <1>3 DEF Shown
  <1>5. UNCHANGED Observable!vars
    BY <1>1, <1>3 DEF Observable!vars
  <1> QED
    BY <1>4, <1>5 DEF Effect

LEMMA NextEffect ==
    ASSUME IInv, Shown, [Next]_vars
    PROVE  Effect
  <1>1. ASSUME NEW o \in Observers, NEW f \in Fds, NEW m \in Masks,
               AddObserver(o, f, m)
        PROVE  Effect
    BY <1>1, EffectAddObserver
  <1>2. ASSUME NEW o \in Observers, DeleteObserver(o)
        PROVE  Effect
    BY <1>2, EffectDeleteObserver
  <1>3. ASSUME NEW o \in Observers, NEW m \in Masks, MaskObserver(o, m)
        PROVE  Effect
    BY <1>3, EffectMaskObserver
  <1>4. CASE DeleteObservers \/ Destruct
    BY <1>4, EffectFreeEntries
  <1>5. CASE DispatchQueued
    BY <1>5, EffectDispatchQueued
  <1>6. CASE PollReady \/ PollExpired
    BY <1>6, EffectPoll
  <1>7. CASE HandlerReturns
    BY <1>7, EffectHandlerReturns
  <1>8. CASE \/ \E o \in Observers, t \in Timeouts : TimeoutObserver(o, t)
             \/ StartPoll \/ PollInterrupted \/ Tick
             \/ UNCHANGED vars
    BY <1>8, EffectOfRest
  <1> QED
    BY <1>1, <1>2, <1>3, <1>4, <1>5, <1>6, <1>7, <1>8 DEF Next, Operation

(* The manager implements ISocketObservable: whatever is called and in     *)
(* whatever order sockets get ready, observers are notified at most once   *)
(* of what was gathered for them while they were registered and, timeouts  *)
(* and error conditions apart, of what they asked for (processEvent); and  *)
(* after deleteObserver of nothing that was gathered before it.            *)
THEOREM ManagerImplementsObservable == Spec => ImplementsObservable
  <1>1. Init => Observable!Init /\ Shown
    <2> SUFFICES ASSUME Init
                 PROVE  Observable!Init /\ Shown
      OBVIOUS
    <2>1. Elements(observers) = {} /\ Elements(queue) = {}
      BY DEF Init, Elements
    <2>2. Pending = [o \in Observers |-> {}]
      BY DEF Init, Pending
    <2> QED
      BY <2>1, <2>2 DEF Init, Shown, Observable!Init, Observable!NoEvents
  <1>2. IInv /\ Shown /\ [Next]_vars
            => Shown' /\ [Observable!Next]_(Observable!vars)
    BY NextEffect DEF Effect
  <1> QED
    BY <1>1, <1>2, Invariance, PTL
    DEF Spec, ImplementsObservable, Observable!Spec
=============================================================================
