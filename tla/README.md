# A verification model of YAZ++

YAZ++ (`yazpp`) is a C++ library for Z39.50 clients and servers on top of YAZ.
This directory holds TLA+ models of its core, TLC configurations that check
them on small instances, and TLAPS proofs about them. Paths below are relative
to the repository (`src/...` are its C++ sources).

## 1. The system

### Layers

    application        MyClient, MyServer, zlint, a user's observer
    Z_Assoc            packages <-> octets, reference ids        (IPDU_Observer)
      IR_Assoc           requests and responses of a client
      Z_Server           facilities that take requests
    PDU_Assoc          one association over a COMSTACK           (IPDU_Observable,
                                                                  ISocketObserver)
    SocketManager      event loop                                (ISocketObservable)
    yaz_poll, COMSTACK, clock                                    (YAZ and the system)

Calls go down (`send_PDU`, `connect`, `maskObserver`), callbacks come up
(`socketNotify`, `recv_PDU`, `failNotify`, `sessionNotify`). Everything that
belongs to one manager runs in one thread, and still every callback is a place
where the layer above may call any operation again, deletion of the object
that is calling included. That re-entrancy is the concurrency of this code.

### Components

| Component | State | Operations | What makes it correct | Here |
|---|---|---|---|---|
| `SocketManager` (`src/yaz-socket-manager.cpp`) | list of `SocketEntry` (observer, fd, mask, timeout, timeout_this, last_activity), queue of events | add/delete/mask/timeoutObserver, deleteObservers, processEvent | no event for a deleted observer, unless `deleteObservers` left it; every finished poll notifies somebody; timeouts neither early nor lost | `SocketManager`, proved about |
| `PDU_Assoc` (`src/yaz-pdu-assoc.cpp`) | state, cs, queue_out, m_session_is_dead, destroyed, parent/children | send_PDU, flush_PDU, connect, listen, shutdown, close_session, destroy, idleTime, socketNotify, childNotify | PDUs once and in order; partial writes finished first; never deaf; nothing left after shutdown; object not used after deletion; observers told | one association (`PduAssoc`), the listener with its sessions (`SessionTree`); both proved about |
| `PDU_AssocThread` (`src/yaz-pdu-assoc-thread.cpp`) | worker (manager, association) per session | childNotify, run | nothing used by a thread after another deleted it; everything freed | `SessionThreads`, proved about |
| `Z_Assoc` (`src/yaz-z-assoc.cpp`) | the observable it owns, ODR buffers, log file | recv_PDU, send_GDU, transfer_referenceId, close, ... | bad package ends the session; responses carry the reference id of their request | `Apdu`, `Connections`, in part |
| `IR_Assoc` (`src/yaz-ir-assoc.cpp`) | host, proxy, database names, syntax, element set, last received | client, send_init/search/present..., recv_GDU dispatch | requests name the databases and the host of their connection | `MyClient`, in part |
| `Z_Server` and facilities (`src/yaz-z-server*.cpp`) | chain of facilities, preferred sizes | facility_add, recv_Z_PDU, init, recv, pack_records | one response per request, in order; response sizes respected | `ZServer`; `Retrieval`, proved about |
| `RecordCache` (`src/yaz-z-cache.cpp`) | entries, last search/present request | copy_*Request, add, lookup, clear | a hit is what the target would return | `RecordCache` |
| `TimeStat`, `LimitConnect` (`src/timestat.cpp`, `src/limit-connect.cpp`) | ring of buckets; list of peers | add_bytes, get_total; add_connect, get_total, cleanup | the total is that of the last period | `TimeStat`, `LimitConnect` |
| `zlint/` | list of tests, current test, its verdict | add_test, callbacks, close_goto_next, ten tests | every test runs once, every check gets an earned verdict, it ends | `Zlint` |
| sample client and server (`src/yaz-my-*.cpp`) | command line, wait(); sessions with a timer | commands, callbacks | the client waits for the right answer and never for ever; sessions end | `MyClient`, `ZServer`, `Conversation` |
| `GDU`, `GDUQueue`, `Yaz_Z_Query`, `Yaz_Z_Databases`, `Yaz_cql2rpn`, `zoom/`, MARC samples, build, `win/`, `debian/`, `doc/` | values, wrappers | - | - | not modelled, section 7 |

### What is hard here

* **Re-entrancy and lifetime.** `recv_PDU` may delete the association whose
  read loop called it; a failing write inside `recv_PDU` calls `failNotify`
  inside it.
* **Stale events.** One poll queues many events; handlers of the first ones
  change the world the others refer to.
* **Partial and refused writes**, and the write interest that must survive them.
* **Deferred close**: `close_session` with a queue, deferred to `flush_PDU`.
* **Timeouts** computed from a clock with a resolution of one second, and
  compared for equality.
* **The listener tree**: shutdown and destruction of a parent with sessions,
  and the same with a thread per session.
* **Conversations**: answers that come late, requests that are not waited for,
  peers that fall silent, requests that cannot be sent inside a handler.
* **Labels and windows kept elsewhere**: the cache labels records with a request
  that it remembers, and the statistics clear buckets when somebody asks.

`PROJECT.json` lists each hazard at its line with the property that covers it.

## 2. Modules

| Module | What it is |
|---|---|
| `ListOps`, `Ints` | linked lists as sequences: subsequences at a set of positions, sums; what is assigned to an int |
| `ISocketObservable`, `SocketManager` | what an observer may rely on (abstract), and the event loop |
| `IPduObservable`, `PduAssoc` | a channel that delivers numbered PDUs in order (abstract), and one association |
| `SessionTree` | a listening association and the sessions it accepts |
| `SessionThreads` | the same listener with a thread and a manager for each session |
| `Retrieval` | the retrieval facility of a server, and a client that pages |
| `Apdu`, `Connections` | what `Z_Assoc` knows of a package; the connections between clients and a server |
| `ZServer`, `MyClient` | sessions of a server with their facilities; the line-mode client |
| `Conversation` | `ZServer` and `MyClient` composed over `Connections`, and a foreign client |
| `IRecordCache`, `RecordCache` | a map from what can be asked for to records (abstract); the cache and a proxy that uses it |
| `TimeStat`, `LimitConnect` | a ring of buckets; the connections of each peer in the last period |
| `Zlint` | the driver and the ten tests against an arbitrary target |
| `MC...` | instances for TLC |
| `...Proofs` | inductive invariants and theorems, a module per component; `ServerProofs` has those of `Retrieval`, `LimitConnect` and `SessionThreads` |

`SocketManager` implements `ISocketObservable`, `PduAssoc` implements
`IPduObservable` and `RecordCache` implements `IRecordCache`, each by a
refinement mapping at its end that TLC checks as a property and TLAPS proves. `PduAssoc` and
`SessionTree` use the abstract side of the socket manager (an entry, a set of
pending events, "one event per observer at a time", "no event after
deleteObserver"): what `SocketManager` shows. Neither they nor any program of the
repository calls `deleteObservers`, the one operation after which events of deleted
observers remain; only the manager's destructor does. In the same way `Zlint`, `MyClient`
and `ZServer` use what `PduAssoc` and `SessionTree` show: PDUs arrive in order, a
lost connection is reported once, and a send may report it before it returns.

The operators whose names have a suffix after an underscore and whose comment
begins with "Fault:" are the code with a plausible mistake in it. `PROJECT.json`
lists, for each property, one that the property detects; no specification uses
them.

### How state and actions correspond to the code

**SocketManager** (`src/yaz-socket-manager.cpp`). The list `observers` and one
function per field of `SocketEntry`; `queue` is the list of `SocketEvent`s;
`ctl` is where `processEvent` is: in the application, in `yaz_poll`, or in a
handler. `StartPoll` is lines 255-298 (computing `timeout_this` and the time to
poll), `PollReady`, `PollExpired` and `PollInterrupted` the results of
`yaz_poll`, the first two with the whole of `inspect_poll_result`, which puts
the events and delivers the first. `DispatchQueued` delivers one from the queue.
A handler is `ctl = "notify"`, during which every operation may be called.
`DeleteObservers` is lines 117-128: it frees the entries, leaves the queue as it is,
and the manager goes on. `leftover` (history) holds the observers whose event it found
in the queue; their events are delivered, unless the observer is added
again and deleted with `deleteObserver` before. `Destruct` is the destructor, called
outside of `processEvent`.

**PduAssoc** (`src/yaz-pdu-assoc.cpp`). The fields of `PDU_Assoc_priv`, the
association's entry in the socket manager, and the COMSTACK as far as its results
matter. `stack` holds the callbacks of `IPDU_Observer` that run, and while one
runs the application may call any operation, deletion included. The code before
a callback is one action and the code after it another (`ReturnRecv` is the rest
of the read loop, `ReturnConnect` the `flush_PDU` after `connectNotify`). The
"Notify..." actions are the cases of `socketNotify` by state.

**SessionTree** (`src/yaz-pdu-assoc.cpp` 93-122, 203-227, 312-366, 472-613,
`src/yaz-z-assoc.cpp` 64-73). `children` is `pdu_children`, `parent[s]` says
whether `pdu_parent` is set, `owner[s]` is the session object that
`sessionNotify` returned. Destruction of a session object destroys its
association; destruction of the server destroys the listener, which deletes its
children.

**Retrieval** (`src/yaz-z-server-sr.cpp`, `src/yaz-z-assoc.cpp` 303-339). The
members of the facility, the encoding stream (what is allocated on it, `total`, and
`encoder`, which is "error" for good once a response did not encode, since
`encode_GDU` returns before `odr_reset`, line 313), and
the response that is being built. One turn of the loop of `pack_records` is one
action: the backend fails, the response is full, a surrogate diagnostic is put,
or the record.

**SessionThreads** (`src/yaz-pdu-assoc-thread.cpp` 39-121). `session[s]` says
what exists of a session: manager, association, observer, thread. childNotify is
cut where a thread may run in between: manager and association, observer (or its
refusal), thread (or its failure). What a session's thread does until it ends is
one action, `SessionEnds`: nothing of it is visible to another thread.

**Conversation** (`src/yaz-z-server*.cpp`, `src/yaz-my-server.cpp`,
`src/yaz-ir-assoc.cpp`, `src/yaz-my-client.cpp`, `src/yaz-z-assoc.cpp`). `c` is the
client: what its `wait()` waits for, its connection, host, databases and proxy.
A client that has never connected has no observer to tell of a `close`, and ends there
(`Closed`).
`session[l]` is the server object of connection `l`, with encoder "error" for an ODR stream
in error (`encode_GDU` returns before `odr_reset`, line 313). One action is one
command up to its `wait()`, or one callback; a request is a record whose reference
id and body are what the properties speak of.

**Zlint** (`zlint/`). `z` is the `Zlint` object with its association. One action is
one callback of the association up to its return, all nested ones included: `Send`
that fails shuts the connection down and runs `failNotify`, which may move on to
the next test, before `init` or `recv_gdu` goes on. A test is a record of what its
`init` sends and which verdicts its `recv_gdu` gives, in the order of the calls.
`recv_gdu` looks at the kind of the PDU that it gets and not at what was asked, and so
do `RecvSearch` and `RecvScan`: an answer is any PDU. `strays` (history) are the
responses that a test was given to a request of another kind; `mute` are the tests that
left a check without a verdict, at the next check or at the next test; `fault` is what
the program stops at: a verdict without a test, a missing part of a response, or what is
not an entry of a list.

**RecordCache** (`src/yaz-z-cache.cpp`). `cache` is `RecordCache::Rep`, newest entry
first; `used` stands for `nmem_total`, counted in allocations. `call` is the last
call with its result, which is what the abstract map sees. The proxy is external.

**LimitConnect** (`src/limit-connect.cpp`, `src/timestat.cpp`). `peers[p]` is the
`TimeStat` of a peer: `sec`, `ptr` and the buckets, whose first contents are any
of `Junk`. Each operation reads the clock, brings the ring up to it and adds.

## 3. What the runs check

| Run | Shows | Instance |
|---|---|---|
| `socket_manager` | no stale event but those that `deleteObservers` left, every finished poll notifies, no early timeout, queued events are delivered or withdrawn, refinement of `ISocketObservable` | 2 observers, 2 descriptors, 2 masks, timeouts 0 and 1 s, clock from 1 to 2 s; 354,000 states |
| `pdu_assoc` | order and completeness of what is written, what a shutdown leaves, lifetime, one report of a lost connection | 2 connections, 3 PDUs, 4 nested callbacks; all uses |
| `pdu_assoc_live` | accepted PDUs are written, `close_session` ends, refinement of `IPduObservable` | 2 connections, 3 PDUs, 2 nested callbacks; sends only when connected |
| `session_tree` | the tree is consistent, nothing leaks or is used after it is deleted, sessions are told | a listener and 3 sessions (symmetric), 3 nested callbacks |
| `session_threads` | nothing dangles between threads, nothing is stranded, ended sessions leave nothing | 3 sessions; 6,422 states |
| `conversation` | answers in order with their ids, the client's waits end and with the right answer, requests name their host, sessions end | 2 connections, 4 commands, 2 hosts, 3 foreign requests; 264,000 states |
| `retrieval` | responses fit, hold what fits of what was asked for, and a client that pages gets to the end unless a response does not encode | 3 records of size 1 or 4, offers 3, 5 and 9, a 4-bit int, uninitialised members -1 or 5 |
| `record_cache` | hits are what the target would return; refinement of `IRecordCache` | 2 positions, 2 syntaxes, an element set or none, 2 searches, one change of the records; 323,000 states |
| `limit_connect` | totals are those of the window; cleanup keeps them | 2 peers (symmetric), periods of 2 and 3 s, a clock from 5 to 11 s that is set back once, ints of 4 bits; 555,000 states |
| `zlint` | verdicts, OK is earned, positions are those of entries, tests are not skipped, zlint ends, and what of it strays undo | all ten tests, any PDU as the answer to any request, correct and wrong initResponses (`MCZlint`), lists of two entries; 120,000 states |
| `pdu_assoc_early_send`, `retrieval_by_itself` | the findings of section 6 | small versions of the above |

### Why the bounds are enough

* `socket_manager`: two observers are what it takes for one handler to disturb the
  event of another; descriptors are fewer than what a run uses, so that they are
  reused by another observer while events wait. From 1 to 2 s the clock passes a timeout
  of a second, so that it expires or is restarted by
  activity; one of zero is overdue. The properties about timeouts are proved for every
  clock and any timeouts.
* `pdu_assoc`: three PDUs give a first, a middle and a last one in the queue; the
  second connection meets everything the first one left. Four nested callbacks are
  more than any observer in the repository makes.
* `session_tree`, `session_threads`: three sessions, one that acts, one with an
  event in the queue, and one that is being accepted. List positions at the head,
  in the middle and at the end.
* `conversation`: two connections and four commands are open, search, open
  another host, search again, with a wait between any two; three foreign requests
  are one that is handled, one that fails to encode and one after it.
* `retrieval`: sizes 1 and 4 with offers 3, 5 and 9 give responses that are full
  after no record, after one, after some, and never; 9 does not fit the int
  (-8 .. 7). `MaxLost` is 2: the first response that does not encode, and a later one
  that would have.
* `record_cache`: two searches and one change of the records let an entry be
  labelled by the request before, or kept over a change; the size of 3 is passed
  by the first response that is added.
* `limit_connect`: rings of 2 and 3 buckets turn more than twice while the clock
  goes from 5 to 11 seconds; 4-bit ints end at 7, so that the clock passes the
  largest int as it will in 2038.
* `zlint`: two entries give a list a first and a last one, and strays move a position
  to the null after it and past that, where nothing depends any more on how far
  (`After`). The initResponses differ from a correct one in each thing a test looks at.
  The proofs are for lists of any length.

The proofs of section 5 need none of these bounds. `CHECK_DEADLOCK FALSE`
is set everywhere because a program that calls nothing any more may stop: a
manager that was destroyed, an association that was deleted, a client that has
all records, a user who types nothing.

### Fairness

* `SocketManager`: the program calls `processEvent` again and again and handlers
  return (weak fairness of `DispatchQueued` and `HandlerReturns`); that is the
  loop of `src/yaz-my-server.cpp:249`, `src/yaz-my-client.cpp:297` and
  `zlint/main.cpp:51`, `while (mySocketManager.processEvent() > 0)`. Nothing is assumed of sockets
  or of when a poll ends.
* `PduAssoc`: the same, and for "accepted PDUs are written" the peer keeps
  reading (`PeerReads`, strong fairness: its socket becomes writable again and
  again, and `cs_put` then sometimes takes a whole PDU).
* `Retrieval`: the server answers, the backend fails finitely often, and the
  client asks again while it lacks records. Without the last one it may simply
  stop. A response that does not encode is the end of the session's answers, and
  nothing is promised after it.
* `SessionThreads`: each thread that can go on does, and the event that a client
  has gone arrives; no session is assumed to end by itself.
* `Conversation`: both event loops deliver the events that there are, the close of
  the other end and a timer that has run out among them. Nothing is assumed of the
  user or of a foreign client.
* `Zlint`: only that while the timer runs something happens. The 30 seconds count from
  the last activity and are looked at when no socket is ready
  (`src/yaz-socket-manager.cpp:208`), so that either the socket brings something or the
  timeout is delivered. The target may be silent for ever, and as long as it is not no
  timeout is due. That what the socket brings is sooner or later a PDU assumes that the
  target does not send a part of one for ever.

### Assumptions about what surrounds the models

* Everywhere but in `LimitConnect` the clock does not go backwards.
* An open descriptor belongs to one socket, and a socket to one observer.
  `addObserver` is followed by `maskObserver`, as at all its callers.
* After `cs_more` the next PDU is complete; an operation that COMSTACK leaves
  incomplete says what it waits for (`io_pending` is not empty).
* No observer deletes the association inside `connectNotify`; `flush_PDU` is
  called on it afterwards without a check.
* `sessionNotify` does nothing else with the new association and does not delete
  the server.
* Applications do not delete a session object whose association was deleted with
  the listener (`Owns`); see section 6. In the checked instance no session deletes
  the server from its own callback (`ServerDies = FALSE`).
* `Retrieval`: result counts fit an int, and a client searches once.
* `Conversation`, `Zlint`: small requests are written at once or fail; that they
  may wait is `PduAssoc`'s subject. The target of `Zlint` sends at most one
  PDU for each request, which may be of any kind or not decode.
* `Zlint`: printing a null string gives "(null)", as the C libraries zlint is built with
  do; looking up the null in YAZ's table of syntaxes, or reading past the end of a list,
  stops the program.
* `RecordCache`: the proxy has one request outstanding, clears the cache at each
  search, and its requests encode.
* `LimitConnect`: a period is at least one second (`TimeStat` of size 0 would index
  buckets that do not exist) and no longer than the time since 1970, and no run
  takes 68 years.

## 4. Properties and the hazards they cover

`PROJECT.json` has the list, with source lines. The properties worth knowing:

* `OneEventPerObserver`, `NoStaleEvents`: the queue may be read after a handler
  deleted, re-added or re-masked any observer. After `deleteObservers` it may hold events
  of deleted observers, and no others than it held then.
* `PollNotifies`: the warning "unhandled socket event" (bug #2035 in the source)
  is never reached. It rests on comparing `timeout_this` with the poll's timeout for
  equality, and holds because both are computed in the same pass.
* `TimeoutNotEarly`: compares the moment of notification with the last activity.
* `OrderKept`, `CloseLosesNothing`: partial writes, deferred close and nested sends
  keep PDUs whole, in order and present.
* `NotDeaf`, `QueueIsWritten`: write interest is never lost while something waits
  to be written (if the application sends only when it is connected).
* `ListMatchesParents`, `NothingLeaks`, `CallsReachObservers`, `NoUseAfterFree`:
  lifetime in the tree. `SessionsAreTold`: a connection that ends in any other way
  than by its own session object or by the listener's shutdown is reported to it.
* `NothingDangles`, `NothingStranded`, `SessionsEnd`: the same with threads, for
  every order of the steps of `childNotify` and of the thread that it creates.
* `OneConnection`: every way to leave a connection, by command, failure or timeout,
  closes it, and a session belongs to a connection that was made.
* `AnswersKeepOrder` compares what a session sent with what it handled, place by
  place; only an encoder in error or the end of the session owes an answer.
* `AnswerFits`: `wait()` looks at one member only; an answer that ends it is the
  one to the last request. `WaitEnds`: it ends, whatever the server could encode.
* `RequestsNameTheirHost` relates what was sent on a connection to the host that
  the connection was opened for, over reconnects and proxies.
* `TakesWhatFits` compares the result of the loop of `pack_records` with a
  recursive function that says what a response should hold; `ResponseFits`
  bounds its size; `PagingEnds` is about the conversation, until a response does not
  encode.
* `SizeBounded`: a cache looks at its size before it adds a response, so that it
  passes it by one response at most; it is never trimmed.
* `HitsAreRight`: a hit is the record at that position in the composition and
  syntax asked for. `ImplementsMap`: the cache is a map that may forget.
* `WindowExact` compares the sum of the ring with the connections in the window,
  counted one by one; `CleanupKeepsTotals`: asking for idle peers changes nothing.
* `EntriesExist`: whatever the target answers, zlint takes nothing for an entry that is
  none, except a search_01 that was given a response to another request. scan_01 is
  not excepted.
* `LeavesAVerdict`, `OkIsEarned`: each check of `zlint` ends with a verdict, unless the
  test was given a response to another request, and OK follows no failure.
  `SkipsOnlyAfterUnsent`: tests follow each other, unless the first request of one cannot
  be sent. `ZlintEnds`: with any target, unless such responses never stop.

Type invariants, `OneEventPerObserver` (which the refinement implies), `OneConnection`
and `SizeBounded` are proved (section 5), and are not among the properties of the runs.

## 5. What is proved

All theorems hold for every value of the constants that satisfies the named
assumptions of the modules (which TLC evaluates in each run): any number of
observers, sessions, PDUs, records, nested callbacks, any sizes and timeouts.

| Module | Theorems | Inductive invariant |
|---|---|---|
| `SocketManagerProofs` | `TypeCorrect`, `EventsAreFresh`, `OneEventEach`, `ActivityIsKnown`, `EveryPollNotifies`, `TimeoutsAreNotEarly`, `ManagerImplementsObservable` | types; descriptors of entries differ; events wait for entries, or for what `deleteObservers` left, one for each; times are not in the future; while polling the queue is empty, the poll's timeout is what some entry has left, and entries that may time out have an activity time; for the refinement: an observer is being notified exactly in "notify", one that is not registered has no mask, and no queued event is empty |
| `PduAssocProofs` | `TypeCorrect`, `OrderIsKept`, `PartialStaysFirst`, `ClosedStaysClean`, `NeverUsedAfterFree`, `WritingAlwaysWaits`, `GracefulCloseLosesNothing`, `FailuresAreToldOnce`, `NeverDeaf`, `AssocImplementsObservable` | the numbers of the PDUs written and queued are consecutive; there is an entry, a COMSTACK and an open history exactly together; the mask of an association that is connected has reading or writing in it; a connection that `close_session` ended has written all it accepted |
| `SessionTreeProofs` | `TypeCorrect`, `ListAndParentsAgree`, `SessionsEndWithServer`, `EventsReachReceivers`, `NothingIsLeaked`, `NeverUsedAfterFree`, `CallsReachTheirObservers`, `SessionsHearOfTheEnd` | an association has a parent exactly when a living session object has it; a deleted server has no children; `sessionNotify` runs only at the bottom of the stack, for an association without owner |
| `ServerProofs` on `SessionThreads` | `NothingEverDangles`, `NothingIsStranded` | the six combinations of parts that a session can have while `childNotify` is not at work for it, and the two while it is |
| `ServerProofs` on `Retrieval` | `TypeCorrect`, `ResponsesFit`, `PositionsAreKept`, `TakesAllThatFits` | with a preferred size that is not negative nothing is ever dumped; a record is packed only while the status is not a failure; the stream holds what the records in the list allocate, and a response that stopped early is followed by a record that does not fit |
| `ServerProofs` on `LimitConnect` | `TotalsCountTheWindow`, `CleanupLosesNothing` | each connection is assigned to one bucket at most, that of its second, or of an earlier one if the clock was set back; a bucket that was cleared since the object was made holds the number of those assigned to it; without a clock set back each connection in the window is assigned |
| `ZlintProofs` | `TypesAndPositions`, `OnlyStraysPassTheNull`, `EveryCheckHasAVerdict`, `OkOnlyIfEarned`, `OneTestAtATime` | search_01 and scan_01 find their counters untouched when they begin; without strays, search_01 waits for the answer to the request that its counters stand for, with a verdict on the check before, and scan_01 has a check only while a scan is due; scan_01 has a scan left as long as it is the current test; while an init test waits for an answer, those before it fitted; a test that left a check without a verdict, or a search_01 that stopped at what is no entry, was sent a stray |
| `ConversationProofs` | `AnswersAlwaysKeepOrder`, `RequestsAlwaysNameTheirHost`, `AnswersAlwaysFit`, `OneConnectionAtATime`, `TypeCorrect` | each session's answers match what it handled, place by place; what was sent on a connection, and what the client would send now, is named for the host it was opened with; while the client waits for an answer, the request it sent last or the response to it is all that can be under way, and otherwise nothing is; an end that the client holds is that of the connection in use, numbers above the last used are unused, and a foreign client comes before the first command |
| `RecordCacheProofs` | `HitsAreAlwaysRight`, `CacheImplementsMap`, `CacheIsBounded`, `TypeCorrect` | an entry is labelled with position and composition of its record, which is of the present result set; the cache has a copy of the request that is pending; what is on the list counts as used, and nothing is on it before the first search or while one is unanswered |

Why strengthening was needed:

* `EntryOf` finds an entry by walking the list for a descriptor; that it is the
  entry that was polled needs distinct descriptors, and then the new events are
  for distinct observers. `NewEvents` is a subsequence of the list, which
  `ListOpsProofs` reasons about through the ranks of positions.
* That a poll which timed out hits an entry needs the minimum of what is left to
  be attained (`LeastNatural`, from the well-foundedness of the naturals).
* `TimeoutsAreNotEarly` assumes that no observer asks for INT_MAX seconds:
  `processEvent` clamps more than 2147483646 to 0, and such an observer
  would be notified at once.
* In `SessionTree`, `NothingOutlivesServer` says something about the moment of
  `DeleteServer` only together with "parent exactly when owned". The one case
  where ownership and parenthood come apart is `sessionNotify`, and `FramesKept`
  confines it.
* `NeverUsedAfterFree` in `SessionTreeProofs` assumes `~ServerDies`; with
  `ServerDies = TRUE` TLC finds the counterexample of section 6.
* In `SessionThreads`, that nothing dangles says something about a refusal only
  together with whose session it is; `accepting` decides it.
* In `RecordCache` an entry is labelled with the composition of the request that
  the cache has copied last; that this is the request which the response answers
  needs the copy of the pending request. For the refinement, `MeaningOfConcat` shows
  that the map which a list of entries means turns putting entries in front into
  overriding, and `MeaningOfNewEntries` that a response means what was fetched.
* `AssocImplementsObservable` assumes `~ReuseClosed`: the mark of `close_session`
  survives into the next connection of the same object (section 6), which
  then closes without having been asked, and `IPduObservable` has no such step.
* `ManagerImplementsObservable` needs that the events which wait for an observer
  are one event (`OneEventPerObserver`): `Deliver` of the interface forgets all of
  them at once.
* `AnswersAlwaysFit` needs that a connection has carried nothing before it is
  opened and is never used again: a late answer stays on the connection that the
  client has left.
* `OneConnectionAtATime` needs that a number above the last used has no connection and
  no session, so that opening the next one finds it new.
* `CacheIsBounded` needs that the size is set only while the list is empty: a smaller size
  drops nothing. The proxy of the model sets it before the first search.
* `ResponsesFit` rests on an identity of the source: `this_length` is always
  `dumped_records`, which the arithmetic of `pack_records` comes to.
* `TakesAllThatFits` and `TotalsCountTheWindow` speak of sums over a list.  `Sums` is
  a recursive function, and `SumsSteps` and `SumsCount` (`ListOpsProofs`) say what is
  needed of it by a least counterexample, not by induction over data.
* For the ring of `LimitConnect` a bucket has an age (how far behind `ptr` it is)
  and so a second that it stands for. `RotateKeeps` shows that turning the ring by d
  moves each bucket's age by d and clears the d buckets that come round;
  the modulo of the positions is dealt with there once (`PlaceIs`, `Turning`).
* In `Zlint` a callback stays with its test, leaves it or does not return (`Stays`,
  `Leaves`, `Stops`). That it leaves with a verdict can be seen from the callback alone
  for all tests but search_01, which ends without a verdict of its own after the last
  sort; it has the one on that sort because of what the request before was
  (`SearchDue`). The same relation between counters and request says which entry is
  looked at. A stray breaks it for the test that got it, and for no other: each test has
  counters of its own, and begins with them as they were made (`Fresh`).
* `OnlyStraysPassTheNull` needs for scan_01 that no other test counts scans (`Kept`), so
  that it begins with the first, and that a failure in `sendTest`, which counts one
  more, also leaves the test (`CountersOK`). Strays do not disturb that: each scan that
  is counted was followed by a look at the list.
* `EventsAreFresh` speaks of registered observers only together with what
  `deleteObservers` left, which must be exactly what the queue then held.

Only model-checked: all liveness properties (`QueueDrains`, `QueueIsWritten`,
`CloseCompletes`, `WaitEnds`, `SessionsEnd`, `PagingEnds`, `ZlintEnds`), which are
out of the prover's reach. Every invariant and action property of a passing run is
a theorem.

## 6. Findings

| Run | What the code does |
|---|---|
| `pdu_assoc_early_send` | With two PDUs queued before the connection is up only the first is written; the second waits for an unrelated event (`src/yaz-pdu-assoc.cpp:437`). |
| `retrieval_by_itself` | A record above the preferred message size and within the maximum record size can never be fetched, not even by itself (`src/yaz-z-server-sr.cpp:64`). |

Seen while modelling, without a run of their own.

`src/yaz-pdu-assoc.cpp`:

* `close_session` with a queue ends the connection after the last write without
  `failNotify` (`:444`). The header's "whenever the connection was closed" can be
  read to exclude a close that was asked for.
* `connectNotify` is called also if `cs_rcvconnect` failed (`:195`).
* A listener that listens again or is shut down shuts its sessions down without
  `failNotify` (`:315`); its destruction leaves session objects with pointers to
  deleted associations (`:363`, `include/yazpp/z-assoc.h:47`).
* A session that deletes the server from its `recv_PDU` returns to a deleted
  association (`:363`); `destroyed` reaches only the association itself.
* `m_session_is_dead` survives into the next connection of a reused association,
  which is closed when its queue is empty (`:304`, `:401`): a client that closed
  cannot connect again with the same object.

Elsewhere:

* `deleteObservers` leaves the events in the queue: they are delivered to observers that
  are not registered any more, and may be deleted, and `deleteObserver` cannot withdraw
  them, because it looks for an entry first (`src/yaz-socket-manager.cpp:127`, `:107`).
  In `SocketManager` that is a `DispatchQueued` of an observer in `leftover`.
* Timeouts are looked at only when no socket is ready, so one that is always
  ready starves all of them (`src/yaz-socket-manager.cpp:208`); a timeout of
  INT_MAX counts as 0 (`:284`).
* When `pthread_create` fails the session stays without a thread, its client
  connected (`src/yaz-pdu-assoc-thread.cpp:116`).
* After one response that does not encode the stream stays in error, because
  `odr_reset` is not reached: no later response of the session is sent
  (`src/yaz-z-assoc.cpp:313`).
* A client that opens a host without databases keeps those of the host before
  (`src/yaz-ir-assoc.cpp:308`).
* `zlint` skips a test when the first request of one cannot be sent: `failNotify`
  runs inside `init`, moves on, and `connectNotify` moves on once more
  (`zlint/zlint.cpp:128`). `initResponseGetVersion` asks for option number `no`
  in a loop over `i` (`:165`).
* `zlint` takes a response to another request as if it had asked for it
  (`zlint/test-search-01.cpp:175`). A presentResponse to a search moves
  `m_record_syntax_no`, past the null of `try_syntax` if it is repeated (`:229`, `:257`);
  an initResponse or an empty searchResponse to a present begins a new check, and the
  last one stays without a verdict; a target that answers every search with an
  initResponse is asked again for ever.
* `zlint` reads parts of a response that are optional: `entries` of a scanResponse
  (`zlint/test-scan-01.cpp:105`), `direct_reference` of a record
  (`zlint/test-search-01.cpp:231`).
* An association has no observer before its first `connect` or `listen`. The sample
  client's `close`, or `init`, whose send fails, then calls `failNotify` through a null
  pointer in `close_session` (`src/yaz-pdu-assoc.cpp:88`, `:307`;
  `src/yaz-my-client.cpp:333`, `:344`). In `MyClient` that ends the program.
* A full `RecordCache` keeps what it has and declines the new, so that records
  fetched again stay old until the next clear (`src/yaz-z-cache.cpp:106`).
* A `LimitConnect` of period 0 indexes a bucket that does not exist; after 2038
  the buckets of a new peer stay uninitialised until the ring has turned once
  (`src/timestat.cpp:75`).
* The sizes that a client offers are cut to an int (`src/yaz-z-server-sr.cpp:195`,
  part of `Retrieval`).

## 7. Not modelled

* `GDU`, `GDUQueue`: a list that owns its elements and copies of encoded packages.
  No other part uses them, and what they promise is what a sequence is.
* `Yaz_Z_Query`, `Yaz_Z_Databases`: values. Their work is done by YAZ's encoders;
  there is no protocol of calls that could go wrong in an order.
* `Yaz_cql2rpn` and the ZOOM binding: thin calls of YAZ's C functions that keep a
  handle. What they return is decided there.
* `yaz-marc-sample.cpp` is a table of records.
* Cookie, record format and `deleteResultSet` of `IR_Assoc` are stored and passed
  on, or never sent by a program here.
* What a `sessionNotify` might send: the association has no observer yet, and a send
  that fails would call `failNotify` through a null pointer
  (`src/yaz-pdu-assoc.cpp:601`); none in the repository sends.
* The octets of packages (YAZ's; they appear as "may fail"), TLS certificates,
  `clone` of an association, the APDU log, `_beginthread` and the rest of `win/`,
  build files and packaging.
* A null observer: `PduAssoc` takes it that there is one from the beginning
  (`close_session` before the first `connect` calls through a null pointer, section 6);
  `MyClient` has the one way to that in the repository.

## 8. Plan

What is left, in this order:

1. `SocketManager` composed with `PduAssoc` instead of the abstract events of the
   latter, so that one fairness serves both.

`GDUQueue` and the values (queries, databases) are not worth a module.
