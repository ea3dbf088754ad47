------------------------------- MODULE Zlint -------------------------------
(***************************************************************************)
(* zlint (zlint/zlint.cpp, zlint/test-*.cpp): a client that runs a list of *)
(* conformance tests against a target, one connection per test, and gives  *)
(* a verdict for each check of a test.                                     *)
(*                                                                         *)
(* One action is one callback of the association, run to its end with all  *)
(* the callbacks nested in it: a request that cannot be sent closes the    *)
(* connection and calls failNotify before send_Z_PDU returns.  The target  *)
(* is the environment.  It answers each request at most once, with a PDU   *)
(* of any kind, whatever was asked; it closes the connection, or says      *)
(* nothing.                                                                *)
(***************************************************************************)
EXTENDS Integers, Sequences, FiniteSets, FiniteSetsExt

CONSTANTS
    Tests,        \* the names of the tests that main() adds, in order
    InitAnswers,  \* the initResponses of the target that are tried
    Queries,      \* how many entries try_query, try_syntax, try_sort and
    Syntaxes,     \* try_scan have
    Sorts,
    Scans

(* Every test is one object, which main() adds once.  A protocolVersion    *)
(* has 12 bits and the options of an initResponse 25.                      *)
ASSUME ZlintConstants ==
    /\ Tests \in Seq({"init_01", "init_02", "init_03", "init_04", "init_05",
                      "init_06", "init_07", "init_08", "search_01", "scan_01"})
    /\ Tests # <<>>
    /\ \A i, j \in DOMAIN Tests : Tests[i] = Tests[j] => i = j
    /\ {Queries, Syntaxes, Sorts, Scans} \subseteq Nat \ {0}
    /\ InitAnswers \subseteq
         [kind : {"init"}, version : SUBSET (0..11), options : SUBSET (0..24),
          referenceId : {"none", "first", "second"}, result : BOOLEAN,
          charset : BOOLEAN, oversized : BOOLEAN]

VARIABLES
    z,       \* the Zlint object with its association, a record
    unsent,  \* history: the last callback was an init that could not send
    fits,    \* history: every answer on this connection was an initResponse
             \* as the current test expects
    strays   \* history: of each test, the strays it was sent: 0 for none,
             \* then 1 and 2 in turn

vars == <<z, unsent, fits, strays>>

TestIds == 1 .. Len(Tests)

(* Nothing: m_cur_test is null after the last test.                        *)
NoTest == Len(Tests) + 1

(* The counters that the tests keep between callbacks: m_no of init_08 and *)
(* the positions of search_01 and scan_01 in their lists.                  *)
Progress == [init_response_no |-> 0, no |-> 0, query_no |-> 0,
             got_result_set |-> FALSE, syntax_no |-> 0, sort_no |-> 0,
             scan_no |-> 0]

(* The Zlint record.  "begun", "reported" are m_test_number_sequence > 0   *)
(* and m_test_reported of the current test, the only one that is looked    *)
(* at; "printed" the verdicts of the last callback, each with its test;    *)
(* "mute" (history) the tests that left a check without a verdict; "fault" *)
(* what the program stopped at: a verdict on no test, a part of a response *)
(* that is missing, or what is not an entry of a list.                     *)
NewZlint ==
    [cur |-> 1, line |-> "connecting", due |-> <<>>, timer |-> TRUE,
     at |-> Progress, begun |-> FALSE, reported |-> FALSE, printed |-> {},
     mute |-> {}, fault |-> "none"]

----------------------------------------------------------------------------
(* The verdicts.  The first one on a check stands.                         *)

PrintVerdict(s, v) == [s EXCEPT !.reported = TRUE, !.printed = @ \cup {<<s.cur, v>>}]

(* Fault: msg_check_ok does not look at m_test_reported.                   *)
Report_Again(s, v) ==
    IF s.cur = NoTest THEN [s EXCEPT !.fault = "test"] ELSE PrintVerdict(s, v)

(* msg_check_ok, msg_check_fail and msg_check_notapp, which dereference    *)
(* m_cur_test whatever it is.                                              *)
Report(s, v) ==
    IF s.cur = NoTest THEN [s EXCEPT !.fault = "test"]
    ELSE IF s.reported THEN s ELSE PrintVerdict(s, v)

(* A handler's verdicts, in the order it gives them.                       *)
ReportAll(s, vs) ==
    CASE Len(vs) = 0 -> s
      [] Len(vs) = 1 -> Report(s, vs[1])
      [] OTHER -> Report(Report(s, vs[1]), vs[2])

(* The tests with a check that had no verdict, once the current check ends.*)
Mute(s) == IF s.reported THEN s.mute ELSE s.mute \cup {s.cur}

(* msg_check_for: a new check of the current test, which ends the last one.*)
CheckFor(s) ==
    [s EXCEPT !.begun = TRUE, !.reported = FALSE,
              !.mute = IF s.begun THEN Mute(s) ELSE @]

----------------------------------------------------------------------------
(* The connection.                                                         *)

(* Zlint_code: what a test returns.                                        *)
Result(s, code) == [s |-> s, code |-> code]

(* The program stops.  What it printed in this callback may be lost.       *)
Fault(s, what) == Result([s EXCEPT !.fault = what], "continue")

(* Fault: the timer of the old connection is taken for the new one's.      *)
Client_NoTimer(s) ==
    [s EXCEPT !.line = "connecting", !.due = <<>>, !.timer = FALSE]

(* client(m_host); timeout(30): the old connection is shut down, with the  *)
(* answers that were due on it and with its timer.                         *)
Client(s) == [s EXCEPT !.line = "connecting", !.due = <<>>, !.timer = TRUE]

(* shutdown() of the association.                                          *)
Shutdown(s) == [s EXCEPT !.line = "none", !.due = <<>>, !.timer = FALSE]

(* Fault: the connection is closed first, and failNotify moves on as well. *)
CloseGotoNext_ClosesFirst(s) ==
    LET n == [s EXCEPT !.cur = Min({s.cur + 2, NoTest}), !.begun = FALSE,
                       !.reported = FALSE]
    IN IF n.cur = NoTest THEN Shutdown(n) ELSE Client(n)

(* close_goto_next.  close() after the last test shuts down; failNotify    *)
(* then finds no test.                                                     *)
CloseGotoNext(s) ==
    LET n == [s EXCEPT !.cur = Min({s.cur + 1, NoTest}), !.begun = FALSE,
                       !.reported = FALSE,
                       !.mute = IF s.cur = NoTest THEN @ ELSE Mute(s)]
    IN IF n.cur = NoTest THEN Shutdown(n) ELSE Client(n)

(* Fault: a test is left without its failure being reported.               *)
RecvFailSimple_Silent(s) == Result(s, "finished")

(* recv_fail of the simple tests and of search_01.                         *)
RecvFailSimple(s) == Result(Report(s, "Fail"), "finished")

(* recv_fail of init_08, which goes on with its next size.                 *)
RecvFailInit08(s) ==
    IF s.at.no < 2
    THEN Result([Report(s, "Fail") EXCEPT !.at.no = @ + 1], "reopen")
    ELSE RecvFailSimple(s)

(* recv_fail of scan_01.                                                   *)
RecvFailScan(s) ==
    Result([Report(s, "Fail") EXCEPT !.at.scan_no = @ + 1], "finished")

RecvFail(s) ==
    CASE Tests[s.cur] = "init_08" -> RecvFailInit08(s)
      [] Tests[s.cur] = "scan_01" -> RecvFailScan(s)
      [] OTHER -> RecvFailSimple(s)

(* What follows the code that a test returned.                             *)
Continue(r) ==
    CASE r.code = "continue" -> r.s
      [] r.code = "reopen" -> Client(r.s)
      [] r.code = "finished" -> CloseGotoNext(r.s)

(* failNotify and timeoutNotify.                                           *)
FailNotify(s) == IF s.cur = NoTest THEN s ELSE Continue(RecvFail(s))

(* send_Z_PDU: accepted by the connection, or the connection is shut down  *)
(* and failNotify has run when the call returns -1.                        *)
Send(s, kind, accepted) ==
    IF accepted THEN [s EXCEPT !.due = Append(@, kind)]
    ELSE FailNotify(Shutdown(s))

----------------------------------------------------------------------------
(* The tests.  "requests" is what init sends; "named" whether it starts a  *)
(* check with msg_check_for; "verdicts" what recv_gdu says of an           *)
(* initResponse, in order.                                                 *)

(* initResponseGetVersion.  Each turn of the loop tests the bit after the  *)
(* last one found: the result is the length of the run of bits from 0.     *)
GetVersion(a) == Min({b \in 0..12 : b \notin a.version})

(* Z_Options_scan and Z_Options_negotiationModel.                          *)
ScanOption == 7
NegotiationOption == 17

When(condition, v) == IF condition THEN <<v>> ELSE <<>>

Init01 ==
    [requests |-> 1, named |-> TRUE,
     verdicts |-> [a \in InitAnswers |->
         When(GetVersion(a) \notin 2..3, "Fail")
         \o <<IF a.result THEN "OK" ELSE "Fail">>]]

Init02 ==
    [requests |-> 1, named |-> TRUE,
     verdicts |-> [a \in InitAnswers |->
         When(GetVersion(a) # 2, "Fail") \o <<"OK">>]]

Init03 ==
    [requests |-> 1, named |-> TRUE,
     verdicts |-> [a \in InitAnswers |->
         When(GetVersion(a) \notin 2..5, "Fail") \o <<"OK">>]]

Init04 ==
    [requests |-> 1, named |-> TRUE,
     verdicts |-> [a \in InitAnswers |->
         When(a.referenceId # "first", "Fail") \o <<"OK">>]]

Init06 ==
    [requests |-> 1, named |-> TRUE,
     verdicts |-> [a \in InitAnswers |->
         <<IF Cardinality(a.options) \in 2..24 THEN "OK" ELSE "Fail">>]]

Init07 ==
    [requests |-> 1, named |-> TRUE,
     verdicts |-> [a \in InitAnswers |->
         <<IF NegotiationOption \in a.options /\ a.charset
           THEN "OK" ELSE "Unsupported">>]]

Init08 ==
    [requests |-> 1, named |-> TRUE,
     verdicts |-> [a \in InitAnswers |->
         When(a.oversized, "Fail") \o <<"OK">>]]

(* init_05 sends two requests, with the reference ids "first" and "second".*)
Init05 == [requests |-> 2, named |-> TRUE]
Search01 == [requests |-> 1, named |-> TRUE]
Scan01 == [requests |-> 1, named |-> FALSE]

Test == [init_01 |-> Init01, init_02 |-> Init02, init_03 |-> Init03,
         init_04 |-> Init04, init_05 |-> Init05, init_06 |-> Init06,
         init_07 |-> Init07, init_08 |-> Init08, search_01 |-> Search01,
         scan_01 |-> Scan01]

Current(s) == Test[Tests[s.cur]]

(* init of the current test, of whose requests the first "accepted" can be *)
(* sent.  failNotify has run when the test reports the one that cannot.    *)
TestInit(s, accepted) ==
    LET n == Current(s).requests
        checked == IF Current(s).named THEN CheckFor(s) ELSE s
    IN IF accepted = n
       THEN Result([checked EXCEPT !.due = [i \in 1..n |-> "init"]], "continue")
       ELSE Result(Report(Send(checked, "init", FALSE), "Fail"), "finished")

(* recv_gdu of the init tests other than init_05.                          *)
RecvInit(s, a) ==
    LET judged == ReportAll(s, Current(s).verdicts[a])
    IN IF Tests[s.cur] = "init_08" /\ s.at.no < 2
       THEN Result([judged EXCEPT !.at.no = @ + 1], "reopen")
       ELSE Result(judged, "finished")

RecvInit05(s, a) ==
    IF s.at.init_response_no = 0
    THEN IF a.referenceId = "first" /\ a.result
         THEN Result([s EXCEPT !.at.init_response_no = 1], "continue")
         ELSE Result(Report(s, "Fail"), "finished")
    ELSE Result(Report(s, IF a.referenceId = "second" /\ a.result
                          THEN "OK" ELSE "Fail"), "finished")

----------------------------------------------------------------------------
(* search_01: queries until one has hits, then a present in each syntax,   *)
(* then the sorts.  sendTest ignores whether the request could be sent.    *)
(* The lists end with a null; a position past it reads what is not in the  *)
(* list.                                                                   *)
SendSearch(s, accepted) ==
    CASE ~s.at.got_result_set /\ s.at.query_no < Queries ->
           Result(Send(s, "search", accepted), "continue")
      [] ~s.at.got_result_set /\ s.at.query_no = Queries ->
           Result(Report(s, "Unsupported"), "finished")
      [] s.at.got_result_set /\ s.at.syntax_no < Syntaxes ->
           Result(Send(CheckFor(s), "present", accepted), "continue")
      [] s.at.got_result_set /\ s.at.syntax_no = Syntaxes /\ s.at.sort_no < Sorts ->
           Result(Send(CheckFor(s), "sort", accepted), "continue")
      [] s.at.got_result_set /\ s.at.syntax_no = Syntaxes /\ s.at.sort_no = Sorts ->
           Result(s, "finished")
      [] OTHER -> Fault(s, "item")

(* The next position in a list.  Those past its null are all alike.        *)
After(no, length) == Min({no + 1, length + 1})

(* A search answer has "hits" or not ("none").                             *)
RecvSearchResponse(s, says, accepted) ==
    CASE says = "none" ->
           SendSearch([s EXCEPT !.at.query_no = After(@, Queries)], accepted)
      [] says = "hits" /\ s.at.query_no <= Queries ->
           SendSearch([Report(s, "OK") EXCEPT !.at.got_result_set = TRUE], accepted)
      [] says = "hits" /\ s.at.query_no > Queries -> Fault(s, "item")

(* A present answer has a record in the syntax ("record") or in another    *)
(* one ("wrong"), or a record that does not say ("untyped"), a diagnostic, *)
(* or nothing.  The syntax of a record is compared with the entry's, which *)
(* a null has not; a diagnostic prints the entry, the null included.       *)
RecvPresentResponse(s, says, accepted) ==
    LET compares == says \in {"record", "wrong", "untyped"}
    IN IF \/ compares /\ s.at.syntax_no >= Syntaxes
          \/ says = "diagnostic" /\ s.at.syntax_no > Syntaxes
       THEN Fault(s, "item")
       ELSE IF says = "untyped" THEN Fault(s, "part")
       ELSE SendSearch(
              [Report(s, IF says \in {"record", "diagnostic"} THEN "OK" ELSE "Fail")
                 EXCEPT !.at.syntax_no = After(@, Syntaxes)], accepted)

(* A sort answer has a diagnostic, which prints the entry, or not.         *)
RecvSortResponse(s, says, accepted) ==
    IF says = "diagnostic" /\ s.at.sort_no > Sorts THEN Fault(s, "item")
    ELSE SendSearch([Report(s, "OK") EXCEPT !.at.sort_no = After(@, Sorts)], accepted)

(* recv_gdu of search_01 looks at the kind of the answer, never at what it *)
(* asked for.                                                              *)
RecvSearch(s, a, accepted) ==
    CASE a.kind = "init" ->
           IF a.result THEN SendSearch(s, accepted)
           ELSE Result(Report(s, "Unsupported"), "finished")
      [] a.kind = "search" -> RecvSearchResponse(s, a.says, accepted)
      [] a.kind = "present" -> RecvPresentResponse(s, a.says, accepted)
      [] a.kind = "sort" -> RecvSortResponse(s, a.says, accepted)
      [] OTHER -> Result(Report(s, "Fail"), "finished")

(* Fault: the end of the list is taken for one more entry.                 *)
SendScan_PastEnd(s, accepted) ==
    CASE s.at.scan_no <= Scans ->
           Result(Send(CheckFor(s), "scan", accepted), "continue")
      [] OTHER -> Fault(s, "item")

(* scan_01: init names no check; each scan is one.                         *)
SendScan(s, accepted) ==
    CASE s.at.scan_no < Scans ->
           Result(Send(CheckFor(s), "scan", accepted), "continue")
      [] s.at.scan_no = Scans -> Result(s, "finished")
      [] OTHER -> Fault(s, "item")

(* A scan answer has "terms" or a "diagnostic", or "none" of either, or    *)
(* not even the entries that hold them ("bare").                           *)
RecvScan(s, a, accepted) ==
    CASE a.kind = "init" ->
           LET judged == IF GetVersion(a) \in 2..3 THEN s ELSE Report(s, "Fail")
           IN IF ~a.result THEN Result(Report(judged, "Fail"), "finished")
              ELSE IF ScanOption \notin a.options
                   THEN Result(Report(judged, "Unsupported"), "finished")
              ELSE Result(SendScan(judged, accepted).s, "continue")
      [] a.kind = "scan" /\ a.says = "bare" -> Fault(s, "part")
      [] a.kind = "scan" /\ a.says # "bare" ->
           SendScan([Report(s, IF a.says = "none" THEN "Fail" ELSE "OK")
                        EXCEPT !.at.scan_no = @ + 1], accepted)
      [] OTHER -> Result(Report(s, "Fail"), "finished")

(* recv_gdu of the current test.                                           *)
TestRecv(s, a, accepted) ==
    CASE Tests[s.cur] = "search_01" -> RecvSearch(s, a, accepted)
      [] Tests[s.cur] = "scan_01" -> RecvScan(s, a, accepted)
      [] OTHER -> IF a.kind # "init" THEN Result(Report(s, "Fail"), "finished")
                  ELSE IF Tests[s.cur] = "init_05" THEN RecvInit05(s, a)
                  ELSE RecvInit(s, a)

----------------------------------------------------------------------------
(* What the target may answer.                                             *)
Answers ==
    InitAnswers
    \cup [kind : {"search"}, says : {"hits", "none"}]
    \cup [kind : {"present"},
          says : {"record", "wrong", "untyped", "diagnostic", "nothing"}]
    \cup [kind : {"sort"}, says : {"diagnostic", "sorted"}]
    \cup [kind : {"scan"}, says : {"terms", "diagnostic", "none", "bare"}]
    \cup [kind : {"other"}]

(* The kinds of response that recv_gdu of the test with this name knows.   *)
Takes(t) ==
    CASE t = "search_01" -> {"init", "search", "present", "sort"}
      [] t = "scan_01" -> {"init", "scan"}
      [] OTHER -> {"init"}

(* A stray: the answer to a request is a response of another kind, and the *)
(* test handles it.                                                        *)
Stray(a) == a.kind # Head(z.due) /\ a.kind \in Takes(Tests[z.cur])

(* The reference for the verdict "OK" on an initResponse: what each test   *)
(* says that it checks for.                                                *)
Announces(a, v) == 0 .. v - 1 \subseteq a.version

Meets(s, a) ==
    LET t == Tests[s.cur]
    IN CASE t = "init_01" -> /\ a.result
                             /\ Announces(a, 2) /\ ~Announces(a, 4)
         [] t = "init_02" -> Announces(a, 2) /\ ~Announces(a, 3)
         [] t = "init_03" -> Announces(a, 2) /\ ~Announces(a, 6)
         [] t = "init_04" -> a.referenceId = "first"
         [] t = "init_05" -> /\ a.result
                             /\ a.referenceId = IF s.at.init_response_no = 0
                                                THEN "first" ELSE "second"
         [] t = "init_06" -> a.options # 0..24 /\ Cardinality(a.options) > 1
         [] t = "init_07" -> a.charset /\ NegotiationOption \in a.options
         [] t = "init_08" -> ~a.oversized
         [] OTHER -> TRUE

----------------------------------------------------------------------------
(* main(): set_host, then the tests, then events until no socket is left.  *)
Init ==
    /\ z = NewZlint
    /\ unsent = FALSE /\ fits = TRUE
    /\ strays = [t \in TestIds |-> 0]

Running == z.fault = "none" /\ z.line # "none"

(* A callback begins: it has printed nothing.                              *)
Quiet == [z EXCEPT !.printed = {}]

(* client() finds no address to connect to: nothing is enlisted and nobody *)
(* is told, and main's loop ends.                                          *)
DialRefused ==
    /\ Running /\ z.line = "connecting"
    /\ z' = Shutdown(Quiet)
    /\ unsent' = FALSE
    /\ UNCHANGED <<fits, strays>>

(* connectNotify: the connection is made, or it failed and the first send  *)
(* shows it.                                                               *)
ConnectNotify ==
    /\ Running /\ z.line = "connecting"
    /\ \E accepted \in 0 .. Current(z).requests :
         /\ z' = Continue(TestInit([Quiet EXCEPT !.line = "ready"], accepted))
         /\ unsent' = (accepted < Current(z).requests)
    /\ fits' = TRUE
    /\ UNCHANGED strays

(* recv_GDU.  Whatever comes next is the answer to the oldest request.     *)
RecvGDU ==
    /\ Running /\ z.due # <<>>
    /\ \E a \in Answers, accepted \in BOOLEAN :
         /\ z' = Continue(TestRecv([Quiet EXCEPT !.due = Tail(@)], a, accepted))
         /\ fits' = (fits /\ a.kind = "init" /\ Meets(z, a))
         /\ strays' = IF Stray(a)
                      THEN [strays EXCEPT ![z.cur] = IF @ = 1 THEN 2 ELSE 1]
                      ELSE strays
    /\ unsent' = FALSE

(* The target closes the connection, or cannot be connected to.            *)
LineFails ==
    /\ Running
    /\ z' = FailNotify(Shutdown(Quiet))
    /\ unsent' = FALSE
    /\ UNCHANGED <<fits, strays>>

(* timeoutNotify, 30 seconds after the last event.                         *)
TimeoutNotify ==
    /\ Running /\ z.timer
    /\ z' = FailNotify(Quiet)
    /\ unsent' = FALSE
    /\ UNCHANGED <<fits, strays>>

Next ==
    \/ DialRefused \/ ConnectNotify \/ RecvGDU \/ LineFails \/ TimeoutNotify

(* While the timer runs, something happens: the socket becomes ready or,   *)
(* 30 seconds after the last activity, the timeout is delivered.  Nobody   *)
(* owes zlint an answer, and as long as answers come no timeout is due.    *)
Fairness == WF_vars(z.timer /\ Next)

Spec == Init /\ [][Next]_vars /\ Fairness

----------------------------------------------------------------------------
(* The tests that were sent a stray.                                       *)
Strayed == {t \in TestIds : strays[t] # 0}

(* The variables have their types, positions of search_01 are at most one  *)
(* past the null of their list and the one of scan_01 never past it, and   *)
(* an association that is not closed has a current test.                   *)
TypeOK ==
    /\ z.cur \in 1 .. NoTest
    /\ z.line \in {"none", "connecting", "ready"}
    /\ z.due \in Seq({"init", "search", "present", "sort", "scan"})
    /\ z.line # "none" => z.cur # NoTest
    /\ z.at.no \in 0..2 /\ z.at.query_no \in 0 .. Queries + 1
    /\ z.at.syntax_no \in 0 .. Syntaxes + 1 /\ z.at.sort_no \in 0 .. Sorts + 1
    /\ z.at.scan_no \in 0 .. Scans
    /\ z.fault \in {"none", "test", "part", "item"}
    /\ z.mute \subseteq TestIds
    /\ strays \in [TestIds -> 0..2]
    /\ {z.begun, z.reported, unsent, fits} \subseteq BOOLEAN

(* No test reads past the end of its list or takes the null that ends it   *)
(* for an entry, unless it is search_01 and the target answered a request  *)
(* with a response of another kind: recv_gdu looks at try_query,           *)
(* try_syntax, try_sort and try_scan at their position whatever it is, and *)
(* answers and, in scan_01, a failure nested in sendTest move it.          *)
EntriesExist ==
    z.fault = "item" => Tests[z.cur] = "search_01" /\ z.cur \in Strayed

(* Every check that zlint begins has its verdict before the next one or    *)
(* the next test begins, however the check ended: by an answer, a closed   *)
(* connection, a timeout or a failed send.  The exception is a test that   *)
(* was sent a response to another request (msg_check_for and the           *)
(* msg_check_ok, _fail and _notapp after it).                              *)
LeavesAVerdict == z.mute \subseteq Strayed

(* "OK" on an init check is earned: each initResponse that the test got is *)
(* what it says it checks for, also when a handler that reported a failure *)
(* goes on to msg_check_ok.                                                *)
OkIsEarned ==
    \A t \in TestIds :
        /\ <<t, "OK">> \in z.printed
        /\ Tests[t] \notin {"search_01", "scan_01"}
        => fits

(* zlint passes over a test, or reports on no test at all, only when the   *)
(* init of the current test could not send its request: close_goto_next is *)
(* called once for everything else that ends a test.                       *)
SkipsOnlyAfterUnsent ==
    [][ z'.cur > z.cur + 1 \/ z'.fault = "test" => unsent' ]_vars

(* zlint ends whatever the target does, silence included, unless strays    *)
(* never stop: every connection that close_goto_next or TEST_REOPEN makes  *)
(* has the timer of 30 seconds, and each answer to what was asked brings a *)
(* test nearer to its end.                                                 *)
ZlintEnds ==
    \/ <>(z.line = "none" \/ z.fault # "none")
    \/ []<><<strays' # strays>>_vars

=============================================================================
