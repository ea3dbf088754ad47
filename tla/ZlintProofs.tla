---------------------------- MODULE ZlintProofs ----------------------------
(***************************************************************************)
(* Theorems about zlint, for any list of tests, any target and lists of    *)
(* any length.                                                             *)
(*                                                                         *)
(* A callback stays with its test, leaves it, or does not return (Stays,   *)
(* Leaves, Stops).  What a test that got no stray does next is not seen    *)
(* from the callback alone: that its position is an entry's, and that its  *)
(* check has a verdict when search_01 ends after its last sort, follow     *)
(* from the request before (SearchDue, ScanDue), and that from counters    *)
(* that no other test touches and that no earlier visit has moved (Fresh). *)
(* That "OK" is earned needs, for init_05 with its two answers, that the   *)
(* first one fitted as long as the second is due.                          *)
(***************************************************************************)
EXTENDS Zlint, ListOpsProofs

(* The counters of the tests, without their bounds.                        *)
ProgressType ==
    [init_response_no : Nat, no : Nat, query_no : Nat,
     got_result_set : BOOLEAN, syntax_no : Nat, sort_no : Nat, scan_no : Nat]

Requests == {"init", "search", "present", "sort", "scan"}

(* What a test says of a check.                                            *)
Verdicts == {"OK", "Fail", "Unsupported"}

(* The type of the Zlint record.                                           *)
ZlintType ==
    [cur : 1 .. NoTest, line : {"none", "connecting", "ready"},
     due : Seq(Requests),
     timer : BOOLEAN, at : ProgressType, begun : BOOLEAN,
     reported : BOOLEAN, printed : SUBSET (TestIds \X Verdicts),
     mute : SUBSET TestIds, fault : {"none", "test", "part", "item"}]

(* The tests are numbered from 1, and each of them is added once.          *)
LEMMA TestsAre ==
    /\ NoTest \in Nat /\ NoTest > 1
    /\ TestIds = 1 .. NoTest - 1 /\ DOMAIN Tests = TestIds
    /\ \A i, j \in TestIds : Tests[i] = Tests[j] => i = j
  BY ZlintConstants DEF ZlintConstants, NoTest, TestIds

(* shutdown() touches the connection and nothing of the test.              *)
LEMMA ShutdownIs ==
    ASSUME NEW s \in ZlintType
    PROVE  LET r == Shutdown(s)
           IN /\ r \in ZlintType
              /\ r.line = "none" /\ r.due = <<>>
              /\ r.cur = s.cur /\ r.at = s.at /\ r.reported = s.reported
              /\ r.begun = s.begun
              /\ r.printed = s.printed /\ r.mute = s.mute
              /\ r.fault = s.fault
  <1> DEFINE none == <<>>
             y == [s EXCEPT !.line = "none"]
             x == [y EXCEPT !.due = none]
  <1>0. none \in Seq(Requests)
    OBVIOUS
  <1> HIDE DEF none
  <1>1. /\ y \in ZlintType /\ y.line = "none"
        /\ y.cur = s.cur /\ y.at = s.at /\ y.reported = s.reported
        /\ y.begun = s.begun
        /\ y.printed = s.printed /\ y.mute = s.mute /\ y.fault = s.fault
    BY DEF ZlintType
  <1>2. Shutdown(s) = [x EXCEPT !.timer = FALSE]
    BY DEF Shutdown, none
  <1> HIDE DEF y
  <1>3. /\ x \in ZlintType /\ x.line = "none" /\ x.due = none
        /\ x.cur = s.cur /\ x.at = s.at /\ x.reported = s.reported
        /\ x.begun = s.begun
        /\ x.printed = s.printed /\ x.mute = s.mute /\ x.fault = s.fault
    BY <1>0, <1>1 DEF ZlintType
  <1> HIDE DEF x
  <1> QED BY <1>2, <1>3 DEF ZlintType, none

(* Nor does client() with its timer.                                       *)
LEMMA ClientIs ==
    ASSUME NEW s \in ZlintType
    PROVE  LET r == Client(s)
           IN /\ r \in ZlintType
              /\ r.line = "connecting" /\ r.due = <<>>
              /\ r.cur = s.cur /\ r.at = s.at /\ r.reported = s.reported
              /\ r.begun = s.begun
              /\ r.printed = s.printed /\ r.mute = s.mute
              /\ r.fault = s.fault
  <1> DEFINE none == <<>>
             y == [s EXCEPT !.line = "connecting"]
             x == [y EXCEPT !.due = none]
  <1>0. none \in Seq(Requests)
    OBVIOUS
  <1> HIDE DEF none
  <1>1. /\ y \in ZlintType /\ y.line = "connecting"
        /\ y.cur = s.cur /\ y.at = s.at /\ y.reported = s.reported
        /\ y.begun = s.begun
        /\ y.printed = s.printed /\ y.mute = s.mute /\ y.fault = s.fault
    BY DEF ZlintType
  <1>2. Client(s) = [x EXCEPT !.timer = TRUE]
    BY DEF Client, none
  <1> HIDE DEF y
  <1>3. /\ x \in ZlintType /\ x.line = "connecting" /\ x.due = none
        /\ x.cur = s.cur /\ x.at = s.at /\ x.reported = s.reported
        /\ x.begun = s.begun
        /\ x.printed = s.printed /\ x.mute = s.mute /\ x.fault = s.fault
    BY <1>0, <1>1 DEF ZlintType
  <1> HIDE DEF x
  <1> QED BY <1>2, <1>3 DEF ZlintType, none

(* What a callback can do to the tests with a check that had no verdict.   *)
Mutes(s, r) == r.mute \subseteq s.mute \cup {s.cur}

(* The current check, if there is one, has its verdict.                    *)
Settled(s) == s.reported \/ ~s.begun

(* msg_check_for forgets that a verdict was given; a check without one is  *)
(* left behind.                                                            *)
LEMMA CheckForIs ==
    ASSUME NEW s \in ZlintType, s.cur \in TestIds
    PROVE  LET r == CheckFor(s)
           IN /\ r \in ZlintType
              /\ r.line = s.line /\ r.due = s.due
              /\ r.cur = s.cur /\ r.at = s.at /\ r.reported = FALSE
              /\ r.printed = s.printed /\ r.fault = s.fault
              /\ Mutes(s, r) /\ (Settled(s) => r.mute = s.mute)
  <1> DEFINE m == IF s.begun THEN Mute(s) ELSE s.mute
             y == [s EXCEPT !.begun = TRUE]
             x == [y EXCEPT !.reported = FALSE]
             r == [x EXCEPT !.mute = m]
  <1>1. /\ m \in SUBSET TestIds /\ m \subseteq s.mute \cup {s.cur}
        /\ Settled(s) => m = s.mute
    <2>1. s.mute \in SUBSET TestIds
      BY DEF ZlintType
    <2> QED BY <2>1 DEF Mute, Settled
  <1>2. CheckFor(s) = r
    BY DEF CheckFor
  <1> HIDE DEF m
  <1>3. /\ y \in ZlintType /\ y.line = s.line /\ y.due = s.due
        /\ y.cur = s.cur /\ y.at = s.at
        /\ y.printed = s.printed /\ y.fault = s.fault
    BY DEF ZlintType
  <1> HIDE DEF y
  <1>4. /\ x \in ZlintType /\ x.line = s.line /\ x.due = s.due
        /\ x.cur = s.cur /\ x.at = s.at /\ x.reported = FALSE
        /\ x.printed = s.printed /\ x.fault = s.fault
    BY <1>3 DEF ZlintType
  <1> HIDE DEF x
  <1>5. /\ r \in ZlintType /\ r.line = s.line /\ r.due = s.due
        /\ r.cur = s.cur /\ r.at = s.at /\ r.reported = FALSE
        /\ r.printed = s.printed /\ r.fault = s.fault /\ r.mute = m
    BY <1>1, <1>4 DEF ZlintType
  <1> HIDE DEF r
  <1> QED BY <1>1, <1>2, <1>5 DEF Mutes

(* A verdict is given on the current test, and only if its check has none. *)
LEMMA ReportIs ==
    ASSUME NEW s \in ZlintType, s.cur # NoTest, NEW v \in Verdicts
    PROVE  LET r == Report(s, v)
           IN /\ r \in ZlintType /\ r.reported
              /\ r.line = s.line /\ r.due = s.due
              /\ r.cur = s.cur /\ r.at = s.at /\ r.mute = s.mute
              /\ r.fault = s.fault /\ r.begun = s.begun
              /\ r.printed = s.printed \cup IF s.reported THEN {}
                                          ELSE {<<s.cur, v>>}
  <1>1. s.cur \in TestIds
    BY TestsAre DEF ZlintType
  <1>2. CASE s.reported
    BY <1>2 DEF Report, ZlintType
  <1>3. CASE ~s.reported
    <2>1. Report(s, v) = PrintVerdict(s, v)
      BY <1>3 DEF Report
    <2>2. s.printed \cup {<<s.cur, v>>} \in SUBSET (TestIds \X Verdicts)
      BY <1>1 DEF ZlintType
    <2> QED BY <1>3, <2>1, <2>2 DEF PrintVerdict, ZlintType
  <1> QED BY <1>2, <1>3 DEF ZlintType

(* What search_01 keeps between callbacks.                                 *)
SearchPart(at) ==
    <<at.got_result_set, at.query_no, at.syntax_no, at.sort_no>>

(* The current test is scan_01.                                            *)
IsScan(s) == s.cur \in TestIds /\ Tests[s.cur] = "scan_01"

(* What recv_fail does to the counters that search_01 does not have.       *)
FailKeeps(s, at) ==
    /\ s.at.no <= 2 => at.no <= 2
    /\ at.scan_no = IF IsScan(s) THEN s.at.scan_no + 1 ELSE s.at.scan_no

(* A counter that changes leaves the rest alone.                           *)
LEMMA AtIs ==
    ASSUME NEW s \in ZlintType, NEW at \in ProgressType
    PROVE  LET r == [s EXCEPT !.at = at]
           IN /\ r \in ZlintType /\ r.at = at
              /\ r.line = s.line /\ r.due = s.due
              /\ r.cur = s.cur /\ r.reported = s.reported /\ r.begun = s.begun
              /\ r.printed = s.printed /\ r.mute = s.mute
              /\ r.fault = s.fault
  BY DEF ZlintType

(* The test s.cur is left for the next one, or tried again after a verdict.*)
Leaves(s, r) ==
    /\ r \in ZlintType /\ r.fault = s.fault
    /\ r.due = <<>>
    /\ r.line = IF r.cur = NoTest THEN "none" ELSE "connecting"
    /\ \/ r.cur = s.cur + 1 /\ ~r.begun
       \/ r.cur = s.cur /\ Tests[s.cur] = "init_08" /\ r.reported

(* close_goto_next goes on by one test, and not beyond the last.           *)
LEMMA NextTest ==
    ASSUME NEW c \in 1 .. NoTest
    PROVE  Min({c + 1, NoTest}) = IF c = NoTest THEN NoTest ELSE c + 1
  BY TestsAre DEF Min

(* close_goto_next: the next test on a connection of its own, or no test   *)
(* and no connection.                                                      *)
LEMMA CloseGotoNextIs ==
    ASSUME NEW s \in ZlintType
    PROVE  LET r == CloseGotoNext(s)
           IN /\ r \in ZlintType /\ ~r.begun
              /\ r.cur = IF s.cur = NoTest THEN NoTest ELSE s.cur + 1
              /\ r.fault = s.fault /\ Mutes(s, r)
              /\ s.reported \/ s.cur = NoTest => r.mute = s.mute
              /\ r.due = <<>>
              /\ r.line = IF r.cur = NoTest THEN "none" ELSE "connecting"
              /\ r.at = s.at /\ r.printed = s.printed
  <1> DEFINE c == Min({s.cur + 1, NoTest})
             m == IF s.cur = NoTest THEN s.mute ELSE Mute(s)
             y == [s EXCEPT !.cur = c]
             w == [y EXCEPT !.begun = FALSE]
             x == [w EXCEPT !.reported = FALSE]
             n == [x EXCEPT !.mute = m]
  <1>1. c \in 1 .. NoTest /\ c = IF s.cur = NoTest THEN NoTest ELSE s.cur + 1
    <2>1. s.cur \in 1 .. NoTest
      BY DEF ZlintType
    <2>2. c = IF s.cur = NoTest THEN NoTest ELSE s.cur + 1
      BY <2>1, NextTest
    <2> HIDE DEF c
    <2> QED BY <2>1, <2>2, TestsAre
  <1>2. /\ m \in SUBSET TestIds /\ m \subseteq s.mute \cup {s.cur}
        /\ s.reported \/ s.cur = NoTest => m = s.mute
    <2>1. s.mute \in SUBSET TestIds /\ (s.cur # NoTest => s.cur \in TestIds)
      BY TestsAre DEF ZlintType
    <2> QED BY <2>1 DEF Mute
  <1>4. CloseGotoNext(s) = IF n.cur = NoTest THEN Shutdown(n) ELSE Client(n)
    <2>1. n = [s EXCEPT !.cur = c, !.begun = FALSE, !.reported = FALSE,
                        !.mute = m]
      OBVIOUS
    <2> QED BY <2>1 DEF CloseGotoNext
  <1> HIDE DEF c, m
  <1>3. /\ y \in ZlintType /\ y.cur = c
        /\ y.at = s.at /\ y.printed = s.printed /\ y.fault = s.fault
    BY <1>1 DEF ZlintType
  <1> HIDE DEF y
  <1>7. /\ w \in ZlintType /\ w.cur = c /\ ~w.begun
        /\ w.at = s.at /\ w.printed = s.printed /\ w.fault = s.fault
    BY <1>3 DEF ZlintType
  <1> HIDE DEF w
  <1>5. /\ x \in ZlintType /\ x.cur = c /\ ~x.begun
        /\ x.at = s.at /\ x.printed = s.printed /\ x.fault = s.fault
    BY <1>7 DEF ZlintType
  <1> HIDE DEF x
  <1>6. /\ n \in ZlintType /\ n.cur = c /\ n.mute = m /\ ~n.begun
        /\ n.at = s.at /\ n.printed = s.printed /\ n.fault = s.fault
    BY <1>2, <1>5 DEF ZlintType
  <1> HIDE DEF n
  <1>8. LET r == CloseGotoNext(s)
        IN /\ r \in ZlintType /\ r.cur = c /\ r.mute = m /\ ~r.begun
           /\ r.at = s.at /\ r.printed = s.printed /\ r.fault = s.fault
           /\ r.due = <<>>
           /\ r.line = IF c = NoTest THEN "none" ELSE "connecting"
    BY <1>4, <1>6, ShutdownIs, ClientIs
  <1> QED BY <1>1, <1>2, <1>8 DEF Mutes

(* recv_fail of every test reports a failure before it ends the test;      *)
(* init_08 may ask for another connection.                                 *)
LEMMA RecvFailIs ==
    ASSUME NEW s \in ZlintType, s.cur \in TestIds
    PROVE  LET x == RecvFail(s)
           IN /\ x.s \in ZlintType /\ x.s.reported
              /\ x.s.cur = s.cur /\ x.s.mute = s.mute
              /\ x.s.fault = s.fault
              /\ x.s.printed \subseteq s.printed \cup {<<s.cur, "Fail">>}
              /\ SearchPart(x.s.at) = SearchPart(s.at)
              /\ FailKeeps(s, x.s.at)
              /\ \/ x.code = "finished"
                 \/ x.code = "reopen" /\ Tests[s.cur] = "init_08"
  <1> DEFINE p == Report(s, "Fail")
  <1>1. s.cur # NoTest
    BY TestsAre
  <1>2. /\ p \in ZlintType /\ p.reported /\ p.cur = s.cur /\ p.mute = s.mute
        /\ p.fault = s.fault /\ p.at = s.at
        /\ p.printed \subseteq s.printed \cup {<<s.cur, "Fail">>}
    <2>1. "Fail" \in Verdicts
      BY DEF Verdicts
    <2> QED BY <1>1, <2>1, ReportIs
  <1> HIDE DEF p
  <1> DEFINE no == [p.at EXCEPT !.no = @ + 1]
             scan == [p.at EXCEPT !.scan_no = @ + 1]
  <1>3. /\ p.at \in ProgressType
        /\ no \in ProgressType /\ scan \in ProgressType
        /\ SearchPart(no) = SearchPart(s.at)
        /\ SearchPart(scan) = SearchPart(s.at)
    <2>1. p.at \in ProgressType /\ p.at = s.at
      BY <1>2 DEF ZlintType
    <2>2. no \in ProgressType /\ SearchPart(no) = SearchPart(p.at)
      BY <2>1 DEF ProgressType, SearchPart
    <2>3. scan \in ProgressType /\ SearchPart(scan) = SearchPart(p.at)
      BY <2>1 DEF ProgressType, SearchPart
    <2> QED BY <2>1, <2>2, <2>3
  <1>4. /\ [p EXCEPT !.at.no = @ + 1] = [p EXCEPT !.at = no]
        /\ [p EXCEPT !.at.scan_no = @ + 1] = [p EXCEPT !.at = scan]
    OBVIOUS
  <1>12. /\ no.scan_no = s.at.scan_no /\ no.no = s.at.no + 1
         /\ scan.no = s.at.no /\ scan.scan_no = s.at.scan_no + 1
    <2>1. p.at \in ProgressType /\ p.at = s.at
      BY <1>2 DEF ZlintType
    <2> QED BY <2>1 DEF ProgressType
  <1> HIDE DEF no, scan
  <1>5. RecvFailSimple(s) = Result(p, "finished")
    BY DEF RecvFailSimple, p
  <1>6. \/ ~IsScan(s) /\ RecvFail(s) = Result(p, "finished")
        \/ /\ Tests[s.cur] = "init_08" /\ s.at.no < 2
           /\ RecvFail(s) = Result([p EXCEPT !.at = no], "reopen")
        \/ /\ IsScan(s)
           /\ RecvFail(s) = Result([p EXCEPT !.at = scan], "finished")
    <2>1. CASE Tests[s.cur] = "init_08"
      BY <1>4, <1>5, <2>1 DEF RecvFail, RecvFailInit08, IsScan, p
    <2>2. CASE Tests[s.cur] = "scan_01"
      BY <1>4, <1>5, <2>2 DEF RecvFail, RecvFailScan, IsScan, p
    <2>3. CASE Tests[s.cur] \notin {"init_08", "scan_01"}
      BY <1>5, <2>3 DEF RecvFail, IsScan
    <2> QED BY <2>1, <2>2, <2>3
  <1>7. ASSUME NEW at \in ProgressType, SearchPart(at) = SearchPart(s.at),
               FailKeeps(s, at)
        PROVE  LET r == [p EXCEPT !.at = at]
               IN /\ r \in ZlintType /\ r.reported
                  /\ r.cur = s.cur /\ r.mute = s.mute
                  /\ r.fault = s.fault
                  /\ r.printed \subseteq s.printed \cup {<<s.cur, "Fail">>}
                  /\ SearchPart(r.at) = SearchPart(s.at)
                  /\ FailKeeps(s, r.at)
    BY <1>2, <1>7, AtIs
  <1>8. \A r, code : Result(r, code).s = r /\ Result(r, code).code = code
    BY DEF Result
  <1>9. CASE ~IsScan(s) /\ RecvFail(s) = Result(p, "finished")
    BY <1>2, <1>8, <1>9 DEF FailKeeps
  <1>10. CASE /\ Tests[s.cur] = "init_08" /\ s.at.no < 2
              /\ RecvFail(s) = Result([p EXCEPT !.at = no], "reopen")
    <2> DEFINE r == [p EXCEPT !.at = no]
    <2>0. RecvFail(s) = Result(r, "reopen")
      BY <1>10
    <2>3. FailKeeps(s, no)
      <3>1. s.at.no \in Nat
        BY DEF ZlintType, ProgressType
      <3> QED BY <1>10, <1>12, <3>1 DEF FailKeeps, IsScan
    <2>1. /\ r \in ZlintType /\ r.reported
          /\ r.cur = s.cur /\ r.mute = s.mute /\ r.fault = s.fault
          /\ r.printed \subseteq s.printed \cup {<<s.cur, "Fail">>}
          /\ SearchPart(r.at) = SearchPart(s.at) /\ FailKeeps(s, r.at)
      BY <1>3, <1>7, <2>3
    <2> HIDE DEF r
    <2>2. RecvFail(s).s = r /\ RecvFail(s).code = "reopen"
      BY <1>8, <2>0
    <2> QED BY <1>10, <2>1, <2>2
  <1>11. CASE /\ IsScan(s)
              /\ RecvFail(s) = Result([p EXCEPT !.at = scan], "finished")
    <2> DEFINE r == [p EXCEPT !.at = scan]
    <2>0. RecvFail(s) = Result(r, "finished")
      BY <1>11
    <2>3. FailKeeps(s, scan)
      BY <1>11, <1>12 DEF FailKeeps
    <2>1. /\ r \in ZlintType /\ r.reported
          /\ r.cur = s.cur /\ r.mute = s.mute /\ r.fault = s.fault
          /\ r.printed \subseteq s.printed \cup {<<s.cur, "Fail">>}
          /\ SearchPart(r.at) = SearchPart(s.at) /\ FailKeeps(s, r.at)
      BY <1>3, <1>7, <2>3
    <2> HIDE DEF r
    <2>2. RecvFail(s).s = r /\ RecvFail(s).code = "finished"
      BY <1>8, <2>0
    <2> QED BY <1>11, <2>1, <2>2
  <1> QED BY <1>6, <1>9, <1>10, <1>11

(* What follows a test that is left, or tried again after a verdict.       *)
LEMMA ContinueIs ==
    ASSUME NEW s \in ZlintType, s.cur \in TestIds, NEW code,
           \/ code = "finished"
           \/ code = "reopen" /\ Tests[s.cur] = "init_08" /\ s.reported
    PROVE  LET r == Continue(Result(s, code))
           IN /\ Leaves(s, r) /\ r.at = s.at /\ r.printed = s.printed
              /\ Mutes(s, r) /\ (s.reported => r.mute = s.mute)
  <1>1. s.cur # NoTest
    BY TestsAre
  <1>2. CASE code = "finished"
    <2>1. Continue(Result(s, code)) = CloseGotoNext(s)
      BY <1>2 DEF Continue, Result
    <2> QED BY <1>1, <2>1, CloseGotoNextIs DEF Leaves
  <1>3. CASE code = "reopen" /\ Tests[s.cur] = "init_08" /\ s.reported
    <2>1. Continue(Result(s, code)) = Client(s)
      BY <1>3 DEF Continue, Result
    <2> QED BY <1>1, <1>3, <2>1, ClientIs DEF Leaves, Mutes
  <1> QED BY <1>2, <1>3

(* failNotify and timeoutNotify leave the test, with "Fail" as its         *)
(* verdict.                                                                *)
LEMMA FailNotifyIs ==
    ASSUME NEW s \in ZlintType, s.cur \in TestIds
    PROVE  LET r == FailNotify(s)
           IN /\ Leaves(s, r) /\ SearchPart(r.at) = SearchPart(s.at)
              /\ FailKeeps(s, r.at) /\ r.mute = s.mute
              /\ r.printed \subseteq s.printed \cup {<<s.cur, "Fail">>}
  <1> DEFINE x == RecvFail(s)
  <1>1. /\ x.s \in ZlintType /\ x.s.reported
        /\ x.s.cur = s.cur /\ x.s.mute = s.mute /\ x.s.fault = s.fault
        /\ x.s.printed \subseteq s.printed \cup {<<s.cur, "Fail">>}
        /\ SearchPart(x.s.at) = SearchPart(s.at) /\ FailKeeps(s, x.s.at)
        /\ \/ x.code = "finished"
           \/ x.code = "reopen" /\ Tests[s.cur] = "init_08"
    BY RecvFailIs
  <1>2. /\ FailNotify(s) = Continue(x)
        /\ Continue(x) = Continue(Result(x.s, x.code))
    <2>1. s.cur # NoTest
      BY TestsAre
    <2>2. FailNotify(s) = Continue(x)
      BY <2>1 DEF FailNotify
    <2>3. Result(x.s, x.code).s = x.s /\ Result(x.s, x.code).code = x.code
      BY DEF Result
    <2> HIDE DEF x
    <2>4. Continue(x) = Continue(Result(x.s, x.code))
      BY <2>3 DEF Continue
    <2> QED BY <2>2, <2>4
  <1> HIDE DEF x
  <1>3. LET r == Continue(Result(x.s, x.code))
        IN /\ Leaves(x.s, r) /\ r.at = x.s.at /\ r.printed = x.s.printed
           /\ r.mute = x.s.mute
    BY <1>1, ContinueIs
  <1> QED BY <1>1, <1>2, <1>3 DEF Leaves

(* The current test is search_01.                                          *)
IsSearch(s) == s.cur \in TestIds /\ Tests[s.cur] = "search_01"

(* search_01 has not begun.                                                *)
Fresh(s) == SearchPart(s.at) = <<FALSE, 0, 0, 0>>

(* search_01 is not over.                                                  *)
Ahead(s) == \A i \in TestIds : i < s.cur => Tests[i] # "search_01"

(* The answer that search_01 waits for, and how far it is then.            *)
SearchDue(s) ==
    \/ s.due = <<"init">> /\ Fresh(s)
    \/ /\ s.due = <<"search">> /\ ~s.at.got_result_set
       /\ s.at.query_no < Queries /\ s.at.syntax_no = 0 /\ s.at.sort_no = 0
    \/ /\ s.due = <<"present">> /\ s.at.got_result_set
       /\ s.at.syntax_no < Syntaxes /\ s.at.sort_no = 0
    \/ /\ s.due = <<"sort">> /\ s.at.got_result_set
       /\ s.at.syntax_no = Syntaxes /\ s.at.sort_no < Sorts

(* The answer that scan_01 waits for. Its first check begins after init.   *)
ScanDue(s) ==
    \/ s.due = <<"init">> /\ ~s.begun
    \/ s.due = <<"scan">>

(* search_01 finds its counters untouched when it is connected, and when   *)
(* it waits for an answer they are those of the request that was sent,     *)
(* unless it is one of S.                                                  *)
SearchOK(s, S) ==
    /\ Ahead(s) /\ (IsSearch(s) => s.line = "connecting") => Fresh(s)
    /\ IsSearch(s) /\ s.due # <<>> /\ s.cur \notin S => SearchDue(s)
    /\ IsScan(s) /\ s.due # <<>> /\ s.cur \notin S => ScanDue(s)

(* No check is open while a connection is made.                            *)
Between(s) ==
    s.line = "connecting" => Settled(s) /\ (IsScan(s) => ~s.begun)

(* What holds of a Zlint record between two callbacks, S being the tests   *)
(* that were sent a stray.                                                 *)
Sound(s, S) ==
    /\ s \in ZlintType
    /\ s.line # "none" => s.cur \in TestIds
    /\ s.due # <<>> => s.line = "ready"
    /\ SearchOK(s, S) /\ Between(s)

(* A callback leaves the test and the connection as they are.              *)
Stays(s, r) ==
    /\ r \in ZlintType /\ r.fault = s.fault
    /\ r.cur = s.cur /\ r.line = s.line

(* Leaving a test does not disturb the record.                             *)
LEMMA LeavesSound ==
    ASSUME NEW s \in ZlintType, s.cur \in TestIds, NEW r, Leaves(s, r),
           NEW S,
           ~IsSearch(s) => SearchPart(r.at) = SearchPart(s.at),
           Ahead(s) /\ ~IsSearch(s) => Fresh(s)
    PROVE  Sound(r, S)
  <1>1. /\ r \in ZlintType /\ r.due = <<>>
        /\ r.line # "none" => r.cur \in TestIds
    BY TestsAre DEF Leaves, ZlintType
  <1>2. ASSUME Ahead(r) PROVE Fresh(r)
    <2>1. ~IsSearch(s) /\ Ahead(s)
      <3>1. CASE r.cur = s.cur + 1
        <4>1. s.cur < r.cur /\ \A i \in TestIds : i < s.cur => i < r.cur
          BY <3>1, TestsAre
        <4> QED BY <1>2, <4>1 DEF Ahead, IsSearch
      <3>2. CASE r.cur = s.cur /\ Tests[s.cur] = "init_08"
        BY <1>2, <3>2 DEF Ahead, IsSearch
      <3> QED BY <3>1, <3>2 DEF Leaves
    <2> QED BY <2>1 DEF Fresh
  <1>3. Between(r)
    BY DEF Leaves, Between, Settled, IsScan
  <1> QED BY <1>1, <1>2, <1>3 DEF Sound, SearchOK

(* Nor does staying, if the test waits for an answer of its request.       *)
LEMMA StaysSound ==
    ASSUME NEW s, s.cur \in TestIds, s.line = "ready", NEW r, Stays(s, r),
           NEW S,
           ~IsSearch(s) => SearchPart(r.at) = SearchPart(s.at),
           Ahead(s) /\ ~IsSearch(s) => Fresh(s),
           IsSearch(s) /\ s.cur \notin S => SearchDue(r),
           IsScan(s) /\ s.cur \notin S => ScanDue(r)
    PROVE  Sound(r, S)
  BY DEF Sound, SearchOK, Stays, IsSearch, IsScan, Ahead, Fresh, Between

(* search_01 is added once.                                                *)
LEMMA SearchIsAhead ==
    ASSUME NEW s, IsSearch(s)
    PROVE  Ahead(s)
  BY TestsAre DEF IsSearch, Ahead

(* No list of search_01 or scan_01 is empty.                               *)
LEMMA BoundsAre ==
    /\ Queries \in Nat /\ Queries > 0 /\ Syntaxes \in Nat /\ Syntaxes > 0
    /\ Sorts \in Nat /\ Sorts > 0 /\ Scans \in Nat /\ Scans > 0
  BY ZlintConstants DEF ZlintConstants

(* Positions at most one past the null that ends a list of search_01.      *)
SearchBounded(at) ==
    /\ at.query_no <= Queries + 1 /\ at.syntax_no <= Syntaxes + 1
    /\ at.sort_no <= Sorts + 1

(* What a callback does to the other counters.  scan_01 may get to the end *)
(* of its list only when it is left.                                       *)
Kept(s, r) ==
    /\ s.at.no <= 2 => r.at.no <= 2
    /\ ~IsScan(s) => r.at.scan_no = s.at.scan_no
    /\ IsScan(s) /\ s.at.scan_no < Scans =>
         /\ r.at.scan_no <= Scans
         /\ r.cur = s.cur => r.at.scan_no < Scans

(* A test that fails keeps the other counters.                             *)
LEMMA KeptIfFails ==
    ASSUME NEW s \in ZlintType, NEW r, Leaves(s, r), FailKeeps(s, r.at)
    PROVE  Kept(s, r)
  <1>1. s.at.scan_no \in Nat
    BY DEF ZlintType, ProgressType
  <1>2. IsScan(s) => r.cur # s.cur
    BY TestsAre DEF IsScan, Leaves
  <1> QED BY <1>1, <1>2, BoundsAre DEF Kept, FailKeeps

(* So does a callback that counts no scan.                                 *)
LEMMA KeptIfSame ==
    ASSUME NEW s \in ZlintType, NEW r,
           s.at.no <= 2 => r.at.no <= 2, r.at.scan_no = s.at.scan_no
    PROVE  Kept(s, r)
  <1>1. s.at.scan_no \in Nat
    BY DEF ZlintType, ProgressType
  <1> QED BY <1>1, BoundsAre DEF Kept

(* The counters of search_01 are within its lists or not, whatever the     *)
(* other tests count.                                                      *)
LEMMA SameSearchPart ==
    ASSUME NEW at, NEW old, SearchPart(at) = SearchPart(old),
           SearchBounded(old)
    PROVE  SearchBounded(at)
  BY DEF SearchPart, SearchBounded

(* scan_01 has not been left.                                              *)
ScanAhead(s) == \A i \in TestIds : i < s.cur => Tests[i] # "scan_01"

(* The counters are where the tests can bring them.  scan_01, while it is   *)
(* the current test, has a scan left; it starts from the first one.        *)
CountersOK(s) ==
    /\ s.at.no <= 2 /\ SearchBounded(s.at) /\ s.at.scan_no <= Scans
    /\ IsScan(s) => s.at.scan_no < Scans
    /\ ScanAhead(s) /\ ~IsScan(s) => s.at.scan_no = 0

(* No callback moves a counter elsewhere.                                  *)
LEMMA CountersKept ==
    ASSUME NEW s \in ZlintType, s.cur \in TestIds, CountersOK(s),
           NEW r, Leaves(s, r) \/ r.cur = s.cur,
           Kept(s, r), SearchBounded(r.at)
    PROVE  CountersOK(r)
  <1>1. r.at.no <= 2 /\ r.at.scan_no <= Scans
    BY DEF CountersOK, Kept
  <1>2. CASE r.cur = s.cur
    <2>1. (IsScan(r) <=> IsScan(s)) /\ (ScanAhead(r) <=> ScanAhead(s))
      BY <1>2 DEF IsScan, ScanAhead
    <2> QED BY <1>1, <1>2, <2>1 DEF CountersOK, Kept
  <1>3. CASE r.cur = s.cur + 1
    <2>1. s.cur < r.cur /\ \A i \in TestIds : i < s.cur => i < r.cur
      BY <1>3, TestsAre
    <2>2. ScanAhead(r) => ScanAhead(s) /\ ~IsScan(s)
      BY <2>1 DEF IsScan, ScanAhead
    <2>3. ScanAhead(r) => r.at.scan_no = 0
      BY <2>2 DEF CountersOK, Kept
    <2>4. IsScan(r) => ScanAhead(r)
      BY TestsAre DEF IsScan, ScanAhead
    <2> QED BY <1>1, <2>3, <2>4, BoundsAre DEF CountersOK
  <1> QED BY <1>2, <1>3 DEF Leaves

(* The connection is made.                                                 *)
LEMMA LineIs ==
    ASSUME NEW s \in ZlintType
    PROVE  LET r == [s EXCEPT !.line = "ready"]
           IN /\ r \in ZlintType /\ r.line = "ready" /\ r.due = s.due
              /\ r.cur = s.cur /\ r.at = s.at /\ r.mute = s.mute
              /\ r.fault = s.fault /\ r.printed = s.printed
              /\ r.reported = s.reported /\ r.begun = s.begun
  BY DEF ZlintType

(* An answer arrives or becomes due.                                       *)
LEMMA DueIs ==
    ASSUME NEW s \in ZlintType, NEW due \in Seq(Requests)
    PROVE  LET r == [s EXCEPT !.due = due]
           IN /\ r \in ZlintType /\ r.line = s.line /\ r.due = due
              /\ r.cur = s.cur /\ r.at = s.at /\ r.mute = s.mute
              /\ r.fault = s.fault /\ r.printed = s.printed
              /\ r.reported = s.reported /\ r.begun = s.begun
  BY DEF ZlintType

(* A callback that begins has given no verdict.                            *)
LEMMA QuietIs ==
    ASSUME z \in ZlintType
    PROVE  /\ Quiet \in ZlintType /\ Quiet.line = z.line /\ Quiet.due = z.due
           /\ Quiet.cur = z.cur /\ Quiet.at = z.at /\ Quiet.mute = z.mute
           /\ Quiet.fault = z.fault /\ Quiet.printed = {}
           /\ Quiet.reported = z.reported /\ Quiet.begun = z.begun
  BY DEF Quiet, ZlintType

(* A request that is sent, or cannot be sent.                              *)
LEMMA SendIs ==
    ASSUME NEW s \in ZlintType, s.cur \in TestIds,
           NEW kind \in Requests, NEW accepted \in BOOLEAN
    PROVE  LET r == Send(s, kind, accepted)
           IN /\ \/ /\ Stays(s, r) /\ r.due = Append(s.due, kind)
                    /\ r.at = s.at
                    /\ r.printed = s.printed
                 \/ /\ Leaves(s, r) /\ SearchPart(r.at) = SearchPart(s.at)
                    /\ FailKeeps(s, r.at)
              /\ r.printed \subseteq s.printed \cup {<<s.cur, "Fail">>}
              /\ r.mute = s.mute
  <1>1. CASE accepted
    <2> DEFINE due == Append(s.due, kind)
               r == Send(s, kind, accepted)
    <2>1. due \in Seq(Requests)
      BY DEF ZlintType
    <2>2. r = [s EXCEPT !.due = due]
      BY <1>1 DEF Send
    <2> HIDE DEF due, r
    <2>3. /\ Stays(s, r) /\ r.due = due /\ r.at = s.at
          /\ r.printed = s.printed /\ r.mute = s.mute
      BY <2>1, <2>2, DueIs DEF Stays
    <2> QED BY <2>3 DEF r, due
  <1>2. CASE ~accepted
    <2> DEFINE n == Shutdown(s)
    <2>1. /\ n \in ZlintType /\ n.cur = s.cur /\ n.at = s.at
          /\ n.printed = s.printed /\ n.mute = s.mute /\ n.fault = s.fault
      BY ShutdownIs
    <2>2. Send(s, kind, accepted) = FailNotify(n)
      BY <1>2 DEF Send
    <2> HIDE DEF n
    <2>3. LET r == FailNotify(n)
          IN /\ Leaves(n, r) /\ SearchPart(r.at) = SearchPart(n.at)
             /\ FailKeeps(n, r.at)
             /\ r.printed \subseteq n.printed \cup {<<n.cur, "Fail">>}
             /\ r.mute = n.mute
      BY <2>1, FailNotifyIs
    <2> QED BY <2>1, <2>2, <2>3 DEF Leaves, FailKeeps, IsScan
  <1> QED BY <1>1, <1>2

(* main() adds tests of ten kinds.                                         *)
LEMMA TestNames ==
    ASSUME NEW t \in TestIds
    PROVE  Tests[t] \in {"init_01", "init_02", "init_03", "init_04",
                         "init_05", "init_06", "init_07", "init_08",
                         "search_01", "scan_01"}
  BY TestsAre, ZlintConstants DEF ZlintConstants, TestIds

(* init sends one request, and init_05 two; scan_01 alone names no check.  *)
LEMMA RequestsAre ==
    ASSUME NEW s, s.cur \in TestIds
    PROVE  /\ Current(s).requests = IF Tests[s.cur] = "init_05" THEN 2 ELSE 1
           /\ Current(s).named <=> Tests[s.cur] # "scan_01"
  <1>1. Tests[s.cur] \in {"init_01", "init_02", "init_03", "init_04",
                         "init_05", "init_06", "init_07", "init_08",
                         "search_01", "scan_01"}
    BY TestNames
  <1> QED BY <1>1 DEF Current, Test, Init01, Init02, Init03, Init04, Init05,
                      Init06, Init07, Init08, Search01, Scan01

(* connectNotify: the requests of the test are due, or one of them was not *)
(* accepted.                                                               *)
LEMMA TestInitIs ==
    ASSUME NEW s \in ZlintType, s.cur \in TestIds, s.due = <<>>,
           s.line = "ready", Ahead(s) => Fresh(s), CountersOK(s),
           s.fault = "none", Settled(s), IsScan(s) => ~s.begun, NEW S,
           NEW accepted \in 0 .. Current(s).requests
    PROVE  LET r == Continue(TestInit(s, accepted))
               n == Current(s).requests
           IN /\ r \in ZlintType /\ r.mute = s.mute
              /\ r.fault \in {"none", "test"}
              /\ r.fault = "none" => Sound(r, S)
              /\ CountersOK(r) /\ (r.line # "none" => r.cur \in TestIds)
              /\ accepted = n => Stays(s, r)
  <1> DEFINE n == Current(s).requests
             c == IF Current(s).named THEN CheckFor(s) ELSE s
             r == Continue(TestInit(s, accepted))
  <1>1. /\ c \in ZlintType /\ c.cur = s.cur /\ c.at = s.at /\ c.mute = s.mute
        /\ c.line = s.line /\ c.due = s.due /\ c.fault = s.fault
    BY CheckForIs
  <1>2. n \in 1 .. 2 /\ (IsSearch(s) \/ IsScan(s) => n = 1)
    BY RequestsAre DEF IsSearch, IsScan
  <1>3. c.cur \in TestIds
    BY <1>1
  <1>6. IsScan(s) => c = s /\ ~c.begun
    BY RequestsAre DEF IsScan
  <1>4. CASE accepted = n
    <2> DEFINE due == [i \in 1 .. n |-> "init"]
               x == [c EXCEPT !.due = due]
    <2>1. due \in Seq(Requests)
      <3>1. "init" \in Requests
        BY DEF Requests
      <3> HIDE DEF n
      <3> QED BY <1>2, <3>1
    <2>2. n = 1 => due = <<"init">>
      <3> HIDE DEF n
      <3> QED OBVIOUS
    <2>3. r = x
      BY <1>4 DEF TestInit, Continue, Result
    <2> HIDE DEF due, n, c, r
    <2>4. /\ x \in ZlintType /\ x.due = due /\ x.cur = s.cur /\ x.at = s.at
          /\ x.mute = s.mute /\ x.line = s.line /\ x.fault = s.fault
          /\ x.begun = c.begun
      BY <1>1, <2>1, DueIs
    <2> HIDE DEF x
    <2>5. Stays(s, x)
      BY <2>4 DEF Stays
    <2>6. /\ IsSearch(s) => SearchDue(x)
          /\ IsScan(s) => ScanDue(x)
      BY <1>2, <1>6, <2>2, <2>4, SearchIsAhead DEF SearchDue, ScanDue, Fresh
    <2>7. Sound(x, S)
      BY <2>4, <2>5, <2>6, StaysSound
    <2>8. CountersOK(x)
      BY <2>4 DEF CountersOK, IsScan, ScanAhead
    <2> QED BY <1>4, <2>3, <2>4, <2>5, <2>7, <2>8 DEF Sound, n, r
  <1>5. CASE accepted # n
    <2> DEFINE f == Send(c, "init", FALSE)
               p == Report(f, "Fail")
    <2>1. "init" \in Requests /\ FALSE \in BOOLEAN
      BY DEF Requests
    <2>2. /\ Leaves(s, f) /\ SearchPart(f.at) = SearchPart(s.at)
          /\ f.fault = s.fault /\ FailKeeps(s, f.at) /\ f.mute = s.mute
      <3>1. Send(c, "init", FALSE) = FailNotify(Shutdown(c))
        BY DEF Send
      <3>2. LET d == Shutdown(c)
            IN /\ d \in ZlintType /\ d.cur = s.cur /\ d.at = s.at
               /\ d.mute = s.mute /\ d.fault = s.fault
        BY <1>1, ShutdownIs
      <3>3. LET d == Shutdown(c)
            IN /\ Leaves(d, FailNotify(d))
               /\ SearchPart(FailNotify(d).at) = SearchPart(d.at)
               /\ FailKeeps(d, FailNotify(d).at)
               /\ FailNotify(d).mute = d.mute
        BY <3>2, FailNotifyIs
      <3> HIDE DEF c
      <3> QED BY <3>1, <3>2, <3>3 DEF Leaves, FailKeeps, IsScan
    <2>3. Sound(f, S)
      BY <2>2, LeavesSound
    <2>4. r = CloseGotoNext(p)
      <3>1. TestInit(s, accepted) = Result(p, "finished")
        BY <1>5 DEF TestInit
      <3> HIDE DEF p, r
      <3> QED BY <3>1 DEF Continue, Result, r
    <2> HIDE DEF f, r, c, n
    <2>7. CountersOK(f) /\ f.at.scan_no \in Nat
      <3>1. SearchBounded(f.at)
        BY <2>2, SameSearchPart DEF CountersOK
      <3>2. Kept(s, f)
        BY <2>2, KeptIfFails
      <3> QED BY <2>2, <2>3, <3>1, <3>2, CountersKept
              DEF Stays, Sound, ZlintType, ProgressType
    <2>5. CASE f.cur = NoTest
      <3>1. p = [f EXCEPT !.fault = "test"]
        BY <2>5 DEF Report
      <3>2. /\ p \in ZlintType /\ p.cur = NoTest /\ p.fault = "test"
            /\ p.mute = f.mute /\ p.at = f.at
        BY <2>3, <2>5, <3>1 DEF Sound, ZlintType
      <3> HIDE DEF p
      <3>3. /\ r \in ZlintType /\ r.mute = f.mute /\ r.fault = "test"
            /\ r.cur = NoTest /\ r.line = "none" /\ r.at = f.at
        BY <2>4, <3>2, CloseGotoNextIs
      <3>4. CountersOK(r)
        BY <2>5, <2>7, <3>3 DEF CountersOK, IsScan, ScanAhead
      <3> QED BY <1>5, <2>2, <3>3, <3>4 DEF n, r
    <2>6. CASE f.cur # NoTest
      <3>1. "Fail" \in Verdicts /\ f \in ZlintType /\ f.cur \in TestIds
        BY <2>3, <2>6, TestsAre DEF Verdicts, Sound, ZlintType
      <3>2. /\ p \in ZlintType /\ p.reported /\ p.cur = f.cur
            /\ p.mute = f.mute /\ p.at = f.at /\ p.fault = f.fault
        BY <2>6, <3>1, ReportIs
      <3> HIDE DEF p
      <3>3. Leaves(f, r) /\ r.at = f.at /\ r.mute = f.mute
        BY <2>3, <2>4, <2>6, <3>1, <3>2, CloseGotoNextIs DEF Leaves, Sound
      <3>4. Ahead(f) /\ ~IsSearch(f) => Fresh(f)
        BY <2>3 DEF Sound, SearchOK
      <3>5. Sound(r, S)
        BY <3>1, <3>3, <3>4, LeavesSound
      <3>6. Kept(f, r)
        BY <3>1, <3>3, KeptIfSame
      <3>7. SearchBounded(r.at)
        BY <2>7, <3>3 DEF CountersOK
      <3>8. CountersOK(r)
        BY <2>7, <3>1, <3>3, <3>6, <3>7, CountersKept DEF Stays
      <3>9. r.fault = "none"
        BY <2>2, <3>3 DEF Leaves
      <3> QED BY <1>5, <2>2, <3>3, <3>5, <3>8, <3>9 DEF Sound, n, r
    <2> QED BY <2>5, <2>6
  <1> QED BY <1>4, <1>5

(* The tests with one initResponse to judge.                               *)
InitTests == {"init_01", "init_02", "init_03", "init_04", "init_06",
              "init_07", "init_08"}

(* The version that is found is the number of bits from 0 on.              *)
LEMMA VersionIs ==
    ASSUME NEW a, a.version \in SUBSET (0 .. 11)
    PROVE  /\ GetVersion(a) \in 0 .. 12
           /\ \A v \in 0 .. 12 : Announces(a, v) <=> v <= GetVersion(a)
  <1> DEFINE T == {b \in 0 .. 12 : b \notin a.version}
             n == GetVersion(a)
  <1>1. 12 \in T /\ T \subseteq 0 .. 12
    OBVIOUS
  <1>2. n \in T /\ \A b \in T : n <= b
    <2>1. T \in SUBSET Nat /\ T # {}
      BY <1>1
    <2>2. \E x \in T : \A y \in T : x <= y
      BY <2>1, LeastNatural
    <2>3. n = CHOOSE x \in T : \A y \in T : x =< y
      BY DEF GetVersion, Min
    <2> HIDE DEF T, n
    <2> QED BY <2>2, <2>3
  <1> HIDE DEF n
  <1>3. ASSUME NEW v \in 0 .. 12
        PROVE  Announces(a, v) <=> v <= n
    <2>1. CASE v <= n
      <3>1. \A b \in 0 .. v - 1 : b \in a.version
        BY <1>1, <1>2, <2>1
      <3> QED BY <2>1, <3>1 DEF Announces
    <2>2. CASE ~(v <= n)
      <3>1. n \in 0 .. v - 1 /\ n \notin a.version
        BY <1>1, <1>2, <2>2
      <3> QED BY <2>2, <3>1 DEF Announces
    <2> QED BY <2>1, <2>2
  <1> QED BY <1>1, <1>2, <1>3 DEF n

(* A verdict that may be preceded by "Fail".                               *)
LEMMA WhenThen ==
    ASSUME NEW c \in BOOLEAN, NEW v \in Verdicts
    PROVE  When(c, "Fail") \o <<v>> = IF c THEN <<"Fail", v>> ELSE <<v>>
  <1>1. <<"Fail">> \o <<v>> = <<"Fail", v>>
    <2>1. "Fail" \in Verdicts
      BY DEF Verdicts
    <2> QED BY <2>1, TwoAre
  <1>2. <<>> \o <<v>> = <<v>>
    OBVIOUS
  <1>3. CASE c
    BY <1>1, <1>3 DEF When
  <1>4. CASE ~c
    BY <1>2, <1>4 DEF When
  <1> QED BY <1>3, <1>4

(* The verdicts on an initResponse: one, or "Fail" and one that is ignored.*)
OneVerdict(vs) ==
    \E v \in Verdicts : vs = <<v>> \/ vs = <<"Fail", v>>

(* What an init test says of an initResponse: a lone "OK" is said only of  *)
(* one that is what the test checks for.                                   *)
LEMMA VerdictsAre ==
    ASSUME NEW s, s.cur \in TestIds, Tests[s.cur] \in InitTests,
           NEW a \in InitAnswers
    PROVE  LET vs == Current(s).verdicts[a]
           IN OneVerdict(vs) /\ (vs = <<"OK">> => Meets(s, a))
  <1>1. /\ a.version \in SUBSET (0 .. 11) /\ a.options \in SUBSET (0 .. 24)
        /\ a.result \in BOOLEAN /\ a.charset \in BOOLEAN
        /\ a.oversized \in BOOLEAN
    BY ZlintConstants DEF ZlintConstants
  <1> DEFINE n == GetVersion(a)
             vs == Current(s).verdicts[a]
  <1>2. /\ n \in 0 .. 12
        /\ \A v \in 0 .. 12 : Announces(a, v) <=> v <= n
    BY <1>1, VersionIs
  <1> HIDE DEF n
  <1>3. /\ "OK" \in Verdicts /\ "Fail" \in Verdicts
        /\ "Unsupported" \in Verdicts
    BY DEF Verdicts
  <1>4. ASSUME NEW c \in BOOLEAN, NEW v \in Verdicts,
               vs = When(c, "Fail") \o <<v>>
        PROVE  OneVerdict(vs) /\ (vs = <<"OK">> => ~c /\ v = "OK")
    <2>1. vs = IF c THEN <<"Fail", v>> ELSE <<v>>
      BY <1>4, WhenThen
    <2> HIDE DEF vs
    <2>2. OneVerdict(vs)
      BY <2>1 DEF OneVerdict
    <2> QED BY <2>1, <2>2
  <1>5. ASSUME NEW v \in Verdicts, vs = <<v>>
        PROVE  OneVerdict(vs) /\ (vs = <<"OK">> => v = "OK")
    <2> HIDE DEF vs
    <2> QED BY <1>5 DEF OneVerdict
  <1>6. CASE Tests[s.cur] = "init_01"
    <2>1. vs = When(n \notin 2 .. 3, "Fail")
               \o <<IF a.result THEN "OK" ELSE "Fail">>
      BY <1>6 DEF Current, Test, Init01, n
    <2>2. (n \notin 2 .. 3) \in BOOLEAN
          /\ (IF a.result THEN "OK" ELSE "Fail") \in Verdicts
      BY <1>3
    <2> HIDE DEF vs
    <2>3. /\ OneVerdict(vs)
          /\ vs = <<"OK">> => n \in 2 .. 3 /\ a.result
      BY <1>4, <2>1, <2>2 DEF vs
    <2> QED BY <1>2, <1>6, <2>3 DEF Meets, vs
  <1>7. CASE Tests[s.cur] = "init_02"
    <2>1. vs = When(n # 2, "Fail") \o <<"OK">>
      BY <1>7 DEF Current, Test, Init02, n
    <2>2. (n # 2) \in BOOLEAN
      OBVIOUS
    <2> HIDE DEF vs
    <2>3. OneVerdict(vs) /\ (vs = <<"OK">> => n = 2)
      BY <1>3, <1>4, <2>1, <2>2 DEF vs
    <2> QED BY <1>2, <1>7, <2>3 DEF Meets, vs
  <1>8. CASE Tests[s.cur] = "init_03"
    <2>1. vs = When(n \notin 2 .. 5, "Fail") \o <<"OK">>
      BY <1>8 DEF Current, Test, Init03, n
    <2>2. (n \notin 2 .. 5) \in BOOLEAN
      OBVIOUS
    <2> HIDE DEF vs
    <2>3. OneVerdict(vs) /\ (vs = <<"OK">> => n \in 2 .. 5)
      BY <1>3, <1>4, <2>1, <2>2 DEF vs
    <2> QED BY <1>2, <1>8, <2>3 DEF Meets, vs
  <1>9. CASE Tests[s.cur] = "init_04"
    <2>1. vs = When(a.referenceId # "first", "Fail") \o <<"OK">>
      BY <1>9 DEF Current, Test, Init04
    <2>2. (a.referenceId # "first") \in BOOLEAN
      OBVIOUS
    <2> HIDE DEF vs
    <2>3. OneVerdict(vs) /\ (vs = <<"OK">> => a.referenceId = "first")
      BY <1>3, <1>4, <2>1, <2>2 DEF vs
    <2> QED BY <1>9, <2>3 DEF Meets, vs
  <1>10. CASE Tests[s.cur] = "init_06"
    <2> DEFINE fits06 == Cardinality(a.options) \in 2 .. 24
    <2>1. vs = <<IF fits06 THEN "OK" ELSE "Fail">>
      BY <1>10 DEF Current, Test, Init06
    <2>2. fits06 => a.options # 0 .. 24 /\ Cardinality(a.options) > 1
      <3>1. Cardinality(0 .. 24) = 25
        <4>1. ASSUME NEW i \in Int, NEW j \in Int, i <= j
              PROVE  Cardinality(i .. j) = j - i + 1
          BY <4>1, FS_Interval
        <4> DEFINE first == 0
                   last == 24
        <4>2. /\ first \in Int /\ last \in Int /\ first <= last
              /\ last - first + 1 = 25
          OBVIOUS
        <4> HIDE DEF first, last
        <4>3. Cardinality(first .. last) = 25
          BY <4>1, <4>2
        <4> QED BY <4>3 DEF first, last
      <3> QED BY <3>1
    <2> HIDE DEF vs, fits06
    <2>3. OneVerdict(vs) /\ (vs = <<"OK">> => fits06)
      BY <1>3, <1>5, <2>1 DEF vs
    <2> QED BY <1>10, <2>2, <2>3 DEF Meets, vs
  <1>11. CASE Tests[s.cur] = "init_07"
    <2> DEFINE yes == NegotiationOption \in a.options /\ a.charset
    <2>1. vs = <<IF yes THEN "OK" ELSE "Unsupported">>
      BY <1>11 DEF Current, Test, Init07
    <2> HIDE DEF vs, yes
    <2>2. OneVerdict(vs) /\ (vs = <<"OK">> => yes)
      BY <1>3, <1>5, <2>1 DEF vs
    <2> QED BY <1>11, <2>2 DEF Meets, vs, yes
  <1>12. CASE Tests[s.cur] = "init_08"
    <2>1. vs = When(a.oversized, "Fail") \o <<"OK">>
      BY <1>12 DEF Current, Test, Init08
    <2> HIDE DEF vs
    <2>2. OneVerdict(vs) /\ (vs = <<"OK">> => ~a.oversized)
      BY <1>1, <1>3, <1>4, <2>1 DEF vs
    <2> QED BY <1>12, <2>2 DEF Meets, vs
  <1> QED BY <1>6, <1>7, <1>8, <1>9, <1>10, <1>11, <1>12 DEF InitTests

(* The first of two verdicts stands, so that "OK" is reported only if it   *)
(* was the only one.                                                       *)
LEMMA ReportAllIs ==
    ASSUME NEW s \in ZlintType, s.cur \in TestIds, s.printed = {},
           NEW vs, OneVerdict(vs)
    PROVE  LET r == ReportAll(s, vs)
           IN /\ r \in ZlintType /\ r.reported
              /\ r.cur = s.cur /\ r.at = s.at /\ r.mute = s.mute
              /\ r.line = s.line /\ r.due = s.due /\ r.fault = s.fault
              /\ \A t : <<t, "OK">> \in r.printed => vs = <<"OK">>
  <1>1. s.cur # NoTest /\ "Fail" \in Verdicts
    BY TestsAre DEF Verdicts
  <1>2. PICK v \in Verdicts : vs = <<v>> \/ vs = <<"Fail", v>>
    BY DEF OneVerdict
  <1>3. CASE vs = <<v>>
    <2>1. ReportAll(s, vs) = Report(s, v)
      BY <1>3 DEF ReportAll
    <2>2. /\ \A t : <<t, "OK">> \in {<<s.cur, v>>} => v = "OK"
      OBVIOUS
    <2> QED BY <1>1, <1>3, <2>1, <2>2, ReportIs
  <1>4. CASE vs = <<"Fail", v>>
    <2> DEFINE p == Report(s, "Fail")
    <2>1. ReportAll(s, vs) = Report(p, v)
      BY <1>4 DEF ReportAll
    <2>2. /\ p \in ZlintType /\ p.reported
          /\ p.cur = s.cur /\ p.at = s.at /\ p.mute = s.mute
          /\ p.line = s.line /\ p.due = s.due /\ p.fault = s.fault
          /\ p.printed \subseteq {<<s.cur, "Fail">>}
      BY <1>1, ReportIs
    <2> HIDE DEF p
    <2>3. Report(p, v) = p
      BY <1>1, <2>2 DEF Report
    <2>4. \A t : <<t, "OK">> \notin p.printed
      BY <2>2
    <2> QED BY <2>1, <2>2, <2>3, <2>4
  <1> QED BY <1>2, <1>3, <1>4

(* The two parts of what a test returns.                                   *)
LEMMA ResultIs ==
    ASSUME NEW s, NEW code
    PROVE  Result(s, code).s = s /\ Result(s, code).code = code
  BY DEF Result

(* TEST_CONTINUE does nothing more.                                        *)
LEMMA GoesOn ==
    ASSUME NEW s
    PROVE  Continue(Result(s, "continue")) = s
  BY DEF Continue, Result

(* A test that ends with a verdict.                                        *)
LEMMA EndsWith ==
    ASSUME NEW s \in ZlintType, s.cur \in TestIds,
           NEW v \in Verdicts
    PROVE  LET r == Continue(Result(Report(s, v), "finished"))
           IN /\ Leaves(s, r) /\ r.at = s.at /\ r.mute = s.mute
              /\ r.printed \subseteq s.printed \cup {<<s.cur, v>>}
  <1> DEFINE p == Report(s, v)
  <1>1. s.cur # NoTest
    BY TestsAre
  <1>2. /\ p \in ZlintType /\ p.reported
        /\ p.cur = s.cur /\ p.at = s.at /\ p.mute = s.mute
        /\ p.fault = s.fault
        /\ p.printed \subseteq s.printed \cup {<<s.cur, v>>}
    BY <1>1, ReportIs
  <1> HIDE DEF p
  <1>3. LET r == Continue(Result(p, "finished"))
        IN /\ Leaves(p, r) /\ r.at = p.at /\ r.printed = p.printed
           /\ r.mute = p.mute
    BY <1>2, ContinueIs
  <1> QED BY <1>2, <1>3 DEF Leaves, p

(* recv_gdu of the init tests.                                             *)
LEMMA InitRecvIs ==
    ASSUME NEW s \in ZlintType, s.cur \in TestIds, s.printed = {},
           Tests[s.cur] \notin {"search_01", "scan_01"},
           NEW a \in Answers, NEW accepted \in BOOLEAN
    PROVE  LET r == Continue(TestRecv(s, a, accepted))
               fit == a.kind = "init" /\ Meets(s, a)
           IN /\ SearchPart(r.at) = SearchPart(s.at) /\ Kept(s, r)
              /\ r.mute = s.mute
              /\ Leaves(s, r) \/ (Stays(s, r) /\ fit)
              /\ \A t : <<t, "OK">> \in r.printed => fit
  <1> DEFINE r == Continue(TestRecv(s, a, accepted))
             fit == a.kind = "init" /\ Meets(s, a)
             Good == /\ SearchPart(r.at) = SearchPart(s.at) /\ Kept(s, r)
                     /\ r.mute = s.mute
                     /\ Leaves(s, r) \/ (Stays(s, r) /\ fit)
                     /\ \A t : <<t, "OK">> \in r.printed => fit
  <1> SUFFICES Good
    OBVIOUS
  <1>1. "Fail" \in Verdicts /\ "OK" \in Verdicts
    BY DEF Verdicts
  <1>2. ASSUME NEW v \in Verdicts, v = "OK" => fit,
               TestRecv(s, a, accepted) = Result(Report(s, v), "finished")
        PROVE  Good
    <2> HIDE DEF fit
    <2>1. /\ Leaves(s, r) /\ r.at = s.at /\ r.mute = s.mute
          /\ r.printed \subseteq {<<s.cur, v>>}
      BY <1>2, EndsWith
    <2> HIDE DEF r
    <2>2. \A t : <<t, "OK">> \in r.printed => v = "OK"
      BY <2>1
    <2>3. Kept(s, r)
      BY <2>1, KeptIfSame
    <2> QED BY <1>2, <2>1, <2>2, <2>3
  <1>3. CASE a.kind # "init"
    <2>1. TestRecv(s, a, accepted) = Result(Report(s, "Fail"), "finished")
      BY <1>3 DEF TestRecv
    <2> HIDE DEF Good
    <2> QED BY <1>1, <1>2, <2>1
  <1>4. CASE a.kind = "init" /\ Tests[s.cur] = "init_05"
    <2>1. TestRecv(s, a, accepted) = RecvInit05(s, a)
      BY <1>4 DEF TestRecv
    <2>2. CASE s.at.init_response_no = 0 /\ a.referenceId = "first" /\ a.result
      <3> DEFINE at == [s.at EXCEPT !.init_response_no = 1]
                 n == [s EXCEPT !.at = at]
      <3>1. /\ at \in ProgressType /\ SearchPart(at) = SearchPart(s.at)
            /\ at.no = s.at.no /\ at.scan_no = s.at.scan_no
        BY DEF ZlintType, ProgressType, SearchPart
      <3>2. TestRecv(s, a, accepted) = Result(n, "continue")
        BY <2>1, <2>2 DEF RecvInit05
      <3> HIDE DEF at
      <3>3. /\ n \in ZlintType /\ n.at = at /\ n.line = s.line
            /\ n.cur = s.cur /\ n.mute = s.mute /\ n.fault = s.fault
            /\ n.printed = s.printed
        BY <3>1, AtIs
      <3> HIDE DEF n
      <3>4. r = n
        BY <3>2, GoesOn
      <3>5. fit
        BY <1>4, <2>2 DEF Meets
      <3> HIDE DEF r, fit
      <3>6. /\ Stays(s, r) /\ SearchPart(r.at) = SearchPart(s.at)
            /\ r.mute = s.mute
        BY <3>1, <3>3, <3>4 DEF Stays
      <3>7. Kept(s, r)
        BY <3>1, <3>3, <3>4, KeptIfSame
      <3> QED BY <3>5, <3>6, <3>7
    <2>3. CASE /\ s.at.init_response_no = 0
               /\ ~(a.referenceId = "first" /\ a.result)
      <3>1. TestRecv(s, a, accepted) = Result(Report(s, "Fail"), "finished")
        BY <2>1, <2>3 DEF RecvInit05
      <3> HIDE DEF Good
      <3> QED BY <1>1, <1>2, <3>1
    <2>4. CASE s.at.init_response_no # 0
      <3> DEFINE v == IF a.referenceId = "second" /\ a.result
                      THEN "OK" ELSE "Fail"
      <3>1. TestRecv(s, a, accepted) = Result(Report(s, v), "finished")
        BY <2>1, <2>4 DEF RecvInit05
      <3>2. v \in Verdicts
        BY <1>1
      <3>3. v = "OK" => fit
        BY <1>4, <2>4 DEF Meets
      <3> HIDE DEF v, fit, Good
      <3> QED BY <1>2, <3>1, <3>2, <3>3
    <2> QED BY <2>2, <2>3, <2>4
  <1>5. CASE a.kind = "init" /\ Tests[s.cur] # "init_05"
    <2>1. Tests[s.cur] \in InitTests
      BY <1>5, TestNames DEF InitTests
    <2>2. a \in InitAnswers
      BY <1>5 DEF Answers
    <2> DEFINE vs == Current(s).verdicts[a]
               p == ReportAll(s, vs)
    <2>3. OneVerdict(vs) /\ (vs = <<"OK">> => Meets(s, a))
      BY <2>1, <2>2, VerdictsAre
    <2>4. TestRecv(s, a, accepted) = RecvInit(s, a)
      BY <1>5 DEF TestRecv
    <2> HIDE DEF vs
    <2>5. /\ p \in ZlintType /\ p.reported
          /\ p.cur = s.cur /\ p.at = s.at /\ p.mute = s.mute
          /\ p.line = s.line /\ p.due = s.due /\ p.fault = s.fault
          /\ \A t : <<t, "OK">> \in p.printed => vs = <<"OK">>
      BY <2>3, ReportAllIs
    <2> HIDE DEF p
    <2> DEFINE no == [p.at EXCEPT !.no = @ + 1]
               n == [p EXCEPT !.at = no]
    <2>6. /\ no \in ProgressType /\ SearchPart(no) = SearchPart(s.at)
          /\ no.no = s.at.no + 1 /\ no.scan_no = s.at.scan_no
      <3>1. p.at \in ProgressType
        BY <2>5 DEF ZlintType
      <3>2. /\ no \in ProgressType /\ SearchPart(no) = SearchPart(p.at)
            /\ no.no = p.at.no + 1 /\ no.scan_no = p.at.scan_no
        BY <3>1 DEF ProgressType, SearchPart
      <3> QED BY <2>5, <3>2
    <2>7. \/ TestRecv(s, a, accepted) = Result(p, "finished")
          \/ /\ Tests[s.cur] = "init_08" /\ s.at.no < 2
             /\ TestRecv(s, a, accepted) = Result(n, "reopen")
      BY <2>4 DEF RecvInit, p, vs
    <2> HIDE DEF no
    <2>8. CASE TestRecv(s, a, accepted) = Result(p, "finished")
      <3>1. /\ Leaves(p, r) /\ r.at = p.at /\ r.printed = p.printed
            /\ r.mute = p.mute
        BY <2>5, <2>8, ContinueIs
      <3> HIDE DEF r
      <3>2. Kept(s, r)
        BY <2>5, <3>1, KeptIfSame
      <3> QED BY <1>5, <2>3, <2>5, <3>1, <3>2 DEF Leaves
    <2>9. CASE /\ Tests[s.cur] = "init_08" /\ s.at.no < 2
               /\ TestRecv(s, a, accepted) = Result(n, "reopen")
      <3>1. /\ n \in ZlintType /\ n.at = no /\ n.reported
            /\ n.cur = s.cur /\ n.mute = s.mute /\ n.fault = s.fault
            /\ n.printed = p.printed
        BY <2>5, <2>6, AtIs
      <3>2. TestRecv(s, a, accepted) = Result(n, "reopen")
        BY <2>9
      <3> HIDE DEF n
      <3>3. /\ Leaves(n, r) /\ r.at = n.at /\ r.printed = n.printed
            /\ r.mute = n.mute
        BY <2>9, <3>1, <3>2, ContinueIs
      <3> HIDE DEF r
      <3>4. s.at.no \in Nat
        BY DEF ZlintType, ProgressType
      <3>5. Kept(s, r)
        BY <2>6, <2>9, <3>1, <3>3, <3>4, KeptIfSame
      <3> QED BY <1>5, <2>3, <2>5, <2>6, <3>1, <3>3, <3>5 DEF Leaves
    <2> QED BY <2>7, <2>8, <2>9
  <1> QED BY <1>3, <1>4, <1>5

(* The verdicts of the callback are on the test that it began with.        *)
OnlyOn(s, r) == \A t, v : <<t, v>> \in r.printed => t = s.cur

(* What search_01 looks at when it sends the next request, if it has been  *)
(* sent no stray.                                                          *)
SearchReady(s) ==
    \/ /\ ~s.at.got_result_set /\ s.at.query_no <= Queries
       /\ s.at.syntax_no = 0 /\ s.at.sort_no = 0
    \/ /\ s.at.got_result_set /\ s.at.syntax_no <= Syntaxes
       /\ s.at.sort_no = 0 /\ s.reported
    \/ /\ s.at.got_result_set /\ s.at.syntax_no = Syntaxes
       /\ s.at.sort_no <= Sorts /\ s.reported

(* A test that asks for more: the request is out, or the test is left.     *)
LEMMA SendOn ==
    ASSUME NEW s \in ZlintType, s.cur \in TestIds,
           OnlyOn(s, s), NEW kind \in Requests, NEW accepted \in BOOLEAN
    PROVE  LET r == Send(s, kind, accepted)
           IN /\ \/ Stays(s, r) /\ r.due = Append(s.due, kind) /\ r.at = s.at
                 \/ /\ Leaves(s, r) /\ SearchPart(r.at) = SearchPart(s.at)
                    /\ FailKeeps(s, r.at)
              /\ OnlyOn(s, r) /\ r.mute = s.mute
  <1> DEFINE r == Send(s, kind, accepted)
  <1>1. /\ \/ Stays(s, r) /\ r.due = Append(s.due, kind) /\ r.at = s.at
           \/ /\ Leaves(s, r) /\ SearchPart(r.at) = SearchPart(s.at)
              /\ FailKeeps(s, r.at)
        /\ r.printed \subseteq s.printed \cup {<<s.cur, "Fail">>}
        /\ r.mute = s.mute
    BY SendIs
  <1> HIDE DEF r
  <1>2. OnlyOn(s, r)
    BY <1>1 DEF OnlyOn
  <1> QED BY <1>1, <1>2 DEF r

(* The same for a test that names its next check first.  If the last one   *)
(* had its verdict, so has this one when the test is left.                 *)
LEMMA CheckForOn ==
    ASSUME NEW s \in ZlintType, s.cur \in TestIds,
           OnlyOn(s, s), NEW kind \in Requests, NEW accepted \in BOOLEAN
    PROVE  LET r == Send(CheckFor(s), kind, accepted)
           IN /\ \/ Stays(s, r) /\ r.due = Append(s.due, kind) /\ r.at = s.at
                 \/ /\ Leaves(s, r) /\ SearchPart(r.at) = SearchPart(s.at)
                    /\ FailKeeps(s, r.at)
              /\ OnlyOn(s, r) /\ Mutes(s, r)
              /\ Settled(s) => r.mute = s.mute
  <1> DEFINE c == CheckFor(s)
  <1>1. /\ c \in ZlintType /\ c.line = s.line /\ c.due = s.due
        /\ c.cur = s.cur /\ c.at = s.at
        /\ c.fault = s.fault /\ c.printed = s.printed
        /\ Mutes(s, c) /\ (Settled(s) => c.mute = s.mute)
    BY CheckForIs
  <1> HIDE DEF c
  <1>2. OnlyOn(c, c)
    BY <1>1 DEF OnlyOn
  <1>3. LET r == Send(c, kind, accepted)
        IN /\ \/ Stays(c, r) /\ r.due = Append(c.due, kind) /\ r.at = c.at
              \/ /\ Leaves(c, r) /\ SearchPart(r.at) = SearchPart(c.at)
                 /\ FailKeeps(c, r.at)
           /\ OnlyOn(c, r) /\ r.mute = c.mute
    BY <1>1, <1>2, SendOn
  <1> QED BY <1>1, <1>3 DEF Stays, Leaves, OnlyOn, FailKeeps,
                          IsScan, Mutes, c

(* A test that ends with a verdict says it of itself.                      *)
LEMMA EndsOn ==
    ASSUME NEW s \in ZlintType, s.cur \in TestIds, OnlyOn(s, s),
           NEW v \in Verdicts
    PROVE  LET r == Continue(Result(Report(s, v), "finished"))
           IN /\ Leaves(s, r) /\ r.at = s.at
              /\ OnlyOn(s, r) /\ r.mute = s.mute
  <1> DEFINE r == Continue(Result(Report(s, v), "finished"))
  <1>1. /\ Leaves(s, r) /\ r.at = s.at /\ r.mute = s.mute
        /\ r.printed \subseteq s.printed \cup {<<s.cur, v>>}
    BY EndsWith
  <1> HIDE DEF r
  <1>2. OnlyOn(s, r)
    BY <1>1 DEF OnlyOn
  <1> QED BY <1>1, <1>2 DEF r

(* The program stops in the middle of the test.                            *)
Stops(s, r, what) ==
    /\ r \in ZlintType /\ r.fault = what
    /\ r.cur = s.cur /\ r.line = s.line

(* A fault touches nothing of the test.                                    *)
LEMMA FaultIs ==
    ASSUME NEW s \in ZlintType, NEW what \in {"part", "item"}
    PROVE  LET r == Continue(Fault(s, what))
           IN /\ Stops(s, r, what) /\ r.at = s.at
              /\ r.printed = s.printed /\ r.mute = s.mute
  <1>1. Continue(Fault(s, what)) = [s EXCEPT !.fault = what]
    BY DEF Continue, Fault, Result
  <1> QED BY <1>1 DEF Stops, ZlintType

(* sendTest of search_01: the next request is out, or the test ends, or    *)
(* its position is past a list.  The last is for strays only, and so is an *)
(* end without a verdict.                                                  *)
LEMMA SendSearchIs ==
    ASSUME NEW s \in ZlintType, s.cur \in TestIds, OnlyOn(s, s),
           NEW accepted \in BOOLEAN
    PROVE  LET r == Continue(SendSearch(s, accepted))
           IN /\ OnlyOn(s, r) /\ SearchPart(r.at) = SearchPart(s.at)
              /\ Kept(s, r) /\ Mutes(s, r)
              /\ Leaves(s, r) \/ Stays(s, r) \/ Stops(s, r, "item")
              /\ s.due = <<>> /\ SearchReady(s) =>
                   /\ r.mute = s.mute
                   /\ Leaves(s, r) \/ (Stays(s, r) /\ SearchDue(r))
  <1> DEFINE r == Continue(SendSearch(s, accepted))
             Good == /\ OnlyOn(s, r) /\ SearchPart(r.at) = SearchPart(s.at)
                     /\ Kept(s, r) /\ Mutes(s, r)
                     /\ Leaves(s, r) \/ Stays(s, r) \/ Stops(s, r, "item")
                     /\ s.due = <<>> /\ SearchReady(s) =>
                          /\ r.mute = s.mute
                          /\ Leaves(s, r) \/ (Stays(s, r) /\ SearchDue(r))
  <1> SUFFICES Good
    OBVIOUS
  <1>1. /\ {"search", "present", "sort"} \subseteq Requests
        /\ "Unsupported" \in Verdicts
    BY DEF Requests, Verdicts
  <1>2. /\ s.at.got_result_set \in BOOLEAN /\ s.at.query_no \in Nat
        /\ s.at.syntax_no \in Nat /\ s.at.sort_no \in Nat
    BY DEF ZlintType, ProgressType
  <1>8. ASSUME NEW kind \in Requests, s.due = <<>>
        PROVE  Append(s.due, kind) = <<kind>>
    BY <1>8
  <1>3. CASE ~s.at.got_result_set /\ s.at.query_no < Queries
    <2>1. SendSearch(s, accepted)
            = Result(Send(s, "search", accepted), "continue")
      BY <1>2, <1>3, BoundsAre DEF SendSearch
    <2>2. r = Send(s, "search", accepted)
      BY <2>1, GoesOn
    <2> HIDE DEF r
    <2>3. /\ \/ /\ Stays(s, r) /\ r.due = Append(s.due, "search")
                /\ r.at = s.at
             \/ /\ Leaves(s, r) /\ SearchPart(r.at) = SearchPart(s.at)
                /\ FailKeeps(s, r.at)
          /\ OnlyOn(s, r) /\ r.mute = s.mute
      BY <1>1, <2>2, SendOn
    <2>4. Kept(s, r) /\ Mutes(s, r)
      BY <2>3, KeptIfFails, KeptIfSame DEF Mutes
    <2>5. s.due = <<>> => Append(s.due, "search") = <<"search">>
      BY <1>1, <1>8
    <2>6. SearchReady(s) => s.at.syntax_no = 0 /\ s.at.sort_no = 0
      BY <1>3 DEF SearchReady
    <2> QED BY <1>3, <2>3, <2>4, <2>5, <2>6 DEF SearchDue
  <1>4. CASE ~s.at.got_result_set /\ s.at.query_no = Queries
    <2>1. SendSearch(s, accepted)
            = Result(Report(s, "Unsupported"), "finished")
      BY <1>2, <1>4, BoundsAre DEF SendSearch
    <2>2. r = Continue(Result(Report(s, "Unsupported"), "finished"))
      BY <2>1
    <2> HIDE DEF r
    <2>3. /\ Leaves(s, r) /\ r.at = s.at /\ OnlyOn(s, r)
          /\ r.mute = s.mute
      BY <1>1, <2>2, EndsOn
    <2>4. Kept(s, r) /\ Mutes(s, r)
      BY <2>3, KeptIfSame DEF Mutes
    <2> QED BY <2>3, <2>4
  <1>5. CASE s.at.got_result_set /\ s.at.syntax_no < Syntaxes
    <2>1. SendSearch(s, accepted)
            = Result(Send(CheckFor(s), "present", accepted), "continue")
      BY <1>2, <1>5, BoundsAre DEF SendSearch
    <2>2. r = Send(CheckFor(s), "present", accepted)
      BY <2>1, GoesOn
    <2> HIDE DEF r
    <2>3. /\ \/ /\ Stays(s, r) /\ r.due = Append(s.due, "present")
                /\ r.at = s.at
             \/ /\ Leaves(s, r) /\ SearchPart(r.at) = SearchPart(s.at)
                /\ FailKeeps(s, r.at)
          /\ OnlyOn(s, r) /\ Mutes(s, r) /\ (Settled(s) => r.mute = s.mute)
      BY <1>1, <2>2, CheckForOn
    <2>4. Kept(s, r)
      BY <2>3, KeptIfFails, KeptIfSame
    <2>5. s.due = <<>> => Append(s.due, "present") = <<"present">>
      BY <1>1, <1>8
    <2>6. SearchReady(s) => s.at.sort_no = 0 /\ s.reported
      BY <1>2, <1>5, BoundsAre DEF SearchReady
    <2> QED BY <1>5, <2>3, <2>4, <2>5, <2>6 DEF SearchDue, Settled
  <1>6. CASE /\ s.at.got_result_set /\ s.at.syntax_no = Syntaxes
             /\ s.at.sort_no < Sorts
    <2>1. SendSearch(s, accepted)
            = Result(Send(CheckFor(s), "sort", accepted), "continue")
      BY <1>2, <1>6, BoundsAre DEF SendSearch
    <2>2. r = Send(CheckFor(s), "sort", accepted)
      BY <2>1, GoesOn
    <2> HIDE DEF r
    <2>3. /\ \/ /\ Stays(s, r) /\ r.due = Append(s.due, "sort")
                /\ r.at = s.at
             \/ /\ Leaves(s, r) /\ SearchPart(r.at) = SearchPart(s.at)
                /\ FailKeeps(s, r.at)
          /\ OnlyOn(s, r) /\ Mutes(s, r) /\ (Settled(s) => r.mute = s.mute)
      BY <1>1, <2>2, CheckForOn
    <2>4. Kept(s, r)
      BY <2>3, KeptIfFails, KeptIfSame
    <2>5. s.due = <<>> => Append(s.due, "sort") = <<"sort">>
      BY <1>1, <1>8
    <2>6. SearchReady(s) => s.reported
      BY <1>6 DEF SearchReady
    <2> QED BY <1>6, <2>3, <2>4, <2>5, <2>6 DEF SearchDue, Settled
  <1>7. CASE /\ s.at.got_result_set /\ s.at.syntax_no = Syntaxes
             /\ s.at.sort_no = Sorts
    <2>1. SendSearch(s, accepted) = Result(s, "finished")
      BY <1>2, <1>7, BoundsAre DEF SendSearch
    <2>2. r = Continue(Result(s, "finished"))
      BY <2>1
    <2> HIDE DEF r
    <2>3. /\ Leaves(s, r) /\ r.at = s.at /\ r.printed = s.printed
          /\ Mutes(s, r) /\ (s.reported => r.mute = s.mute)
      BY <2>2, ContinueIs
    <2>4. Kept(s, r)
      BY <2>3, KeptIfSame
    <2>5. SearchReady(s) => s.reported
      BY <1>7 DEF SearchReady
    <2> QED BY <2>3, <2>4, <2>5 DEF OnlyOn
  <1>9. CASE \/ ~s.at.got_result_set /\ s.at.query_no > Queries
             \/ s.at.got_result_set /\ s.at.syntax_no > Syntaxes
             \/ /\ s.at.got_result_set /\ s.at.syntax_no = Syntaxes
                /\ s.at.sort_no > Sorts
    <2>1. SendSearch(s, accepted) = Fault(s, "item")
      BY <1>2, <1>9, BoundsAre DEF SendSearch
    <2>2. r = Continue(Fault(s, "item"))
      BY <2>1
    <2> HIDE DEF r
    <2>3. /\ Stops(s, r, "item") /\ r.at = s.at
          /\ r.printed = s.printed /\ r.mute = s.mute
      BY <2>2, FaultIs
    <2>4. Kept(s, r) /\ Mutes(s, r) /\ OnlyOn(s, r)
      BY <2>3, KeptIfSame DEF Mutes, OnlyOn
    <2>5. ~SearchReady(s)
      BY <1>2, <1>9, BoundsAre DEF SearchReady
    <2> QED BY <2>3, <2>4, <2>5
  <1> HIDE DEF Good
  <1> QED BY <1>2, <1>3, <1>4, <1>5, <1>6, <1>7, <1>9, BoundsAre

(* What search_01 has done when it waits for this kind of answer.          *)
Awaits(s, kind) ==
    \/ kind = "init" /\ Fresh(s)
    \/ /\ kind = "search" /\ ~s.at.got_result_set
       /\ s.at.query_no < Queries /\ s.at.syntax_no = 0 /\ s.at.sort_no = 0
    \/ /\ kind = "present" /\ s.at.got_result_set
       /\ s.at.syntax_no < Syntaxes /\ s.at.sort_no = 0
    \/ /\ kind = "sort" /\ s.at.got_result_set
       /\ s.at.syntax_no = Syntaxes /\ s.at.sort_no < Sorts

(* A verdict on the current check, and the counters after it.              *)
LEMMA JudgedIs ==
    ASSUME NEW s \in ZlintType, s.cur \in TestIds, OnlyOn(s, s),
           NEW v \in Verdicts
    PROVE  LET p == Report(s, v)
           IN /\ p \in ZlintType /\ p.reported /\ p.at = s.at
              /\ p.at \in ProgressType
              /\ \A at \in ProgressType :
                   LET r == [p EXCEPT !.at = at]
                   IN /\ r \in ZlintType /\ r.reported /\ r.at = at
                      /\ r.cur = s.cur /\ r.mute = s.mute
                      /\ r.line = s.line /\ r.due = s.due
                      /\ r.fault = s.fault /\ OnlyOn(s, r)
                      /\ OnlyOn(r, r)
  <1> DEFINE p == Report(s, v)
  <1>1. s.cur # NoTest
    BY TestsAre
  <1>2. /\ p \in ZlintType /\ p.reported /\ p.cur = s.cur /\ p.at = s.at
        /\ p.mute = s.mute /\ p.line = s.line /\ p.due = s.due
        /\ p.fault = s.fault
        /\ p.printed \subseteq s.printed \cup {<<s.cur, v>>}
    BY <1>1, ReportIs
  <1> HIDE DEF p
  <1>3. p.at \in ProgressType
    BY <1>2 DEF ZlintType
  <1>4. ASSUME NEW at \in ProgressType
        PROVE  LET r == [p EXCEPT !.at = at]
               IN /\ r \in ZlintType /\ r.reported /\ r.at = at
                  /\ r.cur = s.cur /\ r.mute = s.mute
                  /\ r.line = s.line /\ r.due = s.due
                  /\ r.fault = s.fault /\ OnlyOn(s, r) /\ OnlyOn(r, r)
    <2> DEFINE r == [p EXCEPT !.at = at]
    <2>1. /\ r \in ZlintType /\ r.reported /\ r.at = at
          /\ r.cur = s.cur /\ r.mute = s.mute
          /\ r.line = s.line /\ r.due = s.due
          /\ r.fault = s.fault /\ r.printed = p.printed
      BY <1>2, AtIs
    <2> HIDE DEF r
    <2>2. OnlyOn(s, r) /\ OnlyOn(r, r)
      BY <1>2, <2>1 DEF OnlyOn
    <2> QED BY <2>1, <2>2 DEF r
  <1> QED BY <1>2, <1>3, <1>4 DEF p

(* Leaves, Stays, Stops and OnlyOn look at no more of a record than its    *)
(* test, its connection and its fault.                                     *)
LEMMA SameTest ==
    ASSUME NEW s, NEW t, NEW r, s.cur = t.cur, s.line = t.line,
           s.fault = t.fault
    PROVE  /\ Leaves(s, r) <=> Leaves(t, r)
           /\ Stays(s, r) <=> Stays(t, r)
           /\ OnlyOn(s, r) <=> OnlyOn(t, r)
           /\ \A what : Stops(s, r, what) <=> Stops(t, r, what)
  BY DEF Leaves, Stays, OnlyOn, Stops

(* The answer is the one that search_01 waits for, or of a kind that it    *)
(* does not know.                                                          *)
Expected(s, a) ==
    /\ s.due = <<>>
    /\ \/ Awaits(s, a.kind)
       \/ a.kind \notin {"init", "search", "present", "sort"}

(* The next position in a list.                                            *)
LEMMA AfterIs ==
    ASSUME NEW no \in Nat, NEW length \in Nat
    PROVE  After(no, length) = IF no <= length THEN no + 1 ELSE length + 1
  BY DEF After, Min

(* Each of the answers, for search_01.                                     *)
LEMMA AnswersAre ==
    ASSUME NEW a \in Answers
    PROVE  /\ a.kind \in {"init", "search", "present", "sort", "scan", "other"}
           /\ a.kind = "init" => a.result \in BOOLEAN
           /\ a.kind = "search" => a.says \in {"hits", "none"}
  BY ZlintConstants DEF Answers, ZlintConstants

(* recv_gdu of search_01: whatever the answer, the positions are at most   *)
(* one past the null of their lists.  After the answer that it waits for,  *)
(* or one that it does not know, the next request is out or the test ends  *)
(* with a verdict, unless a part of the answer is missing.                 *)
LEMMA SearchRecvIs ==
    ASSUME NEW s \in ZlintType, s.cur \in TestIds,
           s.printed = {}, SearchBounded(s.at),
           NEW a \in Answers, NEW accepted \in BOOLEAN
    PROVE  LET r == Continue(RecvSearch(s, a, accepted))
           IN /\ OnlyOn(s, r) /\ SearchBounded(r.at) /\ Kept(s, r)
              /\ Mutes(s, r)
              /\ \/ Leaves(s, r) \/ Stays(s, r)
                 \/ Stops(s, r, "part") \/ Stops(s, r, "item")
              /\ Expected(s, a) =>
                   /\ r.mute = s.mute
                   /\ \/ Leaves(s, r) \/ (Stays(s, r) /\ SearchDue(r))
                      \/ Stops(s, r, "part")
  <1> DEFINE r == Continue(RecvSearch(s, a, accepted))
             Good == /\ OnlyOn(s, r) /\ SearchBounded(r.at) /\ Kept(s, r)
                     /\ Mutes(s, r)
                     /\ \/ Leaves(s, r) \/ Stays(s, r)
                        \/ Stops(s, r, "part") \/ Stops(s, r, "item")
                     /\ Expected(s, a) =>
                          /\ r.mute = s.mute
                          /\ \/ Leaves(s, r)
                             \/ (Stays(s, r) /\ SearchDue(r))
                             \/ Stops(s, r, "part")
  <1> SUFFICES Good
    OBVIOUS
  <1>1. /\ {"OK", "Fail", "Unsupported"} \subseteq Verdicts
        /\ OnlyOn(s, s)
    BY DEF Verdicts, OnlyOn
  <1>2. /\ s.at \in ProgressType
        /\ s.at.got_result_set \in BOOLEAN /\ s.at.query_no \in Nat
        /\ s.at.syntax_no \in Nat /\ s.at.sort_no \in Nat
    BY DEF ZlintType, ProgressType
  <1>3. ASSUME NEW v \in Verdicts,
               RecvSearch(s, a, accepted) = Result(Report(s, v), "finished")
        PROVE  Good
    <2>1. r = Continue(Result(Report(s, v), "finished"))
      BY <1>3
    <2> HIDE DEF r
    <2>2. /\ Leaves(s, r) /\ r.at = s.at /\ OnlyOn(s, r)
          /\ r.mute = s.mute
      BY <1>1, <2>1, EndsOn
    <2>3. SearchBounded(r.at)
      BY <2>2
    <2>4. Kept(s, r) /\ Mutes(s, r)
      BY <2>2, KeptIfSame DEF Mutes
    <2> QED BY <2>2, <2>3, <2>4
  <1>4. ASSUME NEW n \in ZlintType, n.cur = s.cur,
               Expected(s, a) => SearchReady(n),
               n.mute = s.mute, n.line = s.line, n.due = s.due,
               n.fault = s.fault, OnlyOn(n, n),
               n.at.no = s.at.no, n.at.scan_no = s.at.scan_no,
               SearchBounded(n.at),
               RecvSearch(s, a, accepted) = SendSearch(n, accepted)
        PROVE  Good
    <2>1. r = Continue(SendSearch(n, accepted))
      BY <1>4
    <2> HIDE DEF r
    <2>2. /\ OnlyOn(n, r) /\ SearchPart(r.at) = SearchPart(n.at)
          /\ Kept(n, r) /\ Mutes(n, r)
          /\ Leaves(n, r) \/ Stays(n, r) \/ Stops(n, r, "item")
          /\ n.due = <<>> /\ SearchReady(n) =>
               /\ r.mute = n.mute
               /\ Leaves(n, r) \/ (Stays(n, r) /\ SearchDue(r))
      BY <1>4, <2>1, SendSearchIs
    <2>3. SearchBounded(r.at)
      BY <1>4, <2>2 DEF SearchBounded, SearchPart
    <2>4. Kept(s, r) /\ Mutes(s, r)
      BY <1>4, <2>2 DEF Kept, IsScan, Mutes
    <2>5. /\ Leaves(s, r) <=> Leaves(n, r)
          /\ Stays(s, r) <=> Stays(n, r)
          /\ OnlyOn(s, r) <=> OnlyOn(n, r)
          /\ Stops(s, r, "item") <=> Stops(n, r, "item")
      BY <1>4, SameTest
    <2>6. Expected(s, a) =>
            /\ r.mute = s.mute
            /\ Leaves(s, r) \/ (Stays(s, r) /\ SearchDue(r))
      BY <1>4, <2>2, <2>5 DEF Expected
    <2> QED BY <1>4, <2>2, <2>3, <2>4, <2>5, <2>6
  <1>5. ASSUME NEW v \in Verdicts, NEW at \in ProgressType,
               at.no = s.at.no, at.scan_no = s.at.scan_no,
               SearchBounded(at),
               Expected(s, a) =>
                 \A n : n.at = at /\ n.reported => SearchReady(n),
               RecvSearch(s, a, accepted)
                 = SendSearch([Report(s, v) EXCEPT !.at = at], accepted)
        PROVE  Good
    <2> DEFINE n == [Report(s, v) EXCEPT !.at = at]
    <2>1. /\ n \in ZlintType /\ n.reported /\ n.at = at
          /\ n.cur = s.cur /\ n.mute = s.mute
          /\ n.line = s.line /\ n.due = s.due
          /\ n.fault = s.fault /\ OnlyOn(n, n)
      BY <1>1, JudgedIs
    <2>2. RecvSearch(s, a, accepted) = SendSearch(n, accepted)
      BY <1>5
    <2> HIDE DEF n, Good
    <2>3. Expected(s, a) => SearchReady(n)
      BY <1>5, <2>1
    <2> QED BY <1>4, <1>5, <2>1, <2>2, <2>3
  <1>6. ASSUME NEW what \in {"part", "item"},
               what = "item" => ~Expected(s, a),
               RecvSearch(s, a, accepted) = Fault(s, what)
        PROVE  Good
    <2>1. r = Continue(Fault(s, what))
      BY <1>6
    <2> HIDE DEF r
    <2>2. /\ Stops(s, r, what) /\ r.at = s.at
          /\ r.printed = s.printed /\ r.mute = s.mute
      BY <2>1, FaultIs
    <2>3. Kept(s, r) /\ Mutes(s, r) /\ OnlyOn(s, r) /\ SearchBounded(r.at)
      BY <2>2, KeptIfSame DEF Mutes, OnlyOn
    <2> QED BY <1>6, <2>2, <2>3
  <1>7. CASE a.kind \notin {"init", "search", "present", "sort"}
    <2>1. RecvSearch(s, a, accepted) = Result(Report(s, "Fail"), "finished")
      BY <1>7 DEF RecvSearch
    <2> HIDE DEF Good
    <2> QED BY <1>1, <1>3, <2>1
  <1>8. CASE a.kind = "init"
    <2>1. CASE a.result
      <3>1. RecvSearch(s, a, accepted) = SendSearch(s, accepted)
        BY <1>8, <2>1 DEF RecvSearch
      <3>2. Fresh(s) => SearchReady(s)
        BY BoundsAre DEF SearchReady, Fresh, SearchPart
      <3>3. Expected(s, a) => SearchReady(s)
        BY <1>8, <3>2 DEF Expected, Awaits
      <3> HIDE DEF Good
      <3> QED BY <1>1, <1>4, <3>1, <3>3
    <2>2. CASE ~a.result
      <3>1. RecvSearch(s, a, accepted)
              = Result(Report(s, "Unsupported"), "finished")
        BY <1>8, <2>2 DEF RecvSearch
      <3> HIDE DEF Good
      <3> QED BY <1>1, <1>3, <3>1
    <2> QED BY <2>1, <2>2
  <1>9. CASE a.kind = "search"
    <2>0. /\ RecvSearch(s, a, accepted)
               = RecvSearchResponse(s, a.says, accepted)
          /\ a.says \in {"hits", "none"}
      BY <1>9, AnswersAre DEF RecvSearch
    <2>1. CASE a.says = "none"
      <3> DEFINE next == After(s.at.query_no, Queries)
                 at == [s.at EXCEPT !.query_no = next]
                 n == [s EXCEPT !.at = at]
      <3>1. RecvSearch(s, a, accepted) = SendSearch(n, accepted)
        BY <2>0, <2>1 DEF RecvSearchResponse
      <3>2. /\ next \in Nat /\ next <= Queries + 1
            /\ s.at.query_no < Queries => next <= Queries
        BY <1>2, AfterIs, BoundsAre
      <3> HIDE DEF next
      <3>3. /\ at \in ProgressType /\ at.query_no = next
            /\ at.got_result_set = s.at.got_result_set
            /\ at.syntax_no = s.at.syntax_no /\ at.sort_no = s.at.sort_no
            /\ at.no = s.at.no /\ at.scan_no = s.at.scan_no
        BY <1>2, <3>2 DEF ProgressType
      <3> HIDE DEF at
      <3>4. /\ n \in ZlintType /\ n.at = at /\ n.cur = s.cur
            /\ n.mute = s.mute /\ n.line = s.line /\ n.due = s.due
            /\ n.fault = s.fault /\ n.printed = s.printed
        BY <3>3, AtIs
      <3> HIDE DEF n, Good
      <3>5. Expected(s, a) => SearchReady(n)
        BY <1>9, <3>2, <3>3, <3>4 DEF SearchReady, Expected, Awaits
      <3>6. OnlyOn(n, n) /\ SearchBounded(n.at)
        BY <3>2, <3>3, <3>4 DEF OnlyOn, SearchBounded
      <3> QED BY <1>4, <3>1, <3>3, <3>4, <3>5, <3>6
    <2>2. CASE a.says = "hits" /\ s.at.query_no <= Queries
      <3> DEFINE p == Report(s, "OK")
                 at == [s.at EXCEPT !.got_result_set = TRUE]
      <3>1. p.at = s.at
        BY <1>1, JudgedIs
      <3>2. RecvSearch(s, a, accepted)
              = SendSearch([p EXCEPT !.at.got_result_set = TRUE], accepted)
        BY <1>2, <2>0, <2>2, BoundsAre DEF RecvSearchResponse
      <3> HIDE DEF p
      <3>3. [p EXCEPT !.at.got_result_set = TRUE] = [p EXCEPT !.at = at]
        BY <3>1
      <3>4. /\ at \in ProgressType /\ at.got_result_set
            /\ at.syntax_no = s.at.syntax_no /\ at.sort_no = s.at.sort_no
            /\ at.query_no = s.at.query_no
            /\ at.no = s.at.no /\ at.scan_no = s.at.scan_no
        BY <1>2 DEF ProgressType
      <3> HIDE DEF at
      <3>5. Expected(s, a) =>
              \A n : n.at = at /\ n.reported => SearchReady(n)
        BY <1>2, <1>9, <3>4, BoundsAre DEF SearchReady, Expected, Awaits
      <3>6. RecvSearch(s, a, accepted)
              = SendSearch([Report(s, "OK") EXCEPT !.at = at], accepted)
        BY <3>2, <3>3 DEF p
      <3>7. SearchBounded(at)
        BY <3>4 DEF SearchBounded
      <3> HIDE DEF Good
      <3> QED BY <1>1, <1>5, <3>4, <3>5, <3>6, <3>7
    <2>3. CASE a.says = "hits" /\ s.at.query_no > Queries
      <3>1. RecvSearch(s, a, accepted) = Fault(s, "item")
        BY <1>2, <2>0, <2>3, BoundsAre DEF RecvSearchResponse
      <3>2. ~Expected(s, a)
        BY <1>2, <1>9, <2>3, BoundsAre DEF Expected, Awaits
      <3> HIDE DEF Good
      <3> QED BY <1>6, <3>1, <3>2
    <2> QED BY <1>2, <2>0, <2>1, <2>2, <2>3, BoundsAre
  <1>10. CASE a.kind = "present"
    <2> DEFINE compares == a.says \in {"record", "wrong", "untyped"}
               v == IF a.says \in {"record", "diagnostic"}
                    THEN "OK" ELSE "Fail"
               p == Report(s, v)
               next == After(s.at.syntax_no, Syntaxes)
               at == [s.at EXCEPT !.syntax_no = next]
               past == \/ compares /\ s.at.syntax_no >= Syntaxes
                       \/ a.says = "diagnostic" /\ s.at.syntax_no > Syntaxes
    <2>0. v \in Verdicts
      BY <1>1
    <2>1. RecvSearch(s, a, accepted)
            = IF past THEN Fault(s, "item")
              ELSE IF a.says = "untyped" THEN Fault(s, "part")
              ELSE SendSearch([p EXCEPT !.at.syntax_no = After(@, Syntaxes)],
                              accepted)
      BY <1>10 DEF RecvSearch, RecvPresentResponse
    <2>2. Expected(s, a) => /\ s.at.got_result_set /\ s.at.sort_no = 0
                            /\ s.at.syntax_no < Syntaxes
      BY <1>10 DEF Expected, Awaits
    <2>3. Expected(s, a) => ~past
      BY <1>2, <2>2, BoundsAre
    <2> HIDE DEF past, v
    <2>4. p.at = s.at
      BY <1>1, <2>0, JudgedIs
    <2> HIDE DEF p
    <2>5. [p EXCEPT !.at.syntax_no = After(@, Syntaxes)]
            = [p EXCEPT !.at = at]
      BY <2>4
    <2>6. /\ next \in Nat /\ next <= Syntaxes + 1
          /\ s.at.syntax_no < Syntaxes => next <= Syntaxes
      BY <1>2, AfterIs, BoundsAre
    <2> HIDE DEF next
    <2>7. /\ at \in ProgressType /\ at.syntax_no = next
          /\ at.got_result_set = s.at.got_result_set
          /\ at.query_no = s.at.query_no /\ at.sort_no = s.at.sort_no
          /\ at.no = s.at.no /\ at.scan_no = s.at.scan_no
      BY <1>2, <2>6 DEF ProgressType
    <2> HIDE DEF at
    <2>8. Expected(s, a) =>
            \A n : n.at = at /\ n.reported => SearchReady(n)
      BY <2>2, <2>6, <2>7 DEF SearchReady
    <2>9. SearchBounded(at)
      BY <2>6, <2>7 DEF SearchBounded
    <2>10. CASE past
      <3> HIDE DEF Good
      <3> QED BY <1>6, <2>1, <2>3, <2>10
    <2>11. CASE ~past /\ a.says = "untyped"
      <3> HIDE DEF Good
      <3> QED BY <1>6, <2>1, <2>11
    <2>12. CASE ~past /\ a.says # "untyped"
      <3>1. RecvSearch(s, a, accepted)
              = SendSearch([Report(s, v) EXCEPT !.at = at], accepted)
        BY <2>1, <2>5, <2>12 DEF p
      <3> HIDE DEF Good
      <3> QED BY <1>5, <2>0, <2>7, <2>8, <2>9, <3>1
    <2> QED BY <2>10, <2>11, <2>12
  <1>11. CASE a.kind = "sort"
    <2> DEFINE p == Report(s, "OK")
               next == After(s.at.sort_no, Sorts)
               at == [s.at EXCEPT !.sort_no = next]
               past == a.says = "diagnostic" /\ s.at.sort_no > Sorts
    <2>1. RecvSearch(s, a, accepted)
            = IF past THEN Fault(s, "item")
              ELSE SendSearch([p EXCEPT !.at.sort_no = After(@, Sorts)],
                              accepted)
      BY <1>11 DEF RecvSearch, RecvSortResponse
    <2>2. Expected(s, a) => /\ s.at.got_result_set /\ s.at.sort_no < Sorts
                            /\ s.at.syntax_no = Syntaxes
      BY <1>11 DEF Expected, Awaits
    <2>3. Expected(s, a) => ~past
      BY <1>2, <2>2, BoundsAre
    <2> HIDE DEF past
    <2>4. p.at = s.at
      BY <1>1, JudgedIs
    <2> HIDE DEF p
    <2>5. [p EXCEPT !.at.sort_no = After(@, Sorts)] = [p EXCEPT !.at = at]
      BY <2>4
    <2>6. /\ next \in Nat /\ next <= Sorts + 1
          /\ s.at.sort_no < Sorts => next <= Sorts
      BY <1>2, AfterIs, BoundsAre
    <2> HIDE DEF next
    <2>7. /\ at \in ProgressType /\ at.sort_no = next
          /\ at.got_result_set = s.at.got_result_set
          /\ at.query_no = s.at.query_no /\ at.syntax_no = s.at.syntax_no
          /\ at.no = s.at.no /\ at.scan_no = s.at.scan_no
      BY <1>2, <2>6 DEF ProgressType
    <2> HIDE DEF at
    <2>8. Expected(s, a) =>
            \A n : n.at = at /\ n.reported => SearchReady(n)
      BY <2>2, <2>6, <2>7 DEF SearchReady
    <2>9. SearchBounded(at)
      BY <2>6, <2>7 DEF SearchBounded
    <2>10. CASE past
      <3> HIDE DEF Good
      <3> QED BY <1>6, <2>1, <2>3, <2>10
    <2>11. CASE ~past
      <3>1. RecvSearch(s, a, accepted)
              = SendSearch([Report(s, "OK") EXCEPT !.at = at], accepted)
        BY <2>1, <2>5, <2>11 DEF p
      <3> HIDE DEF Good
      <3> QED BY <1>1, <1>5, <2>7, <2>8, <2>9, <3>1
    <2> QED BY <2>10, <2>11
  <1> HIDE DEF Good
  <1> QED BY <1>7, <1>8, <1>9, <1>10, <1>11

(* sendTest of scan_01: the next scan is out, or the test ends, with a     *)
(* verdict if it had one.                                                  *)
LEMMA SendScanIs ==
    ASSUME NEW s \in ZlintType, s.cur \in TestIds, OnlyOn(s, s),
           s.at.scan_no <= Scans, NEW accepted \in BOOLEAN
    PROVE  LET r == Continue(SendScan(s, accepted))
           IN /\ OnlyOn(s, r) /\ SearchPart(r.at) = SearchPart(s.at)
              /\ Mutes(s, r) /\ (s.reported => r.mute = s.mute)
              /\ \/ Leaves(s, r)
                 \/ Stays(s, r) /\ (s.due = <<>> => ScanDue(r))
              /\ s.at.no <= 2 => r.at.no <= 2
              /\ IsScan(s) =>
                   /\ r.at.scan_no <= Scans
                   /\ r.cur = s.cur => r.at.scan_no < Scans
  <1> DEFINE r == Continue(SendScan(s, accepted))
             Good == /\ OnlyOn(s, r) /\ SearchPart(r.at) = SearchPart(s.at)
                     /\ Mutes(s, r) /\ (s.reported => r.mute = s.mute)
                     /\ \/ Leaves(s, r)
                        \/ Stays(s, r) /\ (s.due = <<>> => ScanDue(r))
                     /\ s.at.no <= 2 => r.at.no <= 2
                     /\ IsScan(s) =>
                          /\ r.at.scan_no <= Scans
                          /\ r.cur = s.cur => r.at.scan_no < Scans
  <1> SUFFICES Good
    OBVIOUS
  <1>3. s.at.scan_no \in Nat
    BY DEF ZlintType, ProgressType
  <1>1. CASE s.at.scan_no < Scans
    <2>1. SendScan(s, accepted)
            = Result(Send(CheckFor(s), "scan", accepted), "continue")
      BY <1>1, <1>3, BoundsAre DEF SendScan
    <2>2. r = Send(CheckFor(s), "scan", accepted)
      BY <2>1, GoesOn
    <2>3. "scan" \in Requests
      BY DEF Requests
    <2> HIDE DEF r
    <2>4. /\ \/ /\ Stays(s, r) /\ r.due = Append(s.due, "scan")
                /\ r.at = s.at
             \/ /\ Leaves(s, r) /\ SearchPart(r.at) = SearchPart(s.at)
                /\ FailKeeps(s, r.at)
          /\ OnlyOn(s, r) /\ Mutes(s, r) /\ (Settled(s) => r.mute = s.mute)
      BY <2>2, <2>3, CheckForOn
    <2>5. Kept(s, r)
      BY <2>4, KeptIfFails, KeptIfSame
    <2>6. s.due = <<>> => Append(s.due, "scan") = <<"scan">>
      OBVIOUS
    <2>7. s.due = <<>> /\ r.due = Append(s.due, "scan") => ScanDue(r)
      BY <2>6 DEF ScanDue
    <2> QED BY <1>1, <2>4, <2>5, <2>7 DEF Kept, Settled
  <1>2. CASE s.at.scan_no = Scans
    <2>1. r = Continue(Result(s, "finished"))
      BY <1>2, <1>3, BoundsAre DEF SendScan
    <2> HIDE DEF r
    <2>2. /\ Leaves(s, r) /\ r.at = s.at /\ r.printed = s.printed
          /\ Mutes(s, r) /\ (s.reported => r.mute = s.mute)
      BY <2>1, ContinueIs
    <2>3. IsScan(s) => r.cur # s.cur
      BY <2>2, TestsAre DEF IsScan, Leaves
    <2> QED BY <1>2, <1>3, <2>2, <2>3, BoundsAre DEF OnlyOn
  <1> QED BY <1>1, <1>2, <1>3, BoundsAre

(* recv_gdu of scan_01: whatever the answer, the position stays in its     *)
(* list.  If an initResponse is not a stray, every check has its verdict.  *)
LEMMA ScanRecvIs ==
    ASSUME NEW s \in ZlintType, s.cur \in TestIds,
           s.printed = {}, IsScan(s), s.at.scan_no < Scans,
           NEW a \in Answers, NEW accepted \in BOOLEAN
    PROVE  LET r == Continue(RecvScan(s, a, accepted))
           IN /\ OnlyOn(s, r) /\ SearchPart(r.at) = SearchPart(s.at)
              /\ Kept(s, r) /\ Mutes(s, r)
              /\ \/ Leaves(s, r) \/ Stops(s, r, "part")
                 \/ Stays(s, r) /\ (s.due = <<>> => ScanDue(r))
              /\ (a.kind = "init" => ~s.begun) => r.mute = s.mute
  <1> DEFINE r == Continue(RecvScan(s, a, accepted))
             Good == /\ OnlyOn(s, r) /\ SearchPart(r.at) = SearchPart(s.at)
                     /\ Kept(s, r) /\ Mutes(s, r)
                     /\ \/ Leaves(s, r) \/ Stops(s, r, "part")
                        \/ Stays(s, r) /\ (s.due = <<>> => ScanDue(r))
                     /\ (a.kind = "init" => ~s.begun) => r.mute = s.mute
  <1> SUFFICES Good
    OBVIOUS
  <1>1. /\ {"OK", "Fail", "Unsupported"} \subseteq Verdicts
        /\ OnlyOn(s, s)
    BY DEF Verdicts, OnlyOn
  <1>2. ASSUME NEW n \in ZlintType, n.cur = s.cur, n.mute = s.mute,
               n.line = s.line, n.fault = s.fault, n.at = s.at,
               OnlyOn(n, n), NEW v \in Verdicts,
               RecvScan(s, a, accepted) = Result(Report(n, v), "finished")
        PROVE  Good
    <2>1. r = Continue(Result(Report(n, v), "finished"))
      BY <1>2
    <2> HIDE DEF r
    <2>2. /\ Leaves(n, r) /\ r.at = n.at /\ OnlyOn(n, r)
          /\ r.mute = n.mute
      BY <1>2, <2>1, EndsOn
    <2>3. Kept(s, r) /\ Mutes(s, r)
      BY <1>2, <2>2, KeptIfSame DEF Mutes
    <2> QED BY <1>2, <2>2, <2>3, SameTest
  <1>3. CASE a.kind = "init"
    <2> DEFINE j == IF GetVersion(a) \in 2 .. 3 THEN s ELSE Report(s, "Fail")
               version == GetVersion(a) \in 2 .. 3
    <2>1. /\ j \in ZlintType /\ j.cur = s.cur /\ j.mute = s.mute
          /\ j.line = s.line /\ j.due = s.due /\ j.fault = s.fault
          /\ j.at = s.at /\ j.printed \subseteq {<<s.cur, "Fail">>}
          /\ j.begun = s.begun
      <3>1. s.cur # NoTest
        BY TestsAre
      <3> HIDE DEF version
      <3>2. j = IF version THEN s ELSE Report(s, "Fail")
        BY DEF version
      <3> HIDE DEF j
      <3> QED BY <1>1, <3>1, <3>2, ReportIs
    <2>2. RecvScan(s, a, accepted)
            = IF ~a.result THEN Result(Report(j, "Fail"), "finished")
              ELSE IF ScanOption \notin a.options
                   THEN Result(Report(j, "Unsupported"), "finished")
              ELSE Result(SendScan(j, accepted).s, "continue")
      BY <1>3 DEF RecvScan
    <2> HIDE DEF j
    <2>3. OnlyOn(j, j)
      BY <2>1 DEF OnlyOn
    <2>4. ASSUME NEW v \in Verdicts,
                 RecvScan(s, a, accepted) = Result(Report(j, v), "finished")
          PROVE  Good
      <3> HIDE DEF Good
      <3> QED BY <1>2, <2>1, <2>3, <2>4
    <2>5. CASE RecvScan(s, a, accepted)
                 = Result(SendScan(j, accepted).s, "continue")
      <3>1. r = SendScan(j, accepted).s
        BY <2>5, GoesOn
      <3> HIDE DEF r
      <3>10. s.at.scan_no \in Nat
        BY DEF ZlintType, ProgressType
      <3>2. SendScan(j, accepted)
              = Result(Send(CheckFor(j), "scan", accepted), "continue")
        BY <2>1, <3>10, BoundsAre DEF SendScan
      <3>3. r = Send(CheckFor(j), "scan", accepted) /\ "scan" \in Requests
        BY <3>1, <3>2, ResultIs DEF Requests
      <3>4. /\ \/ /\ Stays(j, r) /\ r.due = Append(j.due, "scan")
                  /\ r.at = j.at
               \/ /\ Leaves(j, r) /\ SearchPart(r.at) = SearchPart(j.at)
                  /\ FailKeeps(j, r.at)
            /\ OnlyOn(j, r) /\ Mutes(j, r) /\ (Settled(j) => r.mute = j.mute)
        BY <2>1, <2>3, <3>3, CheckForOn
      <3>5. Kept(j, r)
        BY <2>1, <3>4, KeptIfFails, KeptIfSame
      <3>6. Kept(s, r) /\ Mutes(s, r)
        BY <2>1, <3>4, <3>5 DEF Kept, IsScan, Mutes
      <3>7. ~s.begun => r.mute = s.mute
        BY <2>1, <3>4 DEF Settled
      <3>8. s.due = <<>> /\ r.due = Append(s.due, "scan") => ScanDue(r)
        <4>1. s.due = <<>> => Append(s.due, "scan") = <<"scan">>
          OBVIOUS
        <4> QED BY <4>1 DEF ScanDue
      <3>9. /\ Leaves(s, r) <=> Leaves(j, r)
            /\ Stays(s, r) <=> Stays(j, r)
            /\ OnlyOn(s, r) <=> OnlyOn(j, r)
        BY <2>1, SameTest
      <3> QED BY <1>3, <2>1, <3>4, <3>6, <3>7, <3>8, <3>9
    <2> HIDE DEF Good
    <2> QED BY <1>1, <2>2, <2>4, <2>5
  <1>4. CASE a.kind = "scan" /\ a.says # "bare"
    <2> DEFINE v == IF a.says = "none" THEN "Fail" ELSE "OK"
               p == Report(s, v)
               at == [s.at EXCEPT !.scan_no = @ + 1]
               n == [p EXCEPT !.at = at]
    <2>0. v \in Verdicts
      BY <1>1
    <2>1. RecvScan(s, a, accepted)
            = SendScan([p EXCEPT !.at.scan_no = @ + 1], accepted)
      BY <1>4 DEF RecvScan
    <2> HIDE DEF v
    <2>2. p.at = s.at
      BY <1>1, <2>0, JudgedIs
    <2> HIDE DEF p
    <2>3. [p EXCEPT !.at.scan_no = @ + 1] = n
      BY <2>2
    <2>4. /\ at \in ProgressType /\ SearchPart(at) = SearchPart(s.at)
          /\ at.no = s.at.no /\ at.scan_no = s.at.scan_no + 1
          /\ s.at.scan_no \in Nat
      BY DEF ZlintType, ProgressType, SearchPart
    <2> HIDE DEF at
    <2>5. /\ n \in ZlintType /\ n.reported /\ n.at = at
          /\ n.cur = s.cur /\ n.mute = s.mute
          /\ n.line = s.line /\ n.due = s.due
          /\ n.fault = s.fault /\ OnlyOn(n, n)
      BY <1>1, <2>0, <2>4, JudgedIs DEF p
    <2>6. r = Continue(SendScan(n, accepted))
      BY <2>1, <2>3
    <2>9. n.at.scan_no <= Scans
      BY <2>4, <2>5, BoundsAre
    <2> HIDE DEF n, r
    <2>7. /\ OnlyOn(n, r) /\ SearchPart(r.at) = SearchPart(n.at)
          /\ r.mute = n.mute
          /\ \/ Leaves(n, r)
             \/ Stays(n, r) /\ (n.due = <<>> => ScanDue(r))
          /\ n.at.no <= 2 => r.at.no <= 2
          /\ IsScan(n) =>
               /\ r.at.scan_no <= Scans
               /\ r.cur = n.cur => r.at.scan_no < Scans
      BY <2>5, <2>6, <2>9, SendScanIs
    <2>8. Kept(s, r) /\ Mutes(s, r)
      BY <2>4, <2>5, <2>7, BoundsAre DEF Kept, IsScan, Mutes
    <2> QED BY <2>4, <2>5, <2>7, <2>8, SameTest
  <1>5. CASE a.kind = "scan" /\ a.says = "bare"
    <2>1. r = Continue(Fault(s, "part"))
      BY <1>5 DEF RecvScan
    <2> HIDE DEF r
    <2>2. /\ Stops(s, r, "part") /\ r.at = s.at
          /\ r.printed = s.printed /\ r.mute = s.mute
      BY <2>1, FaultIs
    <2>3. Kept(s, r) /\ Mutes(s, r) /\ OnlyOn(s, r)
      BY <2>2, KeptIfSame DEF Mutes, OnlyOn
    <2> QED BY <2>2, <2>3
  <1>6. CASE a.kind \notin {"init", "scan"}
    <2>1. RecvScan(s, a, accepted) = Result(Report(s, "Fail"), "finished")
      BY <1>6 DEF RecvScan
    <2> HIDE DEF Good
    <2> QED BY <1>1, <1>2, <2>1
  <1> QED BY <1>3, <1>4, <1>5, <1>6


(* A test that judges initResponses.                                       *)
IsInitTest(t) == t \in TestIds /\ Tests[t] \notin {"search_01", "scan_01"}

(* The inductive invariant.                                                *)
ZlintInv ==
    /\ z \in ZlintType /\ strays \in [TestIds -> 0..2]
    /\ unsent \in BOOLEAN /\ fits \in BOOLEAN
    /\ z.mute \subseteq Strayed
    /\ CountersOK(z) /\ (z.line # "none" => z.cur \in TestIds)
    /\ z.fault = "item" => IsSearch(z) /\ z.cur \in Strayed
    /\ z.fault = "none" => Sound(z, Strayed)
    /\ z.fault = "none" /\ z.due # <<>> /\ IsInitTest(z.cur) => fits
    /\ OkIsEarned

(* A test is neither passed over nor missing.                              *)
OneAtATime == ~(z'.cur > z.cur + 1) /\ z'.fault # "test"

(* Which tests were sent a stray, after a callback that is no answer and   *)
(* after one that is.                                                      *)
LEMMA SameStrays ==
    ASSUME strays \in [TestIds -> 0..2], strays' = strays
    PROVE  Strayed' = Strayed /\ strays' \in [TestIds -> 0..2]
  BY DEF Strayed, TestIds

LEMMA StraysAre ==
    ASSUME strays \in [TestIds -> 0..2], z.cur \in TestIds, NEW a,
           strays' = IF Stray(a)
                     THEN [strays EXCEPT ![z.cur] = IF @ = 1 THEN 2 ELSE 1]
                     ELSE strays
    PROVE  /\ strays' \in [TestIds -> 0..2]
           /\ Strayed \subseteq Strayed'
           /\ Stray(a) => z.cur \in Strayed'
  <1> DEFINE c == z.cur
             stray == Stray(a)
             new == [strays EXCEPT ![c] = IF @ = 1 THEN 2 ELSE 1]
  <1>1. /\ new \in [TestIds -> 0..2] /\ new[c] # 0
        /\ \A t \in TestIds : strays[t] # 0 => new[t] # 0
    OBVIOUS
  <1>2. strays' = IF stray THEN new ELSE strays
    OBVIOUS
  <1>3. c \in TestIds
    OBVIOUS
  <1>4. /\ \A t : t \in Strayed <=> t \in TestIds /\ strays[t] # 0
        /\ \A t : t \in Strayed' <=> t \in TestIds /\ strays'[t] # 0
    BY DEF Strayed, TestIds
  <1> HIDE DEF new, stray, c
  <1>5. CASE stray
    <2>1. strays' = new
      BY <1>2, <1>5
    <2>2. c \in Strayed' /\ Strayed \subseteq Strayed'
      BY <1>1, <1>3, <1>4, <2>1
    <2> QED BY <1>1, <2>1, <2>2 DEF c
  <1>6. CASE ~stray
    <2>1. strays' = strays
      BY <1>2, <1>6
    <2>2. Strayed' = Strayed
      BY <2>1, <1>4
    <2> QED BY <1>6, <2>1, <2>2 DEF stray
  <1> QED BY <1>5, <1>6

(* The invariant holds when main() has made the connection.                *)
LEMMA StartIs == Init => ZlintInv
  <1> SUFFICES ASSUME Init PROVE ZlintInv
    OBVIOUS
  <1> DEFINE at == Progress
             none == <<>>
             n == [cur |-> 1, line |-> "connecting", due |-> none,
                   timer |-> TRUE, at |-> at, begun |-> FALSE,
                   reported |-> FALSE, printed |-> {}, mute |-> {},
                   fault |-> "none"]
  <1>1. z = n /\ unsent = FALSE /\ fits = TRUE
    BY DEF Init, NewZlint
  <1>2. /\ at \in ProgressType /\ SearchPart(at) = <<FALSE, 0, 0, 0>>
        /\ at.no <= 2 /\ SearchBounded(at) /\ at.scan_no = 0
    BY BoundsAre DEF Progress, ProgressType, SearchPart, SearchBounded
  <1>3. none \in Seq(Requests)
    OBVIOUS
  <1>4. 1 \in 1 .. NoTest /\ 1 \in TestIds
    BY TestsAre
  <1> HIDE DEF at, none
  <1>5. n \in ZlintType
    BY <1>2, <1>3, <1>4 DEF ZlintType
  <1>6. /\ n.cur = 1 /\ n.line = "connecting" /\ n.due = none /\ n.at = at
        /\ n.mute = {} /\ n.fault = "none" /\ n.printed = {} /\ ~n.begun
    OBVIOUS
  <1> HIDE DEF n
  <1>7. Sound(n, Strayed)
    BY <1>2, <1>4, <1>5, <1>6
       DEF Sound, SearchOK, Fresh, Between, Settled, none
  <1>8. CountersOK(n)
    BY <1>2, <1>6, BoundsAre DEF CountersOK
  <1>9. strays \in [TestIds -> 0..2]
    BY DEF Init
  <1> QED BY <1>1, <1>4, <1>5, <1>6, <1>7, <1>8, <1>9
             DEF ZlintInv, OkIsEarned, none

(* What is known when a callback begins, of the record s that it starts    *)
(* from.                                                                   *)
Begins(s) ==
    /\ s \in ZlintType /\ s.cur \in TestIds /\ s.fault = "none"
    /\ s.cur = z.cur /\ s.at = z.at /\ s.mute = z.mute
    /\ s.begun = z.begun /\ s.reported = z.reported
    /\ s.printed = {} /\ CountersOK(s)
    /\ Ahead(s) /\ ~IsSearch(s) => Fresh(s)

(* Every record that a callback starts from is sound to begin with.        *)
LEMMA BeginsIs ==
    ASSUME ZlintInv, Running
    PROVE  /\ Begins(Quiet) /\ Quiet.due = z.due /\ Quiet.line = z.line
           /\ Begins(Shutdown(Quiet))
           /\ Begins([Quiet EXCEPT !.line = "ready"])
           /\ \A due \in Seq(Requests) :
                 LET s == [Quiet EXCEPT !.due = due]
                 IN Begins(s) /\ s.due = due /\ s.line = z.line
  <1> DEFINE Same(s) ==
        /\ s \in ZlintType /\ s.cur = z.cur /\ s.at = z.at
        /\ s.mute = z.mute /\ s.fault = "none" /\ s.printed = {}
        /\ s.begun = z.begun /\ s.reported = z.reported
  <1>1. /\ z \in ZlintType /\ z.cur \in TestIds /\ Sound(z, Strayed)
        /\ CountersOK(z) /\ z.fault = "none"
    BY DEF ZlintInv, Running
  <1>2. ASSUME NEW s, Same(s)
        PROVE  Begins(s)
    <2>1. Ahead(z) /\ ~IsSearch(z) => Fresh(z)
      BY <1>1 DEF Sound, SearchOK
    <2>2. CountersOK(s)
      BY <1>1, <1>2 DEF CountersOK, IsScan, ScanAhead
    <2> QED BY <1>1, <1>2, <2>1, <2>2 DEF Begins, Ahead, IsSearch, Fresh
  <1> DEFINE q == Quiet
  <1>4. Same(q) /\ q.line = z.line /\ q.due = z.due
    BY <1>1, QuietIs
  <1> HIDE DEF q
  <1>5. Begins(q)
    BY <1>2, <1>4
  <1>6. Begins(Shutdown(q))
    <2>1. Same(Shutdown(q))
      BY <1>4, ShutdownIs
    <2> HIDE DEF Same
    <2> QED BY <1>2, <2>1
  <1>7. Begins([q EXCEPT !.line = "ready"])
    <2>1. Same([q EXCEPT !.line = "ready"])
      BY <1>4, LineIs
    <2> HIDE DEF Same
    <2> QED BY <1>2, <2>1
  <1>8. ASSUME NEW due \in Seq(Requests)
        PROVE  LET s == [q EXCEPT !.due = due]
               IN Begins(s) /\ s.due = due /\ s.line = z.line
    <2> DEFINE s == [q EXCEPT !.due = due]
    <2>1. Same(s) /\ s.due = due /\ s.line = q.line
      BY <1>4, DueIs
    <2> HIDE DEF Same, s
    <2>2. Begins(s)
      BY <1>2, <2>1
    <2>3. s.line = z.line
      BY <1>4, <2>1
    <2> QED BY <2>1, <2>2, <2>3 DEF s
  <1> QED BY <1>4, <1>5, <1>6, <1>7, <1>8 DEF q

(* What the invariant says of the Zlint record, after a step.              *)
LEMMA SoundPrimed ==
    /\ Sound(z, Strayed)' = Sound(z', Strayed')
    /\ CountersOK(z)' = CountersOK(z')
    /\ IsSearch(z)' = IsSearch(z')
    /\ IsInitTest(z.cur)' = IsInitTest(z'.cur)
  BY DEF Sound, SearchOK, SearchDue, ScanDue, Between, Settled, Fresh, Ahead,
         IsSearch, SearchPart, CountersOK, IsScan, ScanAhead, SearchBounded,
         IsInitTest

(* What has been shown of a callback, whatever it does with the test.      *)
Callback(s, r) ==
    /\ z' = r /\ z.fault = "none" /\ Begins(s)
    /\ unsent' \in BOOLEAN /\ fits' \in BOOLEAN
    /\ strays' \in [TestIds -> 0..2] /\ r.mute \subseteq Strayed'
    /\ Kept(s, r) /\ SearchBounded(r.at) /\ OkIsEarned'

(* A callback that leaves the test keeps the invariant, if its "OK" is     *)
(* earned, and goes on by one test at most.                                *)
LEMMA LeavingIs ==
    ASSUME NEW s, NEW r, Callback(s, r), Leaves(s, r),
           IsSearch(s) \/ SearchPart(r.at) = SearchPart(s.at)
    PROVE  ZlintInv' /\ OneAtATime
  <1>1. /\ r \in ZlintType /\ r.fault = "none" /\ r.due = <<>>
        /\ r.cur = s.cur + 1 \/ r.cur = s.cur
    BY DEF Leaves, Callback, Begins
  <1>2. Sound(r, Strayed')
    BY LeavesSound DEF Callback, Begins
  <1>3. CountersOK(r)
    BY CountersKept DEF Callback, Begins
  <1>4. ZlintInv'
    <2>1. /\ z' = r /\ z' \in ZlintType /\ z'.due = <<>>
          /\ Sound(z', Strayed') /\ CountersOK(z') /\ z'.fault = "none"
      BY <1>1, <1>2, <1>3 DEF Callback
    <2> QED BY <2>1, SoundPrimed DEF ZlintInv, Sound, Callback
  <1>5. OneAtATime
    <2>1. z.cur \in Nat /\ s.cur = z.cur /\ z' = r
      BY TestsAre DEF Callback, Begins
    <2> QED BY <1>1, <2>1 DEF OneAtATime
  <1> QED BY <1>4, <1>5

(* One that stays with the test.                                           *)
LEMMA StayingIs ==
    ASSUME NEW s, NEW r, Callback(s, r), Stays(s, r), s.line = "ready",
           IsSearch(s) \/ SearchPart(r.at) = SearchPart(s.at),
           IsSearch(s) /\ s.cur \notin Strayed' => SearchDue(r),
           IsScan(s) /\ s.cur \notin Strayed' => ScanDue(r),
           IsInitTest(s.cur) => fits'
    PROVE  ZlintInv' /\ OneAtATime
  <1>1. r \in ZlintType /\ r.fault = "none" /\ r.cur = s.cur
    BY DEF Stays, Callback, Begins
  <1>2. Sound(r, Strayed')
    BY StaysSound DEF Callback, Begins
  <1>3. CountersOK(r)
    BY CountersKept DEF Callback, Begins, Stays
  <1>4. ZlintInv'
    <2>1. /\ z' = r /\ z' \in ZlintType /\ z'.cur = s.cur
          /\ Sound(z', Strayed') /\ CountersOK(z') /\ z'.fault = "none"
      BY <1>1, <1>2, <1>3 DEF Callback
    <2> QED BY <2>1, SoundPrimed DEF ZlintInv, Sound, Callback
  <1>5. OneAtATime
    <2>1. z.cur \in Nat /\ s.cur = z.cur /\ z' = r
      BY TestsAre DEF Callback, Begins
    <2> QED BY <1>1, <2>1 DEF OneAtATime
  <1> QED BY <1>4, <1>5

(* One that the program does not return from.                              *)
LEMMA StoppingIs ==
    ASSUME NEW s, NEW r, NEW what \in {"part", "item"}, Callback(s, r),
           Stops(s, r, what),
           what = "item" => IsSearch(s) /\ s.cur \in Strayed'
    PROVE  ZlintInv' /\ OneAtATime
  <1>1. r \in ZlintType /\ r.fault = what /\ r.cur = s.cur
    BY DEF Stops
  <1>2. CountersOK(r)
    BY <1>1, CountersKept DEF Callback, Begins
  <1>3. ZlintInv'
    <2>1. /\ z' = r /\ z' \in ZlintType /\ z'.cur = s.cur
          /\ CountersOK(z') /\ z'.fault = what /\ s.cur \in TestIds
      BY <1>1, <1>2 DEF Callback, Begins
    <2>2. z'.fault = "item" => IsSearch(z') /\ z'.cur \in Strayed'
      BY <2>1 DEF IsSearch
    <2>3. z'.fault # "none" /\ TestIds' = TestIds
      BY <2>1 DEF TestIds
    <2> QED BY <2>1, <2>2, <2>3, SoundPrimed DEF ZlintInv, Callback
  <1>4. OneAtATime
    <2>1. z.cur \in Nat /\ s.cur = z.cur /\ z' = r
      BY TestsAre DEF Callback, Begins
    <2> QED BY <1>1, <2>1 DEF OneAtATime
  <1> QED BY <1>3, <1>4

(* No "OK" among the verdicts of a callback.                               *)
LEMMA NoOkIs ==
    ASSUME \A t : <<t, "OK">> \notin z'.printed
    PROVE  OkIsEarned'
  BY DEF OkIsEarned

(* failNotify and timeoutNotify keep the invariant.                        *)
LEMMA FailNotifyStep ==
    ASSUME ZlintInv, Running, NEW s, Begins(s), z' = FailNotify(s),
           unsent' \in BOOLEAN, fits' \in BOOLEAN, strays' = strays
    PROVE  ZlintInv' /\ OneAtATime
  <1> DEFINE r == FailNotify(s)
  <1>1. /\ Leaves(s, r) /\ SearchPart(r.at) = SearchPart(s.at)
        /\ r.printed \subseteq {<<s.cur, "Fail">>} /\ FailKeeps(s, r.at)
        /\ r.mute = s.mute
    BY FailNotifyIs DEF Begins
  <1> HIDE DEF r
  <1>2. z' = r
    BY DEF r
  <1>3. OkIsEarned'
    BY <1>1, <1>2, NoOkIs
  <1>4. Kept(s, r) /\ SearchBounded(r.at)
    BY <1>1, KeptIfFails, SameSearchPart DEF Begins, CountersOK
  <1>5. strays' \in [TestIds -> 0..2] /\ r.mute \subseteq Strayed'
    BY <1>1, SameStrays DEF ZlintInv, Begins
  <1>6. Callback(s, r)
    BY <1>2, <1>3, <1>4, <1>5 DEF Callback, Running
  <1> QED BY <1>1, <1>6, LeavingIs

(* No address to connect to: zlint stops.                                  *)
LEMMA DialRefusedStep ==
    ASSUME ZlintInv, DialRefused
    PROVE  ZlintInv' /\ OneAtATime
  <1> DEFINE s == Shutdown(Quiet)
  <1>1. Running /\ z.line = "connecting" /\ z \in ZlintType
    BY DEF DialRefused, Running, ZlintInv
  <1>2. Begins(s)
    BY <1>1, BeginsIs
  <1>3. s.line = "none" /\ s.due = <<>>
    BY <1>1, QuietIs, ShutdownIs
  <1>4. z' = s /\ unsent' = FALSE /\ fits' = fits /\ strays' = strays
    BY DEF DialRefused
  <1> HIDE DEF s
  <1>5. Sound(s, Strayed')
    <2>1. Ahead(s) /\ (IsSearch(s) => s.line = "connecting") => Fresh(s)
      BY <1>2, <1>3 DEF Begins
    <2> QED BY <1>2, <1>3, <2>1 DEF Sound, SearchOK, Between, Begins
  <1>6. ZlintInv'
    <2>1. /\ z' = s /\ z' \in ZlintType /\ z'.due = <<>>
          /\ Sound(z', Strayed') /\ z'.printed = {} /\ CountersOK(z')
          /\ z'.fault = "none" /\ z'.line = "none" /\ z'.mute = z.mute
      BY <1>2, <1>3, <1>4, <1>5 DEF Begins
    <2>2. OkIsEarned'
      BY <2>1, NoOkIs
    <2>3. unsent' \in BOOLEAN /\ fits' \in BOOLEAN
      BY <1>4 DEF ZlintInv
    <2>4. strays' \in [TestIds -> 0..2] /\ z'.mute \subseteq Strayed'
      BY <1>4, <2>1, SameStrays DEF ZlintInv
    <2> QED BY <2>1, <2>2, <2>3, <2>4, SoundPrimed DEF ZlintInv
  <1>7. OneAtATime
    <2>1. z.cur \in Nat /\ s.cur = z.cur /\ s.fault = "none"
      BY <1>2, TestsAre DEF Begins
    <2> QED BY <1>4, <2>1 DEF OneAtATime
  <1> QED BY <1>6, <1>7

(* The init of the test; it alone may go on by two tests, when its request *)
(* could not be sent.                                                      *)
LEMMA ConnectNotifyStep ==
    ASSUME ZlintInv, ConnectNotify
    PROVE  ZlintInv' /\ (OneAtATime \/ unsent')
  <1> DEFINE s == [Quiet EXCEPT !.line = "ready"]
  <1>1. /\ Running /\ z.line = "connecting"
        /\ z \in ZlintType /\ Sound(z, Strayed)
    BY DEF ConnectNotify, Running, ZlintInv
  <1>2. Begins(s)
    BY <1>1, BeginsIs
  <1>3. s.line = "ready" /\ s.due = <<>> /\ (Ahead(s) => Fresh(s))
    <2> DEFINE q == Quiet
    <2>1. /\ q \in ZlintType /\ q.due = z.due /\ q.cur = z.cur
          /\ q.at = z.at
      BY <1>1, QuietIs
    <2> HIDE DEF q
    <2> DEFINE x == [q EXCEPT !.line = "ready"]
    <2>2. /\ x.line = "ready" /\ x.due = z.due /\ x.cur = z.cur
          /\ x.at = z.at
      BY <2>1, LineIs
    <2> HIDE DEF x
    <2>3. z.due = <<>> /\ (Ahead(z) => Fresh(z))
      BY <1>1 DEF Sound, SearchOK
    <2>4. x.line = "ready" /\ x.due = <<>> /\ (Ahead(x) => Fresh(x))
      BY <2>2, <2>3 DEF Ahead, Fresh
    <2> QED BY <2>4 DEF x, q
  <1>10. Settled(s) /\ (IsScan(s) => ~s.begun)
    <2>1. Settled(z) /\ (IsScan(z) => ~z.begun)
      BY <1>1 DEF Sound, Between
    <2> HIDE DEF s
    <2> QED BY <1>2, <2>1 DEF Begins, Settled, IsScan
  <1>4. PICK accepted \in 0 .. Current(z).requests :
          /\ z' = Continue(TestInit(s, accepted))
          /\ unsent' = (accepted < Current(z).requests)
    BY DEF ConnectNotify
  <1>5. fits' = TRUE /\ strays' = strays
    BY DEF ConnectNotify
  <1> HIDE DEF s
  <1> DEFINE n == Current(s).requests
             r == Continue(TestInit(s, accepted))
  <1>6. Current(z).requests = n /\ n \in Nat
    <2>1. Current(s) = Current(z)
      BY <1>2 DEF Current, Begins
    <2>2. n \in Nat
      BY <1>2, RequestsAre DEF Begins
    <2> QED BY <2>1, <2>2
  <1>7. /\ r \in ZlintType /\ r.mute = s.mute
        /\ r.fault \in {"none", "test"}
        /\ r.fault = "none" => Sound(r, Strayed')
        /\ CountersOK(r) /\ (r.line # "none" => r.cur \in TestIds)
        /\ accepted = n => Stays(s, r)
    BY <1>2, <1>3, <1>4, <1>6, <1>10, TestInitIs DEF Begins
  <1>8. z' = r /\ unsent' = (accepted < n)
    BY <1>4, <1>6
  <1>9. accepted \in 0 .. n
    BY <1>6
  <1> HIDE DEF n, r
  <1>11. ZlintInv'
    <2>1. /\ z' = r /\ z' \in ZlintType /\ z'.mute = z.mute
          /\ z'.fault = "none" => Sound(z', Strayed')
          /\ CountersOK(z') /\ (z'.line # "none" => z'.cur \in TestIds)
          /\ z'.fault # "item"
      BY <1>2, <1>7, <1>8 DEF Begins
    <2>2. OkIsEarned'
      BY <1>5 DEF OkIsEarned
    <2>3. unsent' \in BOOLEAN
      BY <1>8
    <2>4. TestIds' = TestIds
      BY DEF TestIds
    <2>5. strays' \in [TestIds -> 0..2] /\ z'.mute \subseteq Strayed'
      BY <1>5, <2>1, SameStrays DEF ZlintInv
    <2> QED BY <1>5, <2>1, <2>2, <2>3, <2>4, <2>5, SoundPrimed DEF ZlintInv
  <1>12. CASE accepted = n
    <2>1. z.cur \in Nat /\ s.cur = z.cur /\ s.fault = "none"
      BY <1>2, TestsAre DEF Begins
    <2>2. OneAtATime
      BY <1>7, <1>8, <1>12, <2>1 DEF OneAtATime, Stays
    <2> QED BY <1>11, <2>2
  <1>13. CASE accepted # n
    <2>1. accepted < n
      BY <1>6, <1>9, <1>13
    <2>2. unsent'
      BY <1>8, <2>1
    <2> QED BY <1>11, <2>2
  <1> QED BY <1>12, <1>13

(* An answer: by the kind of the current test.                             *)
LEMMA RecvGDUStep ==
    ASSUME ZlintInv, RecvGDU
    PROVE  ZlintInv' /\ OneAtATime
  <1>1. /\ Running /\ z \in ZlintType /\ Sound(z, Strayed)
        /\ z.due # <<>> /\ z.line = "ready" /\ z.due \in Seq(Requests)
        /\ z.cur \in TestIds
    <2>1. z \in ZlintType /\ Running /\ Sound(z, Strayed) /\ z.due # <<>>
      BY DEF RecvGDU, Running, ZlintInv
    <2> QED BY <2>1 DEF Sound, Running, ZlintType
  <1> DEFINE due == Tail(z.due)
             s == [Quiet EXCEPT !.due = due]
  <1>2. due \in Seq(Requests)
    BY <1>1
  <1>3. PICK a \in Answers, accepted \in BOOLEAN :
          /\ z' = Continue(TestRecv([Quiet EXCEPT !.due = Tail(@)],
                                    a, accepted))
          /\ fits' = (fits /\ a.kind = "init" /\ Meets(z, a))
          /\ strays' = IF Stray(a)
                       THEN [strays EXCEPT ![z.cur] = IF @ = 1 THEN 2 ELSE 1]
                       ELSE strays
    BY DEF RecvGDU
  <1>4. [Quiet EXCEPT !.due = Tail(@)] = s
    <2>1. Quiet.due = z.due
      BY <1>1, BeginsIs
    <2> QED BY <2>1
  <1>5. unsent' = FALSE
    BY DEF RecvGDU
  <1>6. Begins(s) /\ s.due = due /\ s.line = "ready"
    <2> HIDE DEF due
    <2> QED BY <1>1, <1>2, BeginsIs
  <1> DEFINE r == Continue(TestRecv(s, a, accepted))
             stray == Stray(a)
  <1>7. z' = r
    BY <1>3, <1>4
  <1>8. /\ s \in ZlintType /\ s.cur \in TestIds /\ s.mute = z.mute
        /\ s.printed = {} /\ s.cur = z.cur /\ s.at = z.at
        /\ s.begun = z.begun /\ CountersOK(s) /\ SearchBounded(s.at)
    BY <1>6 DEF Begins, CountersOK
  <1>9. fits \in BOOLEAN /\ fits' \in BOOLEAN
    BY <1>3 DEF ZlintInv
  <1>13. /\ strays' \in [TestIds -> 0..2]
         /\ Strayed \subseteq Strayed' /\ z.mute \subseteq Strayed'
         /\ stray => z.cur \in Strayed'
    BY <1>1, <1>3, StraysAre DEF ZlintInv
  <1>14. stray <=> a.kind # Head(z.due) /\ a.kind \in Takes(Tests[z.cur])
    BY DEF Stray
  <1> HIDE DEF s, due, stray
  <1>15. ASSUME r.mute \subseteq Strayed', Kept(s, r), SearchBounded(r.at),
                OkIsEarned'
         PROVE  Callback(s, r)
    BY <1>1, <1>5, <1>6, <1>7, <1>9, <1>13, <1>15 DEF Callback, Running
  <1>10. CASE IsInitTest(s.cur)
    <2> DEFINE fit == a.kind = "init" /\ Meets(s, a)
    <2>1. Tests[s.cur] \notin {"search_01", "scan_01"}
      BY <1>10 DEF IsInitTest
    <2>2. /\ SearchPart(r.at) = SearchPart(s.at) /\ Kept(s, r)
          /\ Leaves(s, r) \/ (Stays(s, r) /\ fit)
          /\ \A t : <<t, "OK">> \in r.printed => fit
          /\ r.mute = s.mute
      BY <1>8, <2>1, InitRecvIs
    <2>3. fit => fits'
      <3>1. fits
        BY <1>1, <1>8, <1>10 DEF ZlintInv, Running
      <3>2. Meets(s, a) => Meets(z, a)
        BY <1>8 DEF Meets
      <3> QED BY <1>3, <3>1, <3>2
    <2> HIDE DEF r, fit
    <2>4. OkIsEarned'
      BY <1>7, <2>2, <2>3 DEF OkIsEarned
    <2>5. ~IsSearch(s) /\ ~IsScan(s) /\ SearchBounded(r.at)
      BY <1>8, <2>1, <2>2, SameSearchPart DEF IsSearch, IsScan
    <2>8. Callback(s, r)
      BY <1>8, <1>13, <1>15, <2>2, <2>4, <2>5
    <2>6. CASE Leaves(s, r)
      BY <2>2, <2>6, <2>8, LeavingIs
    <2>7. CASE Stays(s, r) /\ fit
      BY <1>6, <2>2, <2>3, <2>5, <2>7, <2>8, StayingIs
    <2> QED BY <2>2, <2>6, <2>7
  <1>11. CASE IsSearch(s)
    <2>1. TestRecv(s, a, accepted) = RecvSearch(s, a, accepted)
      BY <1>11 DEF TestRecv, IsSearch
    <2>2. r = Continue(RecvSearch(s, a, accepted))
      BY <2>1
    <2>3. ASSUME z.cur \notin Strayed'
          PROVE  Expected(s, a)
      <3> DEFINE kind == Head(z.due)
      <3>1. SearchDue(z)
        BY <1>1, <1>8, <1>11, <1>13, <2>3 DEF Sound, SearchOK, IsSearch
      <3>2. ASSUME NEW k, z.due = <<k>>
            PROVE  due = <<>> /\ kind = k
        BY <3>2 DEF due
      <3> HIDE DEF kind
      <3>3. \/ /\ due = <<>> /\ kind = "init" /\ Fresh(z)
            \/ /\ due = <<>> /\ kind = "search" /\ ~z.at.got_result_set
               /\ z.at.query_no < Queries /\ z.at.syntax_no = 0
               /\ z.at.sort_no = 0
            \/ /\ due = <<>> /\ kind = "present" /\ z.at.got_result_set
               /\ z.at.syntax_no < Syntaxes /\ z.at.sort_no = 0
            \/ /\ due = <<>> /\ kind = "sort" /\ z.at.got_result_set
               /\ z.at.syntax_no = Syntaxes /\ z.at.sort_no < Sorts
        BY <3>1, <3>2 DEF SearchDue
      <3>4. Fresh(z) => Fresh(s)
        BY <1>8 DEF Fresh
      <3>5. due = <<>> /\ Awaits(s, kind)
        BY <1>8, <3>3, <3>4 DEF Awaits
      <3>6. Takes(Tests[z.cur]) = {"init", "search", "present", "sort"}
        BY <1>8, <1>11 DEF Takes, IsSearch
      <3>7. a.kind = kind \/ a.kind \notin {"init", "search", "present", "sort"}
        BY <1>13, <1>14, <2>3, <3>6 DEF kind
      <3> QED BY <1>6, <3>5, <3>7 DEF Expected
    <2> HIDE DEF r
    <2>4. /\ OnlyOn(s, r) /\ SearchBounded(r.at) /\ Kept(s, r)
          /\ Mutes(s, r)
          /\ \/ Leaves(s, r) \/ Stays(s, r)
             \/ Stops(s, r, "part") \/ Stops(s, r, "item")
          /\ Expected(s, a) =>
               /\ r.mute = s.mute
               /\ \/ Leaves(s, r) \/ (Stays(s, r) /\ SearchDue(r))
                  \/ Stops(s, r, "part")
      BY <1>8, <2>2, SearchRecvIs
    <2>5. r.mute \subseteq Strayed'
      BY <1>8, <1>13, <2>3, <2>4 DEF Mutes
    <2>6. OkIsEarned'
      BY <1>7, <1>11, <2>4 DEF OkIsEarned, OnlyOn, IsSearch
    <2>7. Callback(s, r)
      BY <1>15, <2>4, <2>5, <2>6
    <2>8. ~IsScan(s) /\ ~IsInitTest(s.cur)
      BY <1>11 DEF IsInitTest, IsSearch, IsScan
    <2>9. \/ Leaves(s, r) \/ Stops(s, r, "part")
          \/ Stays(s, r) /\ (s.cur \notin Strayed' => SearchDue(r))
          \/ Stops(s, r, "item") /\ s.cur \in Strayed'
      BY <1>8, <2>3, <2>4
    <2>10. CASE Leaves(s, r)
      BY <1>11, <2>7, <2>10, LeavingIs
    <2>11. CASE Stays(s, r) /\ (s.cur \notin Strayed' => SearchDue(r))
      BY <1>6, <1>11, <2>7, <2>8, <2>11, StayingIs
    <2>12. CASE Stops(s, r, "part")
      BY <2>7, <2>12, StoppingIs
    <2>13. CASE Stops(s, r, "item") /\ s.cur \in Strayed'
      BY <1>11, <2>7, <2>13, StoppingIs
    <2> QED BY <2>9, <2>10, <2>11, <2>12, <2>13
  <1>12. CASE IsScan(s)
    <2>1. r = Continue(RecvScan(s, a, accepted))
      BY <1>12 DEF TestRecv, IsScan
    <2>2. ASSUME z.cur \notin Strayed'
          PROVE  s.due = <<>> /\ (a.kind = "init" => ~s.begun)
      <3> DEFINE kind == Head(z.due)
      <3>1. ScanDue(z)
        BY <1>1, <1>8, <1>12, <1>13, <2>2 DEF Sound, SearchOK, IsScan
      <3>2. ASSUME NEW k, z.due = <<k>>
            PROVE  due = <<>> /\ kind = k
        BY <3>2 DEF due
      <3>3. Takes(Tests[z.cur]) = {"init", "scan"}
        BY <1>8, <1>12 DEF Takes, IsScan
      <3>4. a.kind = "init" => kind = "init"
        BY <1>13, <1>14, <2>2, <3>3
      <3> HIDE DEF kind
      <3>5. due = <<>> /\ (kind = "init" => ~z.begun)
        BY <3>1, <3>2 DEF ScanDue
      <3> QED BY <1>6, <1>8, <3>4, <3>5
    <2> HIDE DEF r
    <2>3. s.at.scan_no < Scans
      BY <1>8, <1>12 DEF CountersOK
    <2>4. /\ OnlyOn(s, r) /\ SearchPart(r.at) = SearchPart(s.at)
          /\ Kept(s, r) /\ Mutes(s, r)
          /\ \/ Leaves(s, r) \/ Stops(s, r, "part")
             \/ Stays(s, r) /\ (s.due = <<>> => ScanDue(r))
          /\ (a.kind = "init" => ~s.begun) => r.mute = s.mute
      BY <1>8, <1>12, <2>1, <2>3, ScanRecvIs
    <2>5. r.mute \subseteq Strayed'
      BY <1>8, <1>13, <2>2, <2>4 DEF Mutes
    <2>6. OkIsEarned'
      BY <1>7, <1>12, <2>4 DEF OkIsEarned, OnlyOn, IsScan
    <2>7. SearchBounded(r.at)
      BY <1>8, <2>4, SameSearchPart
    <2>8. Callback(s, r)
      BY <1>15, <2>4, <2>5, <2>6, <2>7
    <2>9. ~IsSearch(s) /\ ~IsInitTest(s.cur)
      BY <1>12 DEF IsInitTest, IsSearch, IsScan
    <2>10. s.cur \notin Strayed' => s.due = <<>>
      BY <1>8, <2>2
    <2>11. CASE Leaves(s, r)
      BY <2>4, <2>8, <2>11, LeavingIs
    <2>12. CASE Stays(s, r) /\ (s.due = <<>> => ScanDue(r))
      BY <1>6, <2>4, <2>8, <2>9, <2>10, <2>12, StayingIs
    <2>13. CASE Stops(s, r, "part")
      BY <2>8, <2>13, StoppingIs
    <2> QED BY <2>4, <2>11, <2>12, <2>13
  <1> QED BY <1>8, <1>10, <1>11, <1>12 DEF IsInitTest, IsSearch, IsScan

(* The connection is lost.                                                 *)
LEMMA LineFailsStep ==
    ASSUME ZlintInv, LineFails
    PROVE  ZlintInv' /\ OneAtATime
  <1> DEFINE s == Shutdown(Quiet)
  <1>1. Running
    BY DEF LineFails
  <1>2. /\ z' = FailNotify(s) /\ unsent' = FALSE
        /\ fits' = fits /\ strays' = strays
    BY DEF LineFails
  <1>3. Begins(s) /\ fits \in BOOLEAN
    BY <1>1, BeginsIs DEF ZlintInv
  <1> HIDE DEF s
  <1> QED BY <1>1, <1>2, <1>3, FailNotifyStep

(* The target was silent for 30 seconds.                                   *)
LEMMA TimeoutNotifyStep ==
    ASSUME ZlintInv, TimeoutNotify
    PROVE  ZlintInv' /\ OneAtATime
  <1>1. Running
    BY DEF TimeoutNotify
  <1>2. /\ z' = FailNotify(Quiet) /\ unsent' = FALSE
        /\ fits' = fits /\ strays' = strays
    BY DEF TimeoutNotify
  <1>3. Begins(Quiet) /\ fits \in BOOLEAN
    BY <1>1, BeginsIs DEF ZlintInv
  <1> QED BY <1>1, <1>2, <1>3, FailNotifyStep

(* Every callback keeps the invariant and does what SkipsOnlyAfterUnsent   *)
(* allows.                                                                 *)
LEMMA ZlintSteps ==
    ZlintInv /\ [Next]_vars =>
        /\ ZlintInv'
        /\ z'.cur > z.cur + 1 \/ z'.fault = "test" => unsent' \/ UNCHANGED vars
  <1> SUFFICES ASSUME ZlintInv, [Next]_vars
               PROVE  ZlintInv' /\ (UNCHANGED vars \/ OneAtATime \/ unsent')
    BY DEF OneAtATime
  <1>1. CASE UNCHANGED vars
    <2>1. z' = z /\ unsent' = unsent /\ fits' = fits /\ strays' = strays
      BY <1>1 DEF vars
    <2>2. Strayed' = Strayed /\ strays' \in [TestIds -> 0..2]
      BY <2>1, SameStrays DEF ZlintInv
    <2>3. OkIsEarned'
      BY <2>1 DEF ZlintInv, OkIsEarned, TestIds
    <2>4. TestIds' = TestIds
      BY DEF TestIds
    <2> QED BY <1>1, <2>1, <2>2, <2>3, <2>4, SoundPrimed DEF ZlintInv
  <1>2. CASE DialRefused
    BY <1>2, DialRefusedStep
  <1>3. CASE ConnectNotify
    BY <1>3, ConnectNotifyStep
  <1>4. CASE RecvGDU
    BY <1>4, RecvGDUStep
  <1>5. CASE LineFails
    BY <1>5, LineFailsStep
  <1>6. CASE TimeoutNotify
    BY <1>6, TimeoutNotifyStep
  <1> QED BY <1>1, <1>2, <1>3, <1>4, <1>5, <1>6 DEF Next

(* The invariant holds in every behaviour.                                 *)
LEMMA ZlintInvariance == Spec => []ZlintInv
  <1>1. Init => ZlintInv
    BY StartIs
  <1>2. ZlintInv /\ [Next]_vars => ZlintInv'
    BY ZlintSteps
  <1> QED BY <1>1, <1>2, PTL DEF Spec

(* For any tests, lists and target: the variables have their types, an     *)
(* association that is not closed has a current test, and no position goes *)
(* further than one past the null of its list, though the counters of      *)
(* search_01 and scan_01 move in several callbacks, those of a failed send *)
(* in the middle of one.                                                   *)
THEOREM TypesAndPositions == Spec => []TypeOK
  <1>1. ZlintInv => TypeOK
    <2> SUFFICES ASSUME ZlintInv PROVE TypeOK
      OBVIOUS
    <2>1. /\ z \in ZlintType /\ z.at \in ProgressType /\ CountersOK(z)
          /\ unsent \in BOOLEAN /\ fits \in BOOLEAN
          /\ strays \in [TestIds -> 0..2]
          /\ z.line # "none" => z.cur # NoTest
      BY TestsAre DEF ZlintInv, ZlintType
    <2>2. /\ z.cur \in 1 .. NoTest
          /\ z.line \in {"none", "connecting", "ready"}
          /\ z.due \in Seq(Requests)
          /\ {z.begun, z.reported, unsent, fits} \subseteq BOOLEAN
          /\ z.mute \subseteq TestIds
          /\ z.fault \in {"none", "test", "part", "item"}
      BY <2>1 DEF ZlintType
    <2>3. /\ z.at.no \in 0 .. 2 /\ z.at.query_no \in 0 .. Queries + 1
          /\ z.at.syntax_no \in 0 .. Syntaxes + 1
          /\ z.at.sort_no \in 0 .. Sorts + 1 /\ z.at.scan_no \in 0 .. Scans
      BY <2>1, BoundsAre DEF ProgressType, CountersOK, SearchBounded
    <2> QED BY <2>1, <2>2, <2>3 DEF TypeOK, Requests
  <1> QED BY <1>1, ZlintInvariance, PTL

(* Whatever the target answers, no test but a search_01 that was sent a    *)
(* response to another request reads past its list or takes the null that  *)
(* ends it for an entry.  In particular scan_01 never does, strays or not, *)
(* though a failure nested in sendTest moves its position too.             *)
THEOREM OnlyStraysPassTheNull == Spec => []EntriesExist
  <1>1. ZlintInv => EntriesExist
    BY DEF ZlintInv, EntriesExist, IsSearch
  <1> QED BY <1>1, ZlintInvariance, PTL

(* Whatever the target answers, every check that msg_check_for begins has  *)
(* its verdict before the next check or the next test begins, unless the   *)
(* test was sent a response to another request: by an answer, a lost       *)
(* connection, a timeout or a send that fails.                             *)
THEOREM EveryCheckHasAVerdict == Spec => []LeavesAVerdict
  <1>1. ZlintInv => LeavesAVerdict
    BY DEF ZlintInv, LeavesAVerdict
  <1> QED BY <1>1, ZlintInvariance, PTL

(* For any target: zlint prints "OK" on an init test only if every         *)
(* initResponse of the connection was what the test says it checks for,    *)
(* although several handlers go on to msg_check_ok after they reported a   *)
(* failure.                                                                *)
THEOREM OkOnlyIfEarned == Spec => []OkIsEarned
  <1>1. ZlintInv => OkIsEarned
    BY DEF ZlintInv
  <1> QED BY <1>1, ZlintInvariance, PTL

(* Only an init that could not send its request makes zlint pass over a    *)
(* test or report on no test (close_goto_next in failNotify, and again by  *)
(* the code that init returns).                                            *)
THEOREM OneTestAtATime == Spec => SkipsOnlyAfterUnsent
  <1>1. ZlintInv /\ [Next]_vars
          => [z'.cur > z.cur + 1 \/ z'.fault = "test" => unsent']_vars
    BY ZlintSteps
  <1> QED BY <1>1, ZlintInvariance, PTL DEF Spec, SkipsOnlyAfterUnsent
============================================================================
