------------------------------ MODULE MCZlint ------------------------------
(***************************************************************************)
(* Instances of Zlint for TLC: a correct initResponse and the ways in      *)
(* which it can differ from what a test expects, and the tests of main().  *)
(***************************************************************************)
EXTENDS Zlint

Good == [kind |-> "init", version |-> 0..2, result |-> TRUE,
         referenceId |-> "first", options |-> {0, 1, 7, 17},
         charset |-> TRUE, oversized |-> FALSE]

MCInitAnswers ==
    {[Good EXCEPT !.version = v, !.result = r, !.referenceId = i] :
        v \in {0..2, 0..1, 0..5, {1, 2}}, r \in BOOLEAN,
        i \in {"none", "first", "second"}}
    \cup {[Good EXCEPT !.options = o] : o \in {{7}, 0..24, {0, 1}}}
    \cup {[Good EXCEPT !.charset = FALSE], [Good EXCEPT !.oversized = TRUE]}

AllTests == <<"init_01", "init_02", "init_03", "init_04", "init_05", "init_06",
              "init_07", "init_08", "search_01", "scan_01">>
=============================================================================
