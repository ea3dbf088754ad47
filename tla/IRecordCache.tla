---------------------------- MODULE IRecordCache ----------------------------
(***************************************************************************)
(* What a record cache promises: it is a map from what can be asked for, a *)
(* position with a syntax and a composition, to the record that was        *)
(* fetched last for that.  It may decline to keep records, and it answers  *)
(* with all that it is asked for or not at all.                            *)
(***************************************************************************)
CONSTANT Miss  \* the answer if the map lacks a record

VARIABLES
    known,  \* the map: a function on the keys that it has
    call    \* the last call, with its arguments and its answer

vars == <<known, call>>

Empty == [k \in {} |-> Miss]

Override(new, old) ==
    [k \in DOMAIN new \cup DOMAIN old |->
        IF k \in DOMAIN new THEN new[k] ELSE old[k]]

Init == known = Empty /\ call.op = "none"

(* A new result set: all is forgotten.                                     *)
Clear == call'.op = "clear" /\ known' = Empty

(* Records were fetched: they replace what is known for the same keys, or  *)
(* they are not kept.                                                      *)
Add ==
    /\ call'.op = "add"
    /\ known' = Override(call'.fetched, known) \/ UNCHANGED known

(* Some records are asked for.                                             *)
Lookup ==
    /\ call'.op = "lookup"
    /\ LET keys == call'.keys
       IN call'.answer = IF \A i \in DOMAIN keys : keys[i] \in DOMAIN known
                         THEN [i \in DOMAIN keys |-> known[keys[i]]]
                         ELSE Miss
    /\ UNCHANGED known

Other == call'.op = "none" /\ UNCHANGED known

Next == Clear \/ Add \/ Lookup \/ Other

Spec == Init /\ [][Next]_vars
=============================================================================
