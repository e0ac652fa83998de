---------------------------- MODULE MutationRun ----------------------------
(***************************************************************************)
(* What mutate.Run promises its caller, with no worker, channel or cache   *)
(* in sight: entries for visits it owes one for are added one at a time,   *)
(* each at most once and with an outcome that visit can have; then the run *)
(* returns, and without an error only if nothing it owes is missing.       *)
(***************************************************************************)
CONSTANTS
    Owed,        \* the visits the run owes an entry for
    Possible(_)  \* the outcomes a visit can have

VARIABLES
    reported,    \* pairs <<visit, outcome>> collected so far
    returned,    \* Run has returned
    err          \* the error it returned

vars == <<reported, returned, err>>

Settled == {r[1] : r \in reported}

Init == reported = {} /\ returned = FALSE /\ err = "none"

Collect ==
    /\ ~returned
    /\ \E v \in Owed \ Settled : \E o \in Possible(v) :
          reported' = reported \cup {<<v, o>>}
    /\ UNCHANGED <<returned, err>>

Return ==
    /\ ~returned
    /\ returned' = TRUE
    /\ err' \in IF Owed = Settled THEN {"none", "canceled", "failed"}
                                  ELSE {"canceled", "failed"}
    /\ UNCHANGED reported

Next == Collect \/ Return

Safe == Init /\ [][Next]_vars

\* The run ends; when it does is its own affair.
Spec == Safe /\ <>returned
=============================================================================
