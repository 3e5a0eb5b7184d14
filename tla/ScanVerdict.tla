------------------------------ MODULE ScanVerdict ------------------------------
(***************************************************************************)
(* What the product promises about an uploaded CV: its scan is in progress *)
(* until it gets one verdict, a structured profile exists exactly while a  *)
(* completed scan holds it, and a deleted scan leaves nothing behind.      *)
(* The states are those of model.ScanStatus that other transactions see.   *)
(***************************************************************************)

CONSTANT Scans

VARIABLES verdict,   \* verdict[r]: committed status, DELETED once the row is deleted
          kept       \* scans whose structured profile is stored

Init == verdict = [r \in Scans |-> "NONE"] /\ kept = {}

Moved(r, from, to) == verdict[r] \in from /\ verdict' = [verdict EXCEPT ![r] = to]

Accept(r) == Moved(r, {"NONE"}, "PARSING") /\ kept' = kept

Complete(r) == Moved(r, {"PARSING"}, "COMPLETED") /\ kept' = kept \union {r}

Fail(r) == Moved(r, {"PARSING"}, "FAILED") /\ kept' = kept

Delete(r) == Moved(r, {"PARSING", "COMPLETED", "FAILED"}, "DELETED") /\ kept' = kept \ {r}

Next == \E r \in Scans : Accept(r) \/ Complete(r) \/ Fail(r) \/ Delete(r)

Spec == Init /\ [][Next]_<<verdict, kept>>
=============================================================================
