------------------------------ MODULE MCExport ------------------------------
(* An instance for TLC: tasks.json in two versions, one of them not JSON,   *)
(* and a calendar in the results.                                           *)
EXTENDS Export

MCNames == <<"tasks.json">>
MCTexts == [s \in Sources |->
              CASE s = "tasks.json" -> {"tasks", "garbled"}
                [] s = Calendar -> {"events"}]
=============================================================================
