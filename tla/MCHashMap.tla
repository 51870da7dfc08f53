------------------------------- MODULE MCHashMap -------------------------------
(* An instance of HashMap: two paths share a bucket, a third has its own. *)
EXTENDS HashMap

MCHash == [k \in Keys |-> IF k = "c" THEN 2 ELSE 1]
================================================================================
