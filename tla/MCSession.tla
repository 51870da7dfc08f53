------------------------------ MODULE MCSession -------------------------------
(* Model-checking instances of Session: clients a1 and a2 ask for one path,   *)
(* a2 with either method, b1 for another.  The two paths have one hash, so    *)
(* that their GET requests share a cache file; the response to b1 is empty.   *)
EXTENDS Session

CONSTANTS a1, a2, b1

MCPath == [c \in Clients |-> IF c = b1 THEN "b" ELSE "a"]
MCMethods == [c \in Clients |-> IF c = a2 THEN {"GET", "POST"} ELSE {"GET"}]
MCCacheName(x, path) == <<x, "host", "hash">>
MCLength == [c \in Clients |-> IF c = a1 THEN 2 ELSE IF c = a2 THEN 1 ELSE 0]
===============================================================================
