------------------------------- MODULE MCLog -------------------------------
(* A small instance of Log for TLC.                                        *)
EXTENDS Log

CONSTANTS t1, t2, file, other, app

MCKindOf == [s \in Sinks |-> IF s = app THEN "chatty" ELSE "file"]

MCCaller == [m \in Messages |->
  IF m = 1 THEN [app_id |-> "slug", app_name |-> "Name", org_id |-> "org", tld |-> "com"] ELSE NoId]

\* The lowest level there is, which the log starts above, and off, which no level rejects.
MCMsgLevels == [m \in Messages |-> IF m = 1 THEN {"trace"} ELSE {"off"}]

\* One thread is the application that owns the sinks, the other a library with one of its own.
MCDoes == [t \in Threads |->
  IF t = t1 THEN Operations ELSE {"format", "make"}]
=============================================================================
