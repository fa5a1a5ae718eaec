----------------------------- MODULE AtomicFile -----------------------------
(***************************************************************************)
(* What a caller of collab::atomic_file_writer is promised: the target is  *)
(* a register.  Replacing it is one indivisible step, a power failure      *)
(* leaves it at some version whose replacement was not yet known to be     *)
(* durable, and an acknowledged version is never undone by one.            *)
(* Versions are numbered in the order of the replacements; 0 is what was   *)
(* there at the start.                                                     *)
(***************************************************************************)
EXTENDS Integers

VARIABLES
  live,     \* the version a reader sees
  disk,     \* the versions a power failure may leave
  newest,   \* number of replacements so far
  acked     \* versions whose commit() has returned

registerVars == <<live, disk, newest, acked>>

RegisterInit == live = 0 /\ disk = {0} /\ newest = 0 /\ acked = {}

Replace ==
  /\ newest' = newest + 1
  /\ live' = newest'
  /\ \/ disk' = disk \cup {newest'}
     \/ disk' = {newest'}                  \* written through
  /\ UNCHANGED acked

Flush == disk' = {live} /\ UNCHANGED <<live, newest, acked>>

(* commit() of version v returns: no failure can go back before v.  A      *)
(* flush may be part of the step.                                          *)
Acknowledge(v) ==
  /\ disk' \in {disk, {live}}
  /\ \A u \in disk' : u >= v
  /\ acked' = acked \cup {v}
  /\ UNCHANGED <<live, newest>>

PowerFailure ==
  /\ live' \in disk
  /\ disk' = {live'}
  /\ UNCHANGED <<newest, acked>>

RegisterNext == Replace \/ Flush \/ (\E v \in 1 .. newest : Acknowledge(v)) \/ PowerFailure

RegisterSpec == RegisterInit /\ [][RegisterNext]_registerVars
=============================================================================
