------------------------------ MODULE Journal ------------------------------
(***************************************************************************)
(* What collab::log promises the application, without locks, loggers or    *)
(* threads: a message that is posted reaches every installed sink at one   *)
(* instant, at which its level was enabled; one that is dropped was below  *)
(* the level at some instant of its call; and the arguments of one that    *)
(* never was enabled during its call are not formatted.                    *)
(***************************************************************************)
EXTENDS Integers, Sequences

CONSTANTS
  Targets,    \* what can be installed
  Fallible,   \* the targets that can fail to take any message
  Calls,      \* names for the calls
  Rank,       \* the rank of each level
  Style,      \* how each target shows whom a message comes from
  Nobody      \* in place of an identifier

VARIABLES
  threshold,  \* the level messages need
  targets,    \* the installed targets, in order
  entries,    \* what each target has taken
  posts       \* the calls: their state, arguments, and the thresholds they have seen

journalVars == <<threshold, targets, entries, posts>>

Label(s, id) ==
  CASE id = Nobody -> <<>>
    [] id # Nobody /\ Style[s] = "display name" -> <<id.app_name>>
    [] id # Nobody /\ Style[s] = "bundle ID" -> <<<<id.tld, id.org_id, id.app_id>>>>
    [] OTHER -> <<id>>

JournalInit ==
  /\ threshold = "info"
  /\ targets = <<>>
  /\ entries = [s \in Targets |-> <<>>]
  /\ \A m \in Calls : posts[m].st = "none"

Open(m) == posts[m].st = "open"

\* Of a call that has returned only outcome and level are remembered.
Close(m, st) ==
  posts' = [posts EXCEPT ![m] = [st |-> st, lvl |-> posts[m].lvl, id |-> Nobody, fmt |-> FALSE,
                                 seen |-> {}]]

Call(m) ==
  /\ posts[m].st = "none"
  /\ posts'[m].st = "open" /\ posts'[m].seen = {threshold}
  /\ \A k \in Calls \ {m} : posts'[k] = posts[k]
  /\ UNCHANGED <<threshold, targets, entries>>

SetThreshold(l) ==
  /\ threshold' = l
  /\ posts' = [m \in Calls |-> IF Open(m) THEN [posts[m] EXCEPT !.seen = @ \cup {l}]
                                          ELSE posts[m]]
  /\ UNCHANGED <<targets, entries>>

\* A bundle ID has to be put together, for which there may be no memory.
Fails(s, id) == s \in Fallible \/ (Style[s] = "bundle ID" /\ id # Nobody)

\* All targets take the message, unless one fails: then those before it do.
Post(m) ==
  /\ Open(m) /\ Rank[threshold] <= Rank[posts[m].lvl]
  /\ \E n \in 0 .. Len(targets) :
       /\ n < Len(targets) => Fails(targets[n + 1], posts[m].id)
       /\ entries' = [s \in Targets |->
            IF \E i \in 1 .. n : targets[i] = s
              THEN Append(entries[s], [msg |-> m, by |-> Label(s, posts[m].id)])
              ELSE entries[s]]
  /\ Close(m, "posted")
  /\ UNCHANGED <<threshold, targets>>

Drop(m) ==
  /\ Open(m) /\ \E l \in posts[m].seen : Rank[posts[m].lvl] < Rank[l]
  /\ Close(m, "dropped")
  /\ UNCHANGED <<threshold, targets, entries>>

\* Formatting the arguments failed.
Fail(m) ==
  /\ Open(m) /\ posts[m].fmt /\ \E l \in posts[m].seen : Rank[l] <= Rank[posts[m].lvl]
  /\ Close(m, "failed")
  /\ UNCHANGED <<threshold, targets, entries>>

Install(s) ==
  /\ \A i \in 1 .. Len(targets) : targets[i] # s
  /\ targets' = Append(targets, s)
  /\ UNCHANGED <<threshold, entries, posts>>

Clear == targets' = <<>> /\ UNCHANGED <<threshold, entries, posts>>

JournalNext ==
  \/ \E m \in Calls : Call(m) \/ Post(m) \/ Drop(m) \/ Fail(m)
  \/ \E l \in DOMAIN Rank : SetThreshold(l)
  \/ \E s \in Targets : Install(s)
  \/ Clear

JournalSpec == JournalInit /\ [][JournalNext]_journalVars
=============================================================================
