------------------------------- MODULE PubSub -------------------------------
(***************************************************************************)
(* What collab::publisher promises its users, without threads, locks or    *)
(* reference counts: joining and quitting are indivisible, a publication   *)
(* is addressed to the members of one instant and delivered to them one    *)
(* after the other in the order they joined, and whoever quits later is    *)
(* still served.                                                           *)
(***************************************************************************)
EXTENDS Integers, SequencesExt

CONSTANTS
  Subscribers,
  Publications,   \* places for publications in flight
  Nobody

VARIABLES
  members,    \* in the order they joined
  due,        \* per publication whom it has still to be delivered to
  hears       \* per publication the member it is being delivered to

pubSubVars == <<members, due, hears>>

PubSubInit ==
  /\ members = <<>>
  /\ due = [p \in Publications |-> <<>>]
  /\ hears = [p \in Publications |-> Nobody]

IsMember(n) == \E j \in 1 .. Len(members) : members[j] = n

Join(n) == /\ ~ IsMember(n)
           /\ members' = Append(members, n)
           /\ UNCHANGED <<due, hears>>

Quit(n) == /\ \E j \in 1 .. Len(members) : members[j] = n /\ members' = RemoveAt(members, j)
           /\ UNCHANGED <<due, hears>>

Begin(p) == /\ due[p] = <<>> /\ hears[p] = Nobody
            /\ due' = [due EXCEPT ![p] = members]
            /\ UNCHANGED <<members, hears>>

Deliver(p) == /\ due[p] # <<>> /\ hears[p] = Nobody
              /\ hears' = [hears EXCEPT ![p] = Head(due[p])]
              /\ due' = [due EXCEPT ![p] = Tail(@)]
              /\ UNCHANGED members

\* The member is served; if it failed, the rest of the members may not be.
Served(p) == /\ hears[p] # Nobody
             /\ hears' = [hears EXCEPT ![p] = Nobody]
             /\ \/ UNCHANGED due
                \/ due' = [due EXCEPT ![p] = <<>>]
             /\ UNCHANGED members

Close == members' = <<>> /\ UNCHANGED <<due, hears>>

PubSubNext ==
  \/ \E n \in Subscribers : Join(n) \/ Quit(n)
  \/ \E p \in Publications : Begin(p) \/ Deliver(p) \/ Served(p)
  \/ Close

PubSubSpec == PubSubInit /\ [][PubSubNext]_pubSubVars
=============================================================================
