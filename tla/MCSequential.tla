---------------------------- MODULE MCSequential ----------------------------
(* What runs on one thread: versions, fixed strings and the generator on   *)
(* small instances.  They share nothing, so each is explored while the     *)
(* others are in their initial states.                                     *)
EXTENDS Semver, FixedString, Codegen

CONSTANTS s0, s1, s2, r2

MCLengths == [x \in Slots |-> IF x = s0 THEN 0 ELSE IF x = s1 THEN 1 ELSE 2]

\* '+' 43, '-' 45, '.' 46, '0' 48, '1' 49, '9' 57, 'a' 97, 'b' 98
MCPre ==
  {<<>>, <<46>>, <<43>>, <<45>>, <<48>>, <<49>>, <<57>>, <<97>>, <<98>>,
   <<49, 48>>, <<48, 49>>, <<57, 57>>, <<97, 97>>, <<97, 45>>, <<49, 97>>, <<97, 49>>, <<97, 43>>,
   <<97, 46>>, <<97, 46, 97>>, <<97, 46, 49>>, <<97, 46, 57>>, <<97, 46, 49, 48>>, <<49, 46, 97>>,
   <<97, 46, 97, 46, 49>>, <<97, 43, 98>>, <<54, 52>>, <<54, 53>>}

Version(j, n, p, pre, build) ==
  [major |-> j, minor |-> n, patch |-> p, pre_release |-> pre, build |-> build]

MCVersions ==
  {Version(1, 0, 0, pre, <<>>) : pre \in MCPre}
    \cup {Version(1, 0, 0, pre, <<98>>) : pre \in {<<>>, <<97>>}}
    \cup {Version(0, 9, 0, <<>>, <<>>), Version(0, 10, 0, <<>>, <<>>), Version(1, 0, 1, <<97>>, <<>>),
          Version(1, 0, -1, <<>>, <<>>), Version(11, 0, 0, <<>>, <<>>)}

\* x::detail is joined by ::; detailed begins with detail, and mydetail ends with it.
MCSpelling == [ns \in Outer \cup Inner |->
  CASE ns = "detail::inner" -> <<"detail", "::", "inner">> [] ns = "x::detail" -> <<"x", "::", "detail">>
    [] ns = "detailed" -> <<"detail", "ed">> [] ns = "mydetail" -> <<"my", "detail">> [] OTHER -> <<ns>>]

Init == SemverInit /\ FixedInit /\ GenInit

Next ==
  \/ SemverNext /\ FixedInit /\ GenInit /\ UNCHANGED <<str, genVars>>
  \/ FixedNext /\ SemverInit /\ GenInit /\ UNCHANGED <<pool, genVars>>
  \/ GenNext /\ SemverInit /\ FixedInit /\ UNCHANGED <<pool, str>>

Spec == Init /\ [][Next]_<<pool, str, genVars>>
=============================================================================
