---------------------------- MODULE PubSubProofs ----------------------------
(***************************************************************************)
(* What is proved about Publisher for any number of threads, subscriptions *)
(* and subscribers: type correctness, that no user code runs under the     *)
(* lock, who is served by a publication, who can end which subscription,   *)
(* what is left behind, and that it implements PubSub.  The first rest on  *)
(* two facts about the stacks: the calls below the innermost one are       *)
(* invoking a handler or destroying their locals, and whoever holds the    *)
(* lock is in the call that will unlock it.                                *)
(***************************************************************************)
EXTENDS Publisher, SequenceTheorems, FiniteSetTheorems, WellFoundedInduction, TLAPS

\* Stacks have a finite height.
LEMMA MaxDepthNat == MaxDepth \in Nat
BY BoundsAssumption DEF MaxDepth

-----------------------------------------------------------------------------
(* Sequences.                                                              *)

\* A set of numbers has a smallest one, the position std::find stops at.
LEMMA SmallestExists ==
  ASSUME NEW I \in SUBSET Nat, I # {}
  PROVE  Min(I) \in I
<1> DEFINE Less == {ss \in Nat \X Nat : ss[1] < ss[2]}
<1>0. IsWellFoundedOn(Less, Nat)
  BY NatLessThanWellFounded DEF OpToRel
<1>1. PICK m \in I : \A x \in I : ~ (<<x, m>> \in Less)
  BY <1>0, WFMin
<1>2. \A x \in I : m <= x
  <2> SUFFICES ASSUME NEW x \in I PROVE ~ x < m
    OBVIOUS
  <2>1. <<x, m>> \notin Less
    BY <1>1
  <2> QED
    BY <2>1
<1> QED
  BY <1>2 DEF Min

\* Erasing from a list leaves a list of the same kind.
LEMMA RemoveFirstType ==
  ASSUME NEW S, NEW s \in Seq(S), NEW e
  PROVE  RemoveFirst(s, e) \in Seq(S)
<1>1. CASE \E i \in 1 .. Len(s) : s[i] = e
  <2> DEFINE I == {i \in 1 .. Len(s) : s[i] = e}
             j == Min(I)
  <2>1. I \in SUBSET Nat /\ I # {}
    BY <1>1
  <2>2. j \in 1 .. Len(s)
    BY <2>1, SmallestExists
  <2>3. SelectInSeq(s, LAMBDA v : v = e) = j
    BY <2>1 DEF SelectInSeq
  <2> HIDE DEF j
  <2>4. SubSeq(s, 1, j - 1) \in Seq(S)
    <3>1. \A i \in 1 .. j - 1 : s[i] \in S
      BY <2>2, ElementOfSeq
    <3> QED
      BY <2>2, <3>1, SubSeqProperties
  <2>5. SubSeq(s, j + 1, Len(s)) \in Seq(S)
    <3>1. \A i \in j + 1 .. Len(s) : s[i] \in S
      BY <2>2, ElementOfSeq
    <3> QED
      BY <2>2, <3>1, SubSeqProperties, LenProperties
  <2> QED
    BY <1>1, <2>3, <2>4, <2>5, ConcatProperties DEF RemoveFirst, RemoveAt
<1> QED
  BY <1>1 DEF RemoveFirst

-----------------------------------------------------------------------------
(* Type correctness.  The frames of calls that have a subscriber name one. *)

GoodFrames ==
  {f \in Frames : /\ f.pc = "push" => f.op = "connect"
                  /\ f.op \in {"connect", "disconnect"} => f.node \in Nodes}
FrameTable == [Threads -> [1 .. MaxDepth -> GoodFrames]]
Depths     == [Threads -> 0 .. MaxDepth]
LockStates == [writer : Threads \cup {None}, readers : SUBSET Threads]

Typed == TypeOK /\ frame \in FrameTable

\* The innermost call of a thread that is in one is a typed record.
LEMMA TopType ==
  ASSUME Typed, NEW t \in Threads, depth[t] > 0
  PROVE  /\ depth[t] \in 1 .. MaxDepth
         /\ Top(t) \in GoodFrames /\ Top(t) \in Frames
         /\ Top(t).pc \in PCs /\ Top(t).op \in Ops
         /\ Top(t).key \in Keys \cup {None} /\ Top(t).from \in Keys \cup {None}
         /\ Top(t).node \in Nodes \cup {None}
         /\ Top(t).refs \in Seq(Nodes) /\ Top(t).i \in Nat
         /\ Top(t).pc = "push" => Top(t).op = "connect"
         /\ Top(t).op \in {"connect", "disconnect"} => Top(t).node \in Nodes
<1>1. depth[t] \in 1 .. MaxDepth
  BY MaxDepthNat DEF Typed, TypeOK
<1>2. frame[t] \in [1 .. MaxDepth -> GoodFrames]
  BY DEF Typed, FrameTable
<1>3. Top(t) \in GoodFrames
  BY <1>1, <1>2 DEF Top
<1> QED
  BY <1>1, <1>3 DEF GoodFrames, Frames

\* The empty place of a stack is typed.
LEMMA NoFrameType == NoFrame \in GoodFrames /\ NoFrame \in Frames
BY EmptySeq DEF NoFrame, GoodFrames, Frames, PCs, Ops

\* What the steps make of a frame is a frame.
LEMMA EditType ==
  ASSUME NEW f \in GoodFrames, NEW pc \in PCs, pc # "push", NEW refs \in Seq(Nodes),
         NEW ctrl \in BOOLEAN, NEW i \in Nat
  PROVE  /\ [f EXCEPT !.pc = pc] \in GoodFrames
         /\ [f EXCEPT !.refs = refs] \in GoodFrames
         /\ [f EXCEPT !.pc = pc, !.key = None] \in GoodFrames
         /\ [f EXCEPT !.pc = pc, !.ctrl = ctrl] \in GoodFrames
         /\ [f EXCEPT !.pc = pc, !.refs = refs] \in GoodFrames
         /\ [f EXCEPT !.pc = pc, !.i = i] \in GoodFrames
         /\ [f EXCEPT !.ctrl = ctrl, !.refs = refs] \in GoodFrames
<1>0. f \in Frames /\ (f.op \in {"connect", "disconnect"} => f.node \in Nodes)
                  /\ (f.pc = "push" => f.op = "connect")
  BY DEF GoodFrames
<1>1. [f EXCEPT !.pc = pc] \in GoodFrames
  BY <1>0 DEF GoodFrames, Frames
<1>2. [f EXCEPT !.refs = refs] \in GoodFrames
  BY <1>0 DEF GoodFrames, Frames
<1>3. [f EXCEPT !.pc = pc, !.key = None] \in GoodFrames
  BY <1>0 DEF GoodFrames, Frames
<1>4. [f EXCEPT !.pc = pc, !.ctrl = ctrl] \in GoodFrames
  BY <1>0 DEF GoodFrames, Frames
<1>5. [f EXCEPT !.pc = pc, !.refs = refs] \in GoodFrames
  BY <1>0 DEF GoodFrames, Frames
<1>6. [f EXCEPT !.pc = pc, !.i = i] \in GoodFrames
  BY <1>0 DEF GoodFrames, Frames
<1>7. [f EXCEPT !.ctrl = ctrl, !.refs = refs] \in GoodFrames
  BY <1>0 DEF GoodFrames, Frames
<1> QED
  BY <1>1, <1>2, <1>3, <1>4, <1>5, <1>6, <1>7

\* A thread goes on in its innermost call.
LEMMA ContinueType ==
  ASSUME Typed, NEW t \in Threads, depth[t] > 0, NEW f \in GoodFrames, Continue(t, f)
  PROVE  frame' \in FrameTable /\ depth' \in Depths
<1>1. frame \in FrameTable /\ depth \in Depths
  BY DEF Typed, TypeOK, Depths
<1> QED
  BY <1>1, TopType DEF Continue, FrameTable

\* The same, when nothing but its place changes.
LEMMA GotoType ==
  ASSUME Typed, NEW t \in Threads, depth[t] > 0, NEW pc \in PCs, pc # "push", Goto(t, pc)
  PROVE  frame' \in FrameTable /\ depth' \in Depths
<1>1. [Top(t) EXCEPT !.pc = pc] \in GoodFrames
  BY TopType DEF GoodFrames, Frames
<1> QED
  BY <1>1, ContinueType DEF Goto

\* A thread makes a call.
LEMMA EnterType ==
  ASSUME Typed, NEW t \in Threads, NEW f \in GoodFrames, Enter(t, f)
  PROVE  frame' \in FrameTable /\ depth' \in Depths
<1>1. frame \in FrameTable /\ depth \in Depths
  BY DEF Typed, TypeOK, Depths
<1>2. depth[t] + 1 \in 1 .. MaxDepth
  BY <1>1, MaxDepthNat DEF Depths, Enter
<1> QED
  BY <1>1, <1>2 DEF Enter, FrameTable, Depths

\* A call returns.
LEMMA LeaveType ==
  ASSUME Typed, NEW t \in Threads, depth[t] > 0, Leave(t)
  PROVE  frame' \in FrameTable /\ depth' \in Depths
<1>1. frame \in FrameTable /\ depth \in Depths
  BY DEF Typed, TypeOK, Depths
<1>2. depth[t] \in 1 .. MaxDepth /\ depth[t] - 1 \in 0 .. MaxDepth
  BY TopType, MaxDepthNat
<1> QED
  BY <1>1, <1>2, NoFrameType DEF Leave, FrameTable, Depths

\* Locking and unlocking keep the type of the lock.
LEMMA LockType ==
  ASSUME Typed, NEW t \in Threads, LockUnique(t) \/ LockShared(t) \/ Unlock(t)
  PROVE  lock' \in LockStates
<1>1. lock \in LockStates
  BY DEF Typed, TypeOK, LockStates
<1>2. CASE LockUnique(t)
  BY <1>1, <1>2 DEF LockUnique, LockStates
<1>3. CASE LockShared(t)
  BY <1>1, <1>3 DEF LockShared, LockStates
<1>4. CASE Unlock(t)
  <2>1. lock.writer \in Threads \cup {None} /\ lock.readers \subseteq Threads
    BY <1>1 DEF LockStates
  <2> QED
    BY <2>1, <1>4 DEF Unlock, LockStates
<1> QED
  BY <1>2, <1>3, <1>4

\* The frame of a call on a subscription that holds something is typed.
LEMMA VisitType ==
  ASSUME Typed, NEW op \in {"disconnect", "connected"}, NEW k \in Keys, token[k] # None,
         NEW from \in Keys \cup {None}
  PROVE  Visit(op, k, from) \in GoodFrames /\ token[k] \in Nodes
<1>1. token[k] \in Nodes /\ Destroyed \in BOOLEAN
  BY DEF Typed, TypeOK, Destroyed
<1> QED
  BY <1>1, NoFrameType DEF Visit, GoodFrames, Frames, PCs, Ops, NoFrame

\* Moving a subscription keeps the tokens typed.
LEMMA MovedType ==
  ASSUME Typed, NEW from \in Keys \cup {None}, NEW to \in Keys \cup {None}, from # None
  PROVE  Moved(from, to) \in [Keys -> Nodes \cup {None}]
BY DEF Typed, TypeOK, Moved

\* Steps within a call that touch nothing but its frame, the lock and the list.
LEMMA InnerType ==
  ASSUME Typed, frame' \in FrameTable, depth' \in Depths, lock' \in LockStates,
         list' \in Seq(Nodes), UNCHANGED <<pubAlive, token, count, past>>
  PROVE  Typed'
<1>1. frame' \in [Threads -> [1 .. MaxDepth -> Frames]]
  BY DEF FrameTable, GoodFrames
<1> QED
  BY <1>1 DEF Typed, TypeOK, Depths, LockStates

\* Steps that move on to another place in the same call.
LEMMA PlaceType ==
  ASSUME Typed, NEW t \in Threads, depth[t] > 0, NEW pc \in PCs, pc # "push", Goto(t, pc),
         UNCHANGED <<pubAlive, token, count, past>>,
         UNCHANGED lock \/ LockUnique(t) \/ LockShared(t) \/ Unlock(t),
         list' \in Seq(Nodes)
  PROVE  Typed'
<1>1. frame' \in FrameTable /\ depth' \in Depths
  BY GotoType
<1>2. lock' \in LockStates
  BY LockType DEF Typed, TypeOK, LockStates
<1> QED
  BY <1>1, <1>2, InnerType

\* The steps of connect() inside the call.
LEMMA ConnectStepsType ==
  ASSUME Typed, NEW t \in Threads,
         PushBack(t) \/ PushBackFails(t) \/ UnlockPushed(t) \/ ReturnToken(t) \/ ReturnTokenFails(t)
  PROVE  Typed'
<1> USE DEF PCs
<1>0. list \in Seq(Nodes) /\ lock \in LockStates
  BY DEF Typed, TypeOK, LockStates
<1>1. CASE PushBack(t)
  <2>1. depth[t] > 0 /\ Top(t).pc = "push"
    BY <1>1 DEF PushBack, At
  <2>2. Append(list, Top(t).node) \in Seq(Nodes)
    BY <1>0, <2>1, TopType
  <2> QED
    BY <1>1, <2>1, <2>2, PlaceType DEF PushBack
<1>2. CASE PushBackFails(t) \/ ReturnTokenFails(t)
  <2>1. depth[t] > 0
    BY <1>2 DEF PushBackFails, ReturnTokenFails, At
  <2>2. [Top(t) EXCEPT !.pc = "release", !.key = None] \in GoodFrames
    BY <2>1, TopType, EditType
  <2>3. frame' \in FrameTable /\ depth' \in Depths
    BY <1>2, <2>1, <2>2, ContinueType DEF PushBackFails, ReturnTokenFails
  <2> QED
    BY <1>0, <1>2, <2>3, InnerType DEF PushBackFails, ReturnTokenFails
<1>3. CASE UnlockPushed(t)
  BY <1>0, <1>3, PlaceType DEF UnlockPushed, At
<1>4. CASE ReturnToken(t)
  BY <1>0, <1>4, PlaceType DEF ReturnToken, At
<1> QED
  BY <1>1, <1>2, <1>3, <1>4

\* The steps of disconnect(), connected() and subscriber_count() inside the call.
LEMMA VisitStepsType ==
  ASSUME Typed, NEW t \in Threads,
         LockCtrl(t) \/ LockSub(t) \/ Erase(t) \/ UnlockErased(t) \/ Find(t) \/ UnlockFound(t)
  PROVE  Typed'
<1> USE DEF PCs
<1>0. list \in Seq(Nodes) /\ lock \in LockStates
  BY DEF Typed, TypeOK, LockStates
<1>1. CASE LockCtrl(t)
  <2>1. depth[t] > 0
    BY <1>1 DEF LockCtrl, At
  <2>2. /\ [Top(t) EXCEPT !.pc = "sub", !.ctrl = TRUE] \in GoodFrames
        /\ [Top(t) EXCEPT !.pc = "release"] \in GoodFrames
    BY <2>1, TopType, EditType
  <2>3. frame' \in FrameTable /\ depth' \in Depths
    BY <1>1, <2>1, <2>2, ContinueType DEF LockCtrl
  <2> QED
    BY <1>0, <1>1, <2>3, InnerType DEF LockCtrl
<1>2. CASE LockSub(t)
  <2>1. depth[t] > 0
    BY <1>2 DEF LockSub, At
  <2>2. Alive(Top(t).node) => Top(t).node \in Nodes
    <3>1. \A c \in Calls : F(c).refs \in Seq(Nodes)
      BY ZenonT(40) DEF Typed, FrameTable, GoodFrames, Frames, Calls, F
    <3>2. \A s \in Seq(Nodes) : ToSet(s) \subseteq Nodes
      BY ElementOfSeq, LenProperties DEF ToSet
    <3> QED
      BY <1>0, <3>1, <3>2 DEF Alive
  <2>3. ASSUME Alive(Top(t).node), NEW pc \in {"erase", "find"}
        PROVE  [Top(t) EXCEPT !.pc = pc, !.refs = <<Top(t).node>>] \in GoodFrames
    <3>1. <<Top(t).node>> \in Seq(Nodes)
      BY <2>2, <2>3
    <3>2. pc \in PCs /\ pc # "push"
      OBVIOUS
    <3> QED
      BY <2>1, <3>1, <3>2, TopType, EditType
  <2>4. [Top(t) EXCEPT !.pc = "release"] \in GoodFrames
    BY <2>1, TopType, EditType
  <2>5. frame' \in FrameTable /\ depth' \in Depths
    BY <1>2, <2>1, <2>3, <2>4, ContinueType DEF LockSub
  <2> QED
    BY <1>0, <1>2, <2>5, InnerType DEF LockSub
<1>3. CASE Erase(t)
  BY <1>0, <1>3, PlaceType, RemoveFirstType DEF Erase, At, Without
<1>4. CASE UnlockErased(t) \/ Find(t) \/ UnlockFound(t)
  BY <1>0, <1>4, PlaceType DEF UnlockErased, Find, UnlockFound, At
<1> QED
  BY <1>1, <1>2, <1>3, <1>4

\* The steps of operator() inside the call.
LEMMA PublishStepsType ==
  ASSUME Typed, NEW t \in Threads,
         \/ Snapshot(t) \/ SnapshotFails(t) \/ UnlockCopied(t) \/ Invoke(t)
         \/ HandlerReturns(t) \/ HandlerThrows(t) \/ EndLoop(t)
  PROVE  Typed'
<1> USE DEF PCs
<1>0. list \in Seq(Nodes) /\ lock \in LockStates
  BY DEF Typed, TypeOK, LockStates
<1>1. CASE Snapshot(t)
  <2>1. depth[t] > 0
    BY <1>1 DEF Snapshot, At
  <2>2. [Top(t) EXCEPT !.pc = "copied", !.refs = list] \in GoodFrames
    BY <1>0, <2>1, TopType, EditType
  <2>3. frame' \in FrameTable /\ depth' \in Depths
    BY <1>1, <2>1, <2>2, ContinueType DEF Snapshot
  <2> QED
    BY <1>0, <1>1, <2>3, InnerType, LockType DEF Snapshot
<1>2. CASE Invoke(t)
  <2>1. depth[t] > 0
    BY <1>2 DEF Invoke, At
  <2>2. [Top(t) EXCEPT !.pc = "handler", !.i = @ + 1] \in GoodFrames
    <3>1. Top(t).i + 1 \in Nat
      BY <2>1, TopType
    <3>2. [Top(t) EXCEPT !.pc = "handler", !.i = Top(t).i + 1] \in GoodFrames
      BY <2>1, <3>1, TopType, EditType
    <3> QED
      BY <3>2
  <2>3. frame' \in FrameTable /\ depth' \in Depths
    BY <1>2, <2>1, <2>2, ContinueType DEF Invoke
  <2> QED
    BY <1>0, <1>2, <2>3, InnerType DEF Invoke
<1>3. CASE SnapshotFails(t) \/ UnlockCopied(t) \/ HandlerReturns(t) \/ HandlerThrows(t) \/ EndLoop(t)
  BY <1>0, <1>3, PlaceType DEF SnapshotFails, UnlockCopied, HandlerReturns, HandlerThrows, EndLoop, At
<1> QED
  BY <1>1, <1>2, <1>3

-----------------------------------------------------------------------------
(* The calls the program makes.                                            *)

\* The program's bound on calls is kept.
LEMMA CalledType ==
  ASSUME Typed, NEW t \in Threads, MayCall(t), Called
  PROVE  count' \in [nodes : 0 .. MaxNodes, calls : 0 .. MaxCalls]
<1>1. /\ count = [nodes |-> count.nodes, calls |-> count.calls]
      /\ count.nodes \in 0 .. MaxNodes /\ count.calls \in 0 .. MaxCalls
  BY DEF Typed, TypeOK
<1>2. count.calls + 1 \in 0 .. MaxCalls
  BY <1>1, BoundsAssumption DEF MayCall
<1> QED
  BY <1>1, <1>2 DEF Called

\* What the program is told about is recorded as sets of subscribers.
LEMMA PastType ==
  ASSUME Typed, NEW n \in Nodes
  PROVE  /\ [past EXCEPT !.leaving = @ \cup {n}] \in Past
         /\ [past EXCEPT !.joined = @ \cup {n}] \in Past
         /\ [past EXCEPT !.left = @ \cup {n}] \in Past
         /\ [past EXCEPT !.before[n] = past.joined] \in Past
         /\ past.joined \subseteq Nodes /\ past.leaving \subseteq Nodes /\ past.left \subseteq Nodes
BY DEF Typed, TypeOK, Past

LEMMA ConnectType ==
  ASSUME Typed, NEW t \in Threads, NEW dest \in Slots \cup {"self"},
         NEW captured \in Slots \cup {None}, Connect(t, dest, captured)
  PROVE  Typed'
<1> DEFINE n == count.nodes + 1
           key == IF dest = "self" THEN n ELSE dest
           f == [NoFrame EXCEPT !.op = "connect", !.pc = "push", !.key = key,
                                !.node = n, !.refs = <<n>>]
<1>1. n \in Nodes /\ key \in Keys /\ MayCall(t) /\ Enter(t, f)
  BY DEF Connect, Keys
<1>2. f \in GoodFrames
  <2>1. <<n>> \in Seq(Nodes)
    BY <1>1
  <2> QED
    BY ZenonT(40), <1>1, <2>1, NoFrameType DEF GoodFrames, Frames, PCs, Ops, NoFrame
<1>3. frame' \in FrameTable /\ depth' \in Depths
  BY <1>1, <1>2, EnterType
<1>4. token' \in [Keys -> Nodes \cup {None}]
  BY <1>1 DEF Connect, Typed, TypeOK, Keys
<1>5. count' \in [nodes : 0 .. MaxNodes, calls : 0 .. MaxCalls]
  <2>1. count.calls \in 0 .. MaxCalls
    BY DEF Typed, TypeOK
  <2>2. count.calls + 1 \in 0 .. MaxCalls /\ n \in 0 .. MaxNodes
    BY <1>1, <2>1, BoundsAssumption DEF MayCall, Nodes
  <2> QED
    BY <2>2 DEF Connect
<1>6. past' \in Past
  BY <1>1, PastType DEF Connect
<1>7. frame' \in [Threads -> [1 .. MaxDepth -> Frames]]
  BY <1>3 DEF FrameTable, GoodFrames
<1> QED
  BY <1>3, <1>4, <1>5, <1>6, <1>7 DEF Connect, Typed, TypeOK, Depths

\* A call that touches only the stacks, the counters and the record of the past.
LEMMA OuterType ==
  ASSUME Typed, NEW t \in Threads, MayCall(t), Called, NEW f \in GoodFrames, Enter(t, f),
         past' \in Past, pubAlive' \in BOOLEAN, UNCHANGED <<list, lock, token>>
  PROVE  Typed'
<1>1. frame' \in FrameTable /\ depth' \in Depths
  BY EnterType
<1>2. count' \in [nodes : 0 .. MaxNodes, calls : 0 .. MaxCalls]
  BY CalledType
<1>3. frame' \in [Threads -> [1 .. MaxDepth -> Frames]]
  BY <1>1 DEF FrameTable, GoodFrames
<1> QED
  BY <1>1, <1>2, <1>3 DEF Typed, TypeOK, Depths

LEMMA VisitsType ==
  ASSUME Typed, NEW t \in Threads, NEW k \in Keys, NEW from \in Keys,
         Disconnect(t, k) \/ Connected(t, k) \/ MoveAssign(t, from, k)
  PROVE  Typed'
<1>0. past \in Past /\ pubAlive \in BOOLEAN /\ token[k] # None
  BY DEF Typed, TypeOK, Disconnect, Connected, MoveAssign
<1>1. token[k] \in Nodes
  BY <1>0, VisitType
<1>2. CASE Disconnect(t, k)
  BY <1>0, <1>1, <1>2, VisitType, OuterType, PastType DEF Disconnect
<1>3. CASE Connected(t, k)
  BY <1>0, <1>1, <1>3, VisitType, OuterType DEF Connected
<1>4. CASE MoveAssign(t, from, k)
  BY <1>0, <1>1, <1>4, VisitType, OuterType, PastType DEF MoveAssign
<1> QED
  BY <1>2, <1>3, <1>4

LEMMA MoveType ==
  ASSUME Typed, NEW t \in Threads, NEW from \in Keys, NEW to \in Keys, Move(t, from, to)
  PROVE  Typed'
<1>1. from # None
  BY NamesAssumption
<1>2. count' \in [nodes : 0 .. MaxNodes, calls : 0 .. MaxCalls]
  BY CalledType DEF Move
<1>3. token' \in [Keys -> Nodes \cup {None}]
  BY <1>1, MovedType DEF Move
<1> QED
  BY <1>2, <1>3 DEF Move, Typed, TypeOK

LEMMA PublisherCallsType ==
  ASSUME Typed, NEW t \in Threads, Publish(t) \/ Count(t) \/ DestroyPublisher(t)
  PROVE  Typed'
<1>0. past \in Past /\ pubAlive \in BOOLEAN
  BY DEF Typed, TypeOK
<1>1. CASE Publish(t)
  <2> DEFINE f == [NoFrame EXCEPT !.op = "publish", !.pc = "copy", !.ctrl = TRUE,
                                  !.must = past.joined \ past.leaving, !.never = past.left]
  <2>1. past.joined \ past.leaving \subseteq Nodes /\ past.left \subseteq Nodes
    BY <1>0 DEF Past
  <2>2. f \in GoodFrames
    BY <2>1, NoFrameType DEF GoodFrames, Frames, PCs, Ops, NoFrame
  <2> QED
    BY <1>0, <1>1, <2>2, OuterType DEF Publish
<1>2. CASE Count(t)
  <2>1. [NoFrame EXCEPT !.op = "count", !.pc = "find"] \in GoodFrames
    BY NoFrameType DEF GoodFrames, Frames, PCs, Ops, NoFrame
  <2> QED
    BY <1>0, <1>2, <2>1, OuterType DEF Count
<1>3. CASE DestroyPublisher(t)
  <2>1. [NoFrame EXCEPT !.op = "destroy", !.pc = "release", !.ctrl = TRUE] \in GoodFrames
    BY NoFrameType DEF GoodFrames, Frames, PCs, Ops, NoFrame
  <2> QED
    BY <1>0, <1>3, <2>1, OuterType DEF DestroyPublisher
<1> QED
  BY <1>1, <1>2, <1>3

-----------------------------------------------------------------------------
(* Leaving a call.                                                         *)

LEMMA DropRefType ==
  ASSUME Typed, NEW t \in Threads, DropRef(t)
  PROVE  Typed'
<1> DEFINE f == Top(t)
           n == Head(f.refs)
           rest == [f EXCEPT !.refs = Tail(f.refs)]
<1>0. list \in Seq(Nodes) /\ lock \in LockStates /\ past \in Past
  BY DEF Typed, TypeOK, LockStates
<1>1. depth[t] > 0 /\ f.refs # <<>>
  BY DEF DropRef, At
<1>2. n \in Nodes /\ Tail(f.refs) \in Seq(Nodes)
  BY <1>1, TopType
<1>3. rest \in GoodFrames
  BY <1>1, <1>2, TopType, EditType DEF PCs
<1>4. n \in Keys
  BY <1>2 DEF Keys
<1>5. CASE LastRef(t, n) /\ token[n] # None
  <2> DEFINE g == Visit("disconnect", n, None)
  <2>1. g \in GoodFrames /\ token[n] \in Nodes
    BY <1>4, <1>5, VisitType
  <2>2. /\ depth[t] < MaxDepth
        /\ frame' = [frame EXCEPT ![t][depth[t]] = rest, ![t][depth[t] + 1] = g]
        /\ depth' = [depth EXCEPT ![t] = @ + 1]
        /\ past' = [past EXCEPT !.leaving = @ \cup {token[n]}]
        /\ UNCHANGED <<pubAlive, list, lock, token, count>>
    BY <1>5 DEF DropRef
  <2>3. depth[t] + 1 \in 1 .. MaxDepth /\ depth[t] \in 1 .. MaxDepth
    BY <1>1, <2>2, TopType, MaxDepthNat
  <2>4. frame' \in FrameTable
    <3>1. frame \in FrameTable
      BY DEF Typed
    <3> HIDE DEF rest, g
    <3>2. [frame EXCEPT ![t][depth[t]] = rest] \in FrameTable
      BY <1>3, <2>3, <3>1 DEF FrameTable
    <3> QED
      BY <2>1, <2>2, <2>3, <3>2 DEF FrameTable
  <2>5. depth' \in Depths
    BY <2>2, <2>3, MaxDepthNat DEF Typed, TypeOK, Depths
  <2>6. past' \in Past
    BY <2>1, <2>2, PastType
  <2>7. frame' \in [Threads -> [1 .. MaxDepth -> Frames]]
    BY <2>4 DEF FrameTable, GoodFrames
  <2> QED
    BY <2>2, <2>4, <2>5, <2>6, <2>7 DEF Typed, TypeOK, Depths
<1>6. CASE ~ (LastRef(t, n) /\ token[n] # None)
  <2>1. Continue(t, rest) /\ UNCHANGED <<pubAlive, list, lock, token, count, past>>
    BY <1>6 DEF DropRef
  <2>2. frame' \in FrameTable /\ depth' \in Depths
    BY <1>1, <1>3, <2>1, ContinueType
  <2> QED
    BY <1>0, <2>1, <2>2, InnerType
<1> QED
  BY <1>5, <1>6

LEMMA DropCtrlType ==
  ASSUME Typed, NEW t \in Threads, DropCtrl(t)
  PROVE  Typed'
<1>0. list \in Seq(Nodes) /\ lock \in LockStates /\ <<>> \in Seq(Nodes)
  BY EmptySeq DEF Typed, TypeOK, LockStates
<1>1. depth[t] > 0
  BY DEF DropCtrl, At
<1>2. ASSUME NEW refs \in {list, <<>>}
      PROVE  [Top(t) EXCEPT !.ctrl = FALSE, !.refs = refs] \in GoodFrames
  <2>1. refs \in Seq(Nodes)
    BY <1>0, <1>2
  <2> QED
    BY <1>1, <2>1, TopType, EditType DEF PCs
<1>3. frame' \in FrameTable /\ depth' \in Depths
  BY <1>1, <1>2, ContinueType DEF DropCtrl
<1> QED
  BY <1>0, <1>3, InnerType DEF DropCtrl

LEMMA ReturnsType ==
  ASSUME Typed, NEW t \in Threads, ReturnConnect(t) \/ ReturnDisconnect(t) \/ Return(t)
  PROVE  Typed'
<1>1. depth[t] > 0 /\ Leave(t)
  BY DEF ReturnConnect, ReturnDisconnect, Return, Finished, At
<1>2. frame' \in FrameTable /\ depth' \in Depths
  BY <1>1, LeaveType
<1>3. frame' \in [Threads -> [1 .. MaxDepth -> Frames]]
  BY <1>2 DEF FrameTable, GoodFrames
<1>4. token' \in [Keys -> Nodes \cup {None}] /\ past' \in Past
  <2>0. token \in [Keys -> Nodes \cup {None}] /\ past \in Past
    BY DEF Typed, TypeOK
  <2>1. CASE ReturnConnect(t)
    <3>1. Top(t).node \in Nodes
      BY <1>1, <2>1, TopType DEF ReturnConnect, Finished
    <3> QED
      BY <2>0, <2>1, <3>1, PastType DEF ReturnConnect
  <2>2. CASE ReturnDisconnect(t)
    <3>1. Top(t).node \in Nodes /\ Top(t).key \in Keys \cup {None}
                                /\ Top(t).from \in Keys \cup {None}
      BY <1>1, <2>2, TopType DEF ReturnDisconnect, Finished
    <3>2. past' \in Past
      BY <2>2, <3>1, PastType DEF ReturnDisconnect
    <3>3. CASE Top(t).from = None
      BY <2>0, <2>2, <3>2, <3>3 DEF ReturnDisconnect
    <3>4. CASE Top(t).from # None
      BY <2>2, <3>1, <3>2, <3>4, MovedType DEF ReturnDisconnect
    <3> QED
      BY <3>3, <3>4
  <2>3. CASE Return(t)
    BY <2>0, <2>3 DEF Return
  <2> QED
    BY <2>1, <2>2, <2>3
<1>5. UNCHANGED <<pubAlive, list, lock, count>>
  BY DEF ReturnConnect, ReturnDisconnect, Return
<1> QED
  BY <1>2, <1>3, <1>4, <1>5 DEF Typed, TypeOK, Depths

-----------------------------------------------------------------------------
LEMMA TypedInit == Init => Typed
<1> SUFFICES ASSUME Init PROVE Typed
  OBVIOUS
<1>1. frame \in FrameTable
  BY NoFrameType DEF Init, FrameTable
<1>2. frame \in [Threads -> [1 .. MaxDepth -> Frames]]
  BY <1>1 DEF FrameTable, GoodFrames
<1>3. list \in Seq(Nodes)
  BY EmptySeq DEF Init
<1>4. count \in [nodes : 0 .. MaxNodes, calls : 0 .. MaxCalls] /\ depth \in Depths
  BY BoundsAssumption, MaxDepthNat DEF Init, Depths
<1>5. past \in Past
  BY DEF Init, Past
<1> QED
  BY <1>1, <1>2, <1>3, <1>4, <1>5 DEF Init, Typed, TypeOK, Depths

LEMMA TypedNext == Typed /\ [Next]_vars => Typed'
<1> SUFFICES ASSUME Typed, [Next]_vars PROVE Typed'
  OBVIOUS
<1>1. CASE UNCHANGED vars
  BY <1>1 DEF vars, Typed, TypeOK
<1>2. ASSUME NEW t \in Threads, Proceed(t) PROVE Typed'
  BY <1>2, ConnectStepsType, VisitStepsType, PublishStepsType,
     DropRefType, DropCtrlType, ReturnsType DEF Proceed
<1>3. ASSUME NEW t \in Threads, Call(t) PROVE Typed'
  <2>1. ASSUME NEW dest \in Slots \cup {"self"}, NEW captured \in Slots \cup {None},
               Connect(t, dest, captured)
        PROVE  Typed'
    BY <2>1, ConnectType
  <2>2. ASSUME NEW k \in Keys, Disconnect(t, k) \/ Connected(t, k)
        PROVE  Typed'
    BY <2>2, VisitsType
  <2>3. ASSUME NEW from \in Slots, NEW to \in Slots, Move(t, from, to) \/ MoveAssign(t, from, to)
        PROVE  Typed'
    BY <2>3, VisitsType, MoveType DEF Keys
  <2>4. CASE Publish(t) \/ Count(t) \/ DestroyPublisher(t)
    BY <2>4, PublisherCallsType
  <2> QED
    BY <1>3, <2>1, <2>2, <2>3, <2>4 DEF Call
<1> QED
  BY <1>1, <1>2, <1>3 DEF Next

(* Type correctness, for any number of threads, slots, subscribers, calls: *)
(* the vector, the locals and the tokens hold what connect(), disconnect() *)
(* and operator() put there.                                               *)
THEOREM PublisherTypeCorrect == Spec => []TypeOK
<1>1. Typed => TypeOK
  BY DEF Typed
<1> QED
  BY <1>1, TypedInit, TypedNext, PTL DEF Spec

-----------------------------------------------------------------------------
(* The lock.                                                               *)

\* A step of t leaves the stacks of the other threads alone.
Apart(t) == \A u \in Threads \ {t} : frame'[u] = frame[u] /\ depth'[u] = depth[u]

\* t is in a critical section.
Inside(t) == \E pc \in {"pushed", "erased", "found", "copied"} : At(t, pc)

\* The elementary changes of a stack are of one thread's.
LEMMA StackApart ==
  ASSUME Typed, NEW t \in Threads,
         (\E f : Continue(t, f) \/ Enter(t, f)) \/ Leave(t) \/ UNCHANGED <<frame, depth>>
  PROVE  Apart(t)
<1>1. /\ frame \in [Threads -> [1 .. MaxDepth -> Frames]]
      /\ depth \in [Threads -> 0 .. MaxDepth]
  BY DEF Typed, TypeOK
<1> QED
  BY <1>1 DEF Continue, Enter, Leave, Apart

\* And so is what the destructor of a captured subscription does to it.
LEMMA DropRefApart ==
  ASSUME Typed, NEW t \in Threads, DropRef(t)
  PROVE  Apart(t)
<1>1. /\ frame \in [Threads -> [1 .. MaxDepth -> Frames]]
      /\ depth \in [Threads -> 0 .. MaxDepth]
  BY DEF Typed, TypeOK
<1> QED
  BY <1>1 DEF DropRef, Continue, Apart

\* Whoever is outside of the critical sections and leaves the lock alone
\* changes nothing for it.
LEMMA LockUntouched ==
  ASSUME Typed, LockInnermost, NEW t \in Threads, Apart(t), ~ Inside(t), UNCHANGED lock
  PROVE  LockInnermost'
<1>1. \A u \in Threads \ {t} : \A pc : At(u, pc)' <=> At(u, pc)
  BY DEF Apart, At, Top
<1>2. lock.writer # t /\ t \notin lock.readers
  BY DEF LockInnermost, Inside
<1>3. lock.readers \subseteq Threads
  BY DEF Typed, TypeOK
<1> QED
  BY <1>1, <1>2, <1>3 DEF LockInnermost

\* Taking it and going on inside.
LEMMA LockTaken ==
  ASSUME Typed, LockInnermost, NEW t \in Threads, Apart(t), depth[t] > 0,
         NEW f \in Frames, Continue(t, f),
         \/ LockUnique(t) /\ f.pc \in {"pushed", "erased"}
         \/ LockShared(t) /\ f.pc \in {"found", "copied"}
  PROVE  LockInnermost'
<1>1. \A u \in Threads \ {t} : \A pc : At(u, pc)' <=> At(u, pc)
  BY DEF Apart, At, Top
<1>2. At(t, f.pc)'
  <2>1. frame \in [Threads -> [1 .. MaxDepth -> Frames]] /\ depth[t] \in 1 .. MaxDepth
    BY TopType DEF Typed, TypeOK
  <2> QED
    BY <2>1 DEF Continue, At, Top
<1>3. lock \in LockStates
  BY DEF Typed, TypeOK, LockStates
<1>4. CASE LockUnique(t) /\ f.pc \in {"pushed", "erased"}
  <2>1. lock'.writer = t /\ lock'.readers = {}
    BY <1>3, <1>4 DEF LockUnique, LockStates
  <2> QED
    BY <1>2, <1>4, <2>1 DEF LockInnermost
<1>5. CASE LockShared(t) /\ f.pc \in {"found", "copied"}
  <2>1. lock'.writer = None /\ lock'.readers = lock.readers \cup {t}
    BY <1>3, <1>5 DEF LockShared, LockStates
  <2>2. lock.readers \subseteq Threads /\ None \notin Threads
    BY <1>3, NamesAssumption DEF LockStates
  <2> QED
    BY <1>1, <1>2, <1>5, <2>1, <2>2 DEF LockInnermost
<1> QED
  BY <1>4, <1>5

\* Giving it back.
LEMMA LockGiven ==
  ASSUME Typed, LockInnermost, NEW t \in Threads, Apart(t), Unlock(t)
  PROVE  LockInnermost'
<1>1. \A u \in Threads \ {t} : \A pc : At(u, pc)' <=> At(u, pc)
  BY DEF Apart, At, Top
<1>2. lock.readers \subseteq Threads /\ None \notin Threads
  BY NamesAssumption DEF Typed, TypeOK
<1>3. /\ lock'.writer = IF lock.writer = t THEN None ELSE lock.writer
      /\ lock'.readers = lock.readers \ {t}
  BY DEF Unlock
<1> QED
  BY <1>1, <1>2, <1>3 DEF LockInnermost

LEMMA LockInnermostNext == Typed /\ LockInnermost /\ [Next]_vars => LockInnermost'
<1> SUFFICES ASSUME Typed, LockInnermost, [Next]_vars PROVE LockInnermost'
  OBVIOUS
<1>1. CASE UNCHANGED vars
  BY <1>1 DEF vars, LockInnermost, At, Top
<1>2. ASSUME NEW t \in Threads, Proceed(t) PROVE LockInnermost'
  <2>1. CASE PushBack(t) \/ Erase(t) \/ Find(t) \/ Snapshot(t)
    <3>1. depth[t] > 0
      BY <2>1 DEF PushBack, Erase, Find, Snapshot, At
    <3>2. PICK f \in Frames : /\ Continue(t, f)
                              /\ \/ LockUnique(t) /\ f.pc \in {"pushed", "erased"}
                                 \/ LockShared(t) /\ f.pc \in {"found", "copied"}
      <4>0. Top(t) \in GoodFrames /\ list \in Seq(Nodes)
        BY <3>1, TopType DEF Typed, TypeOK
      <4>1. \A pc \in {"pushed", "erased", "found"} :
              [Top(t) EXCEPT !.pc = pc] \in Frames /\ [Top(t) EXCEPT !.pc = pc].pc = pc
        BY <4>0 DEF GoodFrames, Frames, PCs
      <4>2. LET f == [Top(t) EXCEPT !.pc = "copied", !.refs = list]
            IN  f \in Frames /\ f.pc = "copied"
        BY <4>0 DEF GoodFrames, Frames, PCs
      <4> QED
        BY <2>1, <4>1, <4>2 DEF PushBack, Erase, Find, Snapshot, Goto
    <3> QED
      BY <3>1, <3>2, StackApart, LockTaken
  <2>2. CASE UnlockPushed(t) \/ UnlockErased(t) \/ UnlockFound(t) \/ UnlockCopied(t)
    <3>1. Unlock(t) /\ \E f : Continue(t, f)
      BY <2>2 DEF UnlockPushed, UnlockErased, UnlockFound, UnlockCopied, Goto
    <3> QED
      BY <3>1, StackApart, LockGiven
  <2>3. CASE DropRef(t)
    BY <2>3, DropRefApart, LockUntouched DEF DropRef, At, Inside
  <2>4. CASE ReturnConnect(t) \/ ReturnDisconnect(t) \/ Return(t)
    BY <2>4, StackApart, LockUntouched
       DEF ReturnConnect, ReturnDisconnect, Return, Finished, At, Inside
  <2>5. CASE \/ PushBackFails(t) \/ ReturnToken(t) \/ ReturnTokenFails(t)
             \/ LockCtrl(t) \/ LockSub(t) \/ SnapshotFails(t) \/ Invoke(t) \/ HandlerReturns(t)
             \/ HandlerThrows(t) \/ EndLoop(t) \/ DropCtrl(t)
    <3>1. UNCHANGED lock /\ \E f : Continue(t, f)
      BY <2>5 DEF PushBackFails, ReturnToken, ReturnTokenFails, LockCtrl, LockSub, SnapshotFails, Invoke,
                  HandlerReturns, HandlerThrows, EndLoop, DropCtrl, Goto
    <3>2. ~ Inside(t)
      BY <2>5 DEF PushBackFails, ReturnToken, ReturnTokenFails, LockCtrl, LockSub, SnapshotFails, Invoke,
                  HandlerReturns, HandlerThrows, EndLoop, DropCtrl, At, Inside
    <3> QED
      BY <3>1, <3>2, StackApart, LockUntouched
  <2> QED
    BY <1>2, <2>1, <2>2, <2>3, <2>4, <2>5 DEF Proceed
<1>3. ASSUME NEW t \in Threads, Call(t) PROVE LockInnermost'
  <2>1. /\ MayCall(t) /\ UNCHANGED lock
        /\ (\E f : Enter(t, f)) \/ UNCHANGED <<frame, depth>>
    BY <1>3 DEF Call, Connect, Disconnect, Connected, Move, MoveAssign,
                Publish, Count, DestroyPublisher
  <2>2. ~ Inside(t)
    BY <2>1 DEF MayCall, At, Inside, Typed, TypeOK
  <2> QED
    BY <2>1, <2>2, StackApart, LockUntouched
<1> QED
  BY <1>1, <1>2, <1>3 DEF Next

(* No user code, and no destructor of user code, runs under the lock,      *)
(* whatever the number of threads: a call that holds it is the innermost   *)
(* of its thread and about to unlock (the scopes of the lock guards in     *)
(* connect(), disconnect() and operator()).                                *)
THEOREM NoUserCodeUnderLock == Spec => []LockInnermost
<1>1. Init => LockInnermost
  BY NamesAssumption DEF Init, LockInnermost
<1> QED
  BY <1>1, TypedInit, TypedNext, LockInnermostNext, PTL DEF Spec

-----------------------------------------------------------------------------
(* Sequences and sets.                                                     *)

\* The elements of the sequences the steps make.
LEMMA Elements ==
  ASSUME NEW S, NEW s \in Seq(S)
  PROVE  /\ ToSet(s) \subseteq S
         /\ ToSet(s) = {s[i] : i \in 1 .. Len(s)}
         /\ \A x : x \in ToSet(s) <=> \E i \in 1 .. Len(s) : s[i] = x
         /\ ToSet(s) = {} <=> s = <<>>
<1>1. DOMAIN s = 1 .. Len(s) /\ \A i \in 1 .. Len(s) : s[i] \in S
  BY ElementOfSeq, LenProperties
<1>2. ToSet(s) = {s[i] : i \in 1 .. Len(s)}
  BY <1>1 DEF ToSet
<1>3. \A x : x \in ToSet(s) <=> \E i \in 1 .. Len(s) : s[i] = x
  BY <1>2
<1>4. ASSUME s # <<>> PROVE ToSet(s) # {}
  <2>1. Len(s) # 0 /\ Len(s) \in Nat
    BY <1>4, EmptySeq, LenProperties
  <2>2. 1 \in 1 .. Len(s)
    BY <2>1
  <2> QED
    BY <1>3, <2>2
<1>5. ASSUME s = <<>> PROVE ToSet(s) = {}
  <2>1. Len(s) = 0
    BY <1>5
  <2> QED
    BY <1>2, <2>1
<1> QED
  BY <1>1, <1>2, <1>3, <1>4, <1>5

\* Nothing is in the empty sequence.
LEMMA NoElements == ToSet(<<>>) = {}
BY Elements, EmptySeq

\* What one reference refers to (the locals of connect() and disconnect()).
LEMMA OneElement ==
  ASSUME NEW x
  PROVE  ToSet(<<x>>) = {x} /\ <<x>> # <<>> /\ Head(<<x>>) = x /\ Tail(<<x>>) = <<>>
BY DEF ToSet

\* Of push_back.
LEMMA AppendElements ==
  ASSUME NEW S, NEW s \in Seq(S), NEW x \in S
  PROVE  /\ Append(s, x) \in Seq(S) /\ ToSet(Append(s, x)) = ToSet(s) \cup {x}
         /\ Len(Append(s, x)) = Len(s) + 1
         /\ \A i \in 1 .. Len(s) : Append(s, x)[i] = s[i]
         /\ Append(s, x)[Len(s) + 1] = x
<1> DEFINE r == Append(s, x)
<1>1. /\ r \in Seq(S) /\ Len(r) = Len(s) + 1
      /\ \A i \in 1 .. Len(s) : r[i] = s[i]
      /\ r[Len(s) + 1] = x
  BY AppendProperties
<1> HIDE DEF r
<1>2. \A y : y \in ToSet(r) <=> \E i \in 1 .. Len(r) : r[i] = y
  BY <1>1, Elements
<1>3. \A y : y \in ToSet(s) <=> \E i \in 1 .. Len(s) : s[i] = y
  BY Elements
<1>4. Len(s) \in Nat /\ 1 .. Len(s) + 1 = 1 .. Len(s) \cup {Len(s) + 1}
  BY LenProperties
<1>5. \A y : y \in ToSet(r) <=> y \in ToSet(s) \cup {x}
  BY <1>1, <1>2, <1>3, <1>4
<1>6. ToSet(r) = ToSet(s) \cup {x}
  BY <1>5
<1> QED
  BY <1>1, <1>6 DEF r

\* Of dropping the first of the references.
LEMMA HeadTailElements ==
  ASSUME NEW S, NEW s \in Seq(S), s # <<>>
  PROVE  /\ Head(s) \in S /\ Tail(s) \in Seq(S)
         /\ ToSet(s) = {Head(s)} \cup ToSet(Tail(s))
<1> DEFINE r == Tail(s)
           x == Head(s)
<1>1. /\ x = s[1] /\ x \in S /\ r \in Seq(S)
      /\ Len(r) = Len(s) - 1 /\ \A i \in 1 .. Len(r) : r[i] = s[i + 1]
  BY HeadTailProperties
<1>2. Len(s) \in Nat /\ Len(s) # 0
  BY LenProperties, EmptySeq
<1> HIDE DEF r, x
<1>3. \A y : y \in ToSet(r) <=> \E i \in 1 .. Len(r) : r[i] = y
  BY <1>1, Elements
<1>4. \A y : y \in ToSet(s) <=> \E i \in 1 .. Len(s) : s[i] = y
  BY Elements
<1>5. /\ \A i \in 1 .. Len(s) : i = 1 \/ (i - 1 \in 1 .. Len(s) - 1 /\ (i - 1) + 1 = i)
      /\ \A i \in 1 .. Len(s) - 1 : i + 1 \in 1 .. Len(s)
      /\ 1 \in 1 .. Len(s)
  BY <1>2
<1>6. ASSUME NEW y, y \in ToSet(s) PROVE y = x \/ y \in ToSet(r)
  <2>1. PICK i \in 1 .. Len(s) : s[i] = y
    BY <1>4, <1>6
  <2>2. CASE i # 1
    <3>1. i - 1 \in 1 .. Len(r) /\ (i - 1) + 1 = i
      BY <1>1, <1>5, <2>2
    <3>2. r[i - 1] = y
      BY <1>1, <2>1, <3>1
    <3> QED
      BY <1>3, <3>1, <3>2
  <2> QED
    BY <1>1, <2>1, <2>2
<1>7. \A y : y = x \/ y \in ToSet(r) => y \in ToSet(s)
  BY <1>1, <1>3, <1>4, <1>5
<1>8. ToSet(s) = {x} \cup ToSet(r)
  BY <1>6, <1>7
<1> QED
  BY <1>1, <1>8 DEF r, x

\* Erasing leaves everything else, in the order it was.
LEMMA Erasing ==
  ASSUME NEW S, NEW s \in Seq(S), NEW e
  PROVE  \/ e \notin ToSet(s) /\ RemoveFirst(s, e) = s
         \/ \E p \in 1 .. Len(s) :
              /\ s[p] = e /\ RemoveFirst(s, e) = RemoveAt(s, p)
              /\ RemoveFirst(s, e) \in Seq(S)
              /\ Len(RemoveFirst(s, e)) = Len(s) - 1
              /\ \A i \in 1 .. Len(s) - 1 :
                   RemoveFirst(s, e)[i] = IF i < p THEN s[i] ELSE s[i + 1]
<1>1. CASE \E i \in 1 .. Len(s) : s[i] = e
  <2> DEFINE I == {i \in 1 .. Len(s) : s[i] = e}
             p == Min(I)
             a == SubSeq(s, 1, p - 1)
             b == SubSeq(s, p + 1, Len(s))
  <2>1. I \in SUBSET Nat /\ I # {}
    BY <1>1
  <2>2. p \in 1 .. Len(s) /\ s[p] = e
    BY <2>1, SmallestExists
  <2>3. SelectInSeq(s, LAMBDA v : v = e) = p
    BY <2>1 DEF SelectInSeq
  <2>4. RemoveFirst(s, e) = RemoveAt(s, p) /\ RemoveAt(s, p) = a \o b
    BY <1>1, <2>3 DEF RemoveFirst, RemoveAt
  <2> HIDE DEF p
  <2>5. Len(s) \in Nat /\ \A i \in 1 .. Len(s) : s[i] \in S
    BY ElementOfSeq, LenProperties
  <2>6. a \in Seq(S) /\ Len(a) = p - 1 /\ \A i \in 1 .. p - 1 : a[i] = s[i]
    <3>1. p - 1 \in Int /\ \A i \in 1 .. p - 1 : s[i] \in S
      BY <2>2, <2>5
    <3> QED
      BY <2>2, <2>5, <3>1, SubSeqProperties
  <2>7. b \in Seq(S) /\ Len(b) = Len(s) - p /\ \A i \in 1 .. Len(s) - p : b[i] = s[p + i]
    <3>1. p + 1 \in Int /\ \A i \in p + 1 .. Len(s) : s[i] \in S
      BY <2>2, <2>5
    <3> QED
      BY <2>2, <2>5, <3>1, SubSeqProperties
  <2> HIDE DEF a, b
  <2>8. /\ a \o b \in Seq(S) /\ Len(a \o b) = Len(s) - 1
        /\ \A i \in 1 .. Len(s) - 1 : (a \o b)[i] = IF i <= p - 1 THEN a[i] ELSE b[i - (p - 1)]
    <3>1. /\ a \o b \in Seq(S) /\ Len(a \o b) = Len(a) + Len(b)
          /\ \A i \in 1 .. Len(a) + Len(b) :
               (a \o b)[i] = IF i <= Len(a) THEN a[i] ELSE b[i - Len(a)]
      BY <2>6, <2>7, ConcatProperties
    <3>2. Len(a) + Len(b) = Len(s) - 1
      BY <2>2, <2>5, <2>6, <2>7
    <3> QED
      BY <2>6, <3>1, <3>2
  <2>9. \A i \in 1 .. Len(s) - 1 : (a \o b)[i] = IF i < p THEN s[i] ELSE s[i + 1]
    <3> SUFFICES ASSUME NEW i \in 1 .. Len(s) - 1
                 PROVE  (a \o b)[i] = IF i < p THEN s[i] ELSE s[i + 1]
      OBVIOUS
    <3>1. CASE i < p
      BY <2>2, <2>6, <2>8, <3>1
    <3>2. CASE ~ i < p
      <4>1. i - (p - 1) \in 1 .. Len(s) - p /\ p + (i - (p - 1)) = i + 1 /\ ~ i <= p - 1
        BY <2>2, <2>5, <3>2
      <4> QED
        BY <2>7, <2>8, <3>2, <4>1
    <3> QED
      BY <3>1, <3>2
  <2> QED
    BY <2>2, <2>4, <2>8, <2>9
<1>2. CASE ~ \E i \in 1 .. Len(s) : s[i] = e
  BY <1>2, Elements DEF RemoveFirst
<1> QED
  BY <1>1, <1>2

\* Of a list without duplicates nothing is erased but e.
LEMMA ErasingElements ==
  ASSUME NEW S, NEW s \in Seq(S), NEW e, \A j, k \in 1 .. Len(s) : j < k => s[j] # s[k]
  PROVE  RemoveFirst(s, e) \in Seq(S) /\ ToSet(RemoveFirst(s, e)) = ToSet(s) \ {e}
<1>0. Len(s) \in Nat
  BY LenProperties
<1>1. CASE e \notin ToSet(s) /\ RemoveFirst(s, e) = s
  BY <1>1
<1>2. ASSUME NEW p \in 1 .. Len(s), s[p] = e, RemoveFirst(s, e) \in Seq(S),
             Len(RemoveFirst(s, e)) = Len(s) - 1,
             \A i \in 1 .. Len(s) - 1 : RemoveFirst(s, e)[i] = IF i < p THEN s[i] ELSE s[i + 1]
      PROVE  ToSet(RemoveFirst(s, e)) = ToSet(s) \ {e}
  <2> DEFINE r == RemoveFirst(s, e)
  <2>1. ASSUME NEW i \in 1 .. Len(s) - 1 PROVE r[i] \in ToSet(s) \ {e}
    <3>1. i \in 1 .. Len(s) /\ i + 1 \in 1 .. Len(s)
      BY <1>0
    <3>2. CASE i < p
      BY <1>2, <3>1, <3>2, Elements
    <3>3. CASE ~ i < p
      <4>1. p < i + 1
        BY <3>3, <1>0
      <4>2. s[i + 1] # e
        BY <1>2, <3>1, <4>1
      <4>3. s[i + 1] \in ToSet(s)
        BY <3>1, Elements
      <4>4. r[i] = s[i + 1]
        BY <1>2, <3>3
      <4> QED
        BY <4>2, <4>3, <4>4
    <3> QED
      BY <3>2, <3>3
  <2>2. ASSUME NEW i \in 1 .. Len(s), s[i] # e PROVE s[i] \in ToSet(r)
    <3>1. CASE i < p
      <4>1. i \in 1 .. Len(s) - 1
        BY <1>0, <3>1
      <4>2. r[i] = s[i]
        BY <1>2, <3>1, <4>1
      <4>3. r \in Seq(S) /\ i \in 1 .. Len(r)
        BY <1>2, <4>1
      <4> HIDE DEF r
      <4> QED
        BY <4>2, <4>3, Elements
    <3>2. CASE p < i
      <4>1. i - 1 \in 1 .. Len(s) - 1 /\ ~ i - 1 < p /\ (i - 1) + 1 = i
        BY <1>0, <3>2
      <4>2. r[i - 1] = s[i]
        BY <1>2, <4>1
      <4>3. r \in Seq(S) /\ i - 1 \in 1 .. Len(r)
        BY <1>2, <4>1
      <4> HIDE DEF r
      <4> QED
        BY <4>2, <4>3, Elements
    <3> QED
      BY <1>2, <2>2, <3>1, <3>2
  <2> HIDE DEF r
  <2>3. \A x : x \in ToSet(r) => x \in ToSet(s) \ {e}
    BY <1>2, <2>1, Elements DEF r
  <2>4. \A x : x \in ToSet(s) \ {e} => x \in ToSet(r)
    BY <2>2, Elements
  <2> QED
    BY <2>3, <2>4 DEF r
<1> QED
  <2>1. CASE \E p \in 1 .. Len(s) :
                /\ s[p] = e /\ RemoveFirst(s, e) = RemoveAt(s, p)
                /\ RemoveFirst(s, e) \in Seq(S)
                /\ Len(RemoveFirst(s, e)) = Len(s) - 1
                /\ \A i \in 1 .. Len(s) - 1 :
                     RemoveFirst(s, e)[i] = IF i < p THEN s[i] ELSE s[i + 1]
    BY <1>2, <2>1
  <2> QED
    BY <1>1, <2>1, Erasing

-----------------------------------------------------------------------------
(* The invariant.                                                          *)

\* What a call is and holds at every place in its code.
Shape(f) ==
  /\ f.op = "none" => f = NoFrame
  /\ f.op = "connect" =>
       /\ f.pc \in {"push", "pushed", "token", "release"} /\ ~ f.ctrl
       /\ f.key \in Slots \cup {f.node, None}
       /\ f.pc # "release" => f.key # None /\ f.refs = <<f.node>>
  /\ f.op = "disconnect" =>
       /\ f.pc \in {"ctrl", "sub", "erase", "erased", "release"} /\ f.key # None
       /\ f.pc \in {"erase", "erased"} => f.refs = <<f.node>>
  /\ f.op = "connected" => f.pc \in {"ctrl", "sub", "find", "found", "release"} /\ f.key # None
  /\ f.op = "count" => f.pc \in {"find", "found", "release"} /\ f.key = None
  /\ f.op = "publish" =>
       /\ f.pc \in {"copy", "copied", "loop", "handler", "release"} /\ f.key = None
       /\ f.pc # "release" => f.ctrl
       /\ f.pc \in {"copy", "copied"} => f.i = 0
       /\ f.pc \in {"loop", "handler"} => f.i <= Len(f.refs)
       /\ f.pc = "handler" => f.i # 0
  /\ f.op = "destroy" => f.pc = "release" /\ f.key = None
  /\ f.from # None => f.op = "disconnect" /\ f.from \in Slots /\ f.key \in Slots
  /\ f.pc \in {"ctrl", "sub", "copy"} => f.refs = <<>> /\ (f.pc = "ctrl" => ~ f.ctrl)
  /\ f.pc \in {"sub", "erase", "erased"} => f.ctrl

\* The subscribers created so far; nothing refers to another.
Made == {n \in Nodes : n <= count.nodes}

\* There is nothing above the innermost call.
ShapeInv ==
  /\ \A c \in Calls : Shape(F(c))
  /\ \A c \in Calls : c[2] > depth[c[1]] => F(c) = NoFrame

MadeInv ==
  /\ ToSet(list) \subseteq Made
  /\ \A c \in Calls : /\ ToSet(F(c).refs) \subseteq Made
                      /\ F(c).key \in Nodes => F(c).key \in Made
                      /\ F(c).node # None => F(c).node \in Made
  /\ \A k \in Keys : token[k] # None => token[k] \in Made /\ (k \in Nodes => k \in Made)
  /\ past.joined \subseteq Made /\ past.leaving \subseteq Made

\* The call a handler is invoked by.
Below(c) == <<c[1], c[2] - 1>>

InHandler(c, n) == c[2] > 1 /\ F(Below(c)).pc = "handler" /\ F(Below(c)).refs[F(Below(c)).i] = n

\* A handler's own subscription is entered by the connect() that fills it,
\* from inside the handler, or by the destruction of the handler: never twice.
KeyInv ==
  /\ NotReentered
  /\ \A c \in Calls : F(c).key \in Nodes =>
        \/ F(c).op = "connect"
        \/ InHandler(c, F(c).key)
        \/ F(c).op = "disconnect" /\ ~ Alive(F(c).key)

\* Whom a subscription disconnects, and whom a connect() will.
TokenInv ==
  /\ \A k, l \in Keys : token[k] = token[l] /\ k # l => token[k] = None
  /\ \A c, d \in Calls : F(c).op = "connect" /\ F(d).op = "connect" /\ F(c).node = F(d).node => c = d
  /\ \A c \in Calls : F(c).op = "connect" =>
        /\ \A k \in Keys : token[k] # F(c).node
        /\ F(c).key # None => token[F(c).key] = None
        /\ F(c).node \notin past.joined \cup past.leaving
  /\ \A c \in Calls : F(c).op \in {"disconnect", "connected"} => token[F(c).key] = F(c).node
  /\ \A c \in Calls : F(c).op = "disconnect" => F(c).node \in past.leaving
  /\ past.left \subseteq past.leaving

\* Once each, and in the order they joined.
Ordered(s) == \A j, k \in 1 .. Len(s) : j < k => s[j] # s[k] /\ s[k] \notin past.before[s[j]]

\* The list, as the snapshots will take it.
ListInv ==
  /\ Ordered(list)
  /\ \A n \in Nodes : past.before[n] \subseteq past.joined
  /\ \A c \in Calls : /\ F(c).pc = "push" => F(c).node \notin ToSet(list)
                      /\ F(c).op = "disconnect" /\ F(c).pc \in {"erased", "release"} =>
                           F(c).node \notin ToSet(list)
  /\ past.left \cap ToSet(list) = {}

\* What the control block outlives.
CtrlInv ==
  /\ \A c \in Calls : F(c).op = "count" \/ F(c).pc \in {"push", "pushed", "token"} => pubAlive
  /\ ~ CtrlAlive => list = <<>>

\* Whoever has joined and is not leaving is in the list.
JoinInv ==
  /\ CtrlAlive =>
       /\ past.joined \ past.leaving \subseteq ToSet(list)
       /\ \A c \in Calls : F(c).op = "connect" /\ F(c).key # None /\ F(c).pc # "push" =>
            F(c).node \in ToSet(list)
  /\ \A c \in Calls : F(c).pc = "copy" => F(c).must \subseteq past.joined /\ F(c).never \subseteq past.left

\* Whoever is in the list can be disconnected.
OwnerInv ==
  \A n \in ToSet(list) :
    \/ \E k \in Keys : token[k] = n
    \/ \E c \in Calls : F(c).op = "connect" /\ F(c).node = n /\ F(c).key # None
    \/ "token_alloc" \in Faults /\ n \notin past.joined

\* A captured subscription goes with the handler.
CaptureInv ==
  \A n \in Nodes : token[n] # None =>
    Alive(n) \/ \E c \in Calls : F(c).op = "disconnect" /\ F(c).key = n

-----------------------------------------------------------------------------
(* The stacks as one table of calls.                                       *)

\* A call and what is typed in its frame.
LEMMA CallFacts ==
  ASSUME Typed, NEW c \in Calls
  PROVE  /\ c = <<c[1], c[2]>> /\ c[1] \in Threads /\ c[2] \in 1 .. MaxDepth
         /\ F(c) \in GoodFrames /\ F(c) \in Frames
         /\ F(c).pc \in PCs /\ F(c).op \in Ops
         /\ F(c).key \in Keys \cup {None} /\ F(c).from \in Keys \cup {None}
         /\ F(c).node \in Nodes \cup {None}
         /\ F(c).refs \in Seq(Nodes) /\ F(c).i \in Nat /\ F(c).ctrl \in BOOLEAN
         /\ F(c).op \in {"connect", "disconnect"} => F(c).node \in Nodes
         /\ depth[c[1]] \in 0 .. MaxDepth
<1>1. c = <<c[1], c[2]>> /\ c[1] \in Threads /\ c[2] \in 1 .. MaxDepth
  BY DEF Calls
<1>2. frame \in [Threads -> [1 .. MaxDepth -> GoodFrames]] /\ depth \in [Threads -> 0 .. MaxDepth]
  BY DEF Typed, TypeOK, FrameTable
<1>3. F(c) \in GoodFrames
  BY <1>1, <1>2 DEF F
<1> QED
  BY <1>1, <1>2, <1>3 DEF GoodFrames, Frames

\* Only h changes, to f.
Only(h, f) == h \in Calls /\ F(h)' = f /\ \A c \in Calls : c # h => F(c)' = F(c)

\* The innermost call of a thread.
IsTop(h) == h[2] = depth[h[1]]

\* One frame of one stack is replaced.
LEMMA OneFrame ==
  ASSUME Typed, NEW h \in Calls, NEW f, frame' = [frame EXCEPT ![h[1]][h[2]] = f]
  PROVE  Only(h, f)
<1>1. frame \in [Threads -> [1 .. MaxDepth -> GoodFrames]]
  BY DEF Typed, FrameTable
<1>2. F(h)' = f
  BY <1>1, CallFacts DEF F
<1>3. ASSUME NEW c \in Calls, c # h PROVE F(c)' = F(c)
  <2>1. c[1] # h[1] \/ c[2] # h[2]
    BY <1>3, CallFacts
  <2> QED
    BY <1>1, <2>1, CallFacts DEF F
<1> QED
  BY <1>2, <1>3 DEF Only

\* A thread goes on in its innermost call.
LEMMA ContinueF ==
  ASSUME Typed, NEW t \in Threads, depth[t] > 0, NEW f, Continue(t, f)
  PROVE  \E h \in Calls : /\ h = <<t, depth[t]>> /\ IsTop(h) /\ F(h) = Top(t)
                          /\ Only(h, f) /\ depth' = depth
<1>1. PICK h : h = <<t, depth[t]>>
  OBVIOUS
<1>2. h \in Calls /\ h[1] = t /\ h[2] = depth[t]
  BY <1>1, TopType DEF Calls
<1>3. frame' = [frame EXCEPT ![h[1]][h[2]] = f] /\ depth' = depth
  BY <1>1, <1>2 DEF Continue
<1>4. Only(h, f)
  BY <1>2, <1>3, OneFrame
<1>5. F(h) = Top(t)
  BY <1>2 DEF F, Top
<1> QED
  BY <1>1, <1>2, <1>3, <1>4, <1>5 DEF IsTop

\* A thread makes a call.
LEMMA EnterF ==
  ASSUME Typed, NEW t \in Threads, NEW f, Enter(t, f)
  PROVE  \E h \in Calls : /\ h = <<t, depth[t] + 1>> /\ Only(h, f)
                          /\ depth' = [depth EXCEPT ![t] = @ + 1]
<1>0. depth[t] \in 0 .. MaxDepth /\ depth[t] < MaxDepth
  BY DEF Typed, TypeOK, Enter
<1>1. PICK h : h = <<t, depth[t] + 1>>
  OBVIOUS
<1>2. h \in Calls /\ h[1] = t /\ h[2] = depth[t] + 1
  BY <1>0, <1>1, MaxDepthNat DEF Calls
<1>3. frame' = [frame EXCEPT ![h[1]][h[2]] = f]
  BY <1>1, <1>2 DEF Enter
<1>4. Only(h, f)
  BY <1>2, <1>3, OneFrame
<1> QED
  BY <1>1, <1>2, <1>4 DEF Enter

\* A call returns.
LEMMA LeaveF ==
  ASSUME Typed, NEW t \in Threads, depth[t] > 0, Leave(t)
  PROVE  \E h \in Calls : /\ h = <<t, depth[t]>> /\ IsTop(h) /\ F(h) = Top(t)
                          /\ Only(h, NoFrame) /\ depth' = [depth EXCEPT ![t] = @ - 1]
<1>1. PICK h : h = <<t, depth[t]>>
  OBVIOUS
<1>2. h \in Calls /\ h[1] = t /\ h[2] = depth[t]
  BY <1>1, TopType DEF Calls
<1>3. frame' = [frame EXCEPT ![h[1]][h[2]] = NoFrame]
  BY <1>1, <1>2 DEF Leave
<1>4. Only(h, NoFrame)
  BY <1>2, <1>3, OneFrame
<1>5. F(h) = Top(t)
  BY <1>2 DEF F, Top
<1> QED
  BY <1>1, <1>2, <1>4, <1>5 DEF IsTop, Leave

-----------------------------------------------------------------------------
(* Most steps change nothing but the frame of the innermost call.          *)

\* The inductive invariant.
PubInv ==
  /\ Typed
  /\ ShapeInv /\ MadeInv /\ KeyInv /\ TokenInv /\ ListInv /\ CtrlInv /\ JoinInv
  /\ OwnerInv /\ CaptureInv /\ Delivery

\* Where a publication has its snapshot and is not through with it.
Serving == {"copied", "loop", "handler"}

\* The innermost call h goes on to f, and nothing else changes.
Quiet(h, f) ==
  /\ IsTop(h) /\ Only(h, f)
  /\ UNCHANGED <<pubAlive, list, token, depth, count, past>>
  /\ Shape(f) /\ f.op # "none" /\ f.op = F(h).op /\ f.from = F(h).from /\ f.node = F(h).node
  /\ f.must = F(h).must /\ f.never = F(h).never
  /\ f.pc \notin {"push", "copy"}
  /\ f.pc \in {"pushed", "token"} => F(h).pc = "pushed"
  /\ \/ f.refs = F(h).refs
     \/ F(h).refs = <<>> /\ \A n \in ToSet(f.refs) : Alive(n)
  /\ \/ f.ctrl = F(h).ctrl
     \/ CtrlAlive /\ f.ctrl
  /\ \/ f.key = F(h).key
     \/ /\ f.key = None /\ f.op = "connect"
        /\ "token_alloc" \in Faults \/ F(h).node \notin ToSet(list)
  /\ f.op = "connect" /\ f.key # None => F(h).pc # "push"
  /\ f.op = "disconnect" /\ f.pc \in {"erased", "release"} => f.node \notin ToSet(list)
  /\ f.pc \in Serving => \/ F(h).pc \in Serving /\ f.refs = F(h).refs
                         \/ F(h).pc = "copy" /\ f.refs = list

\* Where the innermost call of a thread is tells which call it is.
LEMMA TopFacts ==
  ASSUME Typed, ShapeInv, NEW h \in Calls, F(h).pc # "none"
  PROVE  /\ Shape(F(h)) /\ F(h).op # "none"
         /\ F(h).pc \in {"push", "pushed", "token"} => F(h).op = "connect"
         /\ F(h).pc \in {"erase", "erased"} => F(h).op = "disconnect"
         /\ F(h).pc \in {"copy", "copied", "loop", "handler"} => F(h).op = "publish"
         /\ F(h).pc \in {"find", "found"} => F(h).op \in {"connected", "count"}
         /\ F(h).pc \in {"ctrl", "sub"} => F(h).op \in {"disconnect", "connected"}
<1>1. Shape(F(h)) /\ F(h).op \in Ops
  BY CallFacts DEF ShapeInv
<1>2. F(h).op # "none"
  BY <1>1 DEF Shape, NoFrame
<1> QED
  BY <1>1, <1>2 DEF Shape, Ops

\* connect(), once the subscriber is in the list or cannot be put there.
LEMMA ConnectQuiet ==
  ASSUME PubInv, NEW t \in Threads,
         PushBackFails(t) \/ UnlockPushed(t) \/ ReturnToken(t) \/ ReturnTokenFails(t)
  PROVE  \E h, f : Quiet(h, f)
<1>0. Typed /\ ShapeInv /\ depth[t] > 0
  BY DEF PubInv, PushBackFails, UnlockPushed, ReturnToken, ReturnTokenFails, At
<1>1. UNCHANGED <<pubAlive, list, token, count, past>>
  BY DEF PushBackFails, UnlockPushed, ReturnToken, ReturnTokenFails
<1>2. CASE PushBackFails(t) \/ ReturnTokenFails(t)
  <2> DEFINE f == [Top(t) EXCEPT !.pc = "release", !.key = None]
  <2>1. PICK h \in Calls : IsTop(h) /\ F(h) = Top(t) /\ Only(h, f) /\ depth' = depth
    BY <1>0, <1>2, ContinueF DEF PushBackFails, ReturnTokenFails
  <2>2. F(h).pc \in {"push", "token"} /\ (F(h).pc = "token" => "token_alloc" \in Faults)
    BY <1>2, <2>1 DEF PushBackFails, ReturnTokenFails, At
  <2>3. Shape(F(h)) /\ F(h).op = "connect" /\ F(h) \in Frames
    BY <1>0, <2>2, TopFacts, CallFacts
  <2>4. /\ f.pc = "release" /\ f.key = None /\ f.op = F(h).op /\ f.from = F(h).from
        /\ f.node = F(h).node /\ f.must = F(h).must /\ f.never = F(h).never
        /\ f.refs = F(h).refs /\ f.ctrl = F(h).ctrl
    BY <2>1, <2>3 DEF Frames
  <2> HIDE DEF f
  <2>5. Shape(f)
    BY <2>3, <2>4 DEF Shape
  <2>6. F(h).pc = "push" => F(h).node \notin ToSet(list)
    BY DEF PubInv, ListInv
  <2>7. Quiet(h, f)
    BY <1>1, <2>1, <2>2, <2>3, <2>4, <2>5, <2>6 DEF Quiet, Serving
  <2> QED
    BY <2>7
<1>3. ASSUME NEW pc \in {"token", "release"}, Goto(t, pc),
             Top(t).pc = IF pc = "token" THEN "pushed" ELSE "token"
      PROVE  \E h, f : Quiet(h, f)
  <2> DEFINE f == [Top(t) EXCEPT !.pc = pc]
  <2>1. PICK h \in Calls : IsTop(h) /\ F(h) = Top(t) /\ Only(h, f) /\ depth' = depth
    BY <1>0, <1>3, ContinueF DEF Goto
  <2>2. Shape(F(h)) /\ F(h).op = "connect" /\ F(h) \in Frames
    BY <1>0, <1>3, <2>1, TopFacts, CallFacts
  <2>3. /\ f.pc = pc /\ f.key = F(h).key /\ f.op = F(h).op /\ f.from = F(h).from
        /\ f.node = F(h).node /\ f.must = F(h).must /\ f.never = F(h).never
        /\ f.refs = F(h).refs /\ f.ctrl = F(h).ctrl
    BY <2>1, <2>2 DEF Frames
  <2> HIDE DEF f
  <2>4. Shape(f)
    BY <1>3, <2>1, <2>2, <2>3 DEF Shape
  <2>5. Quiet(h, f)
    BY <1>1, <1>3, <2>1, <2>2, <2>3, <2>4 DEF Quiet, Serving
  <2> QED
    BY <2>5
<1> QED
  BY <1>2, <1>3 DEF UnlockPushed, ReturnToken, PushBackFails, ReturnTokenFails, At

\* Steps that only move on to another place in the call.
LEMMA GotoQuiet ==
  ASSUME PubInv, NEW t \in Threads, depth[t] > 0, NEW pc \in PCs, Goto(t, pc),
         UNCHANGED <<pubAlive, list, token, count, past>>,
         Top(t).op # "none", Top(t).op # "connect", pc \notin {"push", "pushed", "token", "copy"},
         Top(t).op = "disconnect" /\ pc \in {"erased", "release"} => Top(t).node \notin ToSet(list),
         pc \in Serving => Top(t).pc \in Serving,
         \A r \in Frames :
           Shape(Top(t)) /\ r.pc = pc /\ r.key = Top(t).key /\ r.op = Top(t).op
             /\ r.from = Top(t).from /\ r.node = Top(t).node /\ r.refs = Top(t).refs
             /\ r.ctrl = Top(t).ctrl /\ r.i = Top(t).i => Shape(r)
  PROVE  \E h, f : Quiet(h, f)
<1> DEFINE f == [Top(t) EXCEPT !.pc = pc]
<1>0. Typed
  BY DEF PubInv
<1>1. PICK h \in Calls : IsTop(h) /\ F(h) = Top(t) /\ Only(h, f) /\ depth' = depth
  BY <1>0, ContinueF DEF Goto
<1>2. Shape(F(h)) /\ F(h) \in Frames
  BY <1>0, CallFacts DEF PubInv, ShapeInv
<1>3. /\ f.pc = pc /\ f.key = F(h).key /\ f.op = F(h).op /\ f.from = F(h).from
      /\ f.node = F(h).node /\ f.must = F(h).must /\ f.never = F(h).never
      /\ f.refs = F(h).refs /\ f.ctrl = F(h).ctrl /\ f.i = F(h).i /\ f \in Frames
  BY <1>1, <1>2 DEF Frames
<1> HIDE DEF f
<1>4. Shape(f)
  BY <1>1, <1>2, <1>3
<1>5. Quiet(h, f)
  BY <1>1, <1>2, <1>3, <1>4 DEF Quiet, Serving
<1> QED
  BY <1>5

\* The innermost call of t, for the steps that look at it.
LEMMA TopCall ==
  ASSUME Typed, ShapeInv, NEW t \in Threads, depth[t] > 0, Top(t).pc # "none"
  PROVE  /\ \E h \in Calls : F(h) = Top(t)
         /\ Shape(Top(t)) /\ Top(t).op # "none" /\ Top(t) \in Frames
         /\ Top(t).pc \in {"push", "pushed", "token"} => Top(t).op = "connect"
         /\ Top(t).pc \in {"erase", "erased"} => Top(t).op = "disconnect"
         /\ Top(t).pc \in {"copy", "copied", "loop", "handler"} => Top(t).op = "publish"
         /\ Top(t).pc \in {"find", "found"} => Top(t).op \in {"connected", "count"}
         /\ Top(t).pc \in {"ctrl", "sub"} => Top(t).op \in {"disconnect", "connected"}
<1>1. PICK h : h = <<t, depth[t]>>
  OBVIOUS
<1>2. h \in Calls /\ F(h) = Top(t)
  BY <1>1, TopType DEF Calls, F, Top
<1> QED
  BY <1>2, TopFacts, CallFacts

\* disconnect(), connected() and subscriber_count().
LEMMA VisitQuiet ==
  ASSUME PubInv, NEW t \in Threads,
         LockCtrl(t) \/ LockSub(t) \/ UnlockErased(t) \/ Find(t) \/ UnlockFound(t)
  PROVE  \E h, f : Quiet(h, f)
<1>0. Typed /\ ShapeInv /\ depth[t] > 0 /\ Top(t).pc # "none"
  BY DEF PubInv, LockCtrl, LockSub, UnlockErased, Find, UnlockFound, At
<1>1. UNCHANGED <<pubAlive, list, token, count, past>>
  BY DEF LockCtrl, LockSub, UnlockErased, Find, UnlockFound
<1>2. CASE LockCtrl(t)
  <2>1. Top(t).op \in {"disconnect", "connected"} /\ Top(t).pc = "ctrl" /\ Top(t) \in Frames
        /\ Shape(Top(t)) /\ Top(t).op # "none"
    BY <1>0, <1>2, TopCall DEF LockCtrl, At
  <2>2. CASE CtrlAlive
    <3> DEFINE f == [Top(t) EXCEPT !.pc = "sub", !.ctrl = TRUE]
    <3>1. PICK h \in Calls : IsTop(h) /\ F(h) = Top(t) /\ Only(h, f) /\ depth' = depth
      BY <1>0, <1>2, <2>2, ContinueF DEF LockCtrl
    <3>2. /\ f.pc = "sub" /\ f.key = F(h).key /\ f.op = F(h).op /\ f.from = F(h).from
          /\ f.node = F(h).node /\ f.must = F(h).must /\ f.never = F(h).never
          /\ f.refs = F(h).refs /\ f.ctrl = TRUE
      BY <2>1, <3>1 DEF Frames
    <3> HIDE DEF f
    <3>3. Shape(f)
      BY <2>1, <3>1, <3>2 DEF Shape
    <3>4. Quiet(h, f)
      BY <1>1, <2>1, <2>2, <3>1, <3>2, <3>3 DEF Quiet, Serving
    <3> QED
      BY <3>4
  <2>3. CASE ~ CtrlAlive
    <3>1. ToSet(list) = {}
      BY <2>3, NoElements DEF PubInv, CtrlInv
    <3>2. Goto(t, "release")
      BY <1>2, <2>3 DEF LockCtrl, Goto
    <3> QED
      BY <1>0, <1>1, <2>1, <3>1, <3>2, GotoQuiet DEF PCs, Serving, Shape
  <2> QED
    BY <2>2, <2>3
<1>3. CASE LockSub(t)
  <2> DEFINE n == Top(t).node
             next == IF Top(t).op = "disconnect" THEN "erase" ELSE "find"
  <2>1. Top(t).op \in {"disconnect", "connected"} /\ Top(t).pc = "sub" /\ Top(t) \in Frames
        /\ Shape(Top(t)) /\ Top(t).op # "none"
    BY <1>0, <1>3, TopCall DEF LockSub, At
  <2>2. CASE Alive(n)
    <3> DEFINE f == [Top(t) EXCEPT !.pc = next, !.refs = <<n>>]
    <3>1. PICK h \in Calls : IsTop(h) /\ F(h) = Top(t) /\ Only(h, f) /\ depth' = depth
      BY <1>0, <1>3, <2>2, ContinueF DEF LockSub
    <3>2. /\ f.pc = next /\ f.key = F(h).key /\ f.op = F(h).op /\ f.from = F(h).from
          /\ f.node = F(h).node /\ f.must = F(h).must /\ f.never = F(h).never
          /\ f.refs = <<F(h).node>> /\ f.ctrl = F(h).ctrl /\ F(h).node = n
      BY <2>1, <3>1 DEF Frames
    <3> HIDE DEF f
    <3>3. Shape(f)
      BY <2>1, <3>1, <3>2 DEF Shape
    <3>4. F(h).refs = <<>> /\ ToSet(f.refs) = {n}
      BY <2>1, <3>1, <3>2, OneElement DEF Shape
    <3>5. Quiet(h, f)
      BY <1>1, <2>1, <2>2, <3>1, <3>2, <3>3, <3>4 DEF Quiet, Serving
    <3> QED
      BY <3>5
  <2>3. CASE ~ Alive(n)
    <3>1. n \notin ToSet(list)
      BY <2>3 DEF Alive
    <3>2. Goto(t, "release")
      BY <1>3, <2>3 DEF LockSub, Goto
    <3> QED
      BY <1>0, <1>1, <2>1, <3>1, <3>2, GotoQuiet DEF PCs, Serving, Shape
  <2> QED
    BY <2>2, <2>3
<1>4. CASE UnlockErased(t)
  <2>1. Top(t).pc = "erased" /\ Top(t).op = "disconnect" /\ Goto(t, "release")
    BY <1>0, <1>4, TopCall DEF UnlockErased, At
  <2>2. Top(t).node \notin ToSet(list)
    BY <1>0, <2>1, TopCall DEF PubInv, ListInv
  <2> QED
    BY <1>0, <1>1, <2>1, <2>2, GotoQuiet DEF PCs, Serving, Shape
<1>5. CASE Find(t)
  <2>1. Top(t).pc = "find" /\ Top(t).op \in {"connected", "count"} /\ Goto(t, "found")
    BY <1>0, <1>5, TopCall DEF Find, At
  <2> QED
    BY <1>0, <1>1, <2>1, GotoQuiet DEF PCs, Serving, Shape
<1>6. CASE UnlockFound(t)
  <2>1. Top(t).pc = "found" /\ Top(t).op \in {"connected", "count"} /\ Goto(t, "release")
    BY <1>0, <1>6, TopCall DEF UnlockFound, At
  <2> QED
    BY <1>0, <1>1, <2>1, GotoQuiet DEF PCs, Serving, Shape
<1> QED
  BY <1>2, <1>3, <1>4, <1>5, <1>6

\* operator().
LEMMA PublishQuiet ==
  ASSUME PubInv, NEW t \in Threads,
         \/ Snapshot(t) \/ SnapshotFails(t) \/ UnlockCopied(t) \/ Invoke(t)
         \/ HandlerReturns(t) \/ HandlerThrows(t) \/ EndLoop(t)
  PROVE  \E h, f : Quiet(h, f)
<1>0. Typed /\ ShapeInv /\ depth[t] > 0
  BY DEF PubInv, Snapshot, SnapshotFails, UnlockCopied, Invoke, HandlerReturns, HandlerThrows, EndLoop, At
<1>1. UNCHANGED <<pubAlive, list, token, count, past>>
  BY DEF Snapshot, SnapshotFails, UnlockCopied, Invoke, HandlerReturns, HandlerThrows, EndLoop
<1>2. /\ Top(t).pc \in {"copy", "copied", "loop", "handler"} /\ Top(t).op = "publish"
      /\ Top(t) \in Frames /\ Shape(Top(t))
  BY <1>0, TopCall
     DEF Snapshot, SnapshotFails, UnlockCopied, Invoke, HandlerReturns, HandlerThrows, EndLoop, At
<1>3. CASE Snapshot(t)
  <2> DEFINE f == [Top(t) EXCEPT !.pc = "copied", !.refs = list]
  <2>1. PICK h \in Calls : IsTop(h) /\ F(h) = Top(t) /\ Only(h, f) /\ depth' = depth
    BY <1>0, <1>3, ContinueF DEF Snapshot
  <2>2. /\ f.pc = "copied" /\ f.key = F(h).key /\ f.op = F(h).op /\ f.from = F(h).from
        /\ f.node = F(h).node /\ f.must = F(h).must /\ f.never = F(h).never
        /\ f.refs = list /\ f.ctrl = F(h).ctrl /\ f.i = F(h).i
    BY <1>2, <2>1 DEF Frames
  <2>3. F(h).pc = "copy"
    BY <1>3, <2>1 DEF Snapshot, At
  <2> HIDE DEF f
  <2>4. Shape(f)
    BY <1>2, <2>1, <2>2, <2>3 DEF Shape
  <2>5. F(h).refs = <<>> /\ \A n \in ToSet(f.refs) : Alive(n)
    BY <1>2, <2>1, <2>2, <2>3 DEF Shape, Alive
  <2>6. Quiet(h, f)
    BY <1>1, <1>2, <2>1, <2>2, <2>3, <2>4, <2>5 DEF Quiet, Serving
  <2> QED
    BY <2>6
<1>4. CASE Invoke(t)
  <2> DEFINE f == [Top(t) EXCEPT !.pc = "handler", !.i = Top(t).i + 1]
  <2>1. PICK h \in Calls : IsTop(h) /\ F(h) = Top(t) /\ Only(h, f) /\ depth' = depth
    <3>1. Continue(t, f)
      BY <1>4 DEF Invoke
    <3> QED
      BY <1>0, <3>1, ContinueF
  <2>2. /\ f.pc = "handler" /\ f.key = F(h).key /\ f.op = F(h).op /\ f.from = F(h).from
        /\ f.node = F(h).node /\ f.must = F(h).must /\ f.never = F(h).never
        /\ f.refs = F(h).refs /\ f.ctrl = F(h).ctrl /\ f.i = F(h).i + 1
    BY <1>2, <2>1 DEF Frames
  <2>3. F(h).pc = "loop" /\ F(h).i < Len(F(h).refs) /\ F(h).i \in Nat /\ Len(F(h).refs) \in Nat
    BY <1>0, <1>4, <2>1, CallFacts, LenProperties DEF Invoke, At
  <2> HIDE DEF f
  <2>4. f.i <= Len(f.refs) /\ f.i # 0
    BY <2>2, <2>3
  <2>5. Shape(f)
    BY <1>2, <2>1, <2>2, <2>3, <2>4 DEF Shape
  <2>6. Quiet(h, f)
    BY <1>1, <1>2, <2>1, <2>2, <2>3, <2>5 DEF Quiet, Serving
  <2> QED
    BY <2>6
<1>5. CASE UnlockCopied(t)
  <2>1. Top(t).pc = "copied" /\ Goto(t, "loop") /\ Len(Top(t).refs) \in Nat
    BY <1>0, <1>5, TopType, LenProperties DEF UnlockCopied, At
  <2> QED
    BY <1>0, <1>1, <1>2, <2>1, GotoQuiet DEF PCs, Serving, Shape
<1>6. CASE HandlerReturns(t)
  <2>1. Top(t).pc = "handler" /\ Goto(t, "loop")
    BY <1>6 DEF HandlerReturns, At
  <2> QED
    BY <1>0, <1>1, <1>2, <2>1, GotoQuiet DEF PCs, Serving, Shape
<1>7. CASE SnapshotFails(t) \/ HandlerThrows(t) \/ EndLoop(t)
  <2>1. Goto(t, "release")
    BY <1>7 DEF SnapshotFails, HandlerThrows, EndLoop
  <2> QED
    BY <1>0, <1>1, <1>2, <2>1, GotoQuiet DEF PCs, Serving, Shape
<1> QED
  BY <1>3, <1>4, <1>5, <1>6, <1>7

\* Nobody's last reference is dropped, and no reference comes out of nothing.
LEMMA QuietAlive ==
  ASSUME Typed, NEW h, NEW f, Quiet(h, f)
  PROVE  /\ \A n : Alive(n)' <=> Alive(n)
         /\ CtrlAlive' <=> CtrlAlive
         /\ \A c \in Calls : ToSet(F(c).refs) \subseteq ToSet(F(c).refs)'
<1>1. h \in Calls /\ F(h)' = f /\ (\A c \in Calls : c # h => F(c)' = F(c)) /\ list' = list
      /\ pubAlive' = pubAlive
  BY DEF Quiet, Only
<1>2. \/ f.refs = F(h).refs
      \/ F(h).refs = <<>> /\ \A n \in ToSet(f.refs) : Alive(n)
  BY DEF Quiet
<1>3. \A c \in Calls : ToSet(F(c).refs) \subseteq ToSet(F(c).refs)'
  BY <1>1, <1>2, NoElements
<1>4. ASSUME NEW n, Alive(n)' PROVE Alive(n)
  BY <1>1, <1>2, <1>4 DEF Alive
<1>5. ASSUME NEW n, Alive(n) PROVE Alive(n)'
  BY <1>1, <1>3, <1>5 DEF Alive
<1>6. CtrlAlive' <=> CtrlAlive
  BY <1>1 DEF CtrlAlive, Quiet
<1> QED
  BY <1>3, <1>4, <1>5, <1>6

\* A quiet step and the shape of the frames.
LEMMA QuietShapes ==
  ASSUME PubInv, NEW h, NEW f, Quiet(h, f)
  PROVE  ShapeInv' /\ MadeInv'
<1>1. /\ h \in Calls /\ F(h)' = f /\ \A c \in Calls : c # h => F(c)' = F(c)
      /\ depth' = depth /\ count' = count /\ list' = list /\ token' = token /\ past' = past
  BY DEF Quiet, Only
<1>2. ShapeInv'
  <2>1. ~ h[2] > depth[h[1]]
    <3>1. h[2] \in Int /\ h[2] = depth[h[1]]
      BY <1>1, CallFacts DEF Quiet, IsTop, PubInv
    <3> QED
      BY <3>1
  <2> QED
    BY <1>1, <2>1 DEF PubInv, ShapeInv, Quiet
<1>3. Made' = Made
  BY <1>1 DEF Made
<1>4. \A n \in Nodes : Alive(n) => n \in Made
  BY DEF Alive, PubInv, MadeInv
<1>5. ToSet(f.refs) \subseteq Made
  <2>1. CASE f.refs = F(h).refs
    BY <1>1, <2>1 DEF PubInv, MadeInv
  <2>2. CASE \A n \in ToSet(f.refs) : Alive(n)
    <3>1. \A n : Alive(n) => n \in Made
      BY DEF Alive, PubInv, MadeInv
    <3> QED
      BY <2>2, <3>1
  <2> QED
    BY <2>1, <2>2 DEF Quiet
<1>6. (f.key = F(h).key \/ f.key = None) /\ f.node = F(h).node
  BY DEF Quiet
<1>7. None \notin Nodes
  BY NamesAssumption DEF Keys
<1>8. MadeInv'
  BY <1>1, <1>3, <1>5, <1>6, <1>7 DEF PubInv, MadeInv
<1> QED
  BY <1>2, <1>8

\* A call made from a handler stays above it.
LEMMA HandlerStays ==
  ASSUME Typed, ShapeInv, NEW c \in Calls, NEW n, InHandler(c, n), F(c) # NoFrame,
         \A d \in Calls : d[2] < depth[d[1]] => F(d)' = F(d)
  PROVE  InHandler(c, n)'
<1>1. /\ c[1] \in Threads /\ c[2] \in 1 .. MaxDepth /\ depth[c[1]] \in 0 .. MaxDepth
      /\ c[2] > 1 /\ MaxDepth \in Nat
  BY CallFacts, MaxDepthNat DEF InHandler
<1>2. c[2] - 1 \in 1 .. MaxDepth
  BY <1>1
<1>3. Below(c) \in Calls /\ Below(c)[1] = c[1] /\ Below(c)[2] = c[2] - 1
  BY <1>1, <1>2 DEF Below, Calls
<1>4. ~ c[2] > depth[c[1]]
  BY DEF ShapeInv
<1>5. Below(c)[2] < depth[Below(c)[1]]
  BY <1>1, <1>3, <1>4
<1> QED
  BY <1>3, <1>5 DEF InHandler

\* Steps that enter no subscription.
LEMMA KeysKept ==
  ASSUME Typed, ShapeInv, KeyInv,
         \A c \in Calls : \/ F(c)'.op = F(c).op /\ F(c)'.from = F(c).from /\ F(c)'.key = F(c).key
                          \/ F(c)'.key = None /\ (F(c)'.from = F(c).from \/ F(c)'.from = None),
         \A d \in Calls : d[2] < depth[d[1]] => F(d)' = F(d),
         \A n \in Nodes : Alive(n)' => Alive(n)
  PROVE  KeyInv'
<1>1. NotReentered'
  <2> SUFFICES ASSUME NEW c \in Calls, NEW d \in Calls, F(c)'.key # None,
                      F(c)'.key \in {F(d)'.key, F(d)'.from}
               PROVE  c = d
    BY DEF NotReentered
  <2>1. F(c)'.key = F(c).key /\ F(c).key \in {F(d).key, F(d).from}
    OBVIOUS
  <2> QED
    BY <2>1 DEF KeyInv, NotReentered
<1>2. ASSUME NEW c \in Calls, F(c)'.key \in Nodes
      PROVE  \/ F(c)'.op = "connect"
             \/ InHandler(c, F(c).key)'
             \/ F(c)'.op = "disconnect" /\ ~ Alive(F(c).key)'
  <2>1. F(c)'.key = F(c).key /\ F(c)'.op = F(c).op /\ F(c).key # None
    BY <1>2, NamesAssumption DEF Keys
  <2>2. PICK n \in Nodes : n = F(c).key
    BY <1>2, <2>1
  <2>3. F(c).op = "connect" \/ InHandler(c, n) \/ (F(c).op = "disconnect" /\ ~ Alive(n))
    BY <2>2 DEF KeyInv
  <2>4. InHandler(c, n) => InHandler(c, n)'
    BY <2>1, HandlerStays DEF NoFrame
  <2>5. F(c).op = "connect" \/ InHandler(c, n)' \/ (F(c).op = "disconnect" /\ ~ Alive(n)')
    BY <2>3, <2>4
  <2> QED
    BY <2>1, <2>2, <2>5 DEF InHandler, Alive
<1> QED
  BY <1>1, <1>2 DEF KeyInv

\* The calls below the innermost one are not touched.
LEMMA BelowTop ==
  ASSUME Typed, NEW h, NEW f, Only(h, f), IsTop(h)
  PROVE  \A d \in Calls : d[2] < depth[d[1]] => F(d)' = F(d)
<1>1. h \in Calls /\ \A c \in Calls : c # h => F(c)' = F(c)
  BY DEF Only
<1>2. ~ h[2] < depth[h[1]]
  BY <1>1, CallFacts DEF IsTop
<1> QED
  BY <1>1, <1>2

\* A quiet step enters no subscription.
LEMMA QuietKeys ==
  ASSUME PubInv, NEW h, NEW f, Quiet(h, f)
  PROVE  KeyInv'
<1>1. Typed /\ ShapeInv /\ KeyInv /\ IsTop(h) /\ Only(h, f)
  BY DEF PubInv, Quiet
<1>2. \A c \in Calls : \/ F(c)'.op = F(c).op /\ F(c)'.from = F(c).from /\ F(c)'.key = F(c).key
                       \/ F(c)'.key = None /\ (F(c)'.from = F(c).from \/ F(c)'.from = None)
  BY <1>1 DEF Quiet, Only
<1> QED
  BY <1>1, <1>2, QuietAlive, KeysKept, BelowTop

\* What the invariant reads of a quiet step.
LEMMA QuietFacts ==
  ASSUME PubInv, NEW h, NEW f, Quiet(h, f)
  PROVE  /\ Typed /\ h \in Calls /\ F(h)' = f /\ \A c \in Calls : c # h => F(c)' = F(c)
         /\ f.op = F(h).op /\ f.node = F(h).node /\ f.must = F(h).must /\ f.never = F(h).never
         /\ f.key = F(h).key \/ f.key = None
         /\ list' = list /\ token' = token /\ past' = past /\ pubAlive' = pubAlive
         /\ \A n : Alive(n)' <=> Alive(n)
         /\ CtrlAlive' <=> CtrlAlive
BY QuietAlive DEF Quiet, Only, PubInv

\* A quiet step moves no token and lists nobody.
LEMMA QuietTokens ==
  ASSUME PubInv, NEW h, NEW f, Quiet(h, f)
  PROVE  TokenInv' /\ ListInv' /\ CtrlInv'
<1>1. TokenInv'
  <2>1. F(h).op \in {"disconnect", "connected"} => f.key = F(h).key
    BY DEF Quiet
  <2> QED
    BY <2>1, QuietFacts DEF PubInv, TokenInv
<1>2. ListInv'
  <2>1. f.pc # "push" /\ (f.op = "disconnect" /\ f.pc \in {"erased", "release"} =>
                            f.node \notin ToSet(list))
    BY DEF Quiet
  <2> QED
    BY <2>1, QuietFacts DEF PubInv, ListInv, Ordered
<1>3. CtrlInv'
  <2>1. f.pc \in {"push", "pushed", "token"} => F(h).pc = "pushed"
    BY DEF Quiet
  <2> QED
    BY <2>1, QuietFacts DEF PubInv, CtrlInv
<1> QED
  BY <1>1, <1>2, <1>3

\* A quiet step disowns nobody but where a token could not be allocated.
LEMMA QuietRest ==
  ASSUME PubInv, NEW h, NEW f, Quiet(h, f)
  PROVE  JoinInv' /\ OwnerInv' /\ CaptureInv'
<1>1. JoinInv'
  <2>1. f.pc # "copy" /\ (f.op = "connect" /\ f.key # None => F(h).pc # "push" /\ F(h).key # None)
    BY DEF Quiet
  <2> QED
    BY <2>1, QuietFacts DEF PubInv, JoinInv
<1>2. OwnerInv'
  <2>1. /\ h \in Calls /\ F(h)' = f /\ \A c \in Calls : c # h => F(c)' = F(c)
        /\ list' = list /\ token' = token /\ past' = past /\ f.op = F(h).op /\ f.node = F(h).node
    BY QuietFacts
  <2>2. f.key # F(h).key => f.op = "connect" /\ ("token_alloc" \in Faults \/ F(h).node \notin ToSet(list))
    BY DEF Quiet
  <2>3. ASSUME NEW n \in ToSet(list)
        PROVE  \/ \E k \in Keys : token[k] = n
               \/ \E c \in Calls : F(c)'.op = "connect" /\ F(c)'.node = n /\ F(c)'.key # None
               \/ "token_alloc" \in Faults /\ n \notin past.joined
    <3>1. ASSUME NEW c \in Calls, F(c).op = "connect", F(c).node = n, F(c).key # None
          PROVE  \/ \E d \in Calls : F(d)'.op = "connect" /\ F(d)'.node = n /\ F(d)'.key # None
                 \/ "token_alloc" \in Faults /\ n \notin past.joined
      <4>1. CASE c = h /\ f.key # F(h).key
        BY <2>1, <2>2, <2>3, <3>1, <4>1 DEF PubInv, TokenInv
      <4>2. CASE c # h \/ f.key = F(h).key
        <5>1. F(c)'.op = "connect" /\ F(c)'.node = n /\ F(c)'.key # None
          BY <2>1, <3>1, <4>2
        <5> QED
          BY <5>1
      <4> QED
        BY <4>1, <4>2
    <3> QED
      BY <3>1 DEF PubInv, OwnerInv
  <2> QED
    BY <2>1, <2>3 DEF OwnerInv
<1>3. CaptureInv'
  <2>1. F(h).op = "disconnect" => f.key = F(h).key
    BY DEF Quiet
  <2> QED
    BY <2>1, QuietFacts DEF PubInv, CaptureInv
<1> QED
  BY <1>1, <1>2, <1>3

\* A quiet step keeps the snapshots as they were taken, or takes one.
LEMMA QuietDelivery ==
  ASSUME PubInv, NEW h, NEW f, Quiet(h, f)
  PROVE  Delivery'
<1>1. /\ f.pc \in Serving =>
           \/ F(h).pc \in Serving /\ f.refs = F(h).refs
           \/ F(h).pc = "copy" /\ f.refs = list
  BY DEF Quiet
<1>2. ASSUME F(h).pc = "copy"
      PROVE  /\ F(h).must \ past.leaving \subseteq ToSet(list)
             /\ F(h).never \cap ToSet(list) = {}
  <2>1. h \in Calls /\ F(h).ctrl
    <3>1. h \in Calls
      BY QuietFacts
    <3> QED
      BY <1>2, <3>1, TopFacts DEF PubInv, Shape
  <2>2. CtrlAlive
    BY <2>1 DEF CtrlAlive
  <2> QED
    BY <1>2, <2>1, <2>2 DEF PubInv, JoinInv, ListInv
<1>3. Ordered(list)
  BY DEF PubInv, ListInv
<1>4. ASSUME NEW c \in Calls, F(c)'.pc \in Serving
      PROVE  /\ F(c)'.must \ past.leaving \subseteq ToSet(F(c)'.refs)
             /\ F(c)'.never \cap ToSet(F(c)'.refs) = {}
             /\ Ordered(F(c)'.refs)
  <2>1. CASE c # h \/ (F(h).pc \in Serving /\ f.refs = F(h).refs)
    <3>1. F(c)'.refs = F(c).refs /\ F(c)'.must = F(c).must /\ F(c)'.never = F(c).never
          /\ F(c).pc \in Serving
      BY <1>4, <2>1, QuietFacts
    <3> QED
      BY <3>1 DEF PubInv, Delivery, Serving, Ordered
  <2>2. CASE c = h /\ F(h).pc = "copy" /\ f.refs = list
    BY <1>2, <1>3, <2>2, QuietFacts
  <2> QED
    BY <1>1, <1>4, <2>1, <2>2, QuietFacts
<1>5. past' = past
  BY QuietFacts
<1> QED
  BY <1>4, <1>5 DEF Delivery, Serving, Ordered

\* The invariant survives quiet steps.
LEMMA QuietStep ==
  ASSUME PubInv, Typed', NEW h, NEW f, Quiet(h, f)
  PROVE  PubInv'
BY QuietShapes, QuietKeys, QuietTokens, QuietRest, QuietDelivery DEF PubInv

-----------------------------------------------------------------------------
(* The list changes.                                                       *)

\* A new subscriber is put at the end, after everybody who had joined when
\* its connect() was called.
LEMMA PushBackStep ==
  ASSUME PubInv, Typed', NEW t \in Threads, PushBack(t)
  PROVE  PubInv'
<1> DEFINE f == [Top(t) EXCEPT !.pc = "pushed"]
<1>0. Typed /\ ShapeInv /\ MadeInv /\ KeyInv /\ TokenInv /\ ListInv /\ CtrlInv /\ JoinInv
      /\ OwnerInv /\ CaptureInv /\ Delivery /\ depth[t] > 0
  BY DEF PubInv, PushBack, At
<1>1. PICK h \in Calls : IsTop(h) /\ F(h) = Top(t) /\ Only(h, f) /\ depth' = depth
  BY <1>0, ContinueF DEF PushBack, Goto
<1>2. /\ F(h).pc = "push" /\ F(h).op = "connect" /\ Shape(F(h)) /\ F(h) \in Frames
      /\ F(h).node \in Nodes
  BY <1>0, <1>1, TopFacts, CallFacts DEF PushBack, At
<1>3. PICK n \in Nodes : n = F(h).node
  BY <1>2
<1>4. /\ f.pc = "pushed" /\ f.key = F(h).key /\ f.op = F(h).op /\ f.from = F(h).from
      /\ f.node = n /\ f.refs = F(h).refs /\ f.ctrl = F(h).ctrl
  BY <1>1, <1>2, <1>3 DEF Frames
<1>5. F(h)' = f /\ \A c \in Calls : c # h => F(c)' = F(c)
  BY <1>1 DEF Only
<1> HIDE DEF f
<1>6. /\ token' = token /\ past' = past /\ pubAlive' = pubAlive /\ count' = count
      /\ list' = Append(list, n)
  BY <1>1, <1>3 DEF PushBack
<1>7. /\ ToSet(list') = ToSet(list) \cup {n} /\ Len(list') = Len(list) + 1
      /\ (\A i \in 1 .. Len(list) : list'[i] = list[i]) /\ list'[Len(list) + 1] = n
      /\ Len(list) \in Nat /\ \A i \in 1 .. Len(list) : list[i] \in ToSet(list)
  <2>1. list \in Seq(Nodes)
    BY <1>0 DEF Typed, TypeOK
  <2> QED
    BY <1>6, <2>1, AppendElements, LenProperties, Elements
<1>8. n \notin ToSet(list) /\ n \notin past.joined \cup past.leaving /\ pubAlive
  BY <1>0, <1>2, <1>3 DEF ListInv, TokenInv, CtrlInv
<1>9. \A x : Alive(x)' <=> Alive(x)
  <2>1. n \in ToSet(F(h).refs)
    BY <1>2, <1>3, OneElement DEF Shape
  <2>2. \A c \in Calls : F(c)'.refs = F(c).refs
    BY <1>4, <1>5
  <2> QED
    BY <1>7, <2>1, <2>2 DEF Alive
<1>10. ShapeInv' /\ MadeInv'
  <2>1. Shape(f)
    BY <1>2, <1>3, <1>4 DEF Shape
  <2>2. ~ h[2] > depth[h[1]]
    BY <1>0, <1>1, CallFacts DEF IsTop
  <2>3. ShapeInv'
    BY <1>0, <1>1, <1>5, <2>1, <2>2 DEF ShapeInv
  <2>4. Made' = Made /\ n \in Made
    BY <1>0, <1>3, <1>6, NamesAssumption DEF Made, MadeInv, Keys
  <2>5. MadeInv'
    BY <1>0, <1>3, <1>4, <1>5, <1>6, <1>7, <2>4 DEF MadeInv
  <2> QED
    BY <2>3, <2>5
<1>11. KeyInv'
  BY <1>0, <1>1, <1>4, <1>5, <1>9, KeysKept, BelowTop
<1>12. TokenInv'
  BY <1>0, <1>3, <1>4, <1>5, <1>6 DEF TokenInv
<1>13. ListInv'
  <2>1. Ordered(list)'
    <3> SUFFICES ASSUME NEW j \in 1 .. Len(list) + 1, NEW k \in 1 .. Len(list) + 1, j < k
                 PROVE  list'[j] # list'[k] /\ list'[k] \notin past.before[list'[j]]
      BY <1>6, <1>7 DEF Ordered
    <3>1. j \in 1 .. Len(list) /\ list'[j] = list[j] /\ list[j] \in ToSet(list)
      BY <1>7
    <3>2. CASE k \in 1 .. Len(list)
      BY <1>0, <1>7, <3>1, <3>2 DEF ListInv, Ordered
    <3>3. CASE k = Len(list) + 1
      <4>1. list[j] \in Nodes
        BY <1>0, <3>1 DEF MadeInv, Made
      <4> QED
        BY <1>0, <1>7, <1>8, <3>1, <3>3, <4>1 DEF ListInv
    <3> QED
      BY <1>7, <3>2, <3>3
  <2>2. \A c \in Calls : c # h => F(c).node # n \/ F(c).op \notin {"connect", "disconnect"}
    BY <1>0, <1>2, <1>3, <1>8 DEF TokenInv
  <2>3. \A c \in Calls : F(c).pc = "push" => F(c).op = "connect"
    BY <1>0, TopFacts
  <2>4. past.left \cap (ToSet(list) \cup {n}) = {}
    BY <1>0, <1>8 DEF ListInv, TokenInv
  <2> QED
    BY <1>0, <1>2, <1>4, <1>5, <1>6, <1>7, <2>1, <2>2, <2>3, <2>4 DEF ListInv
<1>14. CtrlInv' /\ CtrlAlive' /\ CtrlAlive
  BY <1>0, <1>4, <1>5, <1>6, <1>8 DEF CtrlInv, CtrlAlive
<1>15. JoinInv'
  BY <1>0, <1>2, <1>3, <1>4, <1>5, <1>6, <1>7, <1>14 DEF JoinInv
<1>16. OwnerInv'
  <2>1. F(h)'.op = "connect" /\ F(h)'.node = n /\ F(h)'.key # None
    BY <1>2, <1>4, <1>5 DEF Shape
  <2>2. \A c \in Calls : F(c)'.op = F(c).op /\ F(c)'.node = F(c).node /\ F(c)'.key = F(c).key
    BY <1>3, <1>4, <1>5
  <2> QED
    BY <1>0, <1>1, <1>6, <1>7, <2>1, <2>2 DEF OwnerInv
<1>17. CaptureInv' /\ Delivery'
  <2>1. CaptureInv'
    BY <1>0, <1>4, <1>5, <1>6, <1>9 DEF CaptureInv
  <2> QED
    BY <1>0, <1>4, <1>5, <1>6, <2>1 DEF Delivery
<1> QED
  BY <1>10, <1>11, <1>12, <1>13, <1>14, <1>15, <1>16, <1>17 DEF PubInv

-----------------------------------------------------------------------------
(* Calls begin.                                                            *)

\* Where a call on a subscription may be made from.
Enterable(h, f) ==
  /\ f.key # None =>
       /\ f.key \in Keys /\ Idle(f.key) /\ token[f.key] = f.node /\ f.node \in Nodes
       /\ f.key \in Nodes => InHandler(h, f.key)
  /\ f.from # None => f.from \in Keys /\ Idle(f.from) /\ f.from # f.key

\* A call other than connect() begins: nothing changes but who is leaving.
Opens(h, f) ==
  /\ h \in Calls /\ h[2] = depth[h[1]] + 1 /\ Only(h, f)
  /\ depth' = [depth EXCEPT ![h[1]] = @ + 1]
  /\ UNCHANGED <<list, token>> /\ count'.nodes = count.nodes
  /\ past'.joined = past.joined /\ past'.left = past.left /\ past'.before = past.before
  /\ past.leaving \subseteq past'.leaving /\ past'.leaving \subseteq past.leaving \cup {f.node}
  /\ Shape(f) /\ f.op \notin {"none", "connect"} /\ f.refs = <<>>
  /\ f.pc \notin Serving \cup {"push", "pushed", "token", "erased"}
  /\ f.op = "disconnect" => f.pc = "ctrl" /\ f.node \in past'.leaving
  /\ f.op \notin {"disconnect", "connected"} => past' = past /\ f.node = None
  /\ f.pc = "copy" => f.must \subseteq past.joined /\ f.never \subseteq past.left
  /\ f.op = "count" => pubAlive
  /\ f.ctrl => pubAlive
  /\ \/ pubAlive' = pubAlive
     \/ f.ctrl /\ f.op # "count"
        /\ \A c \in Calls : F(c).op # "count" /\ F(c).pc \notin {"push", "pushed", "token"}
  /\ Enterable(h, f)

\* There is nothing yet where the call begins, and what is below stays.
LEMMA OpensFacts ==
  ASSUME PubInv, NEW h, NEW f, Opens(h, f)
  PROVE  /\ F(h) = NoFrame /\ h \in Calls /\ F(h)' = f
         /\ \A c \in Calls : c # h => F(c)' = F(c)
         /\ \A d \in Calls : d[2] < depth[d[1]] => F(d)' = F(d)
         /\ \A d \in Calls : d[2] <= depth[d[1]] => d # h /\ F(d)' = F(d)
         /\ \A n : Alive(n)' <=> Alive(n)
         /\ CtrlAlive' <=> CtrlAlive
<1>1. h \in Calls /\ F(h)' = f /\ \A c \in Calls : c # h => F(c)' = F(c)
  BY DEF Opens, Only
<1>2. h[2] = depth[h[1]] + 1 /\ depth[h[1]] \in Nat
  BY <1>1, CallFacts, MaxDepthNat DEF Opens, PubInv
<1>3. F(h) = NoFrame
  BY <1>1, <1>2 DEF PubInv, ShapeInv
<1>4. \A d \in Calls : d[2] <= depth[d[1]] => d # h
  BY <1>2
<1>5. \A d \in Calls : d[2] < depth[d[1]] => d[2] <= depth[d[1]]
  BY CallFacts DEF PubInv
<1>6. \A n : Alive(n)' <=> Alive(n)
  <2>1. \A c \in Calls : F(c)'.refs = F(c).refs
    BY <1>1, <1>3 DEF Opens, NoFrame
  <2> QED
    BY <2>1 DEF Alive, Opens
<1>7. CtrlAlive' <=> CtrlAlive
  BY <1>1, <1>3 DEF CtrlAlive, Opens, NoFrame
<1> QED
  BY <1>1, <1>3, <1>4, <1>5, <1>6, <1>7

\* The frames of a call that begins.
LEMMA OpensShapes ==
  ASSUME PubInv, Typed', NEW h, NEW f, Opens(h, f)
  PROVE  ShapeInv' /\ MadeInv'
<1>1. ShapeInv'
  <2>1. \A c \in Calls : Shape(F(c)')
    BY ZenonT(40), OpensFacts DEF PubInv, ShapeInv, Opens
  <2>2. ASSUME NEW c \in Calls, c[2] > depth'[c[1]] PROVE F(c)' = NoFrame
    <3>1. c[2] \in Nat /\ depth[c[1]] \in Nat /\ c[1] \in Threads /\ h[1] \in Threads
      BY CallFacts, MaxDepthNat, OpensFacts DEF PubInv
    <3>2. depth'[c[1]] = IF c[1] = h[1] THEN depth[h[1]] + 1 ELSE depth[c[1]]
      BY <3>1 DEF Opens, PubInv, Typed, TypeOK
    <3>3. c # h /\ c[2] > depth[c[1]]
      BY <2>2, <3>1, <3>2 DEF Opens
    <3> QED
      BY <3>3, OpensFacts DEF PubInv, ShapeInv
  <2> QED
    BY <2>1, <2>2 DEF ShapeInv
<1>2. MadeInv'
  <2>1. Made' = Made
    BY DEF Made, Opens
  <2>2. f.key # None => f.key \in Keys /\ token[f.key] = f.node /\ f.node # None
    BY NamesAssumption DEF Opens, Enterable, Keys
  <2>3. f.key = None => f.node = None
    BY DEF Opens, Shape
  <2>4. None \notin Nodes
    BY NamesAssumption DEF Keys
  <2>5. f.key # None => f.node \in Made /\ (f.key \in Nodes => f.key \in Made)
    BY <2>2 DEF PubInv, MadeInv
  <2>6. ToSet(f.refs) = {}
    BY NoElements DEF Opens
  <2>7. f.node # None => f.node \in Made
    BY <2>3, <2>5
  <2>8. past'.leaving \subseteq Made
    <3>1. CASE f.key # None
      BY <2>2, <2>5, <3>1 DEF PubInv, MadeInv, Opens
    <3>2. CASE f.key = None
      <4>1. past' = past
        BY <3>2 DEF Opens, Shape
      <4> QED
        BY <4>1 DEF PubInv, MadeInv
    <3> QED
      BY <3>1, <3>2
  <2>9. ASSUME NEW c \in Calls
        PROVE  /\ ToSet(F(c)'.refs) \subseteq Made
               /\ F(c)'.key \in Nodes => F(c)'.key \in Made
               /\ F(c)'.node # None => F(c)'.node \in Made
    <3>1. CASE c = h
      BY <2>4, <2>5, <2>6, <2>7, <3>1, OpensFacts
    <3>2. CASE c # h
      BY <3>2, OpensFacts DEF PubInv, MadeInv
    <3> QED
      BY <3>1, <3>2
  <2>10. list' = list /\ token' = token /\ past'.joined = past.joined
    BY DEF Opens
  <2> QED
    BY <2>1, <2>8, <2>9, <2>10 DEF PubInv, MadeInv
<1> QED
  BY <1>1, <1>2

\* A subscription is entered by one call at a time.
LEMMA OpensKeys ==
  ASSUME PubInv, Typed', NEW h, NEW f, Opens(h, f)
  PROVE  KeyInv'
<1>0. Typed /\ ShapeInv /\ KeyInv
  BY DEF PubInv
<1>1. NotReentered'
  <2> SUFFICES ASSUME NEW c \in Calls, NEW d \in Calls, F(c)'.key # None,
                      F(c)'.key \in {F(d)'.key, F(d)'.from}
               PROVE  c = d
    BY DEF NotReentered
  <2>1. CASE c # h /\ d # h
    BY <1>0, <2>1, OpensFacts DEF KeyInv, NotReentered
  <2>2. CASE c = h /\ d # h
    <3>1. F(d)' = F(d) /\ F(c)' = f /\ Idle(f.key)
      BY <2>2, OpensFacts DEF Opens, Enterable
    <3> QED
      BY <3>1 DEF Idle
  <2>3. CASE c # h /\ d = h
    <3>1. F(c)' = F(c) /\ F(d)' = f
      BY <2>3, OpensFacts
    <3>2. F(c).key \in {f.key, f.from}
      BY <3>1
    <3>3. Idle(F(c).key)
      BY <3>1, <3>2 DEF Opens, Enterable
    <3> QED
      BY <3>3 DEF Idle
  <2> QED
    BY <2>1, <2>2, <2>3
<1>2. ASSUME NEW c \in Calls, NEW n \in Nodes, F(c)'.key = n
      PROVE  \/ F(c)'.op = "connect"
             \/ InHandler(c, n)'
             \/ F(c)'.op = "disconnect" /\ ~ Alive(n)'
  <2>1. CASE c = h
    <3>1. InHandler(h, n)
      BY <1>2, <2>1, OpensFacts, NamesAssumption DEF Opens, Enterable, Keys
    <3>2. Below(h) \in Calls /\ Below(h)[2] <= depth[Below(h)[1]]
      <4>1. /\ h[1] \in Threads /\ h[2] \in 1 .. MaxDepth /\ depth[h[1]] \in 0 .. MaxDepth
            /\ h[2] > 1 /\ MaxDepth \in Nat /\ h[2] = depth[h[1]] + 1
        BY <1>0, <3>1, CallFacts, MaxDepthNat, OpensFacts DEF InHandler, Opens
      <4>2. h[2] - 1 \in 1 .. MaxDepth /\ h[2] - 1 <= depth[h[1]]
        BY <4>1
      <4> QED
        BY <4>1, <4>2 DEF Below, Calls
    <3>3. F(Below(h))' = F(Below(h))
      BY <3>2, OpensFacts
    <3> QED
      BY <2>1, <3>1, <3>3 DEF InHandler
  <2>2. CASE c # h
    <3>1. F(c)' = F(c) /\ F(c).key = n
      BY <1>2, <2>2, OpensFacts
    <3>2. F(c).op = "connect" \/ InHandler(c, n) \/ (F(c).op = "disconnect" /\ ~ Alive(n))
      BY <1>0, <3>1 DEF KeyInv
    <3>3. F(c) # NoFrame
      BY <3>1, NamesAssumption DEF NoFrame, Keys
    <3>4. InHandler(c, n) => InHandler(c, n)'
      BY <1>0, <3>3, OpensFacts, HandlerStays
    <3> QED
      BY <3>1, <3>2, <3>4, OpensFacts
  <2> QED
    BY <2>1, <2>2
<1>3. \A c \in Calls : F(c)'.key \in Nodes =>
        \/ F(c)'.op = "connect"
        \/ InHandler(c, F(c).key)'
        \/ F(c)'.op = "disconnect" /\ ~ Alive(F(c).key)'
  <2> SUFFICES ASSUME NEW c \in Calls, F(c)'.key \in Nodes
               PROVE  \/ F(c)'.op = "connect"
                      \/ InHandler(c, F(c).key)'
                      \/ F(c)'.op = "disconnect" /\ ~ Alive(F(c).key)'
    OBVIOUS
  <2>1. PICK n \in Nodes : n = F(c)'.key
    OBVIOUS
  <2>2. F(c)'.op = "connect" \/ InHandler(c, n)' \/ (F(c)'.op = "disconnect" /\ ~ Alive(n)')
    BY <1>2, <2>1
  <2> QED
    BY <2>1, <2>2 DEF InHandler, Alive
<1> QED
  BY <1>1, <1>3 DEF KeyInv

\* The other parts of the invariant when a call begins.
LEMMA OpensRest ==
  ASSUME PubInv, Typed', NEW h, NEW f, Opens(h, f)
  PROVE  TokenInv' /\ ListInv' /\ CtrlInv' /\ JoinInv' /\ OwnerInv' /\ CaptureInv' /\ Delivery'
<1>0. TokenInv /\ ListInv /\ CtrlInv /\ JoinInv /\ OwnerInv /\ CaptureInv /\ Delivery
  BY DEF PubInv
<1>1. /\ F(h) = NoFrame /\ h \in Calls /\ F(h)' = f /\ \A c \in Calls : c # h => F(c)' = F(c)
      /\ list' = list /\ token' = token
      /\ past'.joined = past.joined /\ past'.left = past.left /\ past'.before = past.before
      /\ past.leaving \subseteq past'.leaving /\ past'.leaving \subseteq past.leaving \cup {f.node}
      /\ f.op \notin {"none", "connect"} /\ F(h).op = "none"
  <2>1. F(h) = NoFrame /\ h \in Calls /\ F(h)' = f /\ \A c \in Calls : c # h => F(c)' = F(c)
    BY OpensFacts
  <2>2. F(h).op = "none"
    BY <2>1 DEF NoFrame
  <2> QED
    BY <2>1, <2>2 DEF Opens
<1>2. TokenInv'
  <2>1. \A c \in Calls : F(c)'.op = "connect" => c # h /\ F(c)' = F(c)
    BY <1>1
  <2>2. f.op \in {"disconnect", "connected"} => f.key # None /\ token[f.key] = f.node /\ f.key \in Keys
    BY DEF Opens, Enterable, Shape
  <2>3. f.op = "disconnect" => f.node \in past'.leaving
    BY DEF Opens
  <2>4. ASSUME NEW c \in Calls, F(c).op = "connect" PROVE F(c).node \notin past'.leaving
    <3>1. F(c).node \notin past.leaving /\ \A k \in Keys : token[k] # F(c).node
      BY <1>0, <2>4 DEF TokenInv
    <3>2. CASE f.op \in {"disconnect", "connected"}
      BY <1>1, <2>2, <3>1, <3>2
    <3>3. CASE f.op \notin {"disconnect", "connected"}
      BY <3>1, <3>3 DEF Opens
    <3> QED
      BY <3>2, <3>3
  <2> QED
    BY <1>0, <1>1, <2>1, <2>2, <2>3, <2>4 DEF TokenInv
<1>3. ListInv'
  <2>1. f.pc # "push" /\ (f.op = "disconnect" => f.pc = "ctrl")
    BY DEF Opens
  <2>2. Ordered(list)' <=> Ordered(list)
    BY <1>1 DEF Ordered
  <2> QED
    BY <1>0, <1>1, <2>1, <2>2 DEF ListInv
<1>4. CtrlInv'
  BY ZenonT(40), <1>0, <1>1, OpensFacts DEF CtrlInv, Opens
<1>5. JoinInv'
  <2>1. f.pc = "copy" => f.must \subseteq past.joined /\ f.never \subseteq past.left
    BY DEF Opens
  <2> QED
    BY <1>0, <1>1, <2>1, OpensFacts DEF JoinInv
<1>6. OwnerInv'
  <2>1. \A c \in Calls : F(c).op = "connect" => F(c)' = F(c)
    BY <1>1
  <2> QED
    BY <1>0, <1>1, <2>1 DEF OwnerInv
<1>7. CaptureInv'
  <2>1. \A c \in Calls : F(c).op = "disconnect" => F(c)' = F(c)
    BY <1>1
  <2> QED
    BY <1>0, <1>1, <2>1, OpensFacts DEF CaptureInv
<1>8. Delivery'
  <2>1. f.pc \notin Serving
    BY DEF Opens
  <2> QED
    BY <1>0, <1>1, <2>1 DEF Delivery, Serving
<1> QED
  BY <1>2, <1>3, <1>4, <1>5, <1>6, <1>7, <1>8

\* The invariant survives the beginning of a call.
LEMMA OpensStep ==
  ASSUME PubInv, Typed', NEW h, NEW f, Opens(h, f)
  PROVE  PubInv'
BY OpensShapes, OpensKeys, OpensRest DEF PubInv

\* A call on a subscription that the program or a handler can name.
LEMMA VisitOpens ==
  ASSUME PubInv, Typed', NEW t \in Threads, NEW op \in {"disconnect", "connected"},
         NEW k \in Keys, NEW from,
         MayCall(t), k \in Reachable(t), Idle(k), token[k] # None,
         from # None => op = "disconnect" /\ from \in Slots /\ k \in Slots /\ Idle(from) /\ from # k,
         Enter(t, Visit(op, k, from)), UNCHANGED <<pubAlive, list, lock, token>>, Called,
         IF op = "disconnect" THEN past' = [past EXCEPT !.leaving = @ \cup {token[k]}]
                              ELSE past' = past
  PROVE  \E h, f : Opens(h, f)
<1> DEFINE f == Visit(op, k, from)
<1>0. Typed /\ past \in Past /\ token[k] \in Nodes /\ depth[t] \in 0 .. MaxDepth
  BY DEF PubInv, Typed, TypeOK
<1>1. PICK h \in Calls : /\ h = <<t, depth[t] + 1>> /\ Only(h, f)
                         /\ depth' = [depth EXCEPT ![t] = @ + 1]
  BY <1>0, EnterF
<1>2. h[1] = t /\ h[2] = depth[t] + 1
  BY <1>1
<1>3. /\ f.op = op /\ f.pc = "ctrl" /\ f.key = k /\ f.from = from /\ f.node = token[k]
      /\ f.refs = <<>> /\ f.ctrl = FALSE
  BY DEF Visit, NoFrame
<1> HIDE DEF f
<1>4. k # None
  BY NamesAssumption
<1>5. Shape(f)
  BY <1>3, <1>4 DEF Shape
<1>6. k \in Nodes => InHandler(h, k)
  <2> SUFFICES ASSUME k \in Nodes PROVE InHandler(h, k)
    OBVIOUS
  <2>1. k \notin Slots
    BY NamesAssumption
  <2>2. At(t, "handler") /\ k = Top(t).refs[Top(t).i]
    BY <2>1 DEF Reachable
  <2>3. depth[t] > 0 /\ (depth[t] + 1) - 1 = depth[t] /\ depth[t] + 1 > 1
    BY <1>0, <2>2 DEF At
  <2>4. Below(h) = <<t, depth[t]>>
    BY <1>2, <2>3 DEF Below
  <2>5. F(Below(h)) = Top(t)
    BY <2>4 DEF F, Top
  <2> QED
    BY <1>2, <2>2, <2>3, <2>5 DEF InHandler, At
<1>7. Enterable(h, f)
  BY <1>0, <1>3, <1>6 DEF Enterable, Keys
<1>8. /\ past'.joined = past.joined /\ past'.left = past.left /\ past'.before = past.before
      /\ past.leaving \subseteq past'.leaving /\ past'.leaving \subseteq past.leaving \cup {f.node}
      /\ f.op = "disconnect" => f.node \in past'.leaving
  BY <1>0, <1>3 DEF Past
<1>9. count'.nodes = count.nodes
  BY DEF Called, PubInv, Typed, TypeOK
<1>10. Opens(h, f)
  BY <1>1, <1>2, <1>3, <1>5, <1>7, <1>8, <1>9 DEF Opens, Serving
<1> QED
  BY <1>10

\* disconnect(), connected() and a move assignment begin.
LEMMA VisitsOpen ==
  ASSUME PubInv, Typed', NEW t \in Threads,
         \/ \E k \in Keys : Disconnect(t, k) \/ Connected(t, k)
         \/ \E from, to \in Slots : MoveAssign(t, from, to)
  PROVE  \E h, f : Opens(h, f)
<1>1. ASSUME NEW k \in Keys, Disconnect(t, k) PROVE \E h, f : Opens(h, f)
  BY <1>1, VisitOpens DEF Disconnect
<1>2. ASSUME NEW k \in Keys, Connected(t, k) PROVE \E h, f : Opens(h, f)
  BY <1>2, VisitOpens DEF Connected
<1>3. ASSUME NEW from \in Slots, NEW to \in Slots, MoveAssign(t, from, to)
      PROVE  \E h, f : Opens(h, f)
  <2>1. to \in Keys /\ to \in Reachable(t)
    BY DEF Keys, Reachable
  <2>2. from # None
    BY NamesAssumption DEF Keys
  <2> QED
    BY <1>3, <2>1, <2>2, VisitOpens DEF MoveAssign
<1> QED
  BY <1>1, <1>2, <1>3

\* subscriber_count(), operator() and the end of the publisher begin.
LEMMA OthersOpen ==
  ASSUME PubInv, Typed', NEW t \in Threads, Publish(t) \/ Count(t) \/ DestroyPublisher(t)
  PROVE  \E h, f : Opens(h, f)
<1>0. Typed /\ pubAlive /\ count'.nodes = count.nodes /\ UNCHANGED <<list, token, past>>
  BY DEF PubInv, Typed, TypeOK, Publish, Count, DestroyPublisher, Called
<1>1. ASSUME NEW f, Enter(t, f), f.op \in {"publish", "count", "destroy"},
             f.pc \in {"copy", "find", "release"}, Shape(f), f.refs = <<>>,
             f.key = None, f.from = None, f.node = None,
             f.pc = "copy" => f.must \subseteq past.joined /\ f.never \subseteq past.left,
             \/ pubAlive' = pubAlive
             \/ f.ctrl /\ f.op = "destroy"
                /\ \A c \in Calls : F(c).op # "count" /\ F(c).pc \notin {"push", "pushed", "token"}
      PROVE  \E h : Opens(h, f)
  <2>1. PICK h \in Calls : /\ h = <<t, depth[t] + 1>> /\ Only(h, f)
                           /\ depth' = [depth EXCEPT ![t] = @ + 1]
    BY <1>0, <1>1, EnterF
  <2>2. h[1] = t /\ h[2] = depth[t] + 1
    BY <2>1
  <2>3. Enterable(h, f)
    BY <1>1 DEF Enterable
  <2>4. Opens(h, f)
    BY <1>0, <1>1, <2>1, <2>2, <2>3 DEF Opens, Serving
  <2> QED
    BY <2>4
<1>2. CASE Publish(t)
  <2> DEFINE f == [NoFrame EXCEPT !.op = "publish", !.pc = "copy", !.ctrl = TRUE,
                                  !.must = past.joined \ past.leaving, !.never = past.left]
  <2>1. /\ f.op = "publish" /\ f.pc = "copy" /\ f.refs = <<>> /\ f.key = None /\ f.from = None
        /\ f.node = None /\ f.must = past.joined \ past.leaving /\ f.never = past.left
        /\ f.ctrl /\ f.i = 0
    BY DEF NoFrame
  <2>2. Enter(t, f) /\ pubAlive' = pubAlive
    BY <1>2 DEF Publish
  <2> HIDE DEF f
  <2>3. Shape(f)
    BY <2>1 DEF Shape
  <2>4. \E h : Opens(h, f)
    BY <1>1, <2>1, <2>2, <2>3
  <2> QED
    BY <2>4
<1>3. CASE Count(t)
  <2> DEFINE f == [NoFrame EXCEPT !.op = "count", !.pc = "find"]
  <2>1. /\ f.op = "count" /\ f.pc = "find" /\ f.refs = <<>> /\ f.key = None /\ f.from = None
        /\ f.node = None
    BY DEF NoFrame
  <2>2. Enter(t, f) /\ pubAlive' = pubAlive
    BY <1>3 DEF Count
  <2> HIDE DEF f
  <2>3. Shape(f)
    BY <2>1 DEF Shape
  <2>4. \E h : Opens(h, f)
    BY <1>1, <2>1, <2>2, <2>3
  <2> QED
    BY <2>4
<1>4. CASE DestroyPublisher(t)
  <2> DEFINE f == [NoFrame EXCEPT !.op = "destroy", !.pc = "release", !.ctrl = TRUE]
  <2>1. /\ f.op = "destroy" /\ f.pc = "release" /\ f.refs = <<>> /\ f.key = None /\ f.from = None
        /\ f.node = None /\ f.ctrl
    BY DEF NoFrame
  <2>2. /\ Enter(t, f)
        /\ \A c \in Calls : F(c).op # "count" /\ F(c).pc \notin {"push", "pushed", "token"}
    BY <1>4 DEF DestroyPublisher
  <2> HIDE DEF f
  <2>3. Shape(f)
    BY <2>1 DEF Shape
  <2>4. \E h : Opens(h, f)
    BY <1>1, <2>1, <2>2, <2>3
  <2> QED
    BY <2>4
<1> QED
  BY <1>2, <1>3, <1>4

\* connect() makes a subscriber nobody has heard of.
LEMMA ConnectStep ==
  ASSUME PubInv, Typed', NEW t \in Threads,
         NEW dest \in Slots \cup {"self"}, NEW captured \in Slots \cup {None},
         Connect(t, dest, captured)
  PROVE  PubInv'
<1> DEFINE m == count.nodes + 1
           key == IF dest = "self" THEN m ELSE dest
           f == [NoFrame EXCEPT !.op = "connect", !.pc = "push", !.key = key,
                                !.node = m, !.refs = <<m>>]
<1>0. /\ Typed /\ ShapeInv /\ MadeInv /\ KeyInv /\ TokenInv /\ ListInv /\ CtrlInv /\ JoinInv
      /\ OwnerInv /\ CaptureInv /\ Delivery
      /\ past \in Past /\ token \in [Keys -> Nodes \cup {None}] /\ count.nodes \in 0 .. MaxNodes
      /\ list \in Seq(Nodes)
  BY DEF PubInv, Typed, TypeOK
<1>1. m \in Nodes /\ m \notin Made
  BY <1>0 DEF Connect, Made
<1>2. PICK h \in Calls : /\ h = <<t, depth[t] + 1>> /\ Only(h, f)
                         /\ depth' = [depth EXCEPT ![t] = @ + 1]
  BY <1>0, EnterF DEF Connect
<1>3. PICK n \in Nodes : n = m
  BY <1>1
<1>4. PICK x \in Keys : x = key
  BY <1>1, <1>3 DEF Keys, Connect
<1>5. /\ f.op = "connect" /\ f.pc = "push" /\ f.key = x /\ f.node = n /\ f.from = None
      /\ f.refs = <<n>> /\ f.ctrl = FALSE
  BY <1>3, <1>4 DEF NoFrame
<1>6. /\ n \notin Made /\ count'.nodes = n /\ n = count.nodes + 1
      /\ past'.before = [past.before EXCEPT ![n] = past.joined]
      /\ past'.joined = past.joined /\ past'.leaving = past.leaving /\ past'.left = past.left
      /\ list' = list /\ pubAlive' = pubAlive /\ pubAlive
  BY <1>0, <1>1, <1>3 DEF Connect, Past
<1>7. /\ x = n \/ (x \in Slots /\ token[x] = None /\ Idle(x) /\ captured # x)
      /\ captured # None => captured \in Slots /\ token[captured] # None /\ Idle(captured) /\ x # n
      /\ token' = IF captured = None THEN token
                  ELSE [token EXCEPT ![n] = token[captured], ![captured] = None]
  <2>1. "self" \notin Slots => dest \in Slots \/ x = n
    BY <1>3, <1>4
  <2>2. dest \in Slots => token[dest] = None /\ Idle(dest)
    BY DEF Connect
  <2>3. captured # None =>
          /\ captured \in Slots /\ token[captured] # None /\ Idle(captured) /\ captured # dest
          /\ dest # "self"
    BY DEF Connect
  <2>4. token' = IF captured = None THEN token
                 ELSE [token EXCEPT ![n] = token[captured], ![captured] = None]
    BY <1>3 DEF Connect
  <2>5. x \in Slots => x # n
    BY NamesAssumption, <1>3
  <2>6. IF dest = "self" THEN x = n ELSE x = dest
    BY <1>3, <1>4
  <2>7. None \notin Slots
    BY NamesAssumption DEF Keys
  <2>8. x = n \/ (x \in Slots /\ token[x] = None /\ Idle(x) /\ captured # x)
    BY <2>2, <2>3, <2>6, <2>7
  <2>9. captured # None => x # n
    BY <2>3, <2>5, <2>6
  <2> QED
    BY <2>3, <2>4, <2>8, <2>9
<1> HIDE DEF f, m, key
<1>8. h[1] = t /\ h[2] = depth[t] + 1 /\ depth[t] \in Nat /\ t \in Threads
  BY <1>0, <1>2, CallFacts, MaxDepthNat
<1>9. /\ F(h) = NoFrame /\ F(h)' = f /\ (\A c \in Calls : c # h => F(c)' = F(c))
      /\ F(h).op = "none" /\ F(h).refs = <<>> /\ F(h).ctrl = FALSE
  <2>1. F(h)' = f /\ \A c \in Calls : c # h => F(c)' = F(c)
    BY <1>2 DEF Only
  <2>2. h[2] > depth[h[1]]
    BY <1>8
  <2>3. F(h) = NoFrame
    BY <1>0, <2>2 DEF ShapeInv
  <2> QED
    BY <2>1, <2>3 DEF NoFrame
<1>10. /\ n \notin ToSet(list) /\ token[n] = None /\ (\A k \in Keys : token[k] # n)
       /\ n \notin past.joined \cup past.leaving
       /\ \A c \in Calls : n \notin ToSet(F(c).refs) /\ F(c).key # n /\ F(c).node # n
  BY <1>0, <1>6, NamesAssumption DEF MadeInv, Keys
<1>11. \A y : y # n => (Alive(y)' <=> Alive(y))
  <2>1. ASSUME NEW c \in Calls, NEW y, y # n
        PROVE  y \in ToSet(F(c)'.refs) <=> y \in ToSet(F(c).refs)
    <3>1. CASE c = h
      <4>1. ToSet(F(c)'.refs) = {n} /\ ToSet(F(c).refs) = {}
        BY <1>5, <1>9, <3>1, NoElements, OneElement
      <4> QED
        BY <2>1, <4>1
    <3>2. CASE c # h
      BY <1>9, <3>2
    <3> QED
      BY <3>1, <3>2
  <2> QED
    BY <1>6, <2>1 DEF Alive
<1>12. Alive(n)' /\ (CtrlAlive' <=> CtrlAlive)
  <2>1. n \in ToSet(F(h)'.refs)
    BY <1>5, <1>9, OneElement
  <2>2. \A c \in Calls : F(c)'.ctrl <=> F(c).ctrl
    BY <1>5, <1>9
  <2> QED
    BY <1>6, <2>1, <2>2 DEF Alive, CtrlAlive
<1>13. None \notin Keys /\ Slots \cap Nodes = {} /\ Slots \subseteq Keys /\ n \in Keys
  BY NamesAssumption DEF Keys
<1>14. /\ \A k \in Keys : token'[k] = token[k] \/ k = n \/ k = captured
       /\ captured # None => token'[n] = token[captured] /\ token'[captured] = None
       /\ captured = None => token' = token
       /\ captured # n
  BY <1>0, <1>7, <1>13
<1>15. ShapeInv'
  <2>1. Shape(f)
    BY <1>5, <1>7, <1>13 DEF Shape
  <2>2. ASSUME NEW c \in Calls, c[2] > depth'[c[1]] PROVE F(c)' = NoFrame
    <3>1. c[2] \in Nat /\ depth[c[1]] \in Nat /\ c[1] \in Threads
      BY <1>0, CallFacts, MaxDepthNat
    <3>2. depth'[c[1]] = IF c[1] = t THEN depth[t] + 1 ELSE depth[c[1]]
      BY <1>0, <1>2, <1>8, <3>1 DEF Typed, TypeOK
    <3>3. c # h /\ c[2] > depth[c[1]]
      BY <1>8, <2>2, <3>1, <3>2
    <3> QED
      BY <1>0, <1>9, <3>3 DEF ShapeInv
  <2> QED
    BY <1>0, <1>9, <2>1, <2>2 DEF ShapeInv
<1>16. MadeInv'
  <2>1. Made' = Made \cup {n}
    BY <1>0, <1>6 DEF Made, Nodes
  <2>2. \A k \in Keys : token'[k] # None => token'[k] \in Made /\ (k \in Nodes => k \in Made \cup {n})
    BY <1>0, <1>7, <1>13, <1>14 DEF MadeInv
  <2>3. x \in Nodes => x = n
    BY <1>7, <1>13
  <2>4. \A c \in Calls : /\ ToSet(F(c)'.refs) \subseteq Made \cup {n}
                         /\ F(c)'.key \in Nodes => F(c)'.key \in Made \cup {n}
                         /\ F(c)'.node # None => F(c)'.node \in Made \cup {n}
    <3> SUFFICES ASSUME NEW c \in Calls
                 PROVE  /\ ToSet(F(c)'.refs) \subseteq Made \cup {n}
                        /\ F(c)'.key \in Nodes => F(c)'.key \in Made \cup {n}
                        /\ F(c)'.node # None => F(c)'.node \in Made \cup {n}
      OBVIOUS
    <3>1. CASE c = h
      BY <1>5, <1>9, <2>3, <3>1, OneElement
    <3>2. CASE c # h
      BY <1>0, <1>9, <3>2 DEF MadeInv
    <3> QED
      BY <3>1, <3>2
  <2> QED
    BY <1>0, <1>6, <2>1, <2>2, <2>4 DEF MadeInv
<1>17. KeyInv'
  <2>1. Idle(x)
    <3>1. CASE x = n
      <4>1. \A c \in Calls : F(c).from # None => F(c).from \in Slots
        BY <1>0 DEF ShapeInv, Shape
      <4> QED
        BY <1>10, <1>13, <3>1, <4>1 DEF Idle
    <3> QED
      BY <1>7, <3>1
  <2>2. NotReentered'
    <3> SUFFICES ASSUME NEW c \in Calls, NEW d \in Calls, F(c)'.key # None,
                        F(c)'.key \in {F(d)'.key, F(d)'.from}
                 PROVE  c = d
      BY DEF NotReentered
    <3>1. CASE c # h /\ d # h
      BY <1>0, <1>9, <3>1 DEF KeyInv, NotReentered
    <3>2. CASE c = h /\ d # h
      BY <1>5, <1>9, <2>1, <3>2 DEF Idle
    <3>3. CASE c # h /\ d = h
      BY <1>5, <1>9, <1>13, <2>1, <3>3 DEF Idle
    <3> QED
      BY <3>1, <3>2, <3>3
  <2>3. \A c \in Calls : F(c)'.key \in Nodes =>
          \/ F(c)'.op = "connect"
          \/ InHandler(c, F(c).key)'
          \/ F(c)'.op = "disconnect" /\ ~ Alive(F(c).key)'
    <3> SUFFICES ASSUME NEW c \in Calls, F(c)'.key \in Nodes, F(c)'.op # "connect"
                 PROVE  \/ InHandler(c, F(c).key)'
                        \/ F(c)'.op = "disconnect" /\ ~ Alive(F(c).key)'
      OBVIOUS
    <3>1. c # h /\ F(c)' = F(c)
      BY <1>5, <1>9
    <3>2. PICK y \in Nodes : y = F(c).key
      BY <3>1
    <3>3. y # n /\ F(c) # NoFrame
      BY <1>10, <1>13, <3>2 DEF NoFrame, Keys
    <3>4. InHandler(c, y) \/ (F(c).op = "disconnect" /\ ~ Alive(y))
      BY <1>0, <3>1, <3>2 DEF KeyInv
    <3>5. \A d \in Calls : d[2] < depth[d[1]] => F(d)' = F(d)
      <4>1. ~ h[2] < depth[h[1]]
        BY <1>8
      <4> QED
        BY <1>9, <4>1
    <3>6. InHandler(c, y) => InHandler(c, y)'
      BY <1>0, <3>3, <3>5, HandlerStays
    <3>7. InHandler(c, y)' \/ (F(c)'.op = "disconnect" /\ ~ Alive(y)')
      BY <1>11, <3>1, <3>3, <3>4, <3>6
    <3> QED
      BY <3>1, <3>2, <3>7 DEF InHandler, Alive
  <2> QED
    BY <2>2, <2>3 DEF KeyInv
<1>18. TokenInv'
  <2>1. \A k, l \in Keys : token'[k] = token'[l] /\ k # l => token'[k] = None
    BY <1>0, <1>7, <1>10, <1>13, <1>14 DEF TokenInv
  <2>2. \A c, d \in Calls : F(c)'.op = "connect" /\ F(d)'.op = "connect" /\ F(c)'.node = F(d)'.node => c = d
    BY <1>0, <1>5, <1>9, <1>10 DEF TokenInv
  <2>3. \A k \in Keys : \E l \in Keys \cup {None} : token'[k] = IF l = None THEN None ELSE token[l]
    BY <1>7, <1>13, <1>14
  <2>4. ASSUME NEW c \in Calls, F(c)'.op = "connect"
        PROVE  /\ \A k \in Keys : token'[k] # F(c)'.node
               /\ F(c)'.key # None => token'[F(c)'.key] = None
               /\ F(c)'.node \notin past.joined \cup past.leaving
    <3>1. CASE c = h
      <4>1. token'[x] = None
        BY <1>4, <1>7, <1>10, <1>14
      <4> QED
        BY <1>5, <1>9, <1>10, <1>13, <2>3, <3>1, <4>1
    <3>2. CASE c # h
      <4>1. /\ F(c)' = F(c) /\ F(c).op = "connect" /\ F(c).node \in Nodes
            /\ F(c).key \in Keys \cup {None} /\ F(c).key # n
        BY <1>0, <1>9, <1>10, <2>4, <3>2, CallFacts
      <4>2. /\ \A k \in Keys : token[k] # F(c).node
            /\ F(c).key # None => token[F(c).key] = None
            /\ F(c).node \notin past.joined \cup past.leaving
        BY <1>0, <4>1 DEF TokenInv
      <4>3. \A k \in Keys : token'[k] # F(c).node
        <5>1. F(c).node # None
          BY <1>13, <4>1 DEF Keys
        <5> QED
          BY <2>3, <4>2, <5>1
      <4>4. F(c).key # None => token'[F(c).key] = None
        BY <1>14, <4>1, <4>2
      <4> QED
        BY <4>1, <4>2, <4>3, <4>4
    <3> QED
      BY <3>1, <3>2
  <2>5. \A c \in Calls : F(c)'.op \in {"disconnect", "connected"} => token'[F(c)'.key] = F(c)'.node
    <3> SUFFICES ASSUME NEW c \in Calls, F(c)'.op \in {"disconnect", "connected"}
                 PROVE  token'[F(c)'.key] = F(c)'.node
      OBVIOUS
    <3>1. F(c)' = F(c) /\ F(c).key \in Keys /\ token[F(c).key] = F(c).node /\ F(c).key # n
      <4>1. F(c)' = F(c)
        BY <1>5, <1>9
      <4>2. F(c).key # None
        BY <1>0, <4>1 DEF ShapeInv, Shape
      <4> QED
        BY <1>0, <1>10, <4>1, <4>2, CallFacts DEF TokenInv
    <3>2. captured # None => F(c).key # captured
      BY <1>7 DEF Idle
    <3> QED
      BY <1>13, <1>14, <3>1, <3>2
  <2> QED
    BY <1>0, <1>5, <1>6, <1>9, <2>1, <2>2, <2>4, <2>5 DEF TokenInv
<1>19. \A y \in Nodes : y # n => past'.before[y] = past.before[y]
  BY <1>0, <1>6 DEF Past
<1>20. past'.before[n] = past.joined
  BY <1>0, <1>6 DEF Past
<1>21. ASSUME NEW s \in Seq(Nodes), n \notin ToSet(s), Ordered(s) PROVE Ordered(s)'
  <2>1. \A j \in 1 .. Len(s) : s[j] \in Nodes /\ s[j] # n
    BY <1>21, Elements
  <2> QED
    BY <1>19, <1>21, <2>1 DEF Ordered
<1>22. ListInv'
  <2>1. Ordered(list)'
    <3>1. PICK s \in Seq(Nodes) : s = list
      BY <1>0
    <3>2. Ordered(s)'
      BY <1>0, <1>10, <1>21, <3>1 DEF ListInv
    <3> QED
      BY <1>6, <3>1, <3>2 DEF Ordered
  <2>2. \A y \in Nodes : past'.before[y] \subseteq past.joined
    BY <1>0, <1>19, <1>20 DEF ListInv
  <2> QED
    BY <1>0, <1>5, <1>6, <1>9, <1>10, <2>1, <2>2 DEF ListInv
<1>23. CtrlInv'
  BY <1>0, <1>5, <1>6, <1>9, <1>12 DEF CtrlInv
<1>24. JoinInv'
  BY <1>0, <1>5, <1>6, <1>9, <1>12 DEF JoinInv
<1>25. OwnerInv'
  <2>1. \A y \in Nodes, k \in Keys : token[k] = y => \E l \in Keys : token'[l] = y
    BY <1>7, <1>10, <1>13, <1>14
  <2>2. \A c \in Calls : F(c).op = "connect" => F(c)' = F(c)
    BY <1>9
  <2>3. ToSet(list) \subseteq Nodes
    BY <1>0 DEF MadeInv, Made
  <2>4. ASSUME NEW y \in ToSet(list)
        PROVE  \/ \E k \in Keys : token'[k] = y
               \/ \E c \in Calls : F(c)'.op = "connect" /\ F(c)'.node = y /\ F(c)'.key # None
               \/ "token_alloc" \in Faults /\ y \notin past.joined
    <3>1. CASE \E k \in Keys : token[k] = y
      BY <2>1, <2>3, <2>4, <3>1
    <3>2. ASSUME NEW c \in Calls, F(c).op = "connect", F(c).node = y, F(c).key # None
          PROVE  F(c)'.op = "connect" /\ F(c)'.node = y /\ F(c)'.key # None
      BY <2>2, <3>2
    <3> QED
      BY <1>0, <2>4, <3>1, <3>2 DEF OwnerInv
  <2> QED
    BY <1>6, <2>4 DEF OwnerInv
<1>26. CaptureInv'
  <2>1. \A c \in Calls : F(c).op = "disconnect" => F(c)' = F(c)
    BY <1>9
  <2>2. \A y \in Nodes : y # n => token'[y] = token[y]
    BY <1>7, <1>13, <1>14 DEF Keys
  <2> QED
    BY <1>0, <1>11, <1>12, <2>1, <2>2 DEF CaptureInv
<1>27. Delivery'
  <2>1. \A c \in Calls : F(c)'.pc \in Serving => F(c)' = F(c)
    BY <1>5, <1>9 DEF Serving
  <2>2. ASSUME NEW c \in Calls, F(c).pc \in Serving PROVE Ordered(F(c).refs)'
    <3>1. PICK s \in Seq(Nodes) : s = F(c).refs
      BY <1>0, CallFacts
    <3>2. Ordered(s) /\ n \notin ToSet(s)
      BY <1>0, <1>10, <2>2, <3>1 DEF Delivery, Serving, Ordered
    <3>3. Ordered(s)'
      BY <1>21, <3>2
    <3> QED
      BY <2>2, <3>1, <3>3, <1>9, <1>5 DEF Ordered, Serving, NoFrame
  <2> QED
    BY <1>0, <1>6, <2>1, <2>2 DEF Delivery, Serving, Ordered
<1> QED
  BY <1>15, <1>16, <1>17, <1>18, <1>22, <1>23, <1>24, <1>25, <1>26, <1>27 DEF PubInv

\* What a subscription holds goes to another that holds nothing.
LEMMA MoveStep ==
  ASSUME PubInv, Typed', NEW t \in Threads, NEW from \in Slots, NEW to \in Slots, Move(t, from, to)
  PROVE  PubInv'
<1>0. /\ Typed /\ ShapeInv /\ MadeInv /\ KeyInv /\ TokenInv /\ ListInv /\ CtrlInv /\ JoinInv
      /\ OwnerInv /\ CaptureInv /\ Delivery /\ token \in [Keys -> Nodes \cup {None}]
  BY DEF PubInv, Typed, TypeOK
<1>1. /\ from # to /\ Idle(from) /\ Idle(to) /\ token[from] # None /\ token[to] = None
      /\ token' = Moved(from, to)
      /\ pubAlive' = pubAlive /\ list' = list /\ frame' = frame /\ depth' = depth /\ past' = past
      /\ count'.nodes = count.nodes
  BY <1>0 DEF Move, Called, Typed, TypeOK
<1>2. None \notin Keys /\ Slots \cap Nodes = {} /\ from \in Keys /\ to \in Keys
  BY NamesAssumption DEF Keys
<1>3. /\ token'[to] = token[from] /\ token'[from] = None
      /\ \A k \in Keys : k # from /\ k # to => token'[k] = token[k]
      /\ \A k \in Nodes : token'[k] = token[k]
  BY <1>0, <1>1, <1>2 DEF Moved, Keys
<1>4. \A c \in Calls : F(c)' = F(c)
  BY <1>1 DEF F
<1>5. (\A y : Alive(y)' <=> Alive(y)) /\ (CtrlAlive' <=> CtrlAlive)
  BY <1>1, <1>4 DEF Alive, CtrlAlive
<1>6. ShapeInv' /\ MadeInv'
  <2>1. Made' = Made
    BY <1>1 DEF Made
  <2>2. \A k \in Keys : token'[k] # None => token'[k] \in Made /\ (k \in Nodes => k \in Made)
    BY <1>0, <1>2, <1>3 DEF MadeInv
  <2> QED
    BY <1>0, <1>1, <1>4, <2>1, <2>2 DEF ShapeInv, MadeInv
<1>7. KeyInv'
  BY <1>0, <1>4, <1>5, KeysKept
<1>8. TokenInv'
  <2>1. \A k, l \in Keys : token'[k] = token'[l] /\ k # l => token'[k] = None
    BY <1>0, <1>1, <1>2, <1>3 DEF TokenInv
  <2>2. \A c \in Calls : F(c).op = "connect" =>
          /\ \A k \in Keys : token'[k] # F(c).node
          /\ F(c).key # None => token'[F(c).key] = None
    <3> SUFFICES ASSUME NEW c \in Calls, F(c).op = "connect"
                 PROVE  /\ \A k \in Keys : token'[k] # F(c).node
                        /\ F(c).key # None => token'[F(c).key] = None
      OBVIOUS
    <3>1. /\ F(c).node \in Nodes /\ F(c).key \in Keys \cup {None}
          /\ F(c).key # from /\ F(c).key # to
      BY <1>0, <1>1, CallFacts DEF Idle
    <3>2. /\ \A k \in Keys : token[k] # F(c).node
          /\ F(c).key # None => token[F(c).key] = None
      BY <1>0 DEF TokenInv
    <3> QED
      BY <1>2, <1>3, <3>1, <3>2 DEF Keys
  <2>3. ASSUME NEW c \in Calls, F(c).op \in {"disconnect", "connected"}
        PROVE  token'[F(c).key] = F(c).node
    <3>1. F(c).key \in Keys /\ F(c).key # from /\ F(c).key # to
      BY <1>0, <1>1, <2>3, CallFacts DEF Idle, ShapeInv, Shape
    <3> QED
      BY <1>0, <1>3, <2>3, <3>1 DEF TokenInv
  <2> QED
    BY <1>0, <1>1, <1>4, <2>1, <2>2, <2>3 DEF TokenInv
<1>9. ListInv' /\ CtrlInv' /\ JoinInv'
  <2>1. Ordered(list)' <=> Ordered(list)
    BY <1>1 DEF Ordered
  <2>2. ListInv'
    BY <1>0, <1>1, <1>4, <2>1 DEF ListInv
  <2>3. CtrlInv'
    BY <1>0, <1>1, <1>4, <1>5 DEF CtrlInv
  <2>4. JoinInv'
    BY <1>0, <1>1, <1>4, <1>5 DEF JoinInv
  <2> QED
    BY <2>2, <2>3, <2>4
<1>10. OwnerInv'
  <2>1. \A y \in Nodes, k \in Keys : token[k] = y => \E l \in Keys : token'[l] = y
    BY <1>1, <1>2, <1>3, NamesAssumption DEF Keys
  <2>2. ToSet(list) \subseteq Nodes
    BY <1>0 DEF MadeInv, Made
  <2> QED
    BY <1>0, <1>1, <1>4, <2>1, <2>2 DEF OwnerInv
<1>11. CaptureInv' /\ Delivery'
  <2>1. CaptureInv'
    BY <1>0, <1>3, <1>4, <1>5 DEF CaptureInv
  <2>2. Delivery'
    BY <1>0, <1>1, <1>4 DEF Delivery
  <2> QED
    BY <2>1, <2>2
<1> QED
  BY <1>6, <1>7, <1>8, <1>9, <1>10, <1>11 DEF PubInv

\* Erasing a subscriber leaves the others in their order.
LEMMA ErasingOrder ==
  ASSUME NEW S, NEW s \in Seq(S), NEW e, Ordered(s)
  PROVE  Ordered(RemoveFirst(s, e))
<1>0. Len(s) \in Nat
  BY LenProperties
<1> DEFINE r == RemoveFirst(s, e)
<1>1. ASSUME NEW p \in 1 .. Len(s), Len(r) = Len(s) - 1,
             \A i \in 1 .. Len(s) - 1 : r[i] = IF i < p THEN s[i] ELSE s[i + 1]
      PROVE  Ordered(r)
  <2> HIDE DEF r
  <2>1. \A i \in 1 .. Len(s) - 1 :
          \E q \in 1 .. Len(s) : r[i] = s[q] /\ q = IF i < p THEN i ELSE i + 1
    BY <1>0, <1>1
  <2> SUFFICES ASSUME NEW j \in 1 .. Len(s) - 1, NEW k \in 1 .. Len(s) - 1, j < k
               PROVE  r[j] # r[k] /\ r[k] \notin past.before[r[j]]
    BY <1>1 DEF Ordered
  <2>2. PICK v \in 1 .. Len(s) : r[j] = s[v] /\ v = IF j < p THEN j ELSE j + 1
    BY <2>1
  <2>3. PICK w \in 1 .. Len(s) : r[k] = s[w] /\ w = IF k < p THEN k ELSE k + 1
    BY <2>1
  <2>4. v < w
    BY <1>0, <2>2, <2>3
  <2> QED
    BY <2>2, <2>3, <2>4 DEF Ordered
<1> QED
  BY <1>1, Erasing

\* disconnect() takes its subscriber out of the list.
LEMMA EraseStep ==
  ASSUME PubInv, Typed', NEW t \in Threads, Erase(t)
  PROVE  PubInv'
<1> DEFINE f == [Top(t) EXCEPT !.pc = "erased"]
<1>0. /\ Typed /\ ShapeInv /\ MadeInv /\ KeyInv /\ TokenInv /\ ListInv /\ CtrlInv /\ JoinInv
      /\ OwnerInv /\ CaptureInv /\ Delivery /\ depth[t] > 0 /\ list \in Seq(Nodes)
  BY DEF PubInv, Erase, At, Typed, TypeOK
<1>1. PICK h \in Calls : IsTop(h) /\ F(h) = Top(t) /\ Only(h, f) /\ depth' = depth
  BY <1>0, ContinueF DEF Erase, Goto
<1>2. /\ F(h).pc = "erase" /\ F(h).op = "disconnect" /\ Shape(F(h)) /\ F(h) \in Frames
      /\ F(h).node \in Nodes
  BY <1>0, <1>1, TopFacts, CallFacts DEF Erase, At
<1>3. PICK n \in Nodes : n = F(h).node
  BY <1>2
<1>4. /\ f.pc = "erased" /\ f.key = F(h).key /\ f.op = F(h).op /\ f.from = F(h).from
      /\ f.node = n /\ f.refs = F(h).refs /\ f.ctrl = F(h).ctrl
      /\ f.refs = <<n>> /\ f.ctrl
  BY <1>1, <1>2, <1>3 DEF Frames, Shape
<1>5. F(h)' = f /\ \A c \in Calls : c # h => F(c)' = F(c)
  BY <1>1 DEF Only
<1> HIDE DEF f
<1>6. /\ token' = token /\ past' = past /\ pubAlive' = pubAlive /\ count' = count
      /\ list' = RemoveFirst(list, n)
  BY <1>1, <1>3 DEF Erase, Without
<1>7. ToSet(list)' = ToSet(list) \ {n} /\ Ordered(list)'
  <2>1. PICK s \in Seq(Nodes) : s = list
    BY <1>0
  <2>2. Ordered(s) /\ \A j, k \in 1 .. Len(s) : j < k => s[j] # s[k]
    BY <1>0, <2>1 DEF ListInv, Ordered
  <2>3. ToSet(RemoveFirst(s, n)) = ToSet(s) \ {n}
    BY <2>2, ErasingElements
  <2>4. Ordered(RemoveFirst(s, n))
    BY <2>2, ErasingOrder
  <2>5. Ordered(list)'
    BY <1>6, <2>1, <2>4 DEF Ordered
  <2> QED
    BY <1>6, <2>1, <2>3, <2>5
<1>8. n \in past.leaving
  BY <1>0, <1>2, <1>3 DEF TokenInv
<1>9. \A x : Alive(x)' <=> Alive(x)
  <2>1. n \in ToSet(F(h).refs)
    BY <1>4, OneElement
  <2>2. \A c \in Calls : F(c)'.refs = F(c).refs
    BY <1>4, <1>5
  <2> QED
    BY <1>7, <2>1, <2>2 DEF Alive
<1>10. ShapeInv' /\ MadeInv'
  <2>1. Shape(f)
    BY <1>2, <1>3, <1>4 DEF Shape
  <2>2. ~ h[2] > depth[h[1]]
    BY <1>0, <1>1, CallFacts DEF IsTop
  <2>3. ShapeInv'
    BY <1>0, <1>1, <1>5, <2>1, <2>2 DEF ShapeInv
  <2>4. Made' = Made
    BY <1>6 DEF Made
  <2>5. MadeInv'
    BY ZenonT(40), <1>0, <1>3, <1>4, <1>5, <1>6, <1>7, <2>4 DEF MadeInv
  <2> QED
    BY <2>3, <2>5
<1>11. KeyInv'
  BY <1>0, <1>1, <1>4, <1>5, <1>9, KeysKept, BelowTop
<1>12. TokenInv'
  BY <1>0, <1>3, <1>4, <1>5, <1>6 DEF TokenInv
<1>13. ListInv'
  BY <1>0, <1>2, <1>4, <1>5, <1>6, <1>7 DEF ListInv
<1>14. CtrlInv' /\ CtrlAlive' /\ CtrlAlive
  <2>1. CtrlAlive' /\ CtrlAlive
    BY <1>4, <1>5 DEF CtrlAlive
  <2> QED
    BY <1>0, <1>2, <1>4, <1>5, <1>6, <2>1 DEF CtrlInv
<1>15. JoinInv'
  <2>1. past.joined \ past.leaving \subseteq ToSet(list) \ {n}
    BY <1>0, <1>8, <1>14 DEF JoinInv
  <2>2. \A c \in Calls : F(c).op = "connect" => F(c).node # n
    BY <1>0, <1>8 DEF TokenInv
  <2> QED
    BY <1>0, <1>2, <1>3, <1>4, <1>5, <1>6, <1>7, <1>14, <2>1, <2>2 DEF JoinInv
<1>16. OwnerInv'
  <2>1. \A c \in Calls : F(c)'.op = F(c).op /\ F(c)'.node = F(c).node /\ F(c)'.key = F(c).key
    BY <1>3, <1>4, <1>5
  <2> QED
    BY <1>0, <1>6, <1>7, <2>1 DEF OwnerInv
<1>17. CaptureInv' /\ Delivery'
  <2>1. CaptureInv'
    BY <1>0, <1>4, <1>5, <1>6, <1>9 DEF CaptureInv
  <2> QED
    BY <1>0, <1>4, <1>5, <1>6, <2>1 DEF Delivery
<1> QED
  BY <1>10, <1>11, <1>12, <1>13, <1>14, <1>15, <1>16, <1>17 DEF PubInv

-----------------------------------------------------------------------------
(* Calls return.                                                           *)

\* The innermost call h returns.
Closes(h) ==
  /\ IsTop(h) /\ Only(h, NoFrame) /\ depth' = [depth EXCEPT ![h[1]] = @ - 1]
  /\ F(h).pc = "release" /\ F(h).refs = <<>> /\ ~ F(h).ctrl
  /\ UNCHANGED <<pubAlive, list, count>>
  /\ past'.leaving = past.leaving /\ past'.before = past.before

\* A call that returns holds nothing any more.
LEMMA ClosesStep ==
  ASSUME PubInv, Typed', NEW h, Closes(h)
  PROVE  /\ h \in Calls /\ F(h)' = NoFrame /\ \A c \in Calls : c # h => F(c)' = F(c)
         /\ \A n : Alive(n)' <=> Alive(n)
         /\ CtrlAlive' <=> CtrlAlive
         /\ ShapeInv' /\ KeyInv' /\ CtrlInv' /\ Delivery'
<1>0. Typed /\ ShapeInv /\ KeyInv /\ CtrlInv /\ Delivery
  BY DEF PubInv
<1>1. h \in Calls /\ F(h)' = NoFrame /\ \A c \in Calls : c # h => F(c)' = F(c)
  BY DEF Closes, Only
<1>2. /\ NoFrame.refs = <<>> /\ ~ NoFrame.ctrl /\ NoFrame.pc = "none" /\ NoFrame.op = "none"
      /\ NoFrame.key = None /\ NoFrame.from = None
  BY DEF NoFrame
<1>3. \A n : Alive(n)' <=> Alive(n)
  <2>1. \A c \in Calls : F(c)'.refs = F(c).refs
    BY <1>1, <1>2 DEF Closes
  <2> QED
    BY <2>1 DEF Alive, Closes
<1>4. CtrlAlive' <=> CtrlAlive
  <2>1. \A c \in Calls : F(c)'.ctrl <=> F(c).ctrl
    BY <1>1, <1>2 DEF Closes
  <2> QED
    BY <2>1 DEF CtrlAlive, Closes
<1>5. ShapeInv'
  <2>1. Shape(NoFrame)
    BY <1>2 DEF Shape
  <2>2. ASSUME NEW c \in Calls, c[2] > depth'[c[1]] PROVE F(c)' = NoFrame
    <3>1. /\ c[2] \in Nat /\ depth[c[1]] \in Nat /\ c[1] \in Threads
          /\ h[1] \in Threads /\ h[2] = depth[h[1]] /\ h[2] \in Nat
          /\ c = <<c[1], c[2]>> /\ h = <<h[1], h[2]>>
      BY <1>0, <1>1, CallFacts, MaxDepthNat DEF Closes, IsTop
    <3>2. depth'[c[1]] = IF c[1] = h[1] THEN depth[h[1]] - 1 ELSE depth[c[1]]
      BY <1>0, <3>1 DEF Typed, TypeOK, Closes
    <3>3. c = h \/ c[2] > depth[c[1]]
      BY <2>2, <3>1, <3>2
    <3> QED
      BY <1>0, <1>1, <3>3 DEF ShapeInv
  <2> QED
    BY <1>0, <1>1, <2>1, <2>2 DEF ShapeInv
<1>6. KeyInv'
  <2>1. Only(h, NoFrame) /\ IsTop(h)
    BY DEF Closes
  <2>2. \A d \in Calls : d[2] < depth[d[1]] => F(d)' = F(d)
    BY <1>0, <2>1, BelowTop
  <2>3. \A c \in Calls : \/ F(c)'.op = F(c).op /\ F(c)'.from = F(c).from /\ F(c)'.key = F(c).key
                         \/ F(c)'.key = None /\ (F(c)'.from = F(c).from \/ F(c)'.from = None)
    BY <1>1, <1>2
  <2> QED
    BY <1>0, <1>3, <2>2, <2>3, KeysKept
<1>7. CtrlInv'
  BY <1>0, <1>1, <1>2, <1>4 DEF CtrlInv, Closes
<1>8. Delivery'
  BY <1>0, <1>1, <1>2 DEF Delivery, Closes
<1> QED
  BY <1>1, <1>3, <1>4, <1>5, <1>6, <1>7, <1>8

\* The innermost call of t has finished.
LEMMA FinishedCall ==
  ASSUME PubInv, NEW t \in Threads, NEW op, Finished(t, op), Leave(t),
         UNCHANGED <<pubAlive, list, count>>,
         past'.leaving = past.leaving, past'.before = past.before
  PROVE  \E h \in Calls : Closes(h) /\ F(h) = Top(t) /\ F(h).op = op
<1>0. Typed /\ depth[t] > 0 /\ Top(t).pc = "release" /\ Top(t).refs = <<>> /\ ~ Top(t).ctrl
      /\ Top(t).op = op
  BY DEF PubInv, Finished, At
<1>1. PICK h \in Calls : /\ h = <<t, depth[t]>> /\ IsTop(h) /\ F(h) = Top(t)
                         /\ Only(h, NoFrame) /\ depth' = [depth EXCEPT ![t] = @ - 1]
  BY <1>0, LeaveF
<1>2. h[1] = t
  BY <1>1
<1> QED
  BY <1>0, <1>1, <1>2 DEF Closes

\* Calls that leave no trace return.
LEMMA ReturnStep ==
  ASSUME PubInv, Typed', NEW t \in Threads, Return(t)
  PROVE  PubInv'
<1>0. MadeInv /\ TokenInv /\ ListInv /\ JoinInv /\ OwnerInv /\ CaptureInv
  BY DEF PubInv
<1>1. PICK op \in {"connected", "count", "publish", "destroy"} : Finished(t, op)
  BY DEF Return
<1>2. PICK h \in Calls : Closes(h) /\ F(h).op = op
  BY <1>1, FinishedCall DEF Return
<1>3. /\ F(h)' = NoFrame /\ \A c \in Calls : c # h => F(c)' = F(c)
      /\ \A n : Alive(n)' <=> Alive(n)
      /\ CtrlAlive' <=> CtrlAlive
      /\ ShapeInv' /\ KeyInv' /\ CtrlInv' /\ Delivery'
  BY <1>2, ClosesStep
<1>4. list' = list /\ token' = token /\ past' = past /\ count' = count
  BY DEF Return
<1>5. /\ ToSet(NoFrame.refs) = {} /\ NoFrame.key = None /\ NoFrame.node = None
      /\ NoFrame.op = "none" /\ NoFrame.pc = "none"
  BY NoElements DEF NoFrame
<1>6. MadeInv' /\ TokenInv' /\ ListInv'
  <2>1. Made' = Made
    BY <1>4 DEF Made
  <2>2. None \notin Nodes
    BY NamesAssumption DEF Keys
  <2>3. Ordered(list)' <=> Ordered(list)
    BY <1>4 DEF Ordered
  <2> QED
    BY <1>0, <1>3, <1>4, <1>5, <2>1, <2>2, <2>3 DEF MadeInv, TokenInv, ListInv
<1>7. JoinInv' /\ OwnerInv' /\ CaptureInv'
  <2>1. \A c \in Calls : F(c).op \in {"connect", "disconnect"} => F(c)' = F(c)
    BY <1>1, <1>2, <1>3
  <2>2. OwnerInv'
    BY <1>0, <1>4, <2>1 DEF OwnerInv
  <2>3. CaptureInv'
    BY <1>0, <1>3, <1>4, <2>1 DEF CaptureInv
  <2>4. JoinInv'
    BY <1>0, <1>3, <1>4, <1>5 DEF JoinInv
  <2> QED
    BY <2>2, <2>3, <2>4
<1> QED
  BY <1>3, <1>6, <1>7 DEF PubInv

\* connect() returns: the program has the subscription, or an exception.
LEMMA ReturnConnectStep ==
  ASSUME PubInv, Typed', NEW t \in Threads, ReturnConnect(t)
  PROVE  PubInv'
<1>0. /\ Typed /\ ShapeInv /\ MadeInv /\ KeyInv /\ TokenInv /\ ListInv /\ JoinInv /\ OwnerInv
      /\ CaptureInv /\ past \in Past /\ token \in [Keys -> Nodes \cup {None}]
  BY DEF PubInv, Typed, TypeOK
<1>1. past'.leaving = past.leaving /\ past'.before = past.before /\ past'.left = past.left
  BY <1>0 DEF ReturnConnect, Past
<1>2. PICK h \in Calls : Closes(h) /\ F(h) = Top(t) /\ F(h).op = "connect"
  BY <1>1, FinishedCall DEF ReturnConnect
<1>3. /\ F(h)' = NoFrame /\ \A c \in Calls : c # h => F(c)' = F(c)
      /\ \A n : Alive(n)' <=> Alive(n)
      /\ CtrlAlive' <=> CtrlAlive
      /\ ShapeInv' /\ KeyInv' /\ CtrlInv' /\ Delivery'
  BY <1>2, ClosesStep
<1>4. list' = list /\ count' = count /\ pubAlive' = pubAlive
  BY DEF ReturnConnect
<1>5. /\ ToSet(NoFrame.refs) = {} /\ NoFrame.key = None /\ NoFrame.node = None
      /\ NoFrame.op = "none" /\ NoFrame.pc = "none"
  BY NoElements DEF NoFrame
<1>6. /\ None \notin Keys /\ Slots \cap Nodes = {} /\ Slots \subseteq Keys /\ Nodes \subseteq Keys
  BY NamesAssumption DEF Keys
<1>7. PICK n \in Nodes : n = F(h).node
  BY <1>0, <1>2, CallFacts
<1>8. PICK x : x = F(h).key
  OBVIOUS
<1>9. /\ x \in Slots \cup {n, None} /\ F(h).pc = "release"
      /\ n \in Made /\ (x \in Nodes => x \in Made)
      /\ (\A k \in Keys : token[k] # n) /\ (x # None => token[x] = None)
      /\ n \notin past.joined \cup past.leaving
      /\ \A c \in Calls : c # h /\ F(c).op = "connect" => F(c).node # n
  BY <1>0, <1>2, <1>6, <1>7, <1>8 DEF ShapeInv, Shape, MadeInv, TokenInv, Closes
<1>10. \/ token' = token /\ past'.joined = past.joined /\ x = None
       \/ token' = token /\ past'.joined = past.joined \cup {n} /\ x = n /\ ~ Alive(n)
       \/ token' = [token EXCEPT ![x] = n] /\ past'.joined = past.joined \cup {n}
            /\ x # None /\ (x = n => Alive(n))
  BY <1>0, <1>2, <1>7, <1>8 DEF ReturnConnect, Past
<1>11. /\ \A k \in Keys : token'[k] = token[k] \/ (k = x /\ token'[k] = n /\ (x = n => Alive(n)))
       /\ x # None => (x = n /\ ~ Alive(n)) \/ token'[x] = n
       /\ past'.joined \subseteq past.joined \cup {n} /\ past.joined \subseteq past'.joined
       /\ x = None => past'.joined = past.joined
  BY <1>0, <1>6, <1>9, <1>10
<1>12. x # None => \A c \in Calls : c # h => F(c).key # x
  BY <1>0, <1>2, <1>8 DEF KeyInv, NotReentered
<1>13. Made' = Made
  BY <1>4 DEF Made
<1>14. MadeInv'
  <2>1. \A k \in Keys : token'[k] # None => token'[k] \in Made /\ (k \in Nodes => k \in Made)
    BY <1>0, <1>9, <1>11 DEF MadeInv
  <2>2. \A c \in Calls : F(c)' = F(c) \/ F(c)' = NoFrame
    BY <1>3
  <2>3. None \notin Nodes
    BY <1>6
  <2> QED
    BY <1>0, <1>1, <1>4, <1>5, <1>9, <1>11, <1>13, <2>1, <2>2, <2>3 DEF MadeInv
<1>15. TokenInv'
  <2>1. \A k, l \in Keys : token'[k] = token'[l] /\ k # l => token'[k] = None
    BY <1>0, <1>9, <1>11 DEF TokenInv
  <2>2. ASSUME NEW c \in Calls, F(c)'.op = "connect"
        PROVE  /\ \A k \in Keys : token'[k] # F(c)'.node
               /\ F(c)'.key # None => token'[F(c)'.key] = None
               /\ F(c)'.node \notin past'.joined \cup past.leaving
    <3>1. c # h /\ F(c)' = F(c) /\ F(c).op = "connect"
      BY <1>3, <1>5, <2>2
    <3>2. /\ \A k \in Keys : token[k] # F(c).node
          /\ F(c).key # None => token[F(c).key] = None
          /\ F(c).node \notin past.joined \cup past.leaving
          /\ F(c).node # n /\ F(c).key \in Keys \cup {None}
      BY <1>0, <1>9, <3>1, CallFacts DEF TokenInv
    <3>3. F(c).key # None => F(c).key # x
      BY <1>12, <3>1
    <3> QED
      BY <1>11, <3>1, <3>2, <3>3
  <2>3. ASSUME NEW c \in Calls, F(c)'.op \in {"disconnect", "connected"}
        PROVE  token'[F(c)'.key] = F(c)'.node
    <3>1. c # h /\ F(c)' = F(c) /\ F(c).op \in {"disconnect", "connected"}
      BY <1>3, <1>5, <2>3
    <3>2. F(c).key \in Keys /\ F(c).key # x
      BY <1>0, <1>12, <3>1, CallFacts DEF ShapeInv, Shape
    <3> QED
      BY <1>0, <1>11, <3>1, <3>2 DEF TokenInv
  <2> QED
    BY <1>0, <1>1, <1>3, <1>5, <2>1, <2>2, <2>3 DEF TokenInv
<1>16. ListInv'
  <2>1. Ordered(list)' <=> Ordered(list)
    BY <1>1, <1>4 DEF Ordered
  <2> QED
    BY <1>0, <1>1, <1>3, <1>4, <1>5, <1>11, <2>1 DEF ListInv
<1>17. JoinInv'
  <2>1. CtrlAlive /\ x # None => n \in ToSet(list)
    BY <1>0, <1>2, <1>7, <1>8, <1>9 DEF JoinInv
  <2>2. CtrlAlive => past'.joined \ past.leaving \subseteq ToSet(list)
    BY <1>0, <1>11, <2>1 DEF JoinInv
  <2> QED
    BY <1>0, <1>1, <1>3, <1>4, <1>5, <1>11, <2>2 DEF JoinInv
<1>18. OwnerInv'
  <2>1. ASSUME NEW y \in ToSet(list)
        PROVE  \/ \E k \in Keys : token'[k] = y
               \/ \E c \in Calls : F(c)'.op = "connect" /\ F(c)'.node = y /\ F(c)'.key # None
               \/ "token_alloc" \in Faults /\ y \notin past'.joined
    <3>1. CASE \E k \in Keys : token[k] = y
      <4>1. PICK k \in Keys : token[k] = y
        BY <3>1
      <4>2. y # None
        BY <1>0, <1>6, <2>1 DEF MadeInv, Made
      <4>3. token'[k] = y
        BY <1>6, <1>9, <1>11, <4>1, <4>2
      <4> QED
        BY <4>3
    <3>2. CASE y = n /\ x # None
      <4>1. Alive(n)
        BY <2>1, <3>2 DEF Alive
      <4> QED
        BY <1>6, <1>9, <1>11, <3>2, <4>1
    <3>3. ASSUME NEW c \in Calls, F(c).op = "connect", F(c).node = y, F(c).key # None,
                 c # h
          PROVE  F(c)'.op = "connect" /\ F(c)'.node = y /\ F(c)'.key # None
      BY <1>3, <3>3
    <3>4. CASE "token_alloc" \in Faults /\ y \notin past.joined /\ ~ (y = n /\ x # None)
      BY <1>11, <3>4
    <3> QED
      BY <1>0, <1>7, <1>8, <2>1, <3>1, <3>2, <3>3, <3>4 DEF OwnerInv
  <2> QED
    BY <1>4, <2>1 DEF OwnerInv
<1>19. CaptureInv'
  <2>1. \A c \in Calls : F(c).op = "disconnect" => F(c)' = F(c)
    BY <1>2, <1>3
  <2>2. \A y \in Nodes : token'[y] # token[y] => Alive(y)
    BY <1>6, <1>9, <1>11
  <2> QED
    BY <1>0, <1>3, <2>1, <2>2 DEF CaptureInv
<1> QED
  BY <1>3, <1>14, <1>15, <1>16, <1>17, <1>18, <1>19 DEF PubInv

\* disconnect() returns: the subscription is empty, or takes over another.
LEMMA ReturnDisconnectStep ==
  ASSUME PubInv, Typed', NEW t \in Threads, ReturnDisconnect(t)
  PROVE  PubInv'
<1>0. /\ Typed /\ ShapeInv /\ MadeInv /\ KeyInv /\ TokenInv /\ ListInv /\ JoinInv /\ OwnerInv
      /\ CaptureInv /\ past \in Past /\ token \in [Keys -> Nodes \cup {None}]
  BY DEF PubInv, Typed, TypeOK
<1>1. past'.leaving = past.leaving /\ past'.before = past.before /\ past'.joined = past.joined
  BY <1>0 DEF ReturnDisconnect, Past
<1>2. PICK h \in Calls : Closes(h) /\ F(h) = Top(t) /\ F(h).op = "disconnect"
  BY <1>1, FinishedCall DEF ReturnDisconnect
<1>3. /\ F(h)' = NoFrame /\ \A c \in Calls : c # h => F(c)' = F(c)
      /\ \A n : Alive(n)' <=> Alive(n)
      /\ CtrlAlive' <=> CtrlAlive
      /\ ShapeInv' /\ KeyInv' /\ CtrlInv' /\ Delivery'
  BY <1>2, ClosesStep
<1>4. list' = list /\ count' = count /\ pubAlive' = pubAlive
  BY DEF ReturnDisconnect
<1>5. /\ ToSet(NoFrame.refs) = {} /\ NoFrame.key = None /\ NoFrame.node = None
      /\ NoFrame.op = "none" /\ NoFrame.pc = "none"
  BY NoElements DEF NoFrame
<1>6. /\ None \notin Keys /\ Slots \cap Nodes = {} /\ Slots \subseteq Keys /\ Nodes \subseteq Keys
  BY NamesAssumption DEF Keys
<1>7. PICK n \in Nodes : n = F(h).node
  BY <1>0, <1>2, CallFacts
<1>8. PICK x, y : x = F(h).key /\ y = F(h).from
  OBVIOUS
<1>9. /\ x \in Keys /\ (y # None => y \in Slots /\ x \in Slots) /\ F(h).pc = "release"
      /\ n \in past.leaving /\ n \notin ToSet(list) /\ token[x] = n
  <2>1. Shape(F(h)) /\ F(h).pc = "release"
    BY <1>0, <1>2 DEF ShapeInv, Closes
  <2>2. x \in Keys
    BY <1>0, <1>2, <1>8, <2>1, CallFacts DEF Shape
  <2>3. y # None => y \in Slots /\ x \in Slots
    BY <1>8, <2>1 DEF Shape
  <2>4. n \in past.leaving /\ token[x] = n
    BY <1>0, <1>2, <1>7, <1>8 DEF TokenInv
  <2>5. n \notin ToSet(list)
    BY <1>0, <1>2, <1>7, <2>1 DEF ListInv
  <2> QED
    BY <2>1, <2>2, <2>3, <2>4, <2>5
<1>10. /\ \A k \in Keys : k # x /\ k # y => token'[k] = token[k]
       /\ y = None => token'[x] = None
       /\ y # None => token'[y] = None /\ (x # y => token'[x] = token[y])
  <2>1. token' = IF y = None THEN [token EXCEPT ![x] = None] ELSE Moved(y, x)
    BY <1>2, <1>8 DEF ReturnDisconnect
  <2> QED
    BY <1>0, <1>6, <1>9, <2>1 DEF Moved
<1>11. past'.left = past.left \cup {n}
  BY <1>0, <1>2, <1>7 DEF ReturnDisconnect, Past
<1>12. \A c \in Calls : c # h /\ F(c).key # None => F(c).key # x /\ F(c).key # y
  BY <1>0, <1>2, <1>8 DEF KeyInv, NotReentered
<1>13. Made' = Made
  BY <1>4 DEF Made
<1>14. MadeInv'
  <2>1. \A k \in Keys : token'[k] # None => token'[k] \in Made /\ (k \in Nodes => k \in Made)
    BY <1>0, <1>6, <1>9, <1>10 DEF MadeInv
  <2>2. \A c \in Calls : F(c)' = F(c) \/ F(c)' = NoFrame
    BY <1>3
  <2>3. None \notin Nodes
    BY <1>6
  <2> QED
    BY <1>0, <1>1, <1>4, <1>5, <1>13, <2>1, <2>2, <2>3 DEF MadeInv
<1>15. TokenInv'
  <2>1. \A k, l \in Keys : token'[k] = token'[l] /\ k # l => token'[k] = None
    BY <1>0, <1>6, <1>9, <1>10 DEF TokenInv
  <2>2. ASSUME NEW c \in Calls, F(c)'.op = "connect"
        PROVE  /\ \A k \in Keys : token'[k] # F(c)'.node
               /\ F(c)'.key # None => token'[F(c)'.key] = None
               /\ F(c)'.node \notin past.joined \cup past.leaving
    <3>1. c # h /\ F(c)' = F(c) /\ F(c).op = "connect"
      BY <1>3, <1>5, <2>2
    <3>2. /\ \A k \in Keys : token[k] # F(c).node
          /\ F(c).key # None => token[F(c).key] = None
          /\ F(c).node \notin past.joined \cup past.leaving
          /\ F(c).node \in Nodes /\ F(c).key \in Keys \cup {None}
      BY <1>0, <3>1, CallFacts DEF TokenInv
    <3>3. F(c).key # None => F(c).key # x /\ F(c).key # y
      BY <1>12, <3>1
    <3>4. F(c).node # None
      BY <1>6, <3>2
    <3>5. y # None => y \in Keys
      BY <1>6, <1>9
    <3>6. ASSUME NEW k \in Keys PROVE token'[k] # F(c).node
      <4>1. CASE k # x /\ k # y
        BY <1>10, <3>2, <4>1
      <4>2. CASE y = None /\ k = x
        BY <1>10, <3>4, <4>2
      <4>3. CASE y # None /\ k = y
        BY <1>10, <3>4, <4>3
      <4>4. CASE y # None /\ k = x /\ x # y
        BY <1>10, <3>2, <3>5, <4>4
      <4>5. k = y => y # None
        BY <1>6
      <4> QED
        BY <4>1, <4>2, <4>3, <4>4, <4>5
    <3> QED
      BY <1>10, <3>1, <3>2, <3>3, <3>6
  <2>3. ASSUME NEW c \in Calls, F(c)'.op \in {"disconnect", "connected"}
        PROVE  token'[F(c)'.key] = F(c)'.node
    <3>1. c # h /\ F(c)' = F(c) /\ F(c).op \in {"disconnect", "connected"}
      BY <1>3, <1>5, <2>3
    <3>2. F(c).key # None
      BY <1>0, <3>1 DEF ShapeInv, Shape
    <3>3. F(c).key \in Keys /\ F(c).key # x /\ F(c).key # y
      BY <1>0, <1>12, <3>1, <3>2, CallFacts
    <3> QED
      BY <1>0, <1>10, <3>1, <3>3 DEF TokenInv
  <2> QED
    BY <1>0, <1>1, <1>3, <1>5, <1>9, <1>11, <2>1, <2>2, <2>3 DEF TokenInv
<1>16. ListInv'
  <2>1. Ordered(list)' <=> Ordered(list)
    BY <1>1, <1>4 DEF Ordered
  <2> QED
    BY <1>0, <1>1, <1>3, <1>4, <1>5, <1>9, <1>11, <2>1 DEF ListInv
<1>17. JoinInv'
  BY <1>0, <1>1, <1>3, <1>4, <1>5, <1>11 DEF JoinInv
<1>18. OwnerInv'
  <2>1. ASSUME NEW z \in ToSet(list)
        PROVE  \/ \E k \in Keys : token'[k] = z
               \/ \E c \in Calls : F(c)'.op = "connect" /\ F(c)'.node = z /\ F(c)'.key # None
               \/ "token_alloc" \in Faults /\ z \notin past.joined
    <3>1. ASSUME NEW k \in Keys, token[k] = z PROVE \E l \in Keys : token'[l] = z
      <4>1. z # n
        BY <1>9, <2>1
      <4>2. k # x
        BY <1>9, <3>1, <4>1
      <4> QED
        BY <1>6, <1>9, <1>10, <3>1, <4>2
    <3>2. ASSUME NEW c \in Calls, F(c).op = "connect", F(c).node = z, F(c).key # None
          PROVE  F(c)'.op = "connect" /\ F(c)'.node = z /\ F(c)'.key # None
      BY <1>2, <1>3, <3>2
    <3> QED
      BY <1>0, <2>1, <3>1, <3>2 DEF OwnerInv
  <2> QED
    BY <1>1, <1>4, <2>1 DEF OwnerInv
<1>19. CaptureInv'
  <2>1. \A z \in Nodes : token'[z] # None => token'[z] = token[z] /\ z # x
    BY <1>6, <1>9, <1>10
  <2>2. ASSUME NEW z \in Nodes, z # x, NEW c \in Calls, F(c).op = "disconnect", F(c).key = z
        PROVE  F(c)'.op = "disconnect" /\ F(c)'.key = z
    BY <1>3, <1>8, <2>2
  <2> QED
    BY <1>0, <1>3, <2>1, <2>2 DEF CaptureInv
<1> QED
  BY <1>3, <1>14, <1>15, <1>16, <1>17, <1>18, <1>19 DEF PubInv

-----------------------------------------------------------------------------
(* References are dropped.                                                 *)

\* The control block goes with its last reference, and hands what its list
\* referred to over to the call that drops it.
LEMMA DropCtrlStep ==
  ASSUME PubInv, Typed', NEW t \in Threads, DropCtrl(t)
  PROVE  PubInv'
<1> DEFINE last == ~ pubAlive /\ \A c \in Calls \ {<<t, depth[t]>>} : ~ F(c).ctrl
           f == [Top(t) EXCEPT !.ctrl = FALSE, !.refs = IF last THEN list ELSE <<>>]
<1>0. /\ Typed /\ ShapeInv /\ MadeInv /\ KeyInv /\ TokenInv /\ ListInv /\ CtrlInv /\ JoinInv
      /\ OwnerInv /\ CaptureInv /\ Delivery /\ depth[t] > 0
  BY DEF PubInv, DropCtrl, At
<1>1. PICK h \in Calls : h = <<t, depth[t]>> /\ IsTop(h) /\ F(h) = Top(t) /\ Only(h, f) /\ depth' = depth
  BY <1>0, ContinueF DEF DropCtrl
<1>2. /\ F(h).pc = "release" /\ F(h).refs = <<>> /\ F(h).ctrl /\ Shape(F(h)) /\ F(h) \in Frames
      /\ F(h).op # "none"
  BY <1>0, <1>1, TopFacts, CallFacts DEF DropCtrl, At
<1>3. /\ f.pc = "release" /\ f.key = F(h).key /\ f.op = F(h).op /\ f.from = F(h).from
      /\ f.node = F(h).node /\ f.ctrl = FALSE
      /\ f.refs = IF last THEN list ELSE <<>>
  BY <1>1, <1>2 DEF Frames
<1>4. F(h)' = f /\ \A c \in Calls : c # h => F(c)' = F(c)
  BY <1>1 DEF Only
<1>5. /\ token' = token /\ past' = past /\ pubAlive' = pubAlive /\ count' = count
      /\ list' = IF last THEN <<>> ELSE list
  BY DEF DropCtrl
<1>6. CtrlAlive /\ (last <=> ~ CtrlAlive')
  <2>1. F(h)'.ctrl = FALSE
    BY <1>3, <1>4
  <2>2. last <=> ~ pubAlive /\ \A c \in Calls : c # h => ~ F(c).ctrl
    BY <1>1
  <2> HIDE DEF f, last
  <2>3. \A c \in Calls : F(c)'.ctrl <=> c # h /\ F(c).ctrl
    BY <1>4, <2>1
  <2>4. CtrlAlive' <=> pubAlive \/ \E c \in Calls : c # h /\ F(c).ctrl
    BY <1>5, <2>3 DEF CtrlAlive
  <2>5. CtrlAlive
    BY <1>2 DEF CtrlAlive
  <2> QED
    BY <2>2, <2>4, <2>5
<1> HIDE DEF f, last
<1>7. \/ list' = list /\ CtrlAlive' /\ f.refs = <<>>
      \/ list' = <<>> /\ ~ CtrlAlive' /\ f.refs = list
  BY <1>3, <1>5, <1>6
<1>8. \A y : Alive(y)' <=> Alive(y)
  <2>1. CASE list' = list /\ f.refs = <<>>
    <3>1. \A c \in Calls : F(c)'.refs = F(c).refs
      BY <1>2, <1>4, <2>1
    <3> QED
      BY <2>1, <3>1 DEF Alive
  <2>2. CASE list' = <<>> /\ f.refs = list
    <3>1. ToSet(list') = {} /\ ToSet(F(h).refs) = {}
      BY <1>2, <2>2, NoElements
    <3>2. ASSUME NEW y PROVE Alive(y)' <=> Alive(y)
      BY <1>4, <2>2, <3>1 DEF Alive
    <3> QED
      BY <3>2
  <2> QED
    BY <1>7, <2>1, <2>2
<1>9. ToSet(list') \subseteq ToSet(list) /\ Ordered(list)' /\ ToSet(f.refs) \subseteq ToSet(list)
  <2>1. Ordered(<<>>)
    BY DEF Ordered
  <2>2. Ordered(list)'
    <3>1. CASE list' = list
      BY <1>0, <1>5, <3>1 DEF ListInv, Ordered
    <3>2. CASE list' = <<>>
      BY <3>2 DEF Ordered
    <3> QED
      BY <1>7, <3>1, <3>2
  <2> QED
    BY <1>7, <2>2, NoElements
<1>10. ShapeInv' /\ MadeInv'
  <2>1. Shape(f)
    BY <1>2, <1>3 DEF Shape
  <2>2. ~ h[2] > depth[h[1]]
    BY <1>0, <1>1, CallFacts DEF IsTop
  <2>3. ShapeInv'
    BY <1>0, <1>1, <1>4, <2>1, <2>2 DEF ShapeInv
  <2>4. Made' = Made
    BY <1>5 DEF Made
  <2>5. MadeInv'
    BY <1>0, <1>3, <1>4, <1>5, <1>9, <2>4 DEF MadeInv
  <2> QED
    BY <2>3, <2>5
<1>11. KeyInv'
  BY <1>0, <1>1, <1>3, <1>4, <1>8, KeysKept, BelowTop
<1>12. TokenInv'
  BY <1>0, <1>3, <1>4, <1>5 DEF TokenInv
<1>13. ListInv'
  BY <1>0, <1>2, <1>3, <1>4, <1>5, <1>9 DEF ListInv
<1>14. CtrlInv'
  BY <1>0, <1>2, <1>3, <1>4, <1>5, <1>7 DEF CtrlInv
<1>15. JoinInv'
  BY <1>0, <1>2, <1>3, <1>4, <1>5, <1>6, <1>7 DEF JoinInv
<1>16. OwnerInv' /\ CaptureInv'
  <2>1. \A c \in Calls : F(c)'.op = F(c).op /\ F(c)'.node = F(c).node /\ F(c)'.key = F(c).key
    BY <1>3, <1>4
  <2>2. OwnerInv'
    BY <1>0, <1>5, <1>9, <2>1 DEF OwnerInv
  <2>3. CaptureInv'
    BY <1>0, <1>5, <1>8, <2>1 DEF CaptureInv
  <2> QED
    BY <2>2, <2>3
<1>17. Delivery'
  <2>1. \A c \in Calls : F(c)'.pc \in Serving => F(c)' = F(c)
    BY <1>3, <1>4 DEF Serving
  <2> QED
    BY <1>0, <1>5, <2>1 DEF Delivery, Serving
<1> QED
  BY <1>10, <1>11, <1>12, <1>13, <1>14, <1>15, <1>16, <1>17 DEF PubInv

\* What one reference less makes of the subscribers.
LEMMA OneReferenceLess ==
  ASSUME Typed, NEW h \in Calls, F(h).refs # <<>>, F(h)'.refs = Tail(F(h).refs),
         \A c \in Calls : c # h => F(c)'.refs = F(c).refs, list' = list,
         NEW n, n = Head(F(h).refs)
  PROVE  /\ n \in Nodes /\ Alive(n) /\ n \in ToSet(F(h).refs)
         /\ ToSet(F(h)'.refs) \subseteq ToSet(F(h).refs)
         /\ \A y : y # n => (Alive(y)' <=> Alive(y))
         /\ Alive(n)' <=> \/ n \in ToSet(list) \cup ToSet(Tail(F(h).refs))
                          \/ \E c \in Calls \ {h} : n \in ToSet(F(c).refs)
<1>1. F(h).refs \in Seq(Nodes)
  BY CallFacts
<1>2. PICK r : r = Tail(F(h).refs)
  OBVIOUS
<1>3. ToSet(F(h).refs) = {n} \cup ToSet(r) /\ n \in Nodes
  BY <1>1, <1>2, HeadTailElements
<1>4. ToSet(F(h)'.refs) = ToSet(r)
  BY <1>2
<1>5. Alive(n)
  BY <1>3 DEF Alive
<1>6. ASSUME NEW y, y # n PROVE Alive(y)' <=> Alive(y)
  <2>1. \A c \in Calls : y \in ToSet(F(c)'.refs) <=> y \in ToSet(F(c).refs)
    BY <1>3, <1>4, <1>6
  <2> QED
    BY <2>1 DEF Alive
<1>7. Alive(n)' <=> \/ n \in ToSet(list) \cup ToSet(r)
                    \/ \E c \in Calls \ {h} : n \in ToSet(F(c).refs)
  BY <1>4 DEF Alive
<1> QED
  BY <1>2, <1>3, <1>4, <1>5, <1>6, <1>7

\* A reference is dropped and nothing comes of it.
LEMMA DropRefStep ==
  ASSUME PubInv, Typed', NEW t \in Threads, DropRef(t),
         ~ (LastRef(t, Head(Top(t).refs)) /\ token[Head(Top(t).refs)] # None)
  PROVE  PubInv'
<1> DEFINE f == [Top(t) EXCEPT !.refs = Tail(Top(t).refs)]
<1>0. /\ Typed /\ ShapeInv /\ MadeInv /\ KeyInv /\ TokenInv /\ ListInv /\ CtrlInv /\ JoinInv
      /\ OwnerInv /\ CaptureInv /\ Delivery /\ depth[t] > 0
  BY DEF PubInv, DropRef, At
<1>1. PICK h \in Calls : h = <<t, depth[t]>> /\ IsTop(h) /\ F(h) = Top(t) /\ Only(h, f) /\ depth' = depth
  <2>1. Continue(t, f)
    BY DEF DropRef
  <2> QED
    BY <1>0, <2>1, ContinueF
<1>2. /\ F(h).pc = "release" /\ F(h).refs # <<>> /\ Shape(F(h)) /\ F(h) \in Frames
      /\ F(h).op # "none"
  BY <1>0, <1>1, TopFacts, CallFacts DEF DropRef, At
<1>3. /\ f.pc = "release" /\ f.key = F(h).key /\ f.op = F(h).op /\ f.from = F(h).from
      /\ f.node = F(h).node /\ f.ctrl = F(h).ctrl /\ f.refs = Tail(F(h).refs)
  BY <1>1, <1>2 DEF Frames
<1>4. F(h)' = f /\ \A c \in Calls : c # h => F(c)' = F(c)
  BY <1>1 DEF Only
<1> HIDE DEF f
<1>5. /\ token' = token /\ past' = past /\ pubAlive' = pubAlive /\ count' = count /\ list' = list
  BY DEF DropRef
<1>6. PICK n : n = Head(F(h).refs)
  OBVIOUS
<1>7. /\ n \in Nodes /\ Alive(n) /\ ToSet(f.refs) \subseteq ToSet(F(h).refs)
      /\ \A y : y # n => (Alive(y)' <=> Alive(y))
      /\ Alive(n)' \/ token[n] = None
  <2>1. /\ n \in Nodes /\ Alive(n) /\ ToSet(F(h)'.refs) \subseteq ToSet(F(h).refs)
        /\ \A y : y # n => (Alive(y)' <=> Alive(y))
        /\ Alive(n)' <=> \/ n \in ToSet(list) \cup ToSet(Tail(F(h).refs))
                         \/ \E c \in Calls \ {h} : n \in ToSet(F(c).refs)
    BY <1>0, <1>2, <1>3, <1>4, <1>5, <1>6, OneReferenceLess
  <2>2. LastRef(t, n) <=> ~ Alive(n)'
    BY <1>1, <2>1 DEF LastRef
  <2>3. ~ (LastRef(t, n) /\ token[n] # None)
    BY <1>1, <1>6
  <2> QED
    BY <1>4, <2>1, <2>2, <2>3
<1>8. CtrlAlive' <=> CtrlAlive
  BY <1>3, <1>4, <1>5 DEF CtrlAlive
<1>9. ShapeInv' /\ MadeInv'
  <2>1. Shape(f)
    BY <1>2, <1>3 DEF Shape
  <2>2. ~ h[2] > depth[h[1]]
    BY <1>0, <1>1, CallFacts DEF IsTop
  <2>3. ShapeInv'
    BY <1>0, <1>1, <1>4, <2>1, <2>2 DEF ShapeInv
  <2>4. Made' = Made
    BY <1>5 DEF Made
  <2>5. ToSet(f.refs) \subseteq Made
    BY <1>0, <1>7 DEF MadeInv
  <2>6. MadeInv'
    BY <1>0, <1>3, <1>4, <1>5, <2>4, <2>5 DEF MadeInv
  <2> QED
    BY <2>3, <2>6
<1>10. KeyInv'
  <2>1. \A y \in Nodes : Alive(y)' => Alive(y)
    BY <1>7
  <2> QED
    BY <1>0, <1>1, <1>3, <1>4, <2>1, KeysKept, BelowTop
<1>11. TokenInv' /\ ListInv'
  <2>1. Ordered(list)' <=> Ordered(list)
    BY <1>5 DEF Ordered
  <2> QED
    BY <1>0, <1>2, <1>3, <1>4, <1>5, <2>1 DEF TokenInv, ListInv
<1>12. CtrlInv' /\ JoinInv'
  BY <1>0, <1>2, <1>3, <1>4, <1>5, <1>8 DEF CtrlInv, JoinInv
<1>13. OwnerInv' /\ CaptureInv'
  <2>1. \A c \in Calls : F(c)'.op = F(c).op /\ F(c)'.node = F(c).node /\ F(c)'.key = F(c).key
    BY <1>3, <1>4
  <2>2. OwnerInv'
    BY <1>0, <1>5, <2>1 DEF OwnerInv
  <2>3. CaptureInv'
    BY <1>0, <1>5, <1>7, <2>1 DEF CaptureInv
  <2> QED
    BY <2>2, <2>3
<1>14. Delivery'
  <2>1. \A c \in Calls : F(c)'.pc \in Serving => F(c)' = F(c)
    BY <1>3, <1>4 DEF Serving
  <2> QED
    BY <1>0, <1>5, <2>1 DEF Delivery, Serving
<1> QED
  BY <1>9, <1>10, <1>11, <1>12, <1>13, <1>14 DEF PubInv

\* The last reference to a handler is dropped, and the subscription it
\* captured is destroyed: nobody else can be inside that subscription.
LEMMA DropLastRefStep ==
  ASSUME PubInv, Typed', NEW t \in Threads, DropRef(t),
         LastRef(t, Head(Top(t).refs)), token[Head(Top(t).refs)] # None
  PROVE  PubInv'
<1> DEFINE f == [Top(t) EXCEPT !.refs = Tail(Top(t).refs)]
           v == Visit("disconnect", Head(Top(t).refs), None)
<1>0. /\ Typed /\ ShapeInv /\ MadeInv /\ KeyInv /\ TokenInv /\ ListInv /\ CtrlInv /\ JoinInv
      /\ OwnerInv /\ CaptureInv /\ Delivery /\ depth[t] > 0 /\ past \in Past
      /\ depth[t] \in 0 .. MaxDepth /\ token \in [Keys -> Nodes \cup {None}]
  BY DEF PubInv, DropRef, At, Typed, TypeOK
<1>1. /\ depth[t] < MaxDepth /\ depth' = [depth EXCEPT ![t] = @ + 1]
      /\ frame' = [frame EXCEPT ![t][depth[t]] = f, ![t][depth[t] + 1] = v]
      /\ past' = [past EXCEPT !.leaving = @ \cup {token[Head(Top(t).refs)]}]
      /\ token' = token /\ pubAlive' = pubAlive /\ count' = count /\ list' = list
      /\ Top(t).pc = "release" /\ Top(t).refs # <<>>
  BY DEF DropRef, At
<1>2. PICK h, g : h = <<t, depth[t]>> /\ g = <<t, depth[t] + 1>>
  OBVIOUS
<1>3. /\ h \in Calls /\ h[1] = t /\ h[2] = depth[t] /\ g \in Calls /\ g[1] = t /\ g[2] = depth[t] + 1
      /\ g # h /\ F(h) = Top(t)
  BY <1>0, <1>1, <1>2, MaxDepthNat DEF Calls, F, Top
<1>4. F(h)' = f /\ F(g)' = v /\ \A c \in Calls : c # h /\ c # g => F(c)' = F(c)
  <2>1. frame \in [Threads -> [1 .. MaxDepth -> GoodFrames]]
    BY <1>0 DEF Typed, FrameTable
  <2>2. /\ depth[t] \in 1 .. MaxDepth /\ depth[t] + 1 \in 1 .. MaxDepth
        /\ depth[t] # depth[t] + 1
    BY <1>0, <1>1, MaxDepthNat
  <2>3. F(h)' = f /\ F(g)' = v
    BY <1>1, <1>3, <2>1, <2>2 DEF F
  <2>4. ASSUME NEW c \in Calls, c # h, c # g PROVE F(c)' = F(c)
    <3>1. c[1] # t \/ (c[2] # depth[t] /\ c[2] # depth[t] + 1)
      BY <1>0, <1>2, <2>4, CallFacts
    <3>2. c[1] \in Threads /\ c[2] \in 1 .. MaxDepth
      BY <1>0, CallFacts
    <3> QED
      BY <1>1, <2>1, <2>2, <3>1, <3>2 DEF F
  <2> QED
    BY <2>3, <2>4
<1>5. /\ F(h).pc = "release" /\ F(h).refs # <<>> /\ Shape(F(h)) /\ F(h) \in Frames
      /\ F(h).op # "none"
  BY <1>0, <1>1, <1>3, TopFacts, CallFacts
<1>6. /\ f.pc = "release" /\ f.key = F(h).key /\ f.op = F(h).op /\ f.from = F(h).from
      /\ f.node = F(h).node /\ f.ctrl = F(h).ctrl /\ f.refs = Tail(F(h).refs)
  BY <1>3, <1>5 DEF Frames
<1>7. F(g) = NoFrame
  BY <1>0, <1>3 DEF ShapeInv
<1>8. PICK n : n = Head(F(h).refs)
  OBVIOUS
<1>9. /\ v.op = "disconnect" /\ v.pc = "ctrl" /\ v.key = n /\ v.from = None /\ v.node = token[n]
      /\ v.refs = <<>> /\ v.ctrl = FALSE
  BY <1>3, <1>8 DEF Visit, NoFrame
<1> HIDE DEF f, v
<1>10. /\ n \in Nodes /\ Alive(n) /\ ToSet(f.refs) \subseteq ToSet(F(h).refs)
       /\ (\A y : y # n => (Alive(y)' <=> Alive(y))) /\ ~ Alive(n)'
       /\ \A c \in Calls : c # h => n \notin ToSet(F(c).refs)
  <2>1. \A c \in Calls : c # h => F(c)'.refs = F(c).refs
    BY <1>4, <1>7, <1>9 DEF NoFrame
  <2>2. /\ n \in Nodes /\ Alive(n) /\ ToSet(F(h)'.refs) \subseteq ToSet(F(h).refs)
        /\ \A y : y # n => (Alive(y)' <=> Alive(y))
        /\ Alive(n)' <=> \/ n \in ToSet(list) \cup ToSet(Tail(F(h).refs))
                         \/ \E c \in Calls \ {h} : n \in ToSet(F(c).refs)
    BY <1>0, <1>1, <1>3, <1>4, <1>5, <1>6, <1>8, <2>1, OneReferenceLess
  <2>3. LastRef(t, n)
    BY <1>3, <1>8
  <2>4. /\ n \notin ToSet(list) \cup ToSet(Tail(F(h).refs))
        /\ \A c \in Calls \ {h} : n \notin ToSet(F(c).refs)
    BY <1>2, <1>3, <2>3 DEF LastRef
  <2> QED
    BY <1>4, <2>2, <2>4
<1>11. PICK m \in Nodes : m = token[n]
  BY <1>0, <1>3, <1>8, <1>10 DEF Keys
<1>12. /\ past'.leaving = past.leaving \cup {m} /\ past'.joined = past.joined
       /\ past'.left = past.left /\ past'.before = past.before
  BY <1>0, <1>1, <1>3, <1>8, <1>11 DEF Past
<1>13. /\ None \notin Keys /\ Slots \cap Nodes = {} /\ n \in Keys
  BY <1>10, NamesAssumption DEF Keys
<1>14. CtrlAlive' <=> CtrlAlive
  <2>1. \A c \in Calls : F(c)'.ctrl <=> F(c).ctrl
    BY <1>4, <1>6, <1>7, <1>9 DEF NoFrame
  <2> QED
    BY <1>1, <2>1 DEF CtrlAlive
<1>15. NoFrame.op = "none" /\ NoFrame.key = None
  BY DEF NoFrame
<1>16. ShapeInv'
  <2>1. Shape(f)
    BY <1>5, <1>6 DEF Shape
  <2>2. Shape(v)
    BY <1>9, <1>13 DEF Shape
  <2>3. ASSUME NEW c \in Calls, c[2] > depth'[c[1]] PROVE F(c)' = NoFrame
    <3>1. c[2] \in Nat /\ depth[c[1]] \in Nat /\ c[1] \in Threads
      BY <1>0, CallFacts, MaxDepthNat
    <3>2. depth'[c[1]] = IF c[1] = t THEN depth[t] + 1 ELSE depth[c[1]]
      BY <1>0, <1>1, <3>1 DEF Typed, TypeOK
    <3>3. c # h /\ c # g /\ c[2] > depth[c[1]]
      BY <1>0, <1>3, <2>3, <3>1, <3>2
    <3> QED
      BY <1>0, <1>4, <3>3 DEF ShapeInv
  <2> QED
    BY <1>0, <1>4, <2>1, <2>2, <2>3 DEF ShapeInv
<1>17. MadeInv'
  <2>1. Made' = Made
    BY <1>1 DEF Made
  <2>2. m \in Made /\ n \in Made /\ ToSet(f.refs) \subseteq Made /\ ToSet(v.refs) = {}
    BY <1>0, <1>3, <1>9, <1>10, <1>11, <1>13, NoElements, NamesAssumption DEF MadeInv, Keys
  <2>3. ASSUME NEW c \in Calls
        PROVE  /\ ToSet(F(c)'.refs) \subseteq Made
               /\ F(c)'.key \in Nodes => F(c)'.key \in Made
               /\ F(c)'.node # None => F(c)'.node \in Made
    <3>1. CASE c = g
      BY <1>4, <1>9, <1>11, <2>2, <3>1
    <3>2. CASE c = h
      BY <1>0, <1>3, <1>4, <1>6, <2>2, <3>2 DEF MadeInv
    <3>3. CASE c # h /\ c # g
      BY <1>0, <1>4, <3>3 DEF MadeInv
    <3> QED
      BY <3>1, <3>2, <3>3
  <2> QED
    BY <1>0, <1>1, <1>12, <2>1, <2>2, <2>3 DEF MadeInv
<1>18. \A c \in Calls : F(c).key # n /\ F(c).from # n
  <2> SUFFICES ASSUME NEW c \in Calls PROVE F(c).key # n /\ F(c).from # n
    OBVIOUS
  <2>1. F(c).from # n
    BY <1>0, <1>10, <1>13 DEF ShapeInv, Shape
  <2>2. F(c).op = "connect" => F(c).key # n
    BY <1>0, <1>11, <1>13 DEF TokenInv, Keys
  <2>3. ~ InHandler(c, n)
    <3> SUFFICES ASSUME InHandler(c, n) PROVE FALSE
      OBVIOUS
    <3>1. /\ c[2] > 1 /\ c[2] \in 1 .. MaxDepth /\ c[1] \in Threads
      BY <1>0, CallFacts DEF InHandler
    <3>2. c[2] - 1 \in 1 .. MaxDepth
      BY <3>1, MaxDepthNat
    <3>3. PICK d \in Calls : d = Below(c)
      BY <3>1, <3>2 DEF Below, Calls
    <3>4. F(d).pc = "handler" /\ F(d).refs[F(d).i] = n
      BY <3>3 DEF InHandler
    <3>5. F(d).op = "publish" /\ Shape(F(d)) /\ F(d).i \in Nat /\ F(d).refs \in Seq(Nodes)
      BY <1>0, <3>4, TopFacts, CallFacts
    <3>6. F(d).i \in 1 .. Len(F(d).refs)
      BY <3>4, <3>5, LenProperties DEF Shape
    <3>7. n \in ToSet(F(d).refs)
      BY <3>4, <3>5, <3>6, Elements
    <3> QED
      BY <1>5, <1>10, <3>4, <3>7
  <2> QED
    BY <1>0, <1>10, <2>1, <2>2, <2>3 DEF KeyInv
<1>19. KeyInv'
  <2>1. \A c \in Calls : c # g => F(c)'.key = F(c).key /\ F(c)'.from = F(c).from /\ F(c)'.op = F(c).op
    BY <1>4, <1>6
  <2>2. NotReentered'
    <3> SUFFICES ASSUME NEW c \in Calls, NEW d \in Calls, F(c)'.key # None,
                        F(c)'.key \in {F(d)'.key, F(d)'.from}
                 PROVE  c = d
      BY DEF NotReentered
    <3>1. CASE c # g /\ d # g
      BY <1>0, <2>1, <3>1 DEF KeyInv, NotReentered
    <3>2. CASE c = g /\ d # g
      BY <1>4, <1>9, <1>18, <2>1, <3>2
    <3>3. CASE c # g /\ d = g
      BY <1>4, <1>9, <1>18, <2>1, <3>3
    <3> QED
      BY <3>1, <3>2, <3>3
  <2>3. ASSUME NEW c \in Calls, NEW y \in Nodes, F(c)'.key = y
        PROVE  \/ F(c)'.op = "connect"
               \/ InHandler(c, y)'
               \/ F(c)'.op = "disconnect" /\ ~ Alive(y)'
    <3>1. CASE c = g
      BY <1>4, <1>9, <1>10, <2>3, <3>1
    <3>2. CASE c # g
      <4>1. F(c).key = y /\ y # n /\ F(c)'.op = F(c).op
        BY <1>18, <2>1, <2>3, <3>2
      <4>2. F(c).op = "connect" \/ InHandler(c, y) \/ (F(c).op = "disconnect" /\ ~ Alive(y))
        BY <1>0, <4>1 DEF KeyInv
      <4>3. F(c) # NoFrame
        BY <1>13, <1>15, <4>1 DEF Keys
      <4>4. \A d \in Calls : d[2] < depth[d[1]] => F(d)' = F(d)
        <5>1. ~ h[2] < depth[h[1]] /\ ~ g[2] < depth[g[1]]
          BY <1>0, <1>3
        <5> QED
          BY <1>4, <5>1
      <4>5. InHandler(c, y) => InHandler(c, y)'
        BY <1>0, <4>3, <4>4, HandlerStays
      <4> QED
        BY <1>10, <4>1, <4>2, <4>5
    <3> QED
      BY <3>1, <3>2
  <2>4. \A c \in Calls : F(c)'.key \in Nodes =>
          \/ F(c)'.op = "connect"
          \/ InHandler(c, F(c).key)'
          \/ F(c)'.op = "disconnect" /\ ~ Alive(F(c).key)'
    <3> SUFFICES ASSUME NEW c \in Calls, F(c)'.key \in Nodes
                 PROVE  \/ F(c)'.op = "connect"
                        \/ InHandler(c, F(c).key)'
                        \/ F(c)'.op = "disconnect" /\ ~ Alive(F(c).key)'
      OBVIOUS
    <3>1. PICK y \in Nodes : y = F(c)'.key
      OBVIOUS
    <3>2. F(c)'.op = "connect" \/ InHandler(c, y)' \/ (F(c)'.op = "disconnect" /\ ~ Alive(y)')
      BY <2>3, <3>1
    <3> QED
      BY <3>1, <3>2 DEF InHandler, Alive
  <2> QED
    BY <2>2, <2>4 DEF KeyInv
<1>20. /\ \A c \in Calls : c # g => /\ F(c)'.key = F(c).key /\ F(c)'.node = F(c).node
                                    /\ F(c)'.op = F(c).op /\ F(c)'.pc = F(c).pc
       /\ F(g).op = "none"
  BY <1>4, <1>5, <1>6, <1>7, <1>15
<1>21. TokenInv'
  <2>1. \A c \in Calls : F(c).op = "connect" => F(c).node # m
    BY <1>0, <1>11, <1>13 DEF TokenInv
  <2> QED
    BY <1>0, <1>1, <1>4, <1>9, <1>11, <1>12, <1>20, <2>1 DEF TokenInv
<1>22. ListInv'
  <2>1. Ordered(list)' <=> Ordered(list)
    BY <1>1, <1>12 DEF Ordered
  <2> QED
    BY <1>0, <1>1, <1>4, <1>9, <1>12, <1>20, <2>1 DEF ListInv
<1>23. CtrlInv' /\ JoinInv'
  <2>1. CtrlInv'
    BY <1>0, <1>1, <1>4, <1>9, <1>14, <1>20 DEF CtrlInv
  <2>2. \A c \in Calls : F(c)'.pc = "copy" => F(c)' = F(c)
    BY <1>4, <1>6, <1>9
  <2>3. JoinInv'
    BY <1>0, <1>1, <1>4, <1>9, <1>12, <1>14, <1>20, <2>2 DEF JoinInv
  <2> QED
    BY <2>1, <2>3
<1>24. OwnerInv'
  <2>1. \A c \in Calls : F(c).op = "connect" =>
          F(c)'.op = F(c).op /\ F(c)'.node = F(c).node /\ F(c)'.key = F(c).key
    BY <1>20
  <2> QED
    BY <1>0, <1>1, <1>12, <2>1 DEF OwnerInv
<1>25. CaptureInv'
  <2>1. F(g)'.op = "disconnect" /\ F(g)'.key = n
    BY <1>4, <1>9
  <2>2. \A c \in Calls : F(c).op = "disconnect" => F(c)'.op = F(c).op /\ F(c)'.key = F(c).key
    BY <1>20
  <2> QED
    BY <1>0, <1>1, <1>3, <1>10, <2>1, <2>2 DEF CaptureInv
<1>26. Delivery'
  <2>1. \A c \in Calls : F(c)'.pc \in Serving => F(c)' = F(c)
    BY <1>4, <1>6, <1>9 DEF Serving
  <2> QED
    BY <1>0, <1>12, <2>1 DEF Delivery, Serving
<1> QED
  BY <1>16, <1>17, <1>19, <1>21, <1>22, <1>23, <1>24, <1>25, <1>26 DEF PubInv

-----------------------------------------------------------------------------
(* The theorems.                                                           *)

\* The program begins with nothing.
LEMMA PubInit == Init => PubInv
<1> SUFFICES ASSUME Init PROVE PubInv
  OBVIOUS
<1>1. Typed
  BY TypedInit
<1>2. \A c \in Calls : F(c) = NoFrame
  BY DEF Init, Calls, F
<1>3. /\ pubAlive = TRUE /\ list = <<>> /\ token = [k \in Keys |-> None]
      /\ past = [joined |-> {}, leaving |-> {}, left |-> {}, before |-> [n \in Nodes |-> {}]]
  BY DEF Init
<1>4. /\ NoFrame.op = "none" /\ NoFrame.pc = "none" /\ NoFrame.key = None /\ NoFrame.from = None
      /\ NoFrame.node = None /\ NoFrame.refs = <<>> /\ NoFrame.ctrl = FALSE
  BY DEF NoFrame
<1>5. None \notin Keys /\ None \notin Nodes /\ ToSet(<<>>) = {}
  BY NamesAssumption, NoElements DEF Keys
<1>6. ShapeInv /\ MadeInv
  <2>1. Shape(NoFrame)
    BY <1>4 DEF Shape
  <2> QED
    BY <1>2, <1>3, <1>4, <1>5, <2>1 DEF ShapeInv, MadeInv
<1>7. KeyInv /\ TokenInv /\ CtrlInv /\ JoinInv
  BY <1>2, <1>3, <1>4, <1>5 DEF KeyInv, NotReentered, TokenInv, CtrlInv, CtrlAlive, JoinInv
<1>8. ListInv /\ OwnerInv /\ CaptureInv /\ Delivery
  <2>1. Ordered(list)
    BY <1>3 DEF Ordered
  <2> QED
    BY <1>2, <1>3, <1>4, <1>5, <2>1, NamesAssumption DEF ListInv, OwnerInv, CaptureInv, Delivery, Keys
<1> QED
  BY <1>1, <1>6, <1>7, <1>8 DEF PubInv

\* The invariant is inductive.
LEMMA PubStep == PubInv /\ [Next]_vars => PubInv'
<1> SUFFICES ASSUME PubInv, [Next]_vars PROVE PubInv'
  OBVIOUS
<1>0. Typed'
  BY TypedNext DEF PubInv
<1>1. CASE UNCHANGED vars
  <2>1. /\ UNCHANGED <<pubAlive, list, token, depth, count, past, frame>>
        /\ \A c \in Calls : F(c)' = F(c)
    BY <1>1 DEF vars, F
  <2>2. (\A n : Alive(n)' <=> Alive(n)) /\ (CtrlAlive' <=> CtrlAlive)
    BY <2>1 DEF Alive, CtrlAlive
  <2>3. ShapeInv' /\ MadeInv'
    BY <2>1 DEF PubInv, ShapeInv, MadeInv, Made
  <2>4. KeyInv'
    <3>1. Typed /\ ShapeInv /\ KeyInv
      BY DEF PubInv
    <3> QED
      BY <2>1, <2>2, <3>1, KeysKept
  <2>5. TokenInv' /\ ListInv'
    <3>1. Ordered(list)' <=> Ordered(list)
      BY <2>1 DEF Ordered
    <3> QED
      BY <2>1, <3>1 DEF PubInv, TokenInv, ListInv
  <2>6. CtrlInv' /\ JoinInv'
    BY <2>1, <2>2 DEF PubInv, CtrlInv, JoinInv
  <2>7. OwnerInv' /\ CaptureInv' /\ Delivery'
    BY <2>1, <2>2 DEF PubInv, OwnerInv, CaptureInv, Delivery
  <2> QED
    BY <1>0, <2>3, <2>4, <2>5, <2>6, <2>7 DEF PubInv
<1>2. ASSUME NEW t \in Threads, Proceed(t) PROVE PubInv'
  <2>1. CASE \/ PushBackFails(t) \/ UnlockPushed(t) \/ ReturnToken(t) \/ ReturnTokenFails(t)
             \/ LockCtrl(t) \/ LockSub(t) \/ UnlockErased(t) \/ Find(t) \/ UnlockFound(t)
             \/ Snapshot(t) \/ SnapshotFails(t) \/ UnlockCopied(t) \/ Invoke(t)
             \/ HandlerReturns(t) \/ HandlerThrows(t) \/ EndLoop(t)
    <3>1. \E h, f : Quiet(h, f)
      BY <2>1, ConnectQuiet, VisitQuiet, PublishQuiet
    <3> QED
      BY <1>0, <3>1, QuietStep
  <2>2. CASE PushBack(t)
    BY <1>0, <2>2, PushBackStep
  <2>3. CASE Erase(t)
    BY <1>0, <2>3, EraseStep
  <2>4. CASE DropRef(t)
    BY <1>0, <2>4, DropRefStep, DropLastRefStep
  <2>5. CASE DropCtrl(t)
    BY <1>0, <2>5, DropCtrlStep
  <2>6. CASE ReturnConnect(t)
    BY <1>0, <2>6, ReturnConnectStep
  <2>7. CASE ReturnDisconnect(t)
    BY <1>0, <2>7, ReturnDisconnectStep
  <2>8. CASE Return(t)
    BY <1>0, <2>8, ReturnStep
  <2> QED
    BY <1>2, <2>1, <2>2, <2>3, <2>4, <2>5, <2>6, <2>7, <2>8 DEF Proceed
<1>3. ASSUME NEW t \in Threads, Call(t) PROVE PubInv'
  <2>1. CASE \E dest \in Slots \cup {"self"}, captured \in Slots \cup {None} : Connect(t, dest, captured)
    BY <1>0, <2>1, ConnectStep
  <2>2. CASE \/ \E k \in Keys : Disconnect(t, k) \/ Connected(t, k)
             \/ \E from, to \in Slots : MoveAssign(t, from, to)
    <3>1. \E h, f : Opens(h, f)
      BY <1>0, <2>2, VisitsOpen
    <3> QED
      BY <1>0, <3>1, OpensStep
  <2>3. CASE \E from, to \in Slots : Move(t, from, to)
    BY <1>0, <2>3, MoveStep
  <2>4. CASE Publish(t) \/ Count(t) \/ DestroyPublisher(t)
    <3>1. \E h, f : Opens(h, f)
      BY <1>0, <2>4, OthersOpen
    <3> QED
      BY <1>0, <3>1, OpensStep
  <2> QED
    BY <1>3, <2>1, <2>2, <2>3, <2>4 DEF Call
<1> QED
  BY <1>1, <1>2, <1>3 DEF Next

\* The invariant holds in every reachable state.
LEMMA AlwaysPubInv == Spec => []PubInv
BY PubInit, PubStep, PTL DEF Spec

\* For every number of threads, subscribers, calls and levels of nesting, a
\* publication serves exactly the handlers it is for, once and in the order
\* they joined (operator() against connect() and disconnect()).
THEOREM DeliveredExactly == Spec => []Delivery
<1>1. PubInv => Delivery
  BY DEF PubInv
<1> QED
  BY <1>1, AlwaysPubInv, PTL

\* No call enters a subscription while another is inside it, those made by
\* handlers and by the destruction of handlers included.
THEOREM NeverReentered == Spec => []NotReentered
<1>1. PubInv => NotReentered
  BY DEF PubInv, KeyInv
<1> QED
  BY <1>1, AlwaysPubInv, PTL

\* A subscriber is disconnected by one subscription, and one in the list by
\* exactly one unless connect() could not make it (the moves of subscription).
THEOREM AlwaysOwnedOnce == Spec => []OwnedOnce
<1>1. ASSUME PubInv PROVE OwnedOnce
  <2>1. ASSUME NEW n \in Nodes PROVE Cardinality(Owners(n)) <= 1
    <3>1. ASSUME NEW x \in Owners(n), NEW y \in Owners(n) PROVE x = y
      <4>1. /\ \A k, l \in Keys : token[k] = n /\ token[l] = n => k = l
            /\ \A c, d \in Calls : F(c).op = "connect" /\ F(d).op = "connect"
                                     /\ F(c).node = n /\ F(d).node = n => c = d
            /\ \A k \in Keys, c \in Calls : ~ (token[k] = n /\ F(c).op = "connect" /\ F(c).node = n)
        BY <1>1, NamesAssumption DEF PubInv, TokenInv, Keys
      <4> QED
        BY <3>1, <4>1 DEF Owners
    <3>2. CASE Owners(n) = {}
      BY <3>2, FS_EmptySet
    <3>3. CASE Owners(n) # {}
      <4>1. PICK x : x \in Owners(n)
        BY <3>3
      <4>2. Owners(n) = {x}
        BY <3>1, <4>1
      <4>3. Cardinality({x}) = 1
        BY FS_Singleton
      <4>4. Cardinality({x}) <= 1
        BY <4>3
      <4> QED
        BY <4>2, <4>4
    <3> QED
      BY <3>2, <3>3
  <2>2. ASSUME NEW n \in ToSet(list), Owners(n) = {}
        PROVE  "token_alloc" \in Faults /\ n \notin past.joined
    BY <1>1, <2>2 DEF PubInv, OwnerInv, Owners
  <2> QED
    BY <2>1, <2>2 DEF OwnedOnce
<1> QED
  BY <1>1, AlwaysPubInv, PTL

\* Between calls nothing is left of a handler that is gone or of a publisher
\* that is destroyed.
THEOREM AlwaysReclaimed == Spec => []Reclaimed
<1>1. ASSUME PubInv PROVE Reclaimed
  <2> SUFFICES ASSUME \A t \in Threads : depth[t] = 0
               PROVE  /\ \A n \in Nodes : token[n] # None => n \in ToSet(list)
                      /\ ~ pubAlive => list = <<>>
    BY DEF Reclaimed
  <2>1. \A c \in Calls : F(c) = NoFrame
    BY <1>1, CallFacts, MaxDepthNat DEF PubInv, ShapeInv
  <2>2. NoFrame.op = "none" /\ ~ NoFrame.ctrl /\ ToSet(NoFrame.refs) = {}
    BY NoElements DEF NoFrame
  <2>3. \A n \in Nodes : token[n] # None => n \in ToSet(list)
    BY <1>1, <2>1, <2>2 DEF PubInv, CaptureInv, Alive
  <2>4. ~ pubAlive => ~ CtrlAlive
    BY <2>1, <2>2 DEF CtrlAlive
  <2> QED
    BY <1>1, <2>3, <2>4 DEF PubInv, CtrlInv
<1> QED
  BY <1>1, AlwaysPubInv, PTL

-----------------------------------------------------------------------------
(* The refinement: members is list; what is due to a publication is the    *)
(* part of its snapshot it has not begun.                                  *)

Due(c)   == IF F(c).pc \in {"copied", "loop", "handler"}
            THEN SubSeq(F(c).refs, F(c).i + 1, Len(F(c).refs)) ELSE <<>>
Hears(c) == IF F(c).pc = "handler" THEN F(c).refs[F(c).i] ELSE None

Dues     == [c \in Calls |-> Due(c)]
Hearings == [c \in Calls |-> Hears(c)]

\* What is left of a sequence after i of its elements.
LEMMA Remainder ==
  ASSUME NEW S, NEW s \in Seq(S), NEW i \in Nat, i <= Len(s)
  PROVE  /\ SubSeq(s, 1, Len(s)) = s
         /\ i = Len(s) => SubSeq(s, i + 1, Len(s)) = <<>>
         /\ i # Len(s) => /\ SubSeq(s, i + 1, Len(s)) # <<>>
                          /\ Head(SubSeq(s, i + 1, Len(s))) = s[i + 1]
                          /\ Tail(SubSeq(s, i + 1, Len(s))) = SubSeq(s, i + 2, Len(s))
<1>0. Len(s) \in Nat /\ \A j \in 1 .. Len(s) : s[j] \in S
  BY LenProperties, ElementOfSeq
<1>1. SubSeq(s, 1, Len(s)) = s
  <2> DEFINE r == SubSeq(s, 1, Len(s))
  <2>1. r \in Seq(S) /\ (Len(r) = IF 1 <= Len(s) THEN Len(s) - 1 + 1 ELSE 0)
        /\ \A j \in 1 .. Len(s) - 1 + 1 : r[j] = s[1 + j - 1]
    BY <1>0, SubSeqProperties
  <2> HIDE DEF r
  <2>2. Len(r) = Len(s) /\ \A j \in 1 .. Len(r) : r[j] = s[j]
    BY <1>0, <2>1
  <2>3. r = s
    BY <2>1, <2>2, SeqEqual
  <2> QED
    BY <2>3 DEF r
<1>2. i = Len(s) => SubSeq(s, i + 1, Len(s)) = <<>>
  BY <1>0, SubSeqEmpty
<1>3. ASSUME i # Len(s)
      PROVE  /\ SubSeq(s, i + 1, Len(s)) # <<>>
             /\ Head(SubSeq(s, i + 1, Len(s))) = s[i + 1]
             /\ Tail(SubSeq(s, i + 1, Len(s))) = SubSeq(s, i + 2, Len(s))
  <2> DEFINE a == SubSeq(s, i + 1, Len(s))
             b == SubSeq(s, i + 2, Len(s))
             r == Tail(a)
  <2>1. a \in Seq(S) /\ Len(a) = Len(s) - i /\ \A j \in 1 .. Len(s) - i : a[j] = s[i + j]
    <3>1. \A j \in i + 1 .. Len(s) : s[j] \in S
      BY <1>0
    <3>2. a \in Seq(S) /\ (Len(a) = IF i + 1 <= Len(s) THEN Len(s) - (i + 1) + 1 ELSE 0)
          /\ \A j \in 1 .. Len(s) - (i + 1) + 1 : a[j] = s[(i + 1) + j - 1]
      BY <1>0, <3>1, SubSeqProperties
    <3> HIDE DEF a
    <3> QED
      BY <1>0, <1>3, <3>2
  <2>2. b \in Seq(S) /\ Len(b) = Len(s) - i - 1 /\ \A j \in 1 .. Len(s) - i - 1 : b[j] = s[i + 1 + j]
    <3>1. \A j \in i + 2 .. Len(s) : s[j] \in S
      BY <1>0
    <3>2. b \in Seq(S) /\ (Len(b) = IF i + 2 <= Len(s) THEN Len(s) - (i + 2) + 1 ELSE 0)
          /\ \A j \in 1 .. Len(s) - (i + 2) + 1 : b[j] = s[(i + 2) + j - 1]
      BY <1>0, <3>1, SubSeqProperties
    <3> HIDE DEF b
    <3> QED
      BY <1>0, <1>3, <3>2
  <2>3. a # <<>>
    <3>1. Len(a) # 0
      BY <1>0, <1>3, <2>1
    <3> QED
      BY <3>1, EmptySeq
  <2>4. Head(a) = s[i + 1]
    <3>1. Head(a) = a[1] /\ 1 \in 1 .. Len(s) - i
      BY <1>0, <1>3
    <3> QED
      BY <2>1, <3>1
  <2>5. r \in Seq(S) /\ Len(r) = Len(a) - 1 /\ \A j \in 1 .. Len(r) : r[j] = a[j + 1]
    BY <2>1, <2>3, HeadTailProperties
  <2> HIDE DEF a, b, r
  <2>6. Len(r) = Len(b) /\ \A j \in 1 .. Len(r) : r[j] = b[j]
    <3>1. Len(r) = Len(s) - i - 1 /\ Len(r) = Len(b)
      BY <1>0, <2>1, <2>2, <2>5
    <3>2. ASSUME NEW j \in 1 .. Len(s) - i - 1 PROVE r[j] = b[j]
      <4>1. j + 1 \in 1 .. Len(s) - i /\ i + (j + 1) = i + 1 + j
        BY <1>0
      <4> QED
        BY <2>1, <2>2, <2>5, <3>1, <4>1
    <3> QED
      BY <3>1, <3>2
  <2>7. r = b
    BY <2>2, <2>5, <2>6, SeqEqual
  <2> QED
    BY <2>3, <2>4, <2>7 DEF a, b, r
<1> QED
  BY <1>1, <1>2, <1>3

\* Steps outside of the handlers' loop neither address nor serve anybody.
LEMMA NothingDelivered ==
  ASSUME \A c \in Calls : F(c)' = F(c) \/ (F(c).pc \notin Serving /\ F(c)'.pc \notin Serving)
  PROVE  Dues' = Dues /\ Hearings' = Hearings
<1>1. ASSUME NEW c \in Calls PROVE Due(c)' = Due(c) /\ Hears(c)' = Hears(c)
  <2>1. CASE F(c)' = F(c)
    BY <2>1 DEF Due, Hears
  <2>2. CASE F(c).pc \notin Serving /\ F(c)'.pc \notin Serving
    BY <2>2 DEF Due, Hears, Serving
  <2> QED
    BY <2>1, <2>2
<1> QED
  BY <1>1 DEF Dues, Hearings

\* One publication goes on.
LEMMA OneDelivery ==
  ASSUME NEW h \in Calls, \A c \in Calls : c # h => F(c)' = F(c)
  PROVE  /\ Dues' = [Dues EXCEPT ![h] = Due(h)'] /\ Dues[h] = Due(h)
         /\ Hearings' = [Hearings EXCEPT ![h] = Hears(h)'] /\ Hearings[h] = Hears(h)
<1>1. \A c \in Calls : c # h => Due(c)' = Due(c) /\ Hears(c)' = Hears(c)
  BY DEF Due, Hears
<1> QED
  BY <1>1 DEF Dues, Hearings

\* No handler hears of a step from one place outside of the loop to another.
Unheard == \A c \in Calls : F(c)' = F(c) \/ (F(c).pc \notin Serving /\ F(c)'.pc \notin Serving)

\* The three ways to step, outside of the loop.
LEMMA UnheardMoves ==
  ASSUME PubInv, NEW t \in Threads, NEW f,
         \/ depth[t] > 0 /\ Continue(t, f) /\ Top(t).pc \notin Serving /\ f.pc \notin Serving
         \/ depth[t] > 0 /\ Leave(t) /\ Top(t).pc \notin Serving
         \/ Enter(t, f) /\ f.pc \notin Serving
  PROVE  Unheard
<1>0. Typed /\ ShapeInv /\ NoFrame.pc \notin Serving
  BY DEF PubInv, NoFrame, Serving
<1>1. CASE depth[t] > 0 /\ Continue(t, f) /\ Top(t).pc \notin Serving /\ f.pc \notin Serving
  BY <1>0, <1>1, ContinueF DEF Only, Unheard
<1>2. CASE depth[t] > 0 /\ Leave(t) /\ Top(t).pc \notin Serving
  BY <1>0, <1>2, LeaveF DEF Only, Unheard
<1>3. CASE Enter(t, f) /\ f.pc \notin Serving
  <2>1. PICK h \in Calls : h = <<t, depth[t] + 1>> /\ Only(h, f)
    BY <1>0, <1>3, EnterF
  <2>2. h[1] = t /\ h[2] = depth[t] + 1 /\ depth[t] \in Nat
    BY <1>0, <2>1, MaxDepthNat DEF Typed, TypeOK
  <2>3. F(h) = NoFrame
    BY <1>0, <2>2 DEF ShapeInv
  <2> QED
    BY <1>0, <1>3, <2>1, <2>3 DEF Only, Unheard
<1> QED
  BY <1>1, <1>2, <1>3

\* connect(), disconnect(), connected() and subscriber_count() in progress, and a publication
\* without a snapshot.
LEMMA VisitsUnheard ==
  ASSUME PubInv, NEW t \in Threads,
         \/ PushBack(t) \/ PushBackFails(t) \/ UnlockPushed(t) \/ ReturnToken(t) \/ ReturnTokenFails(t)
         \/ LockCtrl(t) \/ LockSub(t) \/ Erase(t) \/ UnlockErased(t) \/ Find(t) \/ UnlockFound(t)
         \/ SnapshotFails(t)
  PROVE  Unheard
<1>0. /\ depth[t] > 0 /\ Top(t).pc \notin Serving /\ Top(t).pc # "none"
      /\ Typed /\ ShapeInv
  BY DEF PushBack, PushBackFails, UnlockPushed, ReturnToken, ReturnTokenFails, LockCtrl, LockSub,
         Erase, UnlockErased, Find, UnlockFound, SnapshotFails, At, Serving, PubInv
<1>1. Top(t) \in Frames
  BY <1>0, TopCall
<1>2. ASSUME NEW pc \in {"pushed", "token", "release", "erased", "found"}, Goto(t, pc) PROVE Unheard
  <2>1. [Top(t) EXCEPT !.pc = pc].pc \notin Serving
    BY <1>1 DEF Frames, Serving
  <2> QED
    BY <1>0, <1>2, <2>1, UnheardMoves DEF Goto
<1>3. CASE PushBackFails(t) \/ ReturnTokenFails(t)
  <2>1. [Top(t) EXCEPT !.pc = "release", !.key = None].pc \notin Serving
    BY <1>1 DEF Frames, Serving
  <2> QED
    BY <1>0, <1>3, <2>1, UnheardMoves DEF PushBackFails, ReturnTokenFails
<1>4. CASE LockCtrl(t)
  <2>1. /\ [Top(t) EXCEPT !.pc = "sub", !.ctrl = TRUE].pc \notin Serving
        /\ [Top(t) EXCEPT !.pc = "release"].pc \notin Serving
    BY <1>1 DEF Frames, Serving
  <2> QED
    BY <1>0, <1>4, <2>1, UnheardMoves DEF LockCtrl
<1>5. CASE LockSub(t)
  <2> DEFINE next == IF Top(t).op = "disconnect" THEN "erase" ELSE "find"
  <2>1. /\ [Top(t) EXCEPT !.pc = next, !.refs = <<Top(t).node>>].pc \notin Serving
        /\ [Top(t) EXCEPT !.pc = "release"].pc \notin Serving
    BY <1>1 DEF Frames, Serving
  <2> QED
    BY <1>0, <1>5, <2>1, UnheardMoves DEF LockSub
<1> QED
  BY <1>2, <1>3, <1>4, <1>5 DEF PushBack, UnlockPushed, ReturnToken, Erase, UnlockErased, Find, UnlockFound,
                              SnapshotFails

\* Calls begin.
LEMMA CallsUnheard ==
  ASSUME PubInv, NEW t \in Threads, Call(t)
  PROVE  Unheard /\ list' = list
<1>1. CASE \E dest \in Slots \cup {"self"}, captured \in Slots \cup {None} : Connect(t, dest, captured)
  <2>1. PICK dest, captured : Connect(t, dest, captured)
    BY <1>1
  <2>2. \E x : Enter(t, [NoFrame EXCEPT !.op = "connect", !.pc = "push", !.key = x,
                             !.node = count.nodes + 1, !.refs = <<count.nodes + 1>>])
    BY <2>1 DEF Connect
  <2>3. \A x : [NoFrame EXCEPT !.op = "connect", !.pc = "push", !.key = x,
                   !.node = count.nodes + 1, !.refs = <<count.nodes + 1>>].pc \notin Serving
    BY DEF NoFrame, Serving
  <2> QED
    BY <2>1, <2>2, <2>3, UnheardMoves DEF Connect
<1>2. CASE \/ \E k \in Keys : Disconnect(t, k) \/ Connected(t, k)
           \/ \E from, to \in Slots : MoveAssign(t, from, to)
  <2>1. \E op, k, from : Enter(t, Visit(op, k, from))
    BY <1>2 DEF Disconnect, Connected, MoveAssign
  <2>2. \A op, k, from : Visit(op, k, from).pc \notin Serving
    BY DEF Visit, NoFrame, Serving
  <2>3. list' = list
    BY <1>2 DEF Disconnect, Connected, MoveAssign
  <2> QED
    BY <2>1, <2>2, <2>3, UnheardMoves
<1>3. CASE \E from, to \in Slots : Move(t, from, to)
  BY <1>3 DEF Move, Unheard, F
<1>4. CASE Publish(t) \/ Count(t) \/ DestroyPublisher(t)
  <2>1. \E f : Enter(t, f) /\ f.pc \notin Serving
    <3>1. /\ [NoFrame EXCEPT !.op = "publish", !.pc = "copy", !.ctrl = TRUE,
                             !.must = past.joined \ past.leaving, !.never = past.left].pc \notin Serving
          /\ [NoFrame EXCEPT !.op = "count", !.pc = "find"].pc \notin Serving
          /\ [NoFrame EXCEPT !.op = "destroy", !.pc = "release", !.ctrl = TRUE].pc \notin Serving
      BY DEF NoFrame, Serving
    <3> QED
      BY <1>4, <3>1 DEF Publish, Count, DestroyPublisher
  <2>2. list' = list
    BY <1>4 DEF Publish, Count, DestroyPublisher
  <2> QED
    BY <2>1, <2>2, UnheardMoves
<1> QED
  BY <1>1, <1>2, <1>3, <1>4 DEF Call

\* Calls end, and drop what they hold.
LEMMA EndsUnheard ==
  ASSUME PubInv, NEW t \in Threads,
         DropRef(t) \/ DropCtrl(t) \/ ReturnConnect(t) \/ ReturnDisconnect(t) \/ Return(t)
  PROVE  Unheard
<1>0. /\ depth[t] > 0 /\ Top(t).pc = "release" /\ Top(t).pc \notin Serving /\ Top(t).pc # "none"
      /\ Typed /\ ShapeInv
  BY DEF DropRef, DropCtrl, ReturnConnect, ReturnDisconnect, Return, Finished, At, Serving, PubInv
<1>1. Top(t) \in Frames
  BY <1>0, TopCall
<1>2. CASE ReturnConnect(t) \/ ReturnDisconnect(t) \/ Return(t)
  <2>1. Leave(t)
    BY <1>2 DEF ReturnConnect, ReturnDisconnect, Return
  <2> QED
    BY <1>0, <2>1, UnheardMoves
<1>3. CASE DropCtrl(t)
  <2> DEFINE last == ~ pubAlive /\ \A c \in Calls \ {<<t, depth[t]>>} : ~ F(c).ctrl
             f == [Top(t) EXCEPT !.ctrl = FALSE, !.refs = IF last THEN list ELSE <<>>]
  <2>1. f.pc \notin Serving
    BY <1>0, <1>1 DEF Frames
  <2>2. Continue(t, f)
    BY <1>3 DEF DropCtrl
  <2> QED
    BY <1>0, <2>1, <2>2, UnheardMoves
<1>4. CASE DropRef(t)
  <2> DEFINE f == [Top(t) EXCEPT !.refs = Tail(Top(t).refs)]
             v == Visit("disconnect", Head(Top(t).refs), None)
  <2>1. f.pc \notin Serving /\ v.pc \notin Serving
    BY <1>0, <1>1 DEF Frames, Visit, NoFrame, Serving
  <2>2. CASE Continue(t, f)
    BY <1>0, <2>1, <2>2, UnheardMoves
  <2>3. CASE /\ depth[t] < MaxDepth
             /\ frame' = [frame EXCEPT ![t][depth[t]] = f, ![t][depth[t] + 1] = v]
    <3> HIDE DEF f, v
    <3>0. depth[t] \in 1 .. MaxDepth /\ depth[t] + 1 \in 1 .. MaxDepth /\ depth[t] # depth[t] + 1
          /\ depth[t] + 1 > depth[t]
      BY <1>0, <2>3, MaxDepthNat DEF Typed, TypeOK
    <3>1. frame \in [Threads -> [1 .. MaxDepth -> GoodFrames]]
      BY <1>0 DEF Typed, FrameTable
    <3> SUFFICES ASSUME NEW c \in Calls
                 PROVE  F(c)' = F(c) \/ (F(c).pc \notin Serving /\ F(c)'.pc \notin Serving)
      BY DEF Unheard
    <3>2. c[1] \in Threads /\ c[2] \in 1 .. MaxDepth
      BY <1>0, CallFacts
    <3>3. CASE c[1] = t /\ c[2] = depth[t]
      <4>1. F(c) = Top(t) /\ F(c)' = f
        BY <2>3, <3>0, <3>1, <3>3 DEF F, Top
      <4> QED
        BY <1>0, <2>1, <4>1
    <3>4. CASE c[1] = t /\ c[2] = depth[t] + 1
      <4>1. F(c) = NoFrame
        BY <1>0, <3>0, <3>4 DEF ShapeInv
      <4>2. F(c)' = v
        BY <2>3, <3>0, <3>1, <3>4 DEF F
      <4> QED
        BY <2>1, <4>1, <4>2 DEF NoFrame, Serving
    <3>5. CASE c[1] # t \/ (c[2] # depth[t] /\ c[2] # depth[t] + 1)
      BY <2>3, <3>0, <3>1, <3>2, <3>5 DEF F
    <3> QED
      BY <3>3, <3>4, <3>5
  <2> QED
    BY <1>4, <2>2, <2>3 DEF DropRef
<1> QED
  BY <1>2, <1>3, <1>4

\* Where a publication stands.
LEMMA InTheLoop ==
  ASSUME PubInv, NEW t \in Threads, depth[t] > 0,
         Top(t).pc \in {"copy", "copied", "loop", "handler"}
  PROVE  /\ Top(t).op = "publish" /\ Top(t).i \in Nat /\ Top(t).refs \in Seq(Nodes)
         /\ Top(t) \in Frames /\ Len(Top(t).refs) \in Nat
         /\ Top(t).pc \in {"copy", "copied"} => Top(t).i = 0
         /\ Top(t).pc # "copy" => Top(t).i <= Len(Top(t).refs)
         /\ Top(t).pc = "handler" => Top(t).i \in 1 .. Len(Top(t).refs)
                                     /\ Top(t).refs[Top(t).i] \in Nodes
<1>1. Typed /\ ShapeInv
  BY DEF PubInv
<1>2. PICK h \in Calls : F(h) = Top(t)
  BY <1>1, TopCall
<1>3. /\ Top(t).op = "publish" /\ Shape(Top(t)) /\ Top(t) \in Frames
      /\ Top(t).i \in Nat /\ Top(t).refs \in Seq(Nodes)
  BY <1>1, <1>2, TopCall, CallFacts
<1>4. Len(Top(t).refs) \in Nat
  BY <1>3, LenProperties
<1>5. Top(t).pc = "handler" => Top(t).i \in 1 .. Len(Top(t).refs)
  BY <1>3, <1>4 DEF Shape
<1>6. Top(t).pc = "handler" => Top(t).refs[Top(t).i] \in Nodes
  BY <1>3, <1>5, ElementOfSeq
<1> QED
  BY <1>3, <1>4, <1>5, <1>6 DEF Shape

\* operator() takes its snapshot: the members of this instant are addressed.
LEMMA SnapshotBegins ==
  ASSUME PubInv, NEW t \in Threads, Snapshot(t)
  PROVE  \E p \in Calls : Multicast!Begin(p)
<1> DEFINE f == [Top(t) EXCEPT !.pc = "copied", !.refs = list]
<1>0. Typed /\ depth[t] > 0 /\ Top(t).pc = "copy" /\ list' = list /\ list \in Seq(Nodes)
  BY DEF PubInv, Typed, TypeOK, Snapshot, At
<1>1. Top(t) \in Frames /\ Top(t).i = 0
  BY <1>0, InTheLoop
<1>2. PICK h \in Calls : F(h) = Top(t) /\ Only(h, f)
  BY <1>0, ContinueF DEF Snapshot
<1>3. f.pc = "copied" /\ f.refs = list /\ f.i = 0
  BY <1>1 DEF Frames
<1> HIDE DEF f
<1>4. F(h)' = f /\ \A c \in Calls : c # h => F(c)' = F(c)
  BY <1>2 DEF Only
<1>5. Due(h) = <<>> /\ Hears(h) = None /\ Hears(h)' = None
  BY <1>0, <1>2, <1>3, <1>4 DEF Due, Hears
<1>6. Due(h)' = list
  <2>1. Due(h)' = SubSeq(list, 0 + 1, Len(list))
    BY <1>3, <1>4 DEF Due
  <2>2. SubSeq(list, 1, Len(list)) = list
    BY <1>0, Remainder, LenProperties
  <2> QED
    BY <2>1, <2>2
<1>7. /\ Dues[h] = <<>> /\ Hearings[h] = None /\ Dues' = [Dues EXCEPT ![h] = list]
      /\ Hearings' = Hearings /\ list' = list
  <2>1. Dues' = [Dues EXCEPT ![h] = list] /\ Dues[h] = <<>> /\ Hearings[h] = None
    BY <1>4, <1>5, <1>6, OneDelivery
  <2>2. \A c \in Calls : Hears(c)' = Hears(c)
    BY <1>4, <1>5 DEF Hears
  <2> QED
    BY <1>0, <2>1, <2>2 DEF Hearings
<1>8. Multicast!Begin(h)
  BY <1>7 DEF Multicast!Begin, Dues, Due, Hearings, Hears
<1> QED
  BY <1>8

\* The next handler is invoked: its member is served.
LEMMA InvokeDelivers ==
  ASSUME PubInv, NEW t \in Threads, Invoke(t)
  PROVE  \E p \in Calls : Multicast!Deliver(p)
<1> DEFINE f == [Top(t) EXCEPT !.pc = "handler", !.i = Top(t).i + 1]
<1>0. Typed /\ depth[t] > 0 /\ Top(t).pc = "loop" /\ list' = list /\ Top(t).i < Len(Top(t).refs)
  BY DEF PubInv, Invoke, At
<1>1. Top(t) \in Frames /\ Top(t).i \in Nat /\ Top(t).refs \in Seq(Nodes) /\ Len(Top(t).refs) \in Nat
  BY <1>0, InTheLoop
<1>2. PICK h \in Calls : F(h) = Top(t) /\ Only(h, f)
  <2>1. Continue(t, f)
    BY DEF Invoke
  <2> QED
    BY <1>0, <2>1, ContinueF
<1>3. PICK s \in Seq(Nodes), i \in Nat : s = Top(t).refs /\ i = Top(t).i /\ i < Len(s) /\ Len(s) \in Nat
  BY <1>0, <1>1
<1>4. f.pc = "handler" /\ f.refs = s /\ f.i = i + 1
  BY <1>1, <1>3 DEF Frames
<1> HIDE DEF f
<1>5. F(h)' = f /\ \A c \in Calls : c # h => F(c)' = F(c)
  BY <1>2 DEF Only
<1>6. /\ Due(h) = SubSeq(s, i + 1, Len(s)) /\ Hears(h) = None
      /\ Due(h)' = SubSeq(s, i + 2, Len(s)) /\ Hears(h)' = s[i + 1]
  <2>1. (i + 1) + 1 = i + 2
    OBVIOUS
  <2> QED
    BY <1>0, <1>2, <1>3, <1>4, <1>5, <2>1 DEF Due, Hears
<1>7. /\ Due(h) # <<>> /\ Hears(h)' = Head(Due(h)) /\ Due(h)' = Tail(Due(h))
  <2>1. i <= Len(s) /\ i # Len(s)
    BY <1>3
  <2>2. /\ SubSeq(s, i + 1, Len(s)) # <<>>
        /\ Head(SubSeq(s, i + 1, Len(s))) = s[i + 1]
        /\ Tail(SubSeq(s, i + 1, Len(s))) = SubSeq(s, i + 2, Len(s))
    BY <2>1, Remainder
  <2> QED
    BY <1>6, <2>2
<1>8. /\ Dues[h] # <<>> /\ Hearings[h] = None /\ Dues' = [Dues EXCEPT ![h] = Tail(Dues[h])]
      /\ Hearings' = [Hearings EXCEPT ![h] = Head(Dues[h])] /\ list' = list
  BY <1>0, <1>5, <1>6, <1>7, OneDelivery
<1>9. Multicast!Deliver(h)
  BY <1>8 DEF Multicast!Deliver, Dues, Due, Hearings, Hears
<1> QED
  BY <1>9

\* A handler returns or throws.
LEMMA HandlerServed ==
  ASSUME PubInv, NEW t \in Threads, HandlerReturns(t) \/ HandlerThrows(t)
  PROVE  \E p \in Calls : Multicast!Served(p)
<1>1. PICK pc \in {"loop", "release"} : Goto(t, pc) /\ list' = list
  BY DEF HandlerReturns, HandlerThrows
<1> DEFINE f == [Top(t) EXCEPT !.pc = pc]
<1>0. Typed /\ depth[t] > 0 /\ Top(t).pc = "handler"
  BY DEF PubInv, HandlerReturns, HandlerThrows, At
<1>2. /\ Top(t) \in Frames /\ Top(t).refs[Top(t).i] \in Nodes
  BY <1>0, InTheLoop
<1>3. PICK h \in Calls : F(h) = Top(t) /\ Only(h, f)
  BY <1>0, <1>1, ContinueF DEF Goto
<1>4. f.pc = pc /\ f.refs = F(h).refs /\ f.i = F(h).i
  BY <1>2, <1>3 DEF Frames
<1> HIDE DEF f
<1>5. F(h)' = f /\ \A c \in Calls : c # h => F(c)' = F(c)
  BY <1>3 DEF Only
<1>6. Hears(h) # None /\ Hears(h)' = None
  BY <1>0, <1>2, <1>3, <1>4, <1>5, NamesAssumption DEF Hears, Keys
<1>7. Due(h)' = IF pc = "loop" THEN Due(h) ELSE <<>>
  BY <1>0, <1>3, <1>4, <1>5 DEF Due
<1>8. /\ Hearings[h] # None /\ Hearings' = [Hearings EXCEPT ![h] = None]
      /\ Dues' = Dues \/ Dues' = [Dues EXCEPT ![h] = <<>>]
  <2>1. Hearings[h] # None /\ Hearings' = [Hearings EXCEPT ![h] = None]
    BY <1>5, <1>6, OneDelivery
  <2>2. CASE pc = "loop"
    <3>1. \A c \in Calls : Due(c)' = Due(c)
      BY <1>5, <1>7, <2>2 DEF Due
    <3> QED
      BY <2>1, <3>1 DEF Dues
  <2>3. CASE pc = "release"
    BY <1>5, <1>7, <2>1, <2>3, OneDelivery
  <2> QED
    BY <2>2, <2>3
<1>9. Multicast!Served(h)
  BY <1>1, <1>8 DEF Multicast!Served, Dues, Due, Hearings, Hears
<1> QED
  BY <1>9

\* The two other steps of the loop are not seen.
LEMMA LoopStutters ==
  ASSUME PubInv, NEW t \in Threads, UnlockCopied(t) \/ EndLoop(t)
  PROVE  Dues' = Dues /\ Hearings' = Hearings /\ list' = list
<1>1. PICK pc \in {"loop", "release"} :
        /\ Goto(t, pc) /\ list' = list
        /\ Top(t).pc = IF pc = "loop" THEN "copied" ELSE "loop"
        /\ pc = "release" => Top(t).i = Len(Top(t).refs)
  BY DEF UnlockCopied, EndLoop, At
<1> DEFINE f == [Top(t) EXCEPT !.pc = pc]
<1>0. Typed /\ depth[t] > 0
  BY DEF PubInv, UnlockCopied, EndLoop, At
<1>2. Top(t) \in Frames /\ Top(t).refs \in Seq(Nodes) /\ Top(t).i \in Nat
  BY <1>0, <1>1, InTheLoop
<1>3. PICK h \in Calls : F(h) = Top(t) /\ Only(h, f)
  BY <1>0, <1>1, ContinueF DEF Goto
<1>4. f.pc = pc /\ f.refs = F(h).refs /\ f.i = F(h).i
  BY <1>2, <1>3 DEF Frames
<1> HIDE DEF f
<1>5. F(h)' = f /\ \A c \in Calls : c # h => F(c)' = F(c)
  BY <1>3 DEF Only
<1>6. pc = "release" => Due(h) = <<>>
  <2> SUFFICES ASSUME pc = "release" PROVE Due(h) = <<>>
    OBVIOUS
  <2>1. PICK s \in Seq(Nodes), i \in Nat : s = F(h).refs /\ i = F(h).i /\ i = Len(s)
    BY <1>1, <1>2, <1>3
  <2>2. SubSeq(s, i + 1, Len(s)) = <<>>
    BY <2>1, Remainder
  <2> QED
    BY <1>1, <1>3, <2>1, <2>2 DEF Due
<1>7. Due(h)' = Due(h) /\ Hears(h)' = Hears(h)
  BY <1>1, <1>3, <1>4, <1>5, <1>6 DEF Due, Hears
<1>8. \A c \in Calls : Due(c)' = Due(c) /\ Hears(c)' = Hears(c)
  BY <1>5, <1>7 DEF Due, Hears
<1> QED
  BY <1>1, <1>8 DEF Dues, Hearings

\* Every step of the code is one of the abstract publisher, or none.
LEMMA StepImplements ==
  PubInv /\ [Next]_vars => [Multicast!PubSubNext]_(Multicast!pubSubVars)
<1> SUFFICES ASSUME PubInv, [Next]_vars
             PROVE  Multicast!PubSubNext \/ UNCHANGED Multicast!pubSubVars
  OBVIOUS
<1>0. Typed /\ ShapeInv
  BY DEF PubInv
<1>1. ASSUME list' = list, Dues' = Dues, Hearings' = Hearings PROVE UNCHANGED Multicast!pubSubVars
  BY <1>1 DEF Multicast!pubSubVars, Dues, Due, Hearings, Hears
<1>2. CASE UNCHANGED vars
  <2>1. \A c \in Calls : F(c)' = F(c)
    BY <1>2 DEF vars, F
  <2>2. list' = list
    BY <1>2 DEF vars
  <2> QED
    BY <1>1, <2>1, <2>2, NothingDelivered
<1>3. ASSUME NEW t \in Threads, Proceed(t) PROVE Multicast!PubSubNext \/ UNCHANGED Multicast!pubSubVars
  <2>1. CASE PushBack(t)
    <3>1. Dues' = Dues /\ Hearings' = Hearings
      BY <2>1, VisitsUnheard, NothingDelivered DEF Unheard
    <3>2. PICK h \in Calls : F(h) = Top(t)
      BY <1>0, <2>1, TopCall DEF PushBack, At
    <3>3. F(h).pc = "push" /\ F(h).op = "connect"
      BY <1>0, <2>1, <3>2, TopFacts DEF PushBack, At
    <3>4. PICK n \in Nodes : n = F(h).node
      BY <1>0, <3>3, CallFacts
    <3>5. n \notin ToSet(list) /\ list' = Append(list, n)
      BY <2>1, <3>2, <3>3, <3>4 DEF PubInv, ListInv, PushBack
    <3>6. ~ \E j \in 1 .. Len(list) : list[j] = n
      BY <1>0, <3>5, Elements DEF Typed, TypeOK
    <3>7. Multicast!Join(n)
      BY <3>1, <3>5, <3>6 DEF Multicast!Join, Multicast!IsMember, Dues, Due, Hearings, Hears
    <3> QED
      BY <3>7 DEF Multicast!PubSubNext
  <2>2. CASE Erase(t)
    <3>1. Dues' = Dues /\ Hearings' = Hearings
      BY <2>2, VisitsUnheard, NothingDelivered DEF Unheard
    <3>2. PICK h \in Calls : F(h) = Top(t)
      BY <1>0, <2>2, TopCall DEF Erase, At
    <3>3. F(h).op = "disconnect"
      BY <1>0, <2>2, <3>2, TopFacts DEF Erase, At
    <3>4. PICK n \in Nodes : n = F(h).node
      BY <1>0, <3>3, CallFacts
    <3>5. list' = RemoveFirst(list, n) /\ list \in Seq(Nodes)
      BY <1>0, <2>2, <3>2, <3>4 DEF Erase, Without, Typed, TypeOK
    <3>6. \/ list' = list
          \/ \E j \in 1 .. Len(list) : list[j] = n /\ list' = RemoveAt(list, j)
      BY <3>5, Erasing
    <3>7. CASE list' = list
      BY <1>1, <3>1, <3>7
    <3>8. CASE \E j \in 1 .. Len(list) : list[j] = n /\ list' = RemoveAt(list, j)
      <4>1. Multicast!Quit(n)
        BY <3>1, <3>8 DEF Multicast!Quit, RemoveAt, Multicast!RemoveAt, Dues, Due, Hearings, Hears
      <4> QED
        BY <4>1 DEF Multicast!PubSubNext
    <3> QED
      BY <3>6, <3>7, <3>8
  <2>3. CASE Snapshot(t)
    BY <2>3, SnapshotBegins DEF Multicast!PubSubNext
  <2>4. CASE Invoke(t)
    BY <2>4, InvokeDelivers DEF Multicast!PubSubNext
  <2>5. CASE HandlerReturns(t) \/ HandlerThrows(t)
    BY <2>5, HandlerServed DEF Multicast!PubSubNext
  <2>6. CASE UnlockCopied(t) \/ EndLoop(t)
    BY <1>1, <2>6, LoopStutters
  <2>7. CASE DropCtrl(t)
    <3>1. Dues' = Dues /\ Hearings' = Hearings
      BY <2>7, EndsUnheard, NothingDelivered DEF Unheard
    <3>2. list' = list \/ list' = <<>>
      BY <2>7 DEF DropCtrl
    <3>3. CASE list' = <<>>
      <4>1. Multicast!Close
        BY <3>1, <3>3 DEF Multicast!Close, Dues, Due, Hearings, Hears
      <4> QED
        BY <4>1 DEF Multicast!PubSubNext
    <3> QED
      BY <1>1, <3>1, <3>2, <3>3
  <2>8. CASE \/ PushBackFails(t) \/ UnlockPushed(t) \/ ReturnToken(t) \/ ReturnTokenFails(t)
             \/ LockCtrl(t) \/ LockSub(t) \/ UnlockErased(t) \/ Find(t) \/ UnlockFound(t)
             \/ SnapshotFails(t)
    <3>1. Dues' = Dues /\ Hearings' = Hearings
      BY <2>8, VisitsUnheard, NothingDelivered DEF Unheard
    <3>2. list' = list
      BY <2>8 DEF PushBackFails, UnlockPushed, ReturnToken, ReturnTokenFails, LockCtrl, LockSub,
                  UnlockErased, Find, UnlockFound, SnapshotFails
    <3> QED
      BY <1>1, <3>1, <3>2
  <2>9. CASE DropRef(t) \/ ReturnConnect(t) \/ ReturnDisconnect(t) \/ Return(t)
    <3>1. Dues' = Dues /\ Hearings' = Hearings
      BY <2>9, EndsUnheard, NothingDelivered DEF Unheard
    <3>2. list' = list
      BY <2>9 DEF DropRef, ReturnConnect, ReturnDisconnect, Return
    <3> QED
      BY <1>1, <3>1, <3>2
  <2> QED
    BY <1>3, <2>1, <2>2, <2>3, <2>4, <2>5, <2>6, <2>7, <2>8, <2>9 DEF Proceed
<1>4. ASSUME NEW t \in Threads, Call(t) PROVE UNCHANGED Multicast!pubSubVars
  BY <1>1, <1>4, CallsUnheard, NothingDelivered DEF Unheard
<1> QED
  BY <1>2, <1>3, <1>4 DEF Next

(* For every number of threads and handlers, every interleaving of their   *)
(* locks, weak references, nested calls, exceptions and destructions is a  *)
(* behaviour of the abstract publisher: joins and quits are indivisible, a *)
(* publication is addressed in one instant and delivered in order.         *)
THEOREM PubSubImplemented == Spec => ImplementsPubSub
<1>1. Init => Multicast!PubSubInit
  <2> SUFFICES ASSUME Init PROVE Multicast!PubSubInit
    OBVIOUS
  <2>1. \A c \in Calls : F(c).pc = "none"
    BY DEF Init, Calls, F, NoFrame
  <2>2. /\ Dues = [c \in Calls |-> <<>>] /\ Hearings = [c \in Calls |-> None]
        /\ list = <<>>
    BY <2>1 DEF Dues, Due, Hearings, Hears, Init
  <2> QED
    BY <2>2 DEF Multicast!PubSubInit, Dues, Due, Hearings, Hears
<1> QED
  BY <1>1, PubInit, PubStep, StepImplements, PTL DEF Spec, ImplementsPubSub, Multicast!PubSubSpec
=============================================================================
