------------------------------ MODULE Publisher ------------------------------
(***************************************************************************)
(* collab::publisher and collab::subscription: one publisher, the threads  *)
(* that use it, and the tokens its subscribers are disconnected by.        *)
(*                                                                         *)
(* Every thread has a stack of calls in progress.  User code runs at the   *)
(* bottom of a stack and inside a handler a publication is invoking, and   *)
(* may make any call from there; destroying the last reference to a        *)
(* handler destroys the subscription it captured, which is a call too.     *)
(*                                                                         *)
(* Reference counts are not variables: a control block or a subscriber is  *)
(* alive as long as something holds a strong reference to it.  A strong    *)
(* reference is dropped in an explicit step, and the step that drops the   *)
(* last one runs the destructor.                                           *)
(***************************************************************************)
EXTENDS Integers, FiniteSets, SequencesExt

CONSTANTS
  Threads,
  Slots,        \* subscription objects of the program, outside of handlers
  None,
  Client,       \* what the program does
  Faults,       \* what goes wrong
  MaxNodes,     \* bound: calls of connect()
  MaxCalls,     \* bound: calls made by the program
  UserDepth     \* bound: the program makes no call below so many

ASSUME BoundsAssumption ==
  MaxNodes \in Nat /\ MaxCalls \in Nat /\ UserDepth \in Nat

\* Height of a stack: every nested destructor destroys another subscriber.
MaxDepth == UserDepth + MaxNodes

AllClient == {"connected", "count", "move", "capture", "self", "destroy"}
AllFaults == {"throw", "sub_alloc", "push_alloc", "token_alloc", "snapshot_alloc"}

ASSUME ProgramAssumption == Client \subseteq AllClient /\ Faults \subseteq AllFaults

Nodes == 1 .. MaxNodes          \* detail::subscriber objects, in the order of their creation
Keys  == Slots \cup Nodes       \* key n \in Nodes: the subscription captured by handler n

ASSUME NamesAssumption ==
  /\ Slots \cap Nodes = {}
  /\ None \notin Keys \cup Threads

VARIABLES
  pubAlive,  \* the publisher's own reference to the control block
  list,      \* the control block's subscribers
  lock,      \* the control block's shared_mutex
  token,     \* for each subscription the subscriber it disconnects, or None
  frame,     \* the calls in progress
  depth,     \* how many they are, per thread
  count,     \* subscribers created and calls made so far
  past       \* what has returned to the program: see Past

vars == <<pubAlive, list, lock, token, frame, depth, count, past>>

PCs == {"none",
        "push", "pushed", "token",              \* connect()
        "ctrl", "sub", "erase", "erased",       \* disconnect()
        "find", "found",                        \* connected(), subscriber_count()
        "copy", "copied", "loop", "handler",    \* operator()
        "release"}                              \* leaving any of them

Ops == {"none", "connect", "disconnect", "connected", "count", "publish", "destroy"}

Frames == [op : Ops, pc : PCs,
           key  : Keys \cup {None},    \* the subscription the call is made on or returns
           from : Keys \cup {None},    \* the source of a move assignment
           node : Nodes \cup {None},   \* what its weak_ptr refers to
           refs : Seq(Nodes),          \* the strong references it holds, in order of destruction
           ctrl : BOOLEAN,             \* it holds the control block
           i    : Nat,                 \* handlers invoked
           must : SUBSET Nodes, never : SUBSET Nodes,   \* see Delivery
           late : BOOLEAN]             \* it began after the end of ~publisher

Past == [joined : SUBSET Nodes,    \* connect() has returned
         leaving : SUBSET Nodes,   \* disconnect() was called
         left : SUBSET Nodes,      \* disconnect() has returned
         before : [Nodes -> SUBSET Nodes]]  \* who had joined when a connect() was called

NoFrame == [op |-> "none", pc |-> "none", key |-> None, from |-> None, node |-> None,
            refs |-> <<>>, ctrl |-> FALSE, i |-> 0, must |-> {}, never |-> {}, late |-> FALSE]

TypeOK ==
  /\ pubAlive \in BOOLEAN
  /\ list \in Seq(Nodes)
  /\ lock \in [writer : Threads \cup {None}, readers : SUBSET Threads]
  /\ token \in [Keys -> Nodes \cup {None}]
  /\ frame \in [Threads -> [1 .. MaxDepth -> Frames]]
  /\ depth \in [Threads -> 0 .. MaxDepth]
  /\ count \in [nodes : 0 .. MaxNodes, calls : 0 .. MaxCalls]
  /\ past \in Past

Init ==
  /\ pubAlive = TRUE
  /\ list = <<>>
  /\ lock = [writer |-> None, readers |-> {}]
  /\ token = [k \in Keys |-> None]
  /\ frame = [t \in Threads |-> [d \in 1 .. MaxDepth |-> NoFrame]]
  /\ depth = [t \in Threads |-> 0]
  /\ count = [nodes |-> 0, calls |-> 0]
  /\ past = [joined |-> {}, leaving |-> {}, left |-> {}, before |-> [n \in Nodes |-> {}]]

-----------------------------------------------------------------------------
(* References, stacks and the lock.                                        *)

Calls == Threads \X (1 .. MaxDepth)
F(c)  == frame[c[1]][c[2]]

CtrlAlive == pubAlive \/ \E c \in Calls : F(c).ctrl
Alive(n)  == n \in ToSet(list) \/ \E c \in Calls : n \in ToSet(F(c).refs)

Top(t) == frame[t][depth[t]]
At(t, pc) == depth[t] > 0 /\ Top(t).pc = pc
Continue(t, f) == frame' = [frame EXCEPT ![t][depth[t]] = f] /\ UNCHANGED depth
Goto(t, pc) == Continue(t, [Top(t) EXCEPT !.pc = pc])
Enter(t, f) == /\ depth[t] < MaxDepth
               /\ frame' = [frame EXCEPT ![t][depth[t] + 1] = f]
               /\ depth' = [depth EXCEPT ![t] = @ + 1]
Leave(t) == /\ frame' = [frame EXCEPT ![t][depth[t]] = NoFrame]
            /\ depth' = [depth EXCEPT ![t] = @ - 1]

LockUnique(t) == /\ lock.writer = None /\ lock.readers = {}
                 /\ lock' = [lock EXCEPT !.writer = t]
LockShared(t) == /\ lock.writer = None
                 /\ lock' = [lock EXCEPT !.readers = @ \cup {t}]
Unlock(t) == lock' = [writer |-> IF lock.writer = t THEN None ELSE lock.writer,
                      readers |-> lock.readers \ {t}]

\* The program may call: it is at the bottom of a stack or inside a handler.
MayCall(t) == /\ depth[t] = 0 \/ At(t, "handler")
              /\ depth[t] < UserDepth /\ count.calls < MaxCalls
Called == count' = [count EXCEPT !.calls = @ + 1]

\* A subscription object is used by one call at a time: the program's duty.
Idle(k) == \A c \in Calls : F(c).key # k /\ F(c).from # k
\* The subscriptions code of thread t can name: the program's, and inside a
\* handler the one it captured.
Reachable(t) == Slots \cup
  IF At(t, "handler") THEN {Top(t).refs[Top(t).i]} ELSE {}

Destroyed == ~ pubAlive /\ \A c \in Calls : F(c).op # "destroy"

-----------------------------------------------------------------------------
(* connect().  The new subscription goes to an empty slot or, for a        *)
(* handler that ends its own subscription, to the one the handler holds;   *)
(* the handler may have captured a subscription of the program.            *)

Connect(t, dest, captured) ==
  LET n == count.nodes + 1
      key == IF dest = "self" THEN n ELSE dest
  IN  /\ MayCall(t) /\ pubAlive /\ n \in Nodes
      /\ dest \in Slots => token[dest] = None /\ Idle(dest)
      /\ dest = "self" => "self" \in Client /\ captured = None
      /\ captured # None =>
           "capture" \in Client /\ token[captured] # None /\ Idle(captured) /\ captured # dest
      /\ token' = IF captured = None THEN token
                  ELSE [token EXCEPT ![n] = token[captured], ![captured] = None]
      /\ Enter(t, [NoFrame EXCEPT !.op = "connect", !.pc = "push", !.key = key,
                                  !.node = n, !.refs = <<n>>])
      /\ count' = [nodes |-> n, calls |-> count.calls + 1]
      /\ past' = [past EXCEPT !.before[n] = past.joined]
      /\ UNCHANGED <<pubAlive, list, lock>>

PushBack(t) ==
  /\ At(t, "push")
  /\ LockUnique(t)
  /\ list' = Append(list, Top(t).node)
  /\ Goto(t, "pushed")
  /\ UNCHANGED <<pubAlive, token, count, past>>

\* make_shared throws, before the lock is asked for; or push_back, and the lock is
\* released.  The handler is dropped.
PushBackFails(t) ==
  /\ At(t, "push")
  /\ \/ "sub_alloc" \in Faults
     \/ "push_alloc" \in Faults /\ lock.writer = None /\ lock.readers = {}
  /\ Continue(t, [Top(t) EXCEPT !.pc = "release", !.key = None])
  /\ UNCHANGED <<pubAlive, list, lock, token, count, past>>

UnlockPushed(t) ==
  /\ At(t, "pushed")
  /\ Unlock(t)
  /\ Goto(t, "token")
  /\ UNCHANGED <<pubAlive, list, token, count, past>>

\* The subscription is made; the program has it when the call returns.
ReturnToken(t) ==
  /\ At(t, "token")
  /\ Goto(t, "release")
  /\ UNCHANGED <<pubAlive, list, lock, token, count, past>>

\* One of the two std::functions cannot be allocated.
ReturnTokenFails(t) ==
  /\ At(t, "token") /\ "token_alloc" \in Faults
  /\ Continue(t, [Top(t) EXCEPT !.pc = "release", !.key = None])
  /\ UNCHANGED <<pubAlive, list, lock, token, count, past>>

-----------------------------------------------------------------------------
(* disconnect(), the destructor and the move assignment of a subscription, *)
(* and connected(): what their lambdas do.                                 *)

Visit(op, k, from) ==
  [NoFrame EXCEPT !.op = op, !.pc = "ctrl", !.key = k, !.from = from,
                  !.node = token[k], !.late = Destroyed]

\* Bug: an empty subscription is not told from one that holds something.
DisconnectUnchecked(t, k) ==
  /\ MayCall(t) /\ k \in Reachable(t) /\ Idle(k)
  /\ Enter(t, Visit("disconnect", k, None))
  /\ past' = [past EXCEPT !.leaving = @ \cup {token[k]}]
  /\ Called
  /\ UNCHANGED <<pubAlive, list, lock, token>>

Disconnect(t, k) ==
  /\ MayCall(t) /\ k \in Reachable(t) /\ token[k] # None /\ Idle(k)
  /\ Enter(t, Visit("disconnect", k, None))
  /\ past' = [past EXCEPT !.leaving = @ \cup {token[k]}]
  /\ Called
  /\ UNCHANGED <<pubAlive, list, lock, token>>

Connected(t, k) ==
  /\ "connected" \in Client
  /\ MayCall(t) /\ k \in Reachable(t) /\ token[k] # None /\ Idle(k)
  /\ Enter(t, Visit("connected", k, None))
  /\ Called
  /\ UNCHANGED <<pubAlive, list, lock, token, past>>

\* Bug: the source of a move is left as it is.
MovedKeepsSource(from, to) == [token EXCEPT ![to] = token[from]]

Moved(from, to) == [token EXCEPT ![to] = token[from], ![from] = None]

\* Move construction, or assignment to a subscription that holds nothing.
Move(t, from, to) ==
  /\ "move" \in Client /\ MayCall(t) /\ from # to /\ Idle(from) /\ Idle(to)
  /\ token[from] # None /\ token[to] = None
  /\ token' = Moved(from, to)
  /\ Called
  /\ UNCHANGED <<pubAlive, list, lock, frame, depth, past>>

\* Otherwise the assignment disconnects first.
MoveAssign(t, from, to) ==
  /\ "move" \in Client /\ MayCall(t) /\ from # to /\ Idle(from) /\ Idle(to)
  /\ token[from] # None /\ token[to] # None
  /\ Enter(t, Visit("disconnect", to, from))
  /\ past' = [past EXCEPT !.leaving = @ \cup {token[to]}]
  /\ Called
  /\ UNCHANGED <<pubAlive, list, lock, token>>

LockCtrl(t) ==
  /\ At(t, "ctrl")
  /\ Continue(t, IF CtrlAlive THEN [Top(t) EXCEPT !.pc = "sub", !.ctrl = TRUE]
                              ELSE [Top(t) EXCEPT !.pc = "release"])
  /\ UNCHANGED <<pubAlive, list, lock, token, count, past>>

LockSub(t) ==
  LET n == Top(t).node
      next == IF Top(t).op = "disconnect" THEN "erase" ELSE "find"
  IN  /\ At(t, "sub")
      /\ Continue(t, IF Alive(n) THEN [Top(t) EXCEPT !.pc = next, !.refs = <<n>>]
                                 ELSE [Top(t) EXCEPT !.pc = "release"])
      /\ UNCHANGED <<pubAlive, list, lock, token, count, past>>

\* Bug: v.erase(it, v.end()).
WithoutFrom(s, n) == SubSeq(s, 1, SelectInSeq(s, LAMBDA m : m = n) - 1)

\* std::find, then v.erase(it).
Without(s, n) == RemoveFirst(s, n)

\* Bug: the reference is dropped before the lock.
EraseHoldingLock(t) ==
  /\ At(t, "erase")
  /\ LockUnique(t)
  /\ list' = Without(list, Top(t).node)
  /\ Goto(t, "release")
  /\ UNCHANGED <<pubAlive, token, count, past>>

Erase(t) ==
  /\ At(t, "erase")
  /\ LockUnique(t)
  /\ list' = Without(list, Top(t).node)
  /\ Goto(t, "erased")
  /\ UNCHANGED <<pubAlive, token, count, past>>

UnlockErased(t) ==
  /\ At(t, "erased")
  /\ Unlock(t)
  /\ Goto(t, "release")
  /\ UNCHANGED <<pubAlive, list, token, count, past>>

\* What is found is not recorded: nothing of the component's depends on it.
Find(t) ==
  /\ At(t, "find")
  /\ LockShared(t)
  /\ Goto(t, "found")
  /\ UNCHANGED <<pubAlive, list, token, count, past>>

UnlockFound(t) ==
  /\ At(t, "found")
  /\ Unlock(t)
  /\ Goto(t, "release")
  /\ UNCHANGED <<pubAlive, list, token, count, past>>

Count(t) ==
  /\ "count" \in Client /\ MayCall(t) /\ pubAlive
  /\ Enter(t, [NoFrame EXCEPT !.op = "count", !.pc = "find"])
  /\ Called
  /\ UNCHANGED <<pubAlive, list, lock, token, past>>

-----------------------------------------------------------------------------
(* operator().                                                             *)

Publish(t) ==
  /\ MayCall(t) /\ pubAlive
  /\ Enter(t, [NoFrame EXCEPT !.op = "publish", !.pc = "copy", !.ctrl = TRUE,
                              !.must = past.joined \ past.leaving, !.never = past.left])
  /\ Called
  /\ UNCHANGED <<pubAlive, list, lock, token, past>>

Snapshot(t) ==
  /\ At(t, "copy")
  /\ LockShared(t)
  /\ Continue(t, [Top(t) EXCEPT !.pc = "copied", !.refs = list])
  /\ UNCHANGED <<pubAlive, list, token, count, past>>

\* The copy throws: the lock is released, and nothing is invoked.
SnapshotFails(t) ==
  /\ At(t, "copy") /\ "snapshot_alloc" \in Faults
  /\ lock.writer = None
  /\ Goto(t, "release")
  /\ UNCHANGED <<pubAlive, list, lock, token, count, past>>

\* Bug: the lock is held for the whole publication.
UnlockCopiedLater(t) ==
  /\ At(t, "copied")
  /\ Goto(t, "loop")
  /\ UNCHANGED <<pubAlive, list, lock, token, count, past>>

UnlockCopied(t) ==
  /\ At(t, "copied")
  /\ Unlock(t)
  /\ Goto(t, "loop")
  /\ UNCHANGED <<pubAlive, list, token, count, past>>

\* Bug: the list is iterated, not the snapshot.
InvokeListed(t) ==
  /\ At(t, "loop") /\ Top(t).i < Len(list)
  /\ Continue(t, [Top(t) EXCEPT !.pc = "handler", !.i = @ + 1, !.refs = list])
  /\ UNCHANGED <<pubAlive, list, lock, token, count, past>>

Invoke(t) ==
  /\ At(t, "loop") /\ Top(t).i < Len(Top(t).refs)
  /\ Continue(t, [Top(t) EXCEPT !.pc = "handler", !.i = @ + 1])
  /\ UNCHANGED <<pubAlive, list, lock, token, count, past>>

HandlerReturns(t) ==
  /\ At(t, "handler")
  /\ Goto(t, "loop")
  /\ UNCHANGED <<pubAlive, list, lock, token, count, past>>

\* An exception of a handler leaves operator() and the rest is not invoked.
HandlerThrows(t) ==
  /\ At(t, "handler") /\ "throw" \in Faults
  /\ Goto(t, "release")
  /\ UNCHANGED <<pubAlive, list, lock, token, count, past>>

EndLoop(t) ==
  /\ At(t, "loop") /\ Top(t).i = Len(Top(t).refs)
  /\ Goto(t, "release")
  /\ UNCHANGED <<pubAlive, list, lock, token, count, past>>

-----------------------------------------------------------------------------
(* ~publisher.  connect() and subscriber_count() use *this to their end,   *)
(* so the program does not destroy it under them; a publication it may.    *)

DestroyPublisher(t) ==
  /\ "destroy" \in Client /\ MayCall(t) /\ pubAlive
  /\ \A c \in Calls : F(c).op # "count" /\ F(c).pc \notin {"push", "pushed", "token"}
  /\ pubAlive' = FALSE
  /\ Enter(t, [NoFrame EXCEPT !.op = "destroy", !.pc = "release", !.ctrl = TRUE])
  /\ Called
  /\ UNCHANGED <<list, lock, token, past>>

-----------------------------------------------------------------------------
(* The locals of a call are destroyed: its references to subscribers one   *)
(* by one, then its reference to the control block, whose end drops the    *)
(* references of the list.                                                 *)

\* Bug: a publication keeps plain pointers.
LastRefSansSnapshots(t, n) ==
  /\ n \notin ToSet(list) \cup ToSet(Tail(Top(t).refs))
  /\ \A c \in Calls \ {<<t, depth[t]>>} : F(c).op # "publish" => n \notin ToSet(F(c).refs)

\* The innermost call of t is about to drop the last reference to n.
LastRef(t, n) ==
  /\ n \notin ToSet(list) \cup ToSet(Tail(Top(t).refs))
  /\ \A c \in Calls \ {<<t, depth[t]>>} : n \notin ToSet(F(c).refs)

\* Bug: what the handler captured is not destroyed with it.
DropRefShallow(t) ==
  /\ At(t, "release") /\ Top(t).refs # <<>>
  /\ Continue(t, [Top(t) EXCEPT !.refs = Tail(@)])
  /\ UNCHANGED <<pubAlive, list, lock, token, count, past>>

DropRef(t) ==
  LET f == Top(t)
      n == Head(f.refs)
      rest == [f EXCEPT !.refs = Tail(@)]
  IN  /\ At(t, "release") /\ f.refs # <<>>
      /\ IF LastRef(t, n) /\ token[n] # None          \* ~subscription of the captured one
         THEN /\ depth[t] < MaxDepth
              /\ frame' = [frame EXCEPT ![t][depth[t]] = rest,
                                        ![t][depth[t] + 1] = Visit("disconnect", n, None)]
              /\ depth' = [depth EXCEPT ![t] = @ + 1]
              /\ past' = [past EXCEPT !.leaving = @ \cup {token[n]}]
         ELSE Continue(t, rest) /\ UNCHANGED past
      /\ UNCHANGED <<pubAlive, list, lock, token, count>>

DropCtrl(t) ==
  LET last == ~ pubAlive /\ \A c \in Calls \ {<<t, depth[t]>>} : ~ F(c).ctrl
  IN  /\ At(t, "release") /\ Top(t).refs = <<>> /\ Top(t).ctrl
      /\ Continue(t, [Top(t) EXCEPT !.ctrl = FALSE, !.refs = IF last THEN list ELSE <<>>])
      /\ list' = IF last THEN <<>> ELSE list
      /\ UNCHANGED <<pubAlive, lock, token, count, past>>

Finished(t, op) == At(t, "release") /\ Top(t).refs = <<>> /\ ~ Top(t).ctrl /\ Top(t).op = op

\* A handler that is gone already has no use for its own subscription.
ReturnConnect(t) ==
  LET f == Top(t) IN
  /\ Finished(t, "connect")
  /\ Leave(t)
  /\ IF f.key = None THEN UNCHANGED <<token, past>>           \* by an exception
     ELSE /\ token' = IF f.key = f.node /\ ~ Alive(f.node) THEN token
                      ELSE [token EXCEPT ![f.key] = f.node]
          /\ past' = [past EXCEPT !.joined = @ \cup {f.node}]
  /\ UNCHANGED <<pubAlive, list, lock, count>>

\* The subscription is empty, or takes over the one that is assigned to it.
ReturnDisconnect(t) ==
  LET f == Top(t) IN
  /\ Finished(t, "disconnect")
  /\ Leave(t)
  /\ token' = IF f.from = None THEN [token EXCEPT ![f.key] = None] ELSE Moved(f.from, f.key)
  /\ past' = [past EXCEPT !.left = @ \cup {f.node}]
  /\ UNCHANGED <<pubAlive, list, lock, count>>

Return(t) ==
  /\ \E op \in {"connected", "count", "publish", "destroy"} : Finished(t, op)
  /\ Leave(t)
  /\ UNCHANGED <<pubAlive, list, lock, token, count, past>>

-----------------------------------------------------------------------------
\* The steps of calls in progress; handlers return.
Proceed(t) ==
  \/ PushBack(t) \/ PushBackFails(t) \/ UnlockPushed(t)
  \/ ReturnToken(t) \/ ReturnTokenFails(t)
  \/ LockCtrl(t) \/ LockSub(t) \/ Erase(t) \/ UnlockErased(t) \/ Find(t) \/ UnlockFound(t)
  \/ Snapshot(t) \/ SnapshotFails(t) \/ UnlockCopied(t) \/ Invoke(t)
  \/ HandlerReturns(t) \/ HandlerThrows(t) \/ EndLoop(t)
  \/ DropRef(t) \/ DropCtrl(t)
  \/ ReturnConnect(t) \/ ReturnDisconnect(t) \/ Return(t)

Call(t) ==
  \/ \E dest \in Slots \cup {"self"}, captured \in Slots \cup {None} : Connect(t, dest, captured)
  \/ \E k \in Keys : Disconnect(t, k) \/ Connected(t, k)
  \/ \E from, to \in Slots : Move(t, from, to) \/ MoveAssign(t, from, to)
  \/ Publish(t) \/ Count(t) \/ DestroyPublisher(t)

Next == \E t \in Threads : Proceed(t) \/ Call(t)

Spec == Init /\ [][Next]_vars

\* The scheduler runs every thread, and a handler returns.
FairSpec == Spec /\ \A t \in Threads : WF_vars(Proceed(t))

-----------------------------------------------------------------------------
(* No user code and no destructor of it runs under the lock: a thread that *)
(* holds it is about to unlock it in its innermost call, and no writer     *)
(* shares it ("operator() does not hold the internal lock while invoking   *)
(* handlers"; the order of the locals lock, sp, ctrl in disconnect).       *)
LockInnermost ==
  /\ lock.writer # None => lock.readers = {}
  /\ \A t \in Threads : lock.writer = t => At(t, "pushed") \/ At(t, "erased")
  /\ \A t \in lock.readers : At(t, "found") \/ At(t, "copied")

(* A publication is for exactly the right handlers: all whose connect()    *)
(* had returned before operator() was called, unless a disconnect() has    *)
(* been called since, none whose disconnect() had returned before, each    *)
(* once, and one that joined before another was even asked to join comes   *)
(* first (connect, operator() and disconnect on any threads).              *)
Delivery ==
  \A c \in Calls : F(c).pc \in {"copied", "loop", "handler"} =>
    LET s == F(c).refs IN
    /\ F(c).must \ past.leaving \subseteq ToSet(s)
    /\ F(c).never \cap ToSet(s) = {}
    /\ \A j, k \in 1 .. Len(s) : j < k => s[j] # s[k] /\ s[k] \notin past.before[s[j]]

(* Every subscriber in the list can still be disconnected, and by one      *)
(* subscription only, through every sequence of moves, captures and        *)
(* destructions (the move operations of subscription), but for those of a  *)
(* connect() that has failed to allocate the token it was to return.       *)
Owners(n) == {k \in Keys : token[k] = n}
             \cup {c \in Calls : F(c).op = "connect" /\ F(c).node = n /\ F(c).key # None}
OwnedOnce == /\ \A n \in Nodes : Cardinality(Owners(n)) <= 1
             /\ \A n \in ToSet(list) : Owners(n) = {} =>
                  "token_alloc" \in Faults /\ n \notin past.joined

(* No subscription is destroyed or entered again while a call is inside    *)
(* it, handlers that end their own subscription included: the lambda that  *)
(* runs is never freed under its own feet ("No use-after-free is           *)
(* possible").                                                             *)
NotReentered ==
  \A c, d \in Calls : F(c).key # None /\ F(c).key \in {F(d).key, F(d).from} => c = d

(* Nothing is left behind: between calls a subscription captured by a      *)
(* handler belongs to a handler still in the list, and of a destroyed      *)
(* publisher there is no list (the weak references of the tokens, the      *)
(* order of destruction).                                                  *)
Reclaimed ==
  (\A t \in Threads : depth[t] = 0) =>
    /\ \A n \in Nodes : token[n] # None => n \in ToSet(list)
    /\ ~ pubAlive => list = <<>>

(* "Disconnect becomes a no-op once the publisher is destroyed": a call on *)
(* a subscription that begins after ~publisher has returned finds nothing. *)
NoOpOnceDestroyed == \A c \in Calls : F(c).late => ~ F(c).ctrl

(* Every call returns, handlers that call back into the publisher          *)
(* included: "reentrancy and recursive publication are deadlock-free".     *)
CallsReturn == \A t \in Threads : depth[t] > 0 ~> depth[t] = 0

(* Threads, locks and reference counts implement indivisible joins, quits  *)
(* and addressings.                                                        *)
Multicast == INSTANCE PubSub WITH
  Subscribers <- Nodes, Publications <- Calls, Nobody <- None,
  members <- list,
  due <- [c \in Calls |-> IF F(c).pc \in {"copied", "loop", "handler"}
                          THEN SubSeq(F(c).refs, F(c).i + 1, Len(F(c).refs)) ELSE <<>>],
  hears <- [c \in Calls |-> IF F(c).pc = "handler" THEN F(c).refs[F(c).i] ELSE None]

ImplementsPubSub == Multicast!PubSubSpec
=============================================================================
