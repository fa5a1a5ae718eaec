----------------------------- MODULE LogProofs -----------------------------
(* What the log's front end promises, for every number of threads, sinks   *)
(* and messages.                                                           *)
EXTENDS Log, SequenceTheorems, TLAPS

(***************************************************************************)
(* OnlySinksLockThemselves is not inductive: it says nothing of a mutex    *)
(* held before its owner asks for it again.  The invariant that is speaks  *)
(* of every frame: a thread holds the mutex exactly when one of its frames *)
(* is a dispatch or a clear, and what runs on top of such a frame was      *)
(* called by a sink that logs.                                             *)
(***************************************************************************)

\* Frames under which the mutex is held.
Locking == {"write", "destroy"}

PCs == {"check", "format", "lock", "write", "make", "construct", "discard", "destroy"}

Frames == [pc : PCs, arg : Messages \cup Sinks \cup {NoThread}, i : Nat \ {0}]

\* The mutex is held under the innermost frame of thread t, under the one below it.
TopHolds(t) == Len(stack[t]) \in {1, 2} /\ stack[t][1].pc \in Locking
BelowHolds(t) == Len(stack[t]) = 2 /\ stack[t][2].pc \in Locking

\* A locking frame that another rests on is at a sink that logs.
Logs(f) == f.pc \in Locking => f.i \in 1 .. Len(sinks) /\ KindOf[sinks[f.i]] = "chatty"

StackType ==
  /\ mtx \in Threads \cup {NoThread}
  /\ sinks \in Seq(Sinks)
  /\ stack \in [Threads -> Seq(Frames)]

ThreadInv(t) ==
  /\ Len(stack[t]) \in {0, 1, 2}
  /\ mtx = t <=> TopHolds(t) \/ BelowHolds(t)
  /\ ~ (TopHolds(t) /\ BelowHolds(t))
  /\ Len(stack[t]) = 2 => Logs(stack[t][2])

StackInv == StackType /\ \A t \in Threads : ThreadInv(t)

\* A frame made by the code has the type of a frame.
LEMMA FrameType ==
  ASSUME NEW pc \in PCs, NEW arg \in Messages \cup Sinks \cup {NoThread}, NEW i \in Nat \ {0}
  PROVE  /\ Frame(pc, arg, i) \in Frames /\ Frame(pc, arg, i).pc = pc
         /\ Frame(pc, arg, i).i = i /\ Frame(pc, arg, i).arg = arg
BY DEF Frame, Frames

(***************************************************************************)
(* What a push, a replacement and a return do to a stack.                  *)
(***************************************************************************)

\* A sequence without its first element.
LEMMA TailOf ==
  ASSUME NEW s \in Seq(Frames), s # <<>>
  PROVE  /\ Head(s) = s[1] /\ s[1] \in Frames /\ Tail(s) \in Seq(Frames)
         /\ Len(Tail(s)) = Len(s) - 1 /\ Len(s) \in Nat \ {0}
         /\ Len(s) = 2 => Tail(s)[1] = s[2]
<1>1. Tail(s) \in Seq(Frames) /\ Len(Tail(s)) = Len(s) - 1 /\ Head(s) = s[1]
      /\ Len(s) \in Nat \ {0} /\ s[1] \in Frames
      /\ \A k \in 1 .. Len(s) - 1 : Tail(s)[k] = s[k + 1]
  BY HeadTailProperties
<1>2. Len(s) = 2 => Tail(s)[1] = s[1 + 1]
  <2>1. Len(s) = 2 => 1 \in 1 .. Len(s) - 1
    OBVIOUS
  <2> QED
    BY <2>1, <1>1
<1> QED
  BY <1>1, <1>2

\* A frame put on a sequence.
LEMMA OnTop ==
  ASSUME NEW f \in Frames, NEW s \in Seq(Frames)
  PROVE  /\ <<f>> \o s \in Seq(Frames) /\ Len(<<f>> \o s) = Len(s) + 1
         /\ (<<f>> \o s)[1] = f
         /\ Len(s) = 1 => (<<f>> \o s)[2] = s[1]
<1>1. <<f>> \o s \in Seq(Frames) /\ Len(<<f>> \o s) = Len(s) + 1
      /\ (<<f>> \o s)[1] = f
      /\ \A k \in 1 .. Len(s) : (<<f>> \o s)[k + 1] = s[k]
  OBVIOUS
<1>2. Len(s) = 1 => (<<f>> \o s)[1 + 1] = s[1]
  BY <1>1
<1> QED
  BY <1>1, <1>2

\* The innermost frame.
LEMMA TopFacts ==
  ASSUME StackInv, NEW t \in Threads, ~ Idle(t)
  PROVE  Len(stack[t]) \in {1, 2} /\ Top(t) = stack[t][1] /\ Top(t) \in Frames
<1>1. stack[t] \in Seq(Frames) /\ stack[t] # <<>> /\ Len(stack[t]) \in {0, 1, 2}
  BY DEF StackInv, StackType, ThreadInv, Idle
<1>2. Len(stack[t]) # 0 /\ Head(stack[t]) = stack[t][1] /\ stack[t][1] \in Frames
  BY <1>1, TailOf
<1> QED
  BY <1>1, <1>2 DEF Top

\* The stack of t alone changes.
Alone(t) == stack' = [stack EXCEPT ![t] = stack'[t]] /\ stack'[t] \in Seq(Frames)

\* A call that goes on leaves the frame below it alone.
LEMMA BecomeShape ==
  ASSUME StackInv, NEW t \in Threads, ~ Idle(t), NEW f \in Frames, Become(t, f)
  PROVE  /\ Alone(t) /\ stack'[t][1] = f
         /\ Len(stack'[t]) = Len(stack[t])
         /\ Len(stack[t]) = 2 => stack'[t][2] = stack[t][2]
<1> DEFINE r == Tail(stack[t])
           s == <<f>> \o r
<1>1. stack[t] \in Seq(Frames) /\ stack[t] # <<>>
  BY DEF StackInv, StackType, Idle
<1>2. stack' = [stack EXCEPT ![t] = s] /\ stack'[t] = s
  BY DEF StackInv, StackType, Become
<1>3. r \in Seq(Frames) /\ Len(r) = Len(stack[t]) - 1 /\ Len(stack[t]) \in {1, 2}
      /\ (Len(stack[t]) = 2 => r[1] = stack[t][2])
  BY <1>1, TailOf, TopFacts
<1> HIDE DEF r
<1>4. s \in Seq(Frames) /\ Len(s) = Len(r) + 1 /\ s[1] = f /\ (Len(r) = 1 => s[2] = r[1])
  BY <1>3, OnTop
<1> HIDE DEF s
<1>5. CASE Len(stack[t]) = 1
  <2>1. Len(r) = 0
    BY <1>3, <1>5
  <2>2. Len(s) = 1
    BY <1>4, <2>1
  <2>3. Len(stack'[t]) = Len(stack[t])
    BY <2>2, <1>2, <1>5
  <2>4. Len(stack[t]) # 2
    BY <1>5
  <2> QED
    BY <2>3, <2>4, <1>2, <1>4 DEF Alone
<1>6. CASE Len(stack[t]) = 2
  <2>1. Len(r) = 1 /\ Len(s) = 2
    BY <1>3, <1>4, <1>6
  <2> QED
    BY <2>1, <1>2, <1>3, <1>4, <1>6 DEF Alone
<1> QED
  BY <1>3, <1>5, <1>6

\* A call that returns uncovers the frame below it.
LEMMA ReturnShape ==
  ASSUME StackInv, NEW t \in Threads, ~ Idle(t), Return(t)
  PROVE  /\ Alone(t)
         /\ Len(stack[t]) = 1 => Len(stack'[t]) = 0
         /\ Len(stack[t]) = 2 => Len(stack'[t]) = 1 /\ stack'[t][1] = stack[t][2]
<1> DEFINE r == Tail(stack[t])
<1>1. stack[t] \in Seq(Frames) /\ stack[t] # <<>>
  BY DEF StackInv, StackType, Idle
<1>2. stack' = [stack EXCEPT ![t] = r] /\ stack'[t] = r
  BY DEF StackInv, StackType, Return
<1>3. r \in Seq(Frames) /\ Len(r) = Len(stack[t]) - 1
      /\ (Len(stack[t]) = 2 => r[1] = stack[t][2])
  BY <1>1, TailOf
<1> HIDE DEF r
<1>4. (Len(stack[t]) = 1 => Len(r) = 0) /\ (Len(stack[t]) = 2 => Len(r) = 1)
  BY <1>3
<1> QED
  BY <1>2, <1>3, <1>4 DEF Alone

\* A call made on top of another covers its frame.
LEMMA PushShape ==
  ASSUME StackInv, NEW t \in Threads, NEW f \in Frames, Push(t, f)
  PROVE  /\ Alone(t) /\ stack'[t][1] = f
         /\ Len(stack[t]) = 0 => Len(stack'[t]) = 1
         /\ Len(stack[t]) = 1 => Len(stack'[t]) = 2 /\ stack'[t][2] = stack[t][1]
<1> DEFINE s == <<f>> \o stack[t]
<1>1. stack[t] \in Seq(Frames)
  BY DEF StackInv, StackType
<1>2. stack' = [stack EXCEPT ![t] = s] /\ stack'[t] = s
  BY DEF StackInv, StackType, Push
<1>3. s \in Seq(Frames) /\ Len(s) = Len(stack[t]) + 1 /\ s[1] = f
      /\ (Len(stack[t]) = 1 => s[2] = stack[t][1])
  BY <1>1, OnTop
<1> HIDE DEF s
<1>4. Len(stack[t]) = 0 => Len(s) = 1
  BY <1>3
<1>5. Len(stack[t]) = 1 => Len(s) = 2
  BY <1>3
<1> QED
  BY <1>2, <1>3, <1>4, <1>5 DEF Alone
-----------------------------------------------------------------------------
(* The kinds of steps.                                                     *)

\* A step of thread t changes t's stack alone.  It keeps the invariant of the
\* others if it leaves the mutex and the sinks to them, and changes either only
\* while no other thread has the mutex.
LEMMA OneStack ==
  ASSUME StackInv, NEW t \in Threads, Alone(t),
         mtx' = mtx \/ (mtx \in {NoThread, t} /\ mtx' \in {NoThread, t}),
         sinks' = sinks \/ (mtx \in {NoThread, t} /\ sinks' \in Seq(Sinks)),
         ThreadInv(t)'
  PROVE  StackInv'
<1>1. StackType'
  BY DEF StackInv, StackType, Alone
<1>2. ASSUME NEW u \in Threads, u # t
      PROVE  ThreadInv(u)'
  <2>1. stack'[u] = stack[u] /\ ThreadInv(u) /\ u # NoThread
    BY <1>2, ThreadsAssumption DEF StackInv, StackType, Alone
  <2>2. (TopHolds(u)' <=> TopHolds(u)) /\ (BelowHolds(u)' <=> BelowHolds(u))
    BY <2>1 DEF TopHolds, BelowHolds
  <2>3. mtx' = u <=> mtx = u
    BY <1>2, <2>1
  <2>4. Logs(stack[u][2]) /\ Len(stack[u]) = 2 => Logs(stack[u][2])'
    <3>1. CASE sinks' = sinks
      BY <3>1, <2>1 DEF Logs
    <3>2. CASE mtx \in {NoThread, t}
      <4>1. mtx # u
        BY <3>2, <1>2, <2>1
      <4>2. Len(stack[u]) = 2 => stack[u][2].pc \notin Locking
        BY <4>1, <2>1 DEF ThreadInv, BelowHolds
      <4> QED
        BY <4>2, <2>1 DEF Logs
    <3> QED
      BY <3>1, <3>2
  <2> QED
    BY <2>1, <2>2, <2>3, <2>4 DEF ThreadInv
<1> QED
  BY <1>1, <1>2 DEF StackInv

\* A call goes on, and holds the mutex after the step if it did before.
LEMMA GoesOn ==
  ASSUME StackInv, NEW t \in Threads, ~ Idle(t), NEW f \in Frames, Become(t, f),
         f.pc \in Locking <=> Top(t).pc \in Locking, UNCHANGED <<mtx, sinks>>
  PROVE  StackInv'
<1>1. Alone(t) /\ stack'[t][1] = f /\ Len(stack'[t]) = Len(stack[t])
      /\ (Len(stack[t]) = 2 => stack'[t][2] = stack[t][2])
  BY BecomeShape
<1>2. ThreadInv(t) /\ Top(t) = stack[t][1]
  BY TopFacts DEF StackInv
<1>3. (TopHolds(t)' <=> TopHolds(t)) /\ (BelowHolds(t)' <=> BelowHolds(t))
  BY <1>1, <1>2 DEF TopHolds, BelowHolds
<1>4. ThreadInv(t)'
  BY <1>1, <1>2, <1>3 DEF ThreadInv, Logs
<1> QED
  BY <1>1, <1>4, OneStack

\* When a call returns, the call below it is the one that may hold the mutex.
LEMMA Returns ==
  ASSUME StackInv, NEW t \in Threads, ~ Idle(t), Return(t)
  PROVE  Alone(t) /\ Len(stack'[t]) \in {0, 1} /\ (TopHolds(t)' <=> BelowHolds(t))
<1>1. Alone(t)
      /\ (Len(stack[t]) = 1 => Len(stack'[t]) = 0)
      /\ (Len(stack[t]) = 2 => Len(stack'[t]) = 1 /\ stack'[t][1] = stack[t][2])
  BY ReturnShape
<1>2. Len(stack[t]) \in {1, 2}
  BY TopFacts
<1> QED
  BY <1>1, <1>2 DEF TopHolds, BelowHolds

\* A call returns that does not hold the mutex.
LEMMA Leaves ==
  ASSUME StackInv, NEW t \in Threads, ~ Idle(t), Return(t),
         Top(t).pc \notin Locking, UNCHANGED <<mtx, sinks>>
  PROVE  StackInv'
<1>1. Alone(t) /\ Len(stack'[t]) \in {0, 1} /\ (TopHolds(t)' <=> BelowHolds(t))
  BY Returns
<1>2. ThreadInv(t) /\ ~ TopHolds(t)
  BY TopFacts DEF StackInv, TopHolds
<1>3. ThreadInv(t)'
  BY <1>1, <1>2 DEF ThreadInv, BelowHolds
<1> QED
  BY <1>1, <1>3, OneStack

\* A call returns and unlocks the mutex; the sinks may be gone.
LEMMA Unlocks ==
  ASSUME StackInv, NEW t \in Threads, ~ Idle(t), Return(t), Top(t).pc \in Locking,
         mtx' = NoThread, sinks' \in Seq(Sinks)
  PROVE  StackInv'
<1>1. Alone(t) /\ Len(stack'[t]) \in {0, 1} /\ (TopHolds(t)' <=> BelowHolds(t))
  BY Returns
<1>2. ThreadInv(t) /\ TopHolds(t) /\ t # NoThread
  BY TopFacts, ThreadsAssumption DEF StackInv, TopHolds
<1>3. mtx = t /\ ~ BelowHolds(t)
  BY <1>2 DEF ThreadInv
<1>4. ThreadInv(t)'
  BY <1>1, <1>2, <1>3 DEF ThreadInv, BelowHolds
<1> QED
  BY <1>1, <1>3, <1>4, OneStack

\* User code calls: what it calls does not hold the mutex yet.
LEMMA Calls ==
  ASSUME StackInv, NEW t \in Threads, UserCode(t), NEW f \in Frames, Push(t, f),
         f.pc \notin Locking, UNCHANGED <<mtx, sinks>>
  PROVE  StackInv'
<1>1. Alone(t) /\ stack'[t][1] = f
      /\ (Len(stack[t]) = 0 => Len(stack'[t]) = 1)
      /\ (Len(stack[t]) = 1 => Len(stack'[t]) = 2 /\ stack'[t][2] = stack[t][1])
  BY PushShape
<1>2. ThreadInv(t) /\ ~ TopHolds(t)'
  BY <1>1 DEF StackInv, TopHolds
<1>3. CASE Idle(t)
  <2>1. Len(stack[t]) = 0
    BY <1>3 DEF Idle
  <2>2. ~ TopHolds(t) /\ ~ BelowHolds(t) /\ ~ BelowHolds(t)' /\ Len(stack'[t]) = 1
    BY <2>1, <1>1 DEF TopHolds, BelowHolds
  <2>3. ThreadInv(t)'
    BY <2>2, <1>2 DEF ThreadInv
  <2> QED
    BY <1>1, <2>3, OneStack
<1>4. CASE ~ Idle(t)
  <2>1. Len(stack[t]) = 1 /\ Top(t) = stack[t][1] /\ Top(t) \in Frames
    BY <1>4, TopFacts DEF UserCode
  <2>2. Logs(stack[t][1])
    <3>1. SUFFICES ASSUME Top(t).pc \in Locking
                   PROVE  Top(t).i \in 1 .. Len(sinks) /\ KindOf[sinks[Top(t).i]] = "chatty"
      BY <2>1 DEF Logs
    <3>2. Top(t).i <= Len(sinks) /\ KindOf[sinks[Top(t).i]] = "chatty"
      BY <1>4, <3>1 DEF UserCode, At, Locking
    <3>3. Top(t).i \in Nat \ {0} /\ Len(sinks) \in Nat
      BY <2>1 DEF Frames, StackInv, StackType
    <3> QED
      BY <3>2, <3>3
  <2>3. Len(stack'[t]) = 2 /\ stack'[t][2] = stack[t][1]
    BY <2>1, <1>1
  <2>4. (BelowHolds(t)' <=> TopHolds(t)) /\ ~ BelowHolds(t)
    BY <2>1, <2>3 DEF TopHolds, BelowHolds
  <2>5. Logs(stack[t][2])'
    BY <2>2, <2>3 DEF Logs
  <2>6. ThreadInv(t)'
    BY <2>3, <2>4, <2>5, <1>2 DEF ThreadInv
  <2> QED
    BY <1>1, <2>6, OneStack
<1> QED
  BY <1>3, <1>4

\* The lock is taken by a call that has no frame yet, or becomes one that holds it.
LEMMA Locks ==
  ASSUME StackInv, NEW t \in Threads, NEW f \in Frames, f.pc \in Locking,
         (Idle(t) /\ Push(t, f)) \/ (~ Idle(t) /\ Become(t, f)),
         mtx = NoThread, mtx' = t, sinks' = sinks
  PROVE  StackInv'
<1>1. ThreadInv(t) /\ t # NoThread
  BY ThreadsAssumption DEF StackInv
<1>2. ~ TopHolds(t) /\ ~ BelowHolds(t)
  BY <1>1 DEF ThreadInv
<1>3. Alone(t) /\ stack'[t][1] = f /\ Len(stack'[t]) \in {1, 2}
      /\ (Len(stack'[t]) = 2 => stack'[t][2].pc \notin Locking)
  <2>1. CASE Idle(t) /\ Push(t, f)
    <3>1. Len(stack[t]) = 0
      BY <2>1 DEF Idle
    <3>2. Alone(t) /\ stack'[t][1] = f /\ Len(stack'[t]) = 1
      BY <2>1, <3>1, PushShape
    <3> QED
      BY <3>2
  <2>2. CASE ~ Idle(t) /\ Become(t, f)
    <3>1. Len(stack[t]) \in {1, 2}
      BY <2>2, TopFacts
    <3>2. Alone(t) /\ stack'[t][1] = f /\ Len(stack'[t]) = Len(stack[t])
          /\ (Len(stack[t]) = 2 => stack'[t][2] = stack[t][2])
      BY <2>2, BecomeShape
    <3> QED
      BY <3>1, <3>2, <1>2 DEF BelowHolds
  <2> QED
    BY <2>1, <2>2
<1>4. TopHolds(t)' /\ ~ BelowHolds(t)' /\ (Len(stack'[t]) = 2 => Logs(stack[t][2])')
  BY <1>3 DEF TopHolds, BelowHolds, Logs
<1>5. ThreadInv(t)'
  BY <1>3, <1>4 DEF ThreadInv
<1> QED
  BY <1>3, <1>5, OneStack

\* The sinks change while nobody holds the mutex.
LEMMA Between ==
  ASSUME StackInv, UNCHANGED <<stack, mtx>>,
         sinks' = sinks \/ (mtx = NoThread /\ sinks' \in Seq(Sinks))
  PROVE  StackInv'
<1>1. StackType'
  BY DEF StackInv, StackType
<1>2. ASSUME NEW u \in Threads
      PROVE  ThreadInv(u)'
  <2>1. ThreadInv(u) /\ u # NoThread
    BY ThreadsAssumption DEF StackInv
  <2>2. (TopHolds(u)' <=> TopHolds(u)) /\ (BelowHolds(u)' <=> BelowHolds(u))
    BY DEF TopHolds, BelowHolds
  <2>3. Len(stack[u]) = 2 => Logs(stack[u][2])'
    <3>1. CASE sinks' = sinks
      BY <3>1, <2>1 DEF ThreadInv, Logs
    <3>2. CASE mtx = NoThread
      BY <3>2, <2>1 DEF ThreadInv, TopHolds, BelowHolds, Logs
    <3> QED
      BY <3>1, <3>2
  <2> QED
    BY <2>1, <2>2, <2>3 DEF ThreadInv
<1> QED
  BY <1>1, <1>2 DEF StackInv
-----------------------------------------------------------------------------
(* The steps.                                                              *)

\* The frames a thread is at, and what they carry.
LEMMA AtFacts ==
  ASSUME StackInv, NEW t \in Threads, NEW pc, At(t, pc)
  PROVE  ~ Idle(t) /\ Top(t).pc = pc /\ Top(t).arg \in Messages \cup Sinks \cup {NoThread}
         /\ Top(t).i \in Nat \ {0} /\ Top(t).i + 1 \in Nat \ {0}
<1>1. ~ Idle(t) /\ Top(t).pc = pc
  BY DEF At
<1>2. Top(t) \in Frames
  BY <1>1, TopFacts DEF StackInv
<1> QED
  BY <1>1, <1>2 DEF Frames

\* What the program calls keeps the invariant.
LEMMA ProgramKeeps ==
  ASSUME StackInv, NEW t \in Threads, Program(t)
  PROVE  StackInv'
<1>1. ASSUME NEW l \in SetLevels, SetLevel(t, l)
      PROVE  StackInv'
  BY <1>1, Between DEF SetLevel
<1>2. ASSUME NEW fmt \in BOOLEAN, Begin(t, fmt)
      PROVE  StackInv'
  <2>1. PICK m \in Messages : Push(t, Frame(IF fmt THEN "check" ELSE "lock", m, 1))
    BY <1>2 DEF Begin
  <2> DEFINE f == Frame(IF fmt THEN "check" ELSE "lock", m, 1)
  <2>2. f \in Frames /\ f.pc \notin Locking
    <3>1. (IF fmt THEN "check" ELSE "lock") \in PCs \ Locking
      BY DEF PCs, Locking
    <3> QED
      BY <3>1, FrameType
  <2>3. UserCode(t) /\ UNCHANGED <<mtx, sinks>>
    BY <1>2 DEF Begin
  <2> QED
    BY <2>1, <2>2, <2>3, Calls
<1>3. ASSUME NEW s \in Sinks, MakeSink(t, s)
      PROVE  StackInv'
  <2>1. Frame("make", s, 1) \in Frames /\ Frame("make", s, 1).pc \notin Locking
    BY FrameType DEF PCs, Locking
  <2>2. UserCode(t) /\ Push(t, Frame("make", s, 1)) /\ UNCHANGED <<mtx, sinks>>
    BY <1>3 DEF MakeSink, UserCode
  <2> QED
    BY <2>1, <2>2, Calls
<1>4. ASSUME NEW s \in Sinks, AddSink(t, s) \/ ReleaseSink(t, s)
      PROVE  StackInv'
  <2>1. CASE Push(t, Frame("discard", s, 1)) /\ Idle(t) /\ UNCHANGED <<mtx, sinks>>
    <3>1. Frame("discard", s, 1) \in Frames /\ Frame("discard", s, 1).pc \notin Locking
      BY FrameType DEF PCs, Locking
    <3>2. UserCode(t)
      BY <2>1 DEF UserCode
    <3> QED
      BY <3>1, <3>2, <2>1, Calls
  <2>2. CASE sinks' = Append(sinks, s) /\ mtx = NoThread /\ UNCHANGED <<stack, mtx>>
    <3>1. sinks' \in Seq(Sinks)
      BY <2>2 DEF StackInv, StackType
    <3> QED
      BY <3>1, <2>2, Between
  <2> QED
    BY <1>4, <2>1, <2>2 DEF AddSink, ReleaseSink, Locked
<1>5. ASSUME ClearSinks(t)
      PROVE  StackInv'
  <2>1. Frame("destroy", NoThread, 1) \in Frames /\ Frame("destroy", NoThread, 1).pc \in Locking
    BY FrameType DEF PCs, Locking
  <2> QED
    BY <1>5, <2>1, Locks DEF ClearSinks, Locked
<1> QED
  BY <1>1, <1>2, <1>3, <1>4, <1>5 DEF Program, LogString, LogFormat

\* The steps of a log call keep the invariant.
LEMMA LoggingKeeps ==
  ASSUME StackInv, NEW t \in Threads,
         CheckLevel(t) \/ Formatted(t) \/ LogMessage(t) \/ WriteSink(t) \/ EndMessage(t)
  PROVE  StackInv'
<1>1. CASE CheckLevel(t)
  <2>1. ~ Idle(t) /\ Top(t).pc = "check" /\ Top(t).arg \in Messages \cup Sinks \cup {NoThread}
        /\ UNCHANGED <<mtx, sinks>>
    BY <1>1, AtFacts DEF CheckLevel
  <2>2. Top(t).pc \notin Locking
    BY <2>1 DEF Locking
  <2>3. Frame("format", Top(t).arg, 1) \in Frames
        /\ Frame("format", Top(t).arg, 1).pc \notin Locking
    BY <2>1, FrameType DEF PCs, Locking
  <2>4. Become(t, Frame("format", Top(t).arg, 1)) \/ Return(t)
    BY <1>1 DEF CheckLevel
  <2> QED
    BY <2>1, <2>2, <2>3, <2>4, GoesOn, Leaves
<1>2. CASE Formatted(t)
  <2>1. ~ Idle(t) /\ Top(t).pc = "format" /\ Top(t).arg \in Messages \cup Sinks \cup {NoThread}
        /\ UNCHANGED <<mtx, sinks>>
    BY <1>2, AtFacts DEF Formatted
  <2>2. Top(t).pc \notin Locking
    BY <2>1 DEF Locking
  <2>3. Frame("lock", Top(t).arg, 1) \in Frames /\ Frame("lock", Top(t).arg, 1).pc \notin Locking
    BY <2>1, FrameType DEF PCs, Locking
  <2>4. Become(t, Frame("lock", Top(t).arg, 1)) \/ Return(t)
    BY <1>2 DEF Formatted
  <2> QED
    BY <2>1, <2>2, <2>3, <2>4, GoesOn, Leaves
<1>3. CASE LogMessage(t)
  <2>1. ~ Idle(t) /\ Top(t).pc = "lock" /\ Top(t).arg \in Messages \cup Sinks \cup {NoThread}
        /\ mtx = NoThread /\ sinks' = sinks
    BY <1>3, AtFacts DEF LogMessage, Locked
  <2>2. Top(t).pc \notin Locking
    BY <2>1 DEF Locking
  <2>3. Frame("write", Top(t).arg, 1) \in Frames /\ Frame("write", Top(t).arg, 1).pc \in Locking
    BY <2>1, FrameType DEF PCs, Locking
  <2>4. \/ Return(t) /\ UNCHANGED mtx
        \/ Become(t, Frame("write", Top(t).arg, 1)) /\ mtx' = t
    BY <1>3 DEF LogMessage
  <2> QED
    BY <2>1, <2>2, <2>3, <2>4, Leaves, Locks
<1>4. CASE WriteSink(t)
  <2>1. ~ Idle(t) /\ Top(t).pc = "write" /\ Top(t).arg \in Messages \cup Sinks \cup {NoThread}
        /\ Top(t).i + 1 \in Nat \ {0} /\ UNCHANGED <<mtx, sinks>>
        /\ Become(t, Frame("write", Top(t).arg, Top(t).i + 1))
    BY <1>4, AtFacts DEF WriteSink
  <2>2. Frame("write", Top(t).arg, Top(t).i + 1) \in Frames
        /\ Frame("write", Top(t).arg, Top(t).i + 1).pc \in Locking
    BY <2>1, FrameType DEF PCs, Locking
  <2> QED
    BY <2>1, <2>2, GoesOn DEF Locking
<1>5. CASE EndMessage(t)
  <2>1. ~ Idle(t) /\ Top(t).pc = "write" /\ mtx' = NoThread /\ sinks' = sinks /\ Return(t)
    BY <1>5, AtFacts DEF EndMessage
  <2>2. Top(t).pc \in Locking /\ sinks' \in Seq(Sinks)
    BY <2>1 DEF Locking, StackInv, StackType
  <2> QED
    BY <2>1, <2>2, Unlocks
<1> QED
  BY <1>1, <1>2, <1>3, <1>4, <1>5

\* The steps that make, discard and clear sinks keep the invariant.
LEMMA SinkStepsKeep ==
  ASSUME StackInv, NEW t \in Threads,
         \/ OpenLogger(t) \/ OpenFails(t) \/ Construct(t) \/ DiscardSink(t)
         \/ ClearNext(t) \/ ClearDone(t)
  PROVE  StackInv'
<1>1. CASE OpenLogger(t)
  <2>1. ~ Idle(t) /\ Top(t).pc = "make" /\ Top(t).arg \in Messages \cup Sinks \cup {NoThread}
        /\ UNCHANGED <<mtx, sinks>> /\ Become(t, Frame("construct", Top(t).arg, 1))
    BY <1>1, AtFacts DEF OpenLogger
  <2>2. Frame("construct", Top(t).arg, 1) \in Frames
        /\ Frame("construct", Top(t).arg, 1).pc \notin Locking
    BY <2>1, FrameType DEF PCs, Locking
  <2> QED
    BY <2>1, <2>2, GoesOn DEF Locking
<1>2. CASE OpenFails(t) \/ Construct(t) \/ DiscardSink(t)
  <2>1. ~ Idle(t) /\ Top(t).pc \in {"make", "construct", "discard"} /\ UNCHANGED <<mtx, sinks>>
        /\ Return(t)
    BY <1>2, AtFacts DEF OpenFails, Construct, DiscardSink
  <2>2. Top(t).pc \notin Locking
    BY <2>1 DEF Locking
  <2> QED
    BY <2>1, <2>2, Leaves
<1>3. CASE ClearNext(t)
  <2>1. ~ Idle(t) /\ Top(t).pc = "destroy" /\ Top(t).i + 1 \in Nat \ {0} /\ UNCHANGED <<mtx, sinks>>
        /\ Become(t, Frame("destroy", NoThread, Top(t).i + 1))
    BY <1>3, AtFacts DEF ClearNext
  <2>2. Frame("destroy", NoThread, Top(t).i + 1) \in Frames
        /\ Frame("destroy", NoThread, Top(t).i + 1).pc \in Locking
    BY <2>1, FrameType DEF PCs, Locking
  <2> QED
    BY <2>1, <2>2, GoesOn DEF Locking
<1>4. CASE ClearDone(t)
  <2>1. ~ Idle(t) /\ Top(t).pc = "destroy" /\ mtx' = NoThread /\ sinks' = <<>> /\ Return(t)
    BY <1>4, AtFacts DEF ClearDone
  <2>2. Top(t).pc \in Locking /\ sinks' \in Seq(Sinks)
    BY <2>1 DEF Locking
  <2> QED
    BY <2>1, <2>2, Unlocks
<1> QED
  BY <1>1, <1>2, <1>3, <1>4

\* No call is in progress at the start, and the mutex is free.
LEMMA StackInit ==
  ASSUME Init
  PROVE  StackInv
<1>1. StackType
  BY DEF Init, StackType
<1>2. ASSUME NEW t \in Threads
      PROVE  ThreadInv(t)
  BY ThreadsAssumption DEF Init, ThreadInv, TopHolds, BelowHolds
<1> QED
  BY <1>1, <1>2 DEF StackInv

\* A thread that waits for its own mutex was called by a sink that logs.
LEMMA SelfLock ==
  ASSUME StackInv
  PROVE  OnlySinksLockThemselves
<1>1. SUFFICES ASSUME NEW t \in Threads, SelfLocked(t)
               PROVE  \E k \in 2 .. Len(stack[t]) :
                        stack[t][k].pc \in {"write", "destroy"}
                        /\ KindOf[sinks[stack[t][k].i]] = "chatty"
  BY DEF OnlySinksLockThemselves
<1>2. StackType /\ ThreadInv(t) /\ mtx = t
  BY <1>1 DEF StackInv, SelfLocked
<1>3. ~ Idle(t) /\ Top(t).pc \in {"check", "lock"}
  BY <1>1 DEF SelfLocked, At
<1>4. ~ TopHolds(t)
  BY <1>2, <1>3, TopFacts DEF TopHolds, BelowHolds, Locking
<1>5. BelowHolds(t)
  BY <1>2, <1>4 DEF ThreadInv
<1>6. Len(stack[t]) = 2
  BY <1>2, <1>3, <1>5, TopFacts DEF ThreadInv, TopHolds, BelowHolds
<1>7. stack[t][2].pc \in {"write", "destroy"} /\ KindOf[sinks[stack[t][2].i]] = "chatty"
  BY <1>2, <1>5, <1>6 DEF ThreadInv, TopHolds, BelowHolds, Logs, Locking
<1> QED
  BY <1>6, <1>7

-----------------------------------------------------------------------------
(***************************************************************************)
(* The calls in progress, counted from the outermost, so that a call keeps *)
(* its place while others come and go on top of it.                        *)
(***************************************************************************)

\* The b-th call in progress of thread t.
Has(t, b) == b \in 1 .. Len(stack[t])
Nth(t, b) == stack[t][Len(stack[t]) + 1 - b]

\* A step that changes no call in progress but the d-th of thread t.
Same(t, d) == \A u \in Threads : \A b \in {1, 2} : u # t \/ b # d =>
  (Has(u, b)' <=> Has(u, b)) /\ (Has(u, b) => Nth(u, b)' = Nth(u, b))

\* It makes that call, changes it, or returns from it.
Opens(t, d, f) ==
  /\ Same(t, d) /\ ~ Has(t, d) /\ Has(t, d)' /\ Nth(t, d)' = f
  /\ d = 1 => ~ Has(t, 2)'
  /\ d = 2 => Has(t, 1) /\ Nth(t, 1) = Top(t)
Changes(t, d, f) ==
  /\ Same(t, d) /\ Has(t, d) /\ Nth(t, d) = Top(t) /\ Has(t, d)' /\ Nth(t, d)' = f
  /\ d = 1 => ~ Has(t, 2)'
Ends(t, d) ==
  /\ Same(t, d) /\ Has(t, d) /\ Nth(t, d) = Top(t) /\ ~ Has(t, d)'
  /\ ~ Has(t, 2)'

\* Where the two calls a thread may have in progress are on its stack.
LEMMA Places ==
  ASSUME StackInv, NEW t \in Threads
  PROVE  /\ Len(stack[t]) \in {0, 1, 2}
         /\ Len(stack[t]) = 0 => ~ Has(t, 1) /\ ~ Has(t, 2)
         /\ Len(stack[t]) = 1 => Has(t, 1) /\ ~ Has(t, 2) /\ Nth(t, 1) = stack[t][1]
         /\ Len(stack[t]) = 2 => /\ Has(t, 1) /\ Nth(t, 1) = stack[t][2]
                                 /\ Has(t, 2) /\ Nth(t, 2) = stack[t][1]
         /\ \A b \in {1, 2} : Has(t, b) => Nth(t, b) \in Frames
<1>1. stack[t] \in Seq(Frames) /\ Len(stack[t]) \in {0, 1, 2}
  BY DEF StackInv, StackType, ThreadInv
<1>2. CASE Len(stack[t]) = 0
  BY <1>2, <1>1 DEF Has
<1>3. CASE Len(stack[t]) = 1
  <2>1. stack[t][1] \in Frames
    BY <1>1, <1>3
  <2> QED
    BY <2>1, <1>3 DEF Has, Nth
<1>4. CASE Len(stack[t]) = 2
  <2>1. stack[t][1] \in Frames /\ stack[t][2] \in Frames
    BY <1>1, <1>4
  <2> QED
    BY <2>1, <1>4 DEF Has, Nth
<1> QED
  BY <1>1, <1>2, <1>3, <1>4

\* Threads that take no step keep their calls.
LEMMA Elsewhere ==
  ASSUME StackInv, NEW t \in Threads, Alone(t)
  PROVE  \A u \in Threads : \A b \in {1, 2} : u # t =>
           (Has(u, b)' <=> Has(u, b)) /\ (Has(u, b) => Nth(u, b)' = Nth(u, b))
<1>1. \A u \in Threads : u # t => stack'[u] = stack[u]
  BY DEF Alone, StackInv, StackType
<1> QED
  BY <1>1 DEF Has, Nth

\* A call is made: from no other, or from the one on top.
LEMMA PushOpens ==
  ASSUME StackInv, StackInv', NEW t \in Threads, NEW f \in Frames, Push(t, f), UserCode(t)
  PROVE  \E d \in {1, 2} : Opens(t, d, f)
<1>1. Alone(t) /\ stack'[t][1] = f
      /\ (Len(stack[t]) = 0 => Len(stack'[t]) = 1)
      /\ (Len(stack[t]) = 1 => Len(stack'[t]) = 2 /\ stack'[t][2] = stack[t][1])
  BY PushShape
<1>2. \A u \in Threads : \A b \in {1, 2} : u # t =>
        (Has(u, b)' <=> Has(u, b)) /\ (Has(u, b) => Nth(u, b)' = Nth(u, b))
  BY <1>1, Elsewhere
<1>3. CASE Idle(t)
  <2>1. Len(stack[t]) = 0 /\ Len(stack'[t]) = 1
    BY <1>1, <1>3 DEF Idle
  <2>2. ~ Has(t, 1) /\ ~ Has(t, 2) /\ Has(t, 1)' /\ ~ Has(t, 2)' /\ Nth(t, 1)' = f
    BY <2>1, <1>1, Places DEF Has, Nth
  <2>3. Same(t, 1)
    BY <1>2, <2>2 DEF Same
  <2> QED
    BY <2>2, <2>3 DEF Opens
<1>4. CASE ~ Idle(t)
  <2>1. Len(stack[t]) = 1 /\ Len(stack'[t]) = 2 /\ stack'[t][2] = stack[t][1]
        /\ Top(t) = stack[t][1]
    BY <1>1, <1>4, TopFacts DEF UserCode
  <2>2. Has(t, 1) /\ ~ Has(t, 2) /\ Nth(t, 1) = Top(t)
    BY <2>1, Places
  <2>3. Has(t, 1)' /\ Has(t, 2)' /\ Nth(t, 1)' = Nth(t, 1) /\ Nth(t, 2)' = f
    BY <2>1, <1>1 DEF Has, Nth
  <2>4. Same(t, 2)
    BY <1>2, <2>2, <2>3 DEF Same
  <2> QED
    BY <2>2, <2>3, <2>4 DEF Opens
<1> QED
  BY <1>3, <1>4

\* A call goes on.
LEMMA BecomeChanges ==
  ASSUME StackInv, NEW t \in Threads, ~ Idle(t), NEW f \in Frames, Become(t, f)
  PROVE  \E d \in {1, 2} : Changes(t, d, f)
<1>1. Alone(t) /\ stack'[t][1] = f
      /\ Len(stack'[t]) = Len(stack[t])
      /\ (Len(stack[t]) = 2 => stack'[t][2] = stack[t][2])
  BY BecomeShape
<1>2. \A u \in Threads : \A b \in {1, 2} : u # t =>
        (Has(u, b)' <=> Has(u, b)) /\ (Has(u, b) => Nth(u, b)' = Nth(u, b))
  BY <1>1, Elsewhere
<1>3. Len(stack[t]) \in {1, 2} /\ Top(t) = stack[t][1]
  BY TopFacts
<1>4. CASE Len(stack[t]) = 1
  <2>1. Has(t, 1) /\ ~ Has(t, 2) /\ Nth(t, 1) = Top(t)
    BY <1>3, <1>4, Places
  <2>2. Has(t, 1)' /\ ~ Has(t, 2)' /\ Nth(t, 1)' = f
    BY <1>1, <1>4 DEF Has, Nth
  <2>3. Same(t, 1)
    BY <1>2, <2>1, <2>2 DEF Same
  <2> QED
    BY <2>1, <2>2, <2>3 DEF Changes
<1>5. CASE Len(stack[t]) = 2
  <2>1. Has(t, 1) /\ Has(t, 2) /\ Nth(t, 1) = stack[t][2] /\ Nth(t, 2) = Top(t)
    BY <1>3, <1>5, Places
  <2>2. Has(t, 1)' /\ Has(t, 2)' /\ Nth(t, 1)' = stack[t][2] /\ Nth(t, 2)' = f
    BY <1>1, <1>5 DEF Has, Nth
  <2>3. Same(t, 2)
    BY <1>2, <2>1, <2>2 DEF Same
  <2> QED
    BY <2>1, <2>2, <2>3 DEF Changes
<1> QED
  BY <1>3, <1>4, <1>5

\* A call returns.
LEMMA ReturnEnds ==
  ASSUME StackInv, NEW t \in Threads, ~ Idle(t), Return(t)
  PROVE  \E d \in {1, 2} : Ends(t, d)
<1>1. Alone(t)
      /\ (Len(stack[t]) = 1 => Len(stack'[t]) = 0)
      /\ (Len(stack[t]) = 2 => Len(stack'[t]) = 1 /\ stack'[t][1] = stack[t][2])
  BY ReturnShape
<1>2. \A u \in Threads : \A b \in {1, 2} : u # t =>
        (Has(u, b)' <=> Has(u, b)) /\ (Has(u, b) => Nth(u, b)' = Nth(u, b))
  BY <1>1, Elsewhere
<1>3. Len(stack[t]) \in {1, 2} /\ Top(t) = stack[t][1]
  BY TopFacts
<1>4. CASE Len(stack[t]) = 1
  <2>1. Has(t, 1) /\ ~ Has(t, 2) /\ Nth(t, 1) = Top(t)
    BY <1>3, <1>4, Places
  <2>2. ~ Has(t, 1)' /\ ~ Has(t, 2)'
    BY <1>1, <1>4 DEF Has, Nth
  <2>3. Same(t, 1)
    BY <1>2, <2>1, <2>2 DEF Same
  <2> QED
    BY <2>1, <2>2, <2>3 DEF Ends
<1>5. CASE Len(stack[t]) = 2
  <2>1. Has(t, 1) /\ Has(t, 2) /\ Nth(t, 1) = stack[t][2] /\ Nth(t, 2) = Top(t)
    BY <1>3, <1>5, Places
  <2>2. Has(t, 1)' /\ ~ Has(t, 2)' /\ Nth(t, 1)' = stack[t][2]
    BY <1>1, <1>5 DEF Has, Nth
  <2>3. Same(t, 2)
    BY <1>2, <2>1, <2>2 DEF Same
  <2> QED
    BY <2>1, <2>2, <2>3 DEF Ends
<1> QED
  BY <1>3, <1>4, <1>5

\* The mutex is held under one call only.
LEMMA OneHolder ==
  ASSUME StackInv, NEW t \in Threads, NEW a \in {1, 2}, Has(t, a), Nth(t, a).pc \in Locking
  PROVE  /\ mtx = t
         /\ \A u \in Threads : \A b \in {1, 2} :
              Has(u, b) /\ Nth(u, b).pc \in Locking => u = t /\ b = a
<1>1. \A u \in Threads : \A b \in {1, 2} :
        Has(u, b) /\ Nth(u, b).pc \in Locking =>
          /\ mtx = u /\ u # NoThread
          /\ b = 1 /\ Len(stack[u]) = 1 => TopHolds(u)
          /\ b = 1 /\ Len(stack[u]) = 2 => BelowHolds(u)
          /\ b = 2 => Len(stack[u]) = 2 /\ TopHolds(u)
  <2>1. SUFFICES ASSUME NEW u \in Threads, NEW b \in {1, 2}, Has(u, b), Nth(u, b).pc \in Locking
                 PROVE  /\ mtx = u /\ u # NoThread
                        /\ b = 1 /\ Len(stack[u]) = 1 => TopHolds(u)
                        /\ b = 1 /\ Len(stack[u]) = 2 => BelowHolds(u)
                        /\ b = 2 => Len(stack[u]) = 2 /\ TopHolds(u)
    OBVIOUS
  <2>2. Len(stack[u]) \in {1, 2} /\ u # NoThread /\ ThreadInv(u)
    BY <2>1, Places, ThreadsAssumption DEF StackInv
  <2>3. CASE Len(stack[u]) = 1
    <3>1. b = 1 /\ Nth(u, b) = stack[u][1]
      BY <2>1, <2>3, Places
    <3>2. TopHolds(u)
      BY <2>1, <2>3, <3>1 DEF TopHolds
    <3> QED
      BY <2>2, <2>3, <3>1, <3>2 DEF ThreadInv
  <2>4. CASE Len(stack[u]) = 2
    <3>1. (b = 1 => Nth(u, b) = stack[u][2]) /\ (b = 2 => Nth(u, b) = stack[u][1])
      BY <2>4, Places
    <3>2. (b = 1 => BelowHolds(u)) /\ (b = 2 => TopHolds(u))
      BY <2>1, <2>4, <3>1 DEF TopHolds, BelowHolds
    <3> QED
      BY <2>2, <2>4, <3>2 DEF ThreadInv
  <2> QED
    BY <2>2, <2>3, <2>4
<1>2. ASSUME NEW u \in Threads, NEW b \in {1, 2}, Has(u, b), Nth(u, b).pc \in Locking
      PROVE  u = t /\ b = a
  <2>1. u = t
    BY <1>1, <1>2
  <2>2. ~ (TopHolds(t) /\ BelowHolds(t)) /\ Len(stack[t]) \in {0, 1, 2}
    BY DEF StackInv, ThreadInv
  <2>3. Len(stack[t]) # 0 /\ (Len(stack[t]) = 1 => a = 1 /\ b = 1)
    BY <2>1, <1>2, Places
  <2> QED
    BY <2>1, <2>2, <2>3, <1>1, <1>2
<1> QED
  BY <1>1, <1>2

\* While the mutex is free no call dispatches or clears.
LEMMA NoHolder ==
  ASSUME StackInv, mtx = NoThread
  PROVE  \A u \in Threads : \A b \in {1, 2} : Has(u, b) => Nth(u, b).pc \notin Locking
BY OneHolder, ThreadsAssumption
-----------------------------------------------------------------------------
(***************************************************************************)
(* The calls of the log.  Each is made by one frame, which is what keeps   *)
(* it open: what is being formatted was enabled at some time of the call,  *)
(* what is being dispatched is enabled now.                                *)
(***************************************************************************)
Logging == {"check", "format", "lock", "write"}

Ids == {NoId} \cup {Caller[m] : m \in Messages}

Posts == [st : {"none", "open", "posted", "dropped", "failed"}, lvl : Level, id : Ids,
          fmt : BOOLEAN, seen : SUBSET Level]

LogFrame(f) ==
  /\ f.arg \in Messages
  /\ call[f.arg].st = "open"
  /\ f.pc \in {"check", "format"} => call[f.arg].fmt
  /\ f.pc = "format" => \E l \in call[f.arg].seen : Rank[l] <= Rank[call[f.arg].lvl]
  /\ f.pc = "write" => Rank[level] <= Rank[call[f.arg].lvl]

\* Two different calls in progress.
Two(t, a, u, b) == Has(t, a) /\ Has(u, b) /\ (t # u \/ a # b)

CallType ==
  /\ level \in Level
  /\ call \in [Messages -> Posts]
  /\ \A m \in Messages : call[m].id \in {NoId, Caller[m]}
  /\ \A m \in Messages : call[m].st = "open" => level \in call[m].seen

CallFrames == \A t \in Threads : \A b \in {1, 2} :
  Has(t, b) /\ Nth(t, b).pc \in Logging => LogFrame(Nth(t, b))

CallsDiffer == \A t, u \in Threads : \A a, b \in {1, 2} :
  Two(t, a, u, b) /\ Nth(t, a).pc \in Logging /\ Nth(u, b).pc \in Logging
    => Nth(t, a).arg # Nth(u, b).arg

CallInv == CallType /\ CallFrames /\ CallsDiffer

\* The ranks of levels are numbers.
LEMMA RankType ==
  /\ Level = {"trace", "debug", "info", "warn", "error", "critical", "off"}
  /\ \A l \in Level : Rank[l] \in Int
<1>1. Level = {"trace", "debug", "info", "warn", "error", "critical", "off"}
  BY DEF Level, Rank
<1>2. Rank["trace"] = 0 /\ Rank["debug"] = 1 /\ Rank["info"] = 2 /\ Rank["warn"] = 3
      /\ Rank["error"] = 4 /\ Rank["critical"] = 5 /\ Rank["off"] = 6
  BY DEF Rank
<1> QED
  BY <1>1, <1>2

\* What holds of two calls after a step that changes the d-th of t: both were
\* there before, or one is the one that changed.
LEMMA TwoSame ==
  ASSUME NEW t \in Threads, NEW d \in {1, 2}, Same(t, d),
         NEW u \in Threads, NEW v \in Threads, NEW a \in {1, 2}, NEW b \in {1, 2},
         Two(u, a, v, b)'
  PROVE  \/ /\ Two(u, a, v, b) /\ Nth(u, a)' = Nth(u, a) /\ Nth(v, b)' = Nth(v, b)
            /\ (u # t \/ a # d) /\ (v # t \/ b # d)
         \/ /\ u = t /\ a = d /\ (v # t \/ b # d) /\ Has(v, b) /\ Nth(v, b)' = Nth(v, b)
            /\ Has(t, d)'
         \/ /\ v = t /\ b = d /\ (u # t \/ a # d) /\ Has(u, a) /\ Nth(u, a)' = Nth(u, a)
            /\ Has(t, d)'
BY DEF Same, Two

\* Log calls take no part in a step of another call.
LEMMA CallsRest ==
  ASSUME CallInv, UNCHANGED <<call, level>>, NEW t \in Threads, NEW d \in {1, 2}, Same(t, d),
         Has(t, d)' => Nth(t, d)'.pc \notin Logging
  PROVE  CallInv'
<1>1. CallType'
  BY DEF CallInv, CallType
<1>2. CallFrames'
  BY DEF CallInv, CallFrames, LogFrame, Same
<1>3. CallsDiffer'
  <2>1. SUFFICES ASSUME NEW u \in Threads, NEW v \in Threads, NEW a \in {1, 2}, NEW b \in {1, 2},
                        Two(u, a, v, b)', Nth(u, a)'.pc \in Logging, Nth(v, b)'.pc \in Logging
                 PROVE  Nth(u, a)'.arg # Nth(v, b)'.arg
    BY DEF CallsDiffer
  <2> QED
    BY <2>1, TwoSame DEF CallInv, CallsDiffer
<1> QED
  BY <1>1, <1>2, <1>3 DEF CallInv

\* A log call goes on with what it was called for.
LEMMA CallGoesOn ==
  ASSUME CallInv, UNCHANGED <<call, level>>, NEW t \in Threads, NEW d \in {1, 2}, NEW f,
         Changes(t, d, f), Nth(t, d).pc \in Logging, f.arg = Nth(t, d).arg, LogFrame(f)
  PROVE  CallInv'
<1>1. CallType'
  BY DEF CallInv, CallType
<1>2. Same(t, d) /\ Nth(t, d)' = f /\ Has(t, d)
  BY DEF Changes
<1>3. CallFrames'
  <2>1. LogFrame(f)'
    BY DEF LogFrame
  <2>2. SUFFICES ASSUME NEW u \in Threads, NEW b \in {1, 2}, Has(u, b)', Nth(u, b)'.pc \in Logging
                 PROVE  LogFrame(Nth(u, b))'
    BY DEF CallFrames
  <2>3. CASE u = t /\ b = d
    <3>1. Nth(u, b)' = f
      BY <2>3, <1>2
    <3> QED
      BY <3>1, <2>1 DEF LogFrame
  <2>4. CASE u # t \/ b # d
    <3>1. Has(u, b) /\ Nth(u, b)' = Nth(u, b)
      BY <2>2, <2>4, <1>2 DEF Same
    <3>2. LogFrame(Nth(u, b))
      BY <2>2, <3>1 DEF CallInv, CallFrames
    <3> QED
      BY <3>1, <3>2 DEF LogFrame
  <2> QED
    BY <2>3, <2>4
<1>4. CallsDiffer'
  <2>1. SUFFICES ASSUME NEW u \in Threads, NEW v \in Threads, NEW a \in {1, 2}, NEW b \in {1, 2},
                        Two(u, a, v, b)', Nth(u, a)'.pc \in Logging, Nth(v, b)'.pc \in Logging
                 PROVE  Nth(u, a)'.arg # Nth(v, b)'.arg
    BY DEF CallsDiffer
  <2>2. \A w \in Threads : \A c \in {1, 2} :
          Has(w, c) /\ (w # t \/ c # d) /\ Nth(w, c).pc \in Logging => Nth(w, c).arg # f.arg
    BY <1>2 DEF CallInv, CallsDiffer, Two
  <2> QED
    BY <2>1, <2>2, <1>2, TwoSame DEF CallInv, CallsDiffer
<1> QED
  BY <1>1, <1>3, <1>4 DEF CallInv

\* A log call returns with an outcome.
LEMMA CallCloses ==
  ASSUME StackInv, CallInv, NEW t \in Threads, NEW d \in {1, 2}, Ends(t, d),
         Nth(t, d).pc \in Logging, NEW st \in {"posted", "dropped", "failed"},
         Close(Nth(t, d).arg, st), level' = level
  PROVE  CallInv'
<1> DEFINE m == Nth(t, d).arg
           p == [NoCall EXCEPT !.st = st, !.lvl = call[m].lvl]
<1>1. Same(t, d) /\ Has(t, d) /\ ~ Has(t, d)'
  BY DEF Ends
<1>2. m \in Messages /\ call \in [Messages -> Posts] /\ level \in Level
  BY <1>1 DEF CallInv, CallType, CallFrames, LogFrame
<1>3. call' = [call EXCEPT ![m] = p]
  BY DEF Close
<1>4. p.st = st /\ p.id = NoId /\ p \in Posts
  <2>1. call[m].lvl \in Level
    BY <1>2 DEF Posts
  <2> QED
    BY <2>1 DEF NoCall, Posts, Ids
<1>5. \A k \in Messages : k # m => call'[k] = call[k]
  BY <1>2, <1>3
<1>6. call'[m] = p /\ call' \in [Messages -> Posts]
  BY <1>2, <1>3, <1>4
<1> HIDE DEF p
<1>7. CallType'
  <2>1. ASSUME NEW k \in Messages
        PROVE  call'[k].id \in {NoId, Caller[k]} /\ (call'[k].st = "open" => level \in call'[k].seen)
    BY <1>4, <1>5, <1>6 DEF CallInv, CallType
  <2> QED
    BY <2>1, <1>2, <1>6 DEF CallType
<1>8. CallFrames'
  <2>1. SUFFICES ASSUME NEW u \in Threads, NEW b \in {1, 2}, Has(u, b)', Nth(u, b)'.pc \in Logging
                 PROVE  LogFrame(Nth(u, b))'
    BY DEF CallFrames
  <2>2. Has(u, b) /\ Nth(u, b)' = Nth(u, b) /\ (u # t \/ b # d)
    BY <2>1, <1>1 DEF Same
  <2>3. LogFrame(Nth(u, b)) /\ Nth(u, b).arg # m
    BY <2>1, <2>2, <1>1 DEF CallInv, CallFrames, CallsDiffer, Two
  <2>4. call'[Nth(u, b).arg] = call[Nth(u, b).arg]
    BY <2>3, <1>5 DEF LogFrame
  <2> QED
    BY <2>2, <2>3, <2>4 DEF LogFrame
<1>9. CallsDiffer'
  <2>1. SUFFICES ASSUME NEW u \in Threads, NEW v \in Threads, NEW a \in {1, 2}, NEW b \in {1, 2},
                        Two(u, a, v, b)', Nth(u, a)'.pc \in Logging, Nth(v, b)'.pc \in Logging
                 PROVE  Nth(u, a)'.arg # Nth(v, b)'.arg
    BY DEF CallsDiffer
  <2> QED
    BY <2>1, <1>1, TwoSame DEF CallInv, CallsDiffer
<1> QED
  BY <1>7, <1>8, <1>9 DEF CallInv

\* A log call is made.
LEMMA CallBegins ==
  ASSUME StackInv, StackInv', CallInv, NEW t \in Threads, NEW fmt \in BOOLEAN, Begin(t, fmt)
  PROVE  CallInv'
<1>0. PICK m \in Messages : \E lvl \in MsgLevels[m] :
        /\ call[m].st = "none"
        /\ call' = [call EXCEPT ![m] = [st |-> "open", lvl |-> lvl, id |-> logger(m), fmt |-> fmt,
                                        seen |-> {level}]]
        /\ Push(t, Frame(IF fmt THEN "check" ELSE "lock", m, 1))
  BY DEF Begin
<1>1. PICK lvl \in MsgLevels[m] :
        /\ call[m].st = "none"
        /\ call' = [call EXCEPT ![m] = [st |-> "open", lvl |-> lvl, id |-> logger(m), fmt |-> fmt,
                                        seen |-> {level}]]
        /\ Push(t, Frame(IF fmt THEN "check" ELSE "lock", m, 1))
  BY <1>0
<1>2. UserCode(t) /\ level' = level /\ level \in Level /\ call \in [Messages -> Posts]
  BY DEF Begin, CallInv, CallType
<1> DEFINE f == Frame(IF fmt THEN "check" ELSE "lock", m, 1)
           p == [st |-> "open", lvl |-> lvl, id |-> logger(m), fmt |-> fmt, seen |-> {level}]
<1>3. f \in Frames /\ f.arg = m /\ f.pc \in Logging /\ f.pc \notin {"format", "write"}
      /\ (f.pc = "check" => fmt)
  <2>1. (IF fmt THEN "check" ELSE "lock") \in PCs
    BY DEF PCs
  <2>2. f \in Frames /\ f.pc = IF fmt THEN "check" ELSE "lock"
    BY <2>1, FrameType
  <2>3. f.arg = m
    BY <2>1, FrameType
  <2> QED
    BY <2>2, <2>3 DEF Logging
<1>4. p \in Posts /\ p.id = Caller[m] /\ p.st = "open" /\ p.fmt = fmt /\ p.seen = {level}
  <2>1. lvl \in Level
    BY LevelsAssumption
  <2>2. logger(m) = Caller[m] /\ Caller[m] \in Ids
    BY DEF logger, Ids
  <2> QED
    BY <2>1, <2>2, <1>2 DEF Posts
<1>5. call' \in [Messages -> Posts] /\ call'[m] = p /\ \A k \in Messages : k # m => call'[k] = call[k]
  BY <1>1, <1>2, <1>4
<1> HIDE DEF f, p
<1>6. PICK d \in {1, 2} : Opens(t, d, f)
  BY <1>1, <1>2, <1>3, PushOpens DEF f
<1>7. Same(t, d) /\ Nth(t, d)' = f
  BY <1>6 DEF Opens
<1>8. \A u \in Threads : \A b \in {1, 2} : Has(u, b) /\ Nth(u, b).pc \in Logging =>
        LogFrame(Nth(u, b)) /\ Nth(u, b).arg # m
  BY <1>1 DEF CallInv, CallFrames, LogFrame
<1>9. CallType'
  <2>1. ASSUME NEW k \in Messages
        PROVE  call'[k].id \in {NoId, Caller[k]} /\ (call'[k].st = "open" => level \in call'[k].seen)
    BY <1>4, <1>5 DEF CallInv, CallType
  <2> QED
    BY <2>1, <1>2, <1>5 DEF CallType
<1>10. CallFrames'
  <2>1. SUFFICES ASSUME NEW u \in Threads, NEW b \in {1, 2}, Has(u, b)', Nth(u, b)'.pc \in Logging
                 PROVE  LogFrame(Nth(u, b))'
    BY DEF CallFrames
  <2>2. CASE u = t /\ b = d
    <3>1. Nth(u, b)' = f
      BY <2>2, <1>7
    <3>2. call'[f.arg].st = "open" /\ (f.pc = "check" => call'[f.arg].fmt)
      BY <1>3, <1>4, <1>5
    <3> QED
      BY <3>1, <3>2, <1>3 DEF LogFrame
  <2>3. CASE u # t \/ b # d
    <3>1. Has(u, b) /\ Nth(u, b)' = Nth(u, b)
      BY <2>1, <2>3, <1>7 DEF Same
    <3>2. LogFrame(Nth(u, b)) /\ Nth(u, b).arg # m
      BY <2>1, <3>1, <1>8
    <3>3. call'[Nth(u, b).arg] = call[Nth(u, b).arg]
      BY <3>2, <1>5 DEF LogFrame
    <3> QED
      BY <3>1, <3>2, <3>3, <1>2 DEF LogFrame
  <2> QED
    BY <2>2, <2>3
<1>11. CallsDiffer'
  <2>1. SUFFICES ASSUME NEW u \in Threads, NEW v \in Threads, NEW a \in {1, 2}, NEW b \in {1, 2},
                        Two(u, a, v, b)', Nth(u, a)'.pc \in Logging, Nth(v, b)'.pc \in Logging
                 PROVE  Nth(u, a)'.arg # Nth(v, b)'.arg
    BY DEF CallsDiffer
  <2> QED
    BY <2>1, <1>3, <1>7, <1>8, TwoSame DEF CallInv, CallsDiffer
<1> QED
  BY <1>9, <1>10, <1>11 DEF CallInv

\* The level is set: open calls see it, and none is being dispatched.
LEMMA CallsSeeLevel ==
  ASSUME StackInv, CallInv, NEW t \in Threads, NEW l \in SetLevels, SetLevel(t, l)
  PROVE  CallInv'
<1>1. level' = l /\ l \in Level /\ stack' = stack /\ mtx = NoThread
      /\ call \in [Messages -> Posts]
      /\ call' = [m \in Messages |->
           IF call[m].st = "open" THEN [call[m] EXCEPT !.seen = @ \cup {l}] ELSE call[m]]
  BY LevelsAssumption DEF SetLevel, Locked, CallInv, CallType
<1>2. ASSUME NEW m \in Messages
      PROVE  /\ call'[m] \in Posts
             /\ call'[m].st = call[m].st /\ call'[m].lvl = call[m].lvl
             /\ call'[m].id = call[m].id /\ call'[m].fmt = call[m].fmt
             /\ call[m].seen \subseteq call'[m].seen
             /\ call[m].st = "open" => l \in call'[m].seen
  <2>1. call[m] \in Posts
    BY <1>1
  <2> QED
    BY <2>1, <1>1 DEF Posts
<1>3. CallType'
  <2>1. call' \in [Messages -> Posts]
    BY <1>1, <1>2
  <2>2. \A m \in Messages : call'[m].id \in {NoId, Caller[m]}
                            /\ (call'[m].st = "open" => level' \in call'[m].seen)
    BY <1>1, <1>2 DEF CallInv, CallType
  <2> QED
    BY <2>1, <2>2, <1>1 DEF CallType
<1>4. \A u \in Threads : \A b \in {1, 2} :
        /\ Has(u, b)' <=> Has(u, b)
        /\ Nth(u, b)' = Nth(u, b)
        /\ Has(u, b) => Nth(u, b).pc # "write"
  BY <1>1, NoHolder DEF Has, Nth, Locking
<1>5. CallFrames'
  <2>1. SUFFICES ASSUME NEW u \in Threads, NEW b \in {1, 2}, Has(u, b)', Nth(u, b)'.pc \in Logging
                 PROVE  LogFrame(Nth(u, b))'
    BY DEF CallFrames
  <2>2. Nth(u, b)' = Nth(u, b) /\ Nth(u, b).pc # "write" /\ LogFrame(Nth(u, b))
    BY <2>1, <1>4 DEF CallInv, CallFrames
  <2> QED
    BY <2>2, <1>2 DEF LogFrame
<1>6. CallsDiffer'
  BY <1>4 DEF CallInv, CallsDiffer, Two
<1> QED
  BY <1>3, <1>5, <1>6 DEF CallInv
-----------------------------------------------------------------------------
(***************************************************************************)
(* The sinks.  One that is being made or discarded belongs to one call;    *)
(* those installed are different objects, and nobody else touches them.    *)
(***************************************************************************)
Owning == {"make", "construct", "discard"}

SinkFrame(f) ==
  f.arg \in Sinks /\ life[f.arg] = IF f.pc = "discard" THEN "discarded" ELSE "making"

SinkType ==
  /\ life \in [Sinks -> {"unmade", "making", "free", "installed", "discarded", "dead"}]
  /\ \A i \in 1 .. Len(sinks) : life[sinks[i]] \in {"installed", "dead"}
  /\ \A i, j \in 1 .. Len(sinks) : i # j => sinks[i] # sinks[j]
  /\ \A s \in Sinks : life[s] \in {"unmade", "making"} => Spdlog(s)

SinkFrames == \A t \in Threads : \A b \in {1, 2} :
  Has(t, b) /\ Nth(t, b).pc \in Owning => SinkFrame(Nth(t, b))

SinksDiffer == \A t, u \in Threads : \A a, b \in {1, 2} :
  Two(t, a, u, b) /\ Nth(t, a).pc \in Owning /\ Nth(u, b).pc \in Owning
    => Nth(t, a).arg # Nth(u, b).arg

\* Factories call nothing that calls the log.
Innermost(t) == Has(t, 2) => Nth(t, 1).pc \notin {"make", "construct"}

SinkInv == SinkType /\ SinkFrames /\ SinksDiffer /\ \A t \in Threads : Innermost(t)

\* Who calls the log is not a factory.
LEMMA OpensOnUser ==
  ASSUME StackInv, NEW t \in Threads, NEW d \in {1, 2}, NEW f, Opens(t, d, f), UserCode(t)
  PROVE  Innermost(t)'
<1>1. CASE d = 1
  BY <1>1 DEF Opens, Innermost
<1>2. CASE d = 2
  <2>1. Has(t, 1) /\ Nth(t, 1) = Top(t) /\ Nth(t, 1)' = Nth(t, 1)
    BY <1>2 DEF Opens, Same
  <2>2. ~ Idle(t)
    BY <2>1, Places DEF Idle
  <2>3. Top(t).pc \in {"format", "write", "destroy", "discard"}
    BY <2>2 DEF UserCode, At
  <2> QED
    BY <2>1, <2>3 DEF Innermost
<1> QED
  BY <1>1, <1>2

\* What goes on or returns does so on top of what it was called by.
LEMMA StaysInnermost ==
  ASSUME SinkInv, NEW t \in Threads, NEW d \in {1, 2}, NEW f, Changes(t, d, f) \/ Ends(t, d)
  PROVE  Innermost(t)'
<1>1. Has(t, 2) => Has(t, 1)
  BY DEF Has
<1>2. Has(t, 2)' => d = 2 /\ Has(t, 2) /\ Nth(t, 1)' = Nth(t, 1)
  BY <1>1 DEF Changes, Ends, Same
<1> QED
  BY <1>2 DEF SinkInv, Innermost

\* The other threads' calls stay where they are.
LEMMA InnermostRest ==
  ASSUME SinkInv, NEW t \in Threads, NEW d \in {1, 2}, Same(t, d), Innermost(t)'
  PROVE  \A u \in Threads : Innermost(u)'
<1>1. ASSUME NEW u \in Threads, u # t
      PROVE  Innermost(u)'
  <2>1. (Has(u, 2)' <=> Has(u, 2)) /\ (Has(u, 1)' <=> Has(u, 1))
        /\ (Has(u, 1) => Nth(u, 1)' = Nth(u, 1))
    BY <1>1 DEF Same
  <2>2. Has(u, 2)' => Has(u, 1)'
    BY DEF Has
  <2> QED
    BY <2>1, <2>2 DEF SinkInv, Innermost
<1> QED
  BY <1>1

\* The sinks are not touched, or forgotten.
LEMMA SinksRest ==
  ASSUME SinkInv, life' = life, sinks' = sinks \/ sinks' = <<>>,
         NEW t \in Threads, NEW d \in {1, 2}, Same(t, d), Innermost(t)',
         Has(t, d)' => Nth(t, d)'.pc \notin Owning
  PROVE  SinkInv'
<1>1. SinkType'
  BY DEF SinkInv, SinkType
<1>2. SinkFrames'
  BY DEF SinkInv, SinkFrames, SinkFrame, Same
<1>3. SinksDiffer'
  <2>1. SUFFICES ASSUME NEW u \in Threads, NEW v \in Threads, NEW a \in {1, 2}, NEW b \in {1, 2},
                        Two(u, a, v, b)', Nth(u, a)'.pc \in Owning, Nth(v, b)'.pc \in Owning
                 PROVE  Nth(u, a)'.arg # Nth(v, b)'.arg
    BY DEF SinksDiffer
  <2> QED
    BY <2>1, TwoSame DEF SinkInv, SinksDiffer
<1> QED
  BY <1>1, <1>2, <1>3, InnermostRest DEF SinkInv

\* A call takes a sink nobody has.
LEMMA OwnerOpens ==
  ASSUME StackInv, SinkInv, NEW t \in Threads, NEW d \in {1, 2}, NEW f, Opens(t, d, f), UserCode(t),
         f.pc \in {"make", "discard"}, f.arg \in Sinks,
         life[f.arg] = IF f.pc = "make" THEN "unmade" ELSE "free", sinks' = sinks,
         life' = [life EXCEPT ![f.arg] = IF f.pc = "make" THEN "making" ELSE "discarded"]
  PROVE  SinkInv'
<1> DEFINE s == f.arg
<1>1. Same(t, d) /\ Nth(t, d)' = f
  BY DEF Opens
<1>2. life[s] \in {"unmade", "free"} /\ life'[s] = (IF f.pc = "make" THEN "making" ELSE "discarded")
      /\ \A r \in Sinks : r # s => life'[r] = life[r]
  BY DEF SinkInv, SinkType
<1>3. SinkType'
  <2>1. life' \in [Sinks -> {"unmade", "making", "free", "installed", "discarded", "dead"}]
    BY DEF SinkInv, SinkType
  <2>2. ASSUME NEW i \in 1 .. Len(sinks)
        PROVE  life'[sinks[i]] \in {"installed", "dead"}
    <3>1. sinks[i] \in Sinks
      BY DEF StackInv, StackType
    <3> QED
      BY <3>1, <1>2 DEF SinkInv, SinkType
  <2>3. \A r \in Sinks : life'[r] \in {"unmade", "making"} => Spdlog(r)
    BY <1>2 DEF SinkInv, SinkType
  <2>4. \A i, j \in 1 .. Len(sinks) : i # j => sinks[i] # sinks[j]
    BY DEF SinkInv, SinkType
  <2>5. \A r : Spdlog(r)' <=> Spdlog(r)
    BY DEF Spdlog
  <2> QED
    BY <2>1, <2>2, <2>3, <2>4, <2>5 DEF SinkType
<1>4. \A u \in Threads : \A b \in {1, 2} : Has(u, b) /\ Nth(u, b).pc \in Owning =>
        SinkFrame(Nth(u, b)) /\ Nth(u, b).arg # s
  BY <1>2 DEF SinkInv, SinkFrames, SinkFrame
<1>5. SinkFrames'
  <2>1. SUFFICES ASSUME NEW u \in Threads, NEW b \in {1, 2}, Has(u, b)', Nth(u, b)'.pc \in Owning
                 PROVE  SinkFrame(Nth(u, b))'
    BY DEF SinkFrames
  <2>2. CASE u = t /\ b = d
    <3>1. Nth(u, b)' = f
      BY <2>2, <1>1
    <3> QED
      BY <3>1, <1>2 DEF SinkFrame
  <2>3. CASE u # t \/ b # d
    <3>1. Has(u, b) /\ Nth(u, b)' = Nth(u, b)
      BY <2>1, <2>3, <1>1 DEF Same
    <3> QED
      BY <2>1, <3>1, <1>2, <1>4 DEF SinkFrame
  <2> QED
    BY <2>2, <2>3
<1>6. SinksDiffer'
  <2>1. SUFFICES ASSUME NEW u \in Threads, NEW v \in Threads, NEW a \in {1, 2}, NEW b \in {1, 2},
                        Two(u, a, v, b)', Nth(u, a)'.pc \in Owning, Nth(v, b)'.pc \in Owning
                 PROVE  Nth(u, a)'.arg # Nth(v, b)'.arg
    BY DEF SinksDiffer
  <2> QED
    BY <2>1, <1>1, <1>4, TwoSame DEF SinkInv, SinksDiffer
<1> QED
  BY <1>1, <1>3, <1>5, <1>6, OpensOnUser, InnermostRest DEF SinkInv

\* A factory goes on with its sink.
LEMMA OwnerGoesOn ==
  ASSUME SinkInv, UNCHANGED <<life, sinks>>, NEW t \in Threads, NEW d \in {1, 2}, NEW f,
         Changes(t, d, f), Nth(t, d).pc = "make", f.pc = "construct", f.arg = Nth(t, d).arg
  PROVE  SinkInv'
<1>1. Same(t, d) /\ Nth(t, d)' = f /\ Has(t, d)
  BY DEF Changes
<1>2. SinkType'
  BY DEF SinkInv, SinkType
<1>3. SinkFrame(Nth(t, d)) /\ life[f.arg] = "making" /\ f.arg \in Sinks
  BY <1>1 DEF SinkInv, SinkFrames, SinkFrame, Owning
<1>4. SinkFrames'
  <2>1. SUFFICES ASSUME NEW u \in Threads, NEW b \in {1, 2}, Has(u, b)', Nth(u, b)'.pc \in Owning
                 PROVE  SinkFrame(Nth(u, b))'
    BY DEF SinkFrames
  <2>2. CASE u = t /\ b = d
    <3>1. Nth(u, b)' = f
      BY <2>2, <1>1
    <3> QED
      BY <3>1, <1>3 DEF SinkFrame
  <2>3. CASE u # t \/ b # d
    <3>1. Has(u, b) /\ Nth(u, b)' = Nth(u, b)
      BY <2>1, <2>3, <1>1 DEF Same
    <3>2. SinkFrame(Nth(u, b))
      BY <2>1, <3>1 DEF SinkInv, SinkFrames
    <3> QED
      BY <3>1, <3>2 DEF SinkFrame
  <2> QED
    BY <2>2, <2>3
<1>5. SinksDiffer'
  <2>1. SUFFICES ASSUME NEW u \in Threads, NEW v \in Threads, NEW a \in {1, 2}, NEW b \in {1, 2},
                        Two(u, a, v, b)', Nth(u, a)'.pc \in Owning, Nth(v, b)'.pc \in Owning
                 PROVE  Nth(u, a)'.arg # Nth(v, b)'.arg
    BY DEF SinksDiffer
  <2>2. \A w \in Threads : \A c \in {1, 2} :
          Has(w, c) /\ (w # t \/ c # d) /\ Nth(w, c).pc \in Owning => Nth(w, c).arg # f.arg
    BY <1>1 DEF SinkInv, SinksDiffer, Two, Owning
  <2> QED
    BY <2>1, <2>2, <1>1, TwoSame DEF SinkInv, SinksDiffer
<1> QED
  BY <1>1, <1>2, <1>4, <1>5, StaysInnermost, InnermostRest DEF SinkInv

\* A call returns, and what becomes of its sink is decided.
LEMMA OwnerEnds ==
  ASSUME StackInv, SinkInv, NEW t \in Threads, NEW d \in {1, 2}, Ends(t, d),
         Nth(t, d).pc \in Owning, sinks' = sinks,
         NEW l \in {"unmade", "free", "dead"}, life' = [life EXCEPT ![Nth(t, d).arg] = l],
         l = "unmade" => Nth(t, d).pc # "discard"
  PROVE  SinkInv'
<1> DEFINE s == Nth(t, d).arg
<1>1. Same(t, d) /\ Has(t, d) /\ ~ Has(t, d)'
  BY DEF Ends
<1>2. SinkFrame(Nth(t, d)) /\ s \in Sinks
  BY <1>1 DEF SinkInv, SinkFrames, SinkFrame
<1>3. life'[s] = l /\ \A r \in Sinks : r # s => life'[r] = life[r]
  BY <1>2 DEF SinkInv, SinkType
<1>4. life[s] \in {"making", "discarded"} /\ (l = "unmade" => life[s] = "making")
  BY <1>2 DEF SinkFrame
<1>5. SinkType'
  <2>1. life' \in [Sinks -> {"unmade", "making", "free", "installed", "discarded", "dead"}]
    BY DEF SinkInv, SinkType
  <2>2. ASSUME NEW i \in 1 .. Len(sinks)
        PROVE  life'[sinks[i]] \in {"installed", "dead"}
    <3>1. sinks[i] \in Sinks
      BY DEF StackInv, StackType
    <3> QED
      BY <3>1, <1>3, <1>4 DEF SinkInv, SinkType
  <2>3. \A r \in Sinks : life'[r] \in {"unmade", "making"} => Spdlog(r)
    BY <1>3, <1>4 DEF SinkInv, SinkType
  <2>4. \A i, j \in 1 .. Len(sinks) : i # j => sinks[i] # sinks[j]
    BY DEF SinkInv, SinkType
  <2>5. \A r : Spdlog(r)' <=> Spdlog(r)
    BY DEF Spdlog
  <2> QED
    BY <2>1, <2>2, <2>3, <2>4, <2>5 DEF SinkType
<1>6. SinkFrames'
  <2>1. SUFFICES ASSUME NEW u \in Threads, NEW b \in {1, 2}, Has(u, b)', Nth(u, b)'.pc \in Owning
                 PROVE  SinkFrame(Nth(u, b))'
    BY DEF SinkFrames
  <2>2. Has(u, b) /\ Nth(u, b)' = Nth(u, b) /\ (u # t \/ b # d)
    BY <2>1, <1>1 DEF Same
  <2>3. SinkFrame(Nth(u, b)) /\ Nth(u, b).arg # s
    BY <2>1, <2>2, <1>1 DEF SinkInv, SinkFrames, SinksDiffer, Two
  <2> QED
    BY <2>2, <2>3, <1>3 DEF SinkFrame
<1>7. SinksDiffer'
  <2>1. SUFFICES ASSUME NEW u \in Threads, NEW v \in Threads, NEW a \in {1, 2}, NEW b \in {1, 2},
                        Two(u, a, v, b)', Nth(u, a)'.pc \in Owning, Nth(v, b)'.pc \in Owning
                 PROVE  Nth(u, a)'.arg # Nth(v, b)'.arg
    BY DEF SinksDiffer
  <2> QED
    BY <2>1, <1>1, TwoSame DEF SinkInv, SinksDiffer
<1> QED
  BY <1>1, <1>5, <1>6, <1>7, StaysInnermost, InnermostRest DEF SinkInv

\* A sink is installed that was not.
LEMMA SinkInstalled ==
  ASSUME StackInv, SinkInv, stack' = stack, NEW s \in Sinks, life[s] = "free",
         sinks' = Append(sinks, s), life' = [life EXCEPT ![s] = "installed"]
  PROVE  SinkInv'
<1>1. sinks \in Seq(Sinks) /\ life'[s] = "installed"
      /\ \A r \in Sinks : r # s => life'[r] = life[r]
  BY DEF SinkInv, SinkType, StackInv, StackType
<1>2. /\ Len(sinks') = Len(sinks) + 1 /\ sinks'[Len(sinks) + 1] = s
      /\ \A i \in 1 .. Len(sinks) : sinks'[i] = sinks[i] /\ sinks[i] \in Sinks
      /\ Len(sinks) \in Nat
  BY <1>1
<1>3. \A i \in 1 .. Len(sinks) : sinks[i] # s
  BY DEF SinkInv, SinkType
<1>4. SinkType'
  <2>1. life' \in [Sinks -> {"unmade", "making", "free", "installed", "discarded", "dead"}]
    BY DEF SinkInv, SinkType
  <2>2. ASSUME NEW i \in 1 .. Len(sinks')
        PROVE  life'[sinks'[i]] \in {"installed", "dead"}
    <3>1. CASE i \in 1 .. Len(sinks)
      BY <3>1, <1>1, <1>2, <1>3 DEF SinkInv, SinkType
    <3>2. CASE i = Len(sinks) + 1
      BY <3>2, <1>1, <1>2
    <3> QED
      BY <3>1, <3>2, <1>2
  <2>3. \A r \in Sinks : life'[r] \in {"unmade", "making"} => Spdlog(r)
    BY <1>1 DEF SinkInv, SinkType
  <2>4. ASSUME NEW i \in 1 .. Len(sinks'), NEW j \in 1 .. Len(sinks'), i # j
        PROVE  sinks'[i] # sinks'[j]
    <3>1. \A k \in 1 .. Len(sinks') : k \in 1 .. Len(sinks) \/ k = Len(sinks) + 1
      BY <1>2
    <3> QED
      BY <3>1, <2>4, <1>2, <1>3 DEF SinkInv, SinkType
  <2>5. \A r : Spdlog(r)' <=> Spdlog(r)
    BY DEF Spdlog
  <2> QED
    BY <2>1, <2>2, <2>3, <2>4, <2>5 DEF SinkType
<1>5. \A u \in Threads : \A b \in {1, 2} : (Has(u, b)' <=> Has(u, b)) /\ Nth(u, b)' = Nth(u, b)
  BY DEF Has, Nth
<1>6. SinkFrames'
  <2>1. SUFFICES ASSUME NEW u \in Threads, NEW b \in {1, 2}, Has(u, b)', Nth(u, b)'.pc \in Owning
                 PROVE  SinkFrame(Nth(u, b))'
    BY DEF SinkFrames
  <2>2. SinkFrame(Nth(u, b)) /\ Nth(u, b)' = Nth(u, b)
    BY <2>1, <1>5 DEF SinkInv, SinkFrames
  <2>3. Nth(u, b).arg # s
    BY <2>2 DEF SinkFrame
  <2> QED
    BY <2>2, <2>3, <1>1 DEF SinkFrame
<1>7. SinksDiffer' /\ \A u \in Threads : Innermost(u)'
  BY <1>5 DEF SinkInv, SinksDiffer, Two, Innermost
<1> QED
  BY <1>4, <1>6, <1>7 DEF SinkInv

\* An installed sink is destroyed.
LEMMA SinkCleared ==
  ASSUME StackInv, SinkInv, NEW t \in Threads, NEW d \in {1, 2}, NEW f, Changes(t, d, f),
         f.pc = "destroy", NEW i \in 1 .. Len(sinks), sinks' = sinks,
         life' = [life EXCEPT ![sinks[i]] = "dead"]
  PROVE  SinkInv'
<1> DEFINE s == sinks[i]
<1>1. s \in Sinks /\ life[s] \in {"installed", "dead"}
  BY DEF StackInv, StackType, SinkInv, SinkType
<1>2. life'[s] = "dead" /\ \A r \in Sinks : r # s => life'[r] = life[r]
  BY <1>1 DEF SinkInv, SinkType
<1>3. Same(t, d) /\ Nth(t, d)' = f
  BY DEF Changes
<1>4. SinkType'
  <2>1. life' \in [Sinks -> {"unmade", "making", "free", "installed", "discarded", "dead"}]
    BY DEF SinkInv, SinkType
  <2>2. ASSUME NEW k \in 1 .. Len(sinks)
        PROVE  life'[sinks[k]] \in {"installed", "dead"}
    <3>1. sinks[k] \in Sinks
      BY DEF StackInv, StackType
    <3> QED
      BY <3>1, <1>2 DEF SinkInv, SinkType
  <2>3. \A r \in Sinks : life'[r] \in {"unmade", "making"} => Spdlog(r)
    BY <1>2 DEF SinkInv, SinkType
  <2>4. \A k, j \in 1 .. Len(sinks) : k # j => sinks[k] # sinks[j]
    BY DEF SinkInv, SinkType
  <2>5. \A r : Spdlog(r)' <=> Spdlog(r)
    BY DEF Spdlog
  <2> QED
    BY <2>1, <2>2, <2>3, <2>4, <2>5 DEF SinkType
<1>5. SinkFrames'
  <2>1. SUFFICES ASSUME NEW u \in Threads, NEW b \in {1, 2}, Has(u, b)', Nth(u, b)'.pc \in Owning
                 PROVE  SinkFrame(Nth(u, b))'
    BY DEF SinkFrames
  <2>2. u # t \/ b # d
    BY <2>1, <1>3 DEF Owning
  <2>3. Has(u, b) /\ Nth(u, b)' = Nth(u, b)
    BY <2>1, <2>2, <1>3 DEF Same
  <2>4. SinkFrame(Nth(u, b))
    BY <2>1, <2>3 DEF SinkInv, SinkFrames
  <2>5. Nth(u, b).arg # s
    BY <2>4, <1>1 DEF SinkFrame
  <2> QED
    BY <2>3, <2>4, <2>5, <1>2 DEF SinkFrame
<1>6. SinksDiffer'
  <2>1. SUFFICES ASSUME NEW u \in Threads, NEW v \in Threads, NEW a \in {1, 2}, NEW b \in {1, 2},
                        Two(u, a, v, b)', Nth(u, a)'.pc \in Owning, Nth(v, b)'.pc \in Owning
                 PROVE  Nth(u, a)'.arg # Nth(v, b)'.arg
    BY DEF SinksDiffer
  <2>2. "destroy" \notin Owning
    BY DEF Owning
  <2> QED
    BY <2>1, <2>2, <1>3, TwoSame DEF SinkInv, SinksDiffer
<1> QED
  BY <1>3, <1>4, <1>5, <1>6, StaysInnermost, InnermostRest DEF SinkInv
-----------------------------------------------------------------------------
(***************************************************************************)
(* The lines.  A dispatch at its i-th sink has written its line as the     *)
(* last of each sink before.  The calls lines come from were made, so that *)
(* their levels do not change any more.                                    *)
(***************************************************************************)
Entries == [msg : Messages, by : {Attribution(s, id) : s \in Sinks, id \in Ids}]

Entry(s, m) == [msg |-> m, by |-> Attribution(s, call[m].id)]

LastLine(s) == lines[s][Len(lines[s])]

Written(f) ==
  /\ f.i <= Len(sinks) + 1
  /\ \A j \in 1 .. f.i - 1 :
       lines[sinks[j]] # <<>> /\ LastLine(sinks[j]) = Entry(sinks[j], f.arg)

LineType == lines \in [Sinks -> Seq(Entries)] /\ flushed \in [Sinks -> Nat]

\* What of a sink's lines has left the process.
Flushed(s) ==
  /\ flushed[s] <= Len(lines[s])
  /\ lines[s] # <<>> =>
       /\ call[LastLine(s).msg].st # "none"
       /\ flushed[s] < Len(lines[s]) => call[LastLine(s).msg].lvl = "off"

Writers == \A t \in Threads : \A b \in {1, 2} :
  Has(t, b) /\ Nth(t, b).pc = "write" => Written(Nth(t, b))

LineInv == LineType /\ (\A s \in Sinks : Flushed(s)) /\ Writers

\* A step after which every call made still has its level.
Settled == \A m \in Messages :
  call[m].st # "none" => call'[m].st # "none" /\ call'[m].lvl = call[m].lvl

\* The last line of a sink is a line.
LEMMA LastLineType ==
  ASSUME LineType, NEW s \in Sinks, lines[s] # <<>>
  PROVE  LastLine(s) \in Entries /\ LastLine(s).msg \in Messages /\ Len(lines[s]) \in Nat \ {0}
<1>1. lines[s] \in Seq(Entries)
  BY DEF LineType
<1>2. Len(lines[s]) \in Nat \ {0}
  BY <1>1
<1>3. LastLine(s) \in Entries
  BY <1>1, <1>2 DEF LastLine
<1> QED
  BY <1>2, <1>3 DEF Entries

\* Lines that are not written stay as flushed as they were.
LEMMA FlushedRest ==
  ASSUME LineInv, UNCHANGED <<lines, flushed>>, Settled
  PROVE  LineType' /\ \A s \in Sinks : Flushed(s)'
<1>1. LineType'
  BY DEF LineInv, LineType
<1>2. ASSUME NEW s \in Sinks
      PROVE  Flushed(s)'
  <2>1. Flushed(s) /\ LastLine(s)' = LastLine(s)
    BY DEF LineInv, LastLine
  <2>2. CASE lines[s] = <<>>
    BY <2>1, <2>2 DEF Flushed
  <2>3. CASE lines[s] # <<>>
    <3>1. LastLine(s).msg \in Messages
      BY <2>3, LastLineType DEF LineInv
    <3> QED
      BY <3>1, <2>1, <2>3 DEF Flushed, Settled
  <2> QED
    BY <2>2, <2>3
<1> QED
  BY <1>1, <1>2

\* No dispatch has begun to write.
LEMMA LinesFresh ==
  ASSUME LineInv, UNCHANGED <<lines, flushed>>, Settled, StackInv',
         \A u \in Threads : \A b \in {1, 2} : Has(u, b)' /\ Nth(u, b)'.pc = "write" => Nth(u, b)'.i = 1
  PROVE  LineInv'
<1>1. LineType' /\ \A s \in Sinks : Flushed(s)'
  BY FlushedRest
<1>2. Writers'
  <2>1. SUFFICES ASSUME NEW u \in Threads, NEW b \in {1, 2}, Has(u, b)', Nth(u, b)'.pc = "write"
                 PROVE  Written(Nth(u, b))'
    BY DEF Writers
  <2>2. Nth(u, b)'.i = 1 /\ Len(sinks') \in Nat
    BY <2>1 DEF StackInv, StackType
  <2> QED
    BY <2>2 DEF Written
<1> QED
  BY <1>1, <1>2 DEF LineInv

\* A dispatch that goes on is not disturbed by another thread.
LEMMA LinesRest ==
  ASSUME LineInv, CallInv, UNCHANGED <<lines, flushed, sinks>>, Settled,
         NEW t \in Threads, NEW d \in {1, 2}, Same(t, d), Has(t, d)' => Nth(t, d)'.pc # "write",
         \A u \in Threads : \A b \in {1, 2} :
           Has(u, b) /\ Nth(u, b).pc = "write" /\ (u # t \/ b # d)
             => call'[Nth(u, b).arg].id = call[Nth(u, b).arg].id
  PROVE  LineInv'
<1>1. LineType' /\ \A s \in Sinks : Flushed(s)'
  BY FlushedRest
<1>2. Writers'
  <2>1. SUFFICES ASSUME NEW u \in Threads, NEW b \in {1, 2}, Has(u, b)', Nth(u, b)'.pc = "write"
                 PROVE  Written(Nth(u, b))'
    BY DEF Writers
  <2>2. Has(u, b) /\ Nth(u, b)' = Nth(u, b) /\ (u # t \/ b # d)
    BY <2>1 DEF Same
  <2>3. Written(Nth(u, b)) /\ call'[Nth(u, b).arg].id = call[Nth(u, b).arg].id
    BY <2>1, <2>2 DEF LineInv, Writers
  <2>4. \A s : Attribution(s, call[Nth(u, b).arg].id)' = Attribution(s, call[Nth(u, b).arg].id)
    BY <2>2, <2>3 DEF Attribution
  <2>5. \A s : Entry(s, Nth(u, b).arg)' = Entry(s, Nth(u, b).arg)
    BY <2>2, <2>4 DEF Entry
  <2>6. \A s : LastLine(s)' = LastLine(s)
    BY DEF LastLine
  <2> QED
    BY <2>2, <2>3, <2>5, <2>6 DEF Written
<1> QED
  BY <1>1, <1>2 DEF LineInv

\* Closing a call settles it.
LEMMA CloseSettles ==
  ASSUME CallInv, NEW m \in Messages, NEW st \in {"posted", "dropped", "failed"}, Close(m, st)
  PROVE  Settled /\ \A k \in Messages : k # m => call'[k] = call[k]
<1>1. call \in [Messages -> Posts]
  BY DEF CallInv, CallType
<1>2. call'[m] = [NoCall EXCEPT !.st = st, !.lvl = call[m].lvl]
      /\ \A k \in Messages : k # m => call'[k] = call[k]
  BY <1>1 DEF Close
<1>3. call'[m].st = st /\ call'[m].lvl = call[m].lvl
  BY <1>2 DEF NoCall
<1> QED
  BY <1>2, <1>3 DEF Settled

\* What is not flushed was logged at level off.
LEMMA UnflushedIsOff ==
  ASSUME NEW s, NEW lvl \in Level, ~ Flushes(s, lvl)
  PROVE  lvl = "off"
<1>1. SpdlogLevel("trace") = 0
  BY DEF SpdlogLevel
<1>2. SpdlogLevel(lvl) >= 0
  BY RankType DEF SpdlogLevel
<1> QED
  BY <1>1, <1>2 DEF Flushes

\* A dispatch writes its line into its next sink.
LEMMA SinkWritten ==
  ASSUME StackInv, CallInv, SinkInv, LineInv, NEW t \in Threads, WriteSink(t)
  PROVE  LineInv'
<1>1. /\ At(t, "write") /\ Top(t).i <= Len(sinks)
      /\ Write(sinks[Top(t).i], Top(t).arg, call[Top(t).arg].lvl, call[Top(t).arg].id)
      /\ Become(t, Frame("write", Top(t).arg, Top(t).i + 1))
      /\ call' = call /\ sinks' = sinks
  BY DEF WriteSink
<1>2. ~ Idle(t) /\ Top(t).pc = "write" /\ Top(t).i \in Nat \ {0} /\ Top(t).i + 1 \in Nat \ {0}
      /\ Top(t).arg \in Messages \cup Sinks \cup {NoThread}
  BY <1>1, AtFacts
<1> DEFINE g == Frame("write", Top(t).arg, Top(t).i + 1)
<1>3. g \in Frames /\ g.pc = "write" /\ g.arg = Top(t).arg /\ g.i = Top(t).i + 1
  BY <1>2, FrameType DEF PCs
<1>4. PICK d \in {1, 2} : Changes(t, d, g)
  BY <1>1, <1>2, <1>3, BecomeChanges
<1>5. PICK i, m, s, e : /\ i = Top(t).i /\ m = Top(t).arg /\ s = sinks[i]
                        /\ e = [msg |-> m, by |-> Attribution(s, call[m].id)]
  OBVIOUS
<1> HIDE DEF g
<1>6. Nth(t, d) = Top(t) /\ Has(t, d) /\ Same(t, d) /\ Nth(t, d)' = g
  BY <1>4 DEF Changes
<1>7. LogFrame(Top(t)) /\ Written(Top(t)) /\ m \in Messages /\ call[m].st = "open" /\ call[m] \in Posts
      /\ call[m].id \in Ids /\ call[m].lvl \in Level
  <2>1. LogFrame(Top(t)) /\ Written(Top(t))
    BY <1>2, <1>6 DEF CallInv, CallFrames, LineInv, Writers, Logging
  <2>2. m \in Messages /\ call[m].st = "open" /\ call[m] \in Posts
    BY <2>1, <1>5 DEF LogFrame, CallInv, CallType
  <2> QED
    BY <2>1, <2>2 DEF Posts
<1>8. i \in 1 .. Len(sinks) /\ s \in Sinks /\ Len(sinks) \in Nat
  BY <1>1, <1>2, <1>5 DEF StackInv, StackType
<1>9. e \in Entries /\ e.msg = m /\ e = Entry(s, m)
  BY <1>5, <1>7, <1>8 DEF Entries, Entry
<1>10. /\ lines' = [lines EXCEPT ![s] = Append(lines[s], e)]
       /\ flushed' = IF Flushes(s, call[m].lvl) THEN [flushed EXCEPT ![s] = Len(lines'[s])] ELSE flushed
  BY <1>1, <1>5 DEF Write
<1>11. lines[s] \in Seq(Entries) /\ lines \in [Sinks -> Seq(Entries)] /\ flushed \in [Sinks -> Nat]
  BY <1>8 DEF LineInv, LineType
<1>12. PICK l : l = Append(lines[s], e)
  OBVIOUS
<1>13. l \in Seq(Entries) /\ Len(l) = Len(lines[s]) + 1 /\ l[Len(l)] = e /\ l # <<>> /\ Len(l) \in Nat
  <2>1. Len(l) = Len(lines[s]) + 1 /\ l[Len(lines[s]) + 1] = e /\ l \in Seq(Entries)
    BY <1>9, <1>11, <1>12
  <2> QED
    BY <2>1, <1>11
<1>14. lines' \in [Sinks -> Seq(Entries)] /\ lines'[s] = l
       /\ \A r \in Sinks : r # s => lines'[r] = lines[r]
  BY <1>8, <1>10, <1>11, <1>12, <1>13
<1>15. flushed' \in [Sinks -> Nat] /\ (\A r \in Sinks : r # s => flushed'[r] = flushed[r])
       /\ flushed'[s] = (IF Flushes(s, call[m].lvl) THEN Len(l) ELSE flushed[s])
  BY <1>8, <1>10, <1>11, <1>13, <1>14
<1>16. LastLine(s)' = e /\ \A r \in Sinks : r # s => LastLine(r)' = LastLine(r)
  BY <1>13, <1>14 DEF LastLine
<1>17. ASSUME NEW r \in Sinks
       PROVE  Flushed(r)'
  <2>1. Flushed(r)
    BY DEF LineInv
  <2>2. CASE r # s
    BY <2>1, <2>2, <1>1, <1>14, <1>15, <1>16 DEF Flushed
  <2>3. CASE r = s
    <3>1. flushed'[s] <= Len(lines'[s])
      BY <2>1, <2>3, <1>11, <1>13, <1>14, <1>15, <1>8 DEF Flushed
    <3>2. flushed'[s] < Len(lines'[s]) => call[m].lvl = "off"
      BY <1>7, <1>13, <1>14, <1>15, UnflushedIsOff
    <3> QED
      BY <3>1, <3>2, <2>3, <1>1, <1>7, <1>9, <1>16 DEF Flushed
  <2> QED
    BY <2>2, <2>3
<1>18. ASSUME NEW u \in Threads, NEW b \in {1, 2}, Has(u, b)', Nth(u, b)'.pc = "write"
       PROVE  Written(Nth(u, b))'
  <2>1. u = t /\ b = d
    <3>1. ASSUME u # t \/ b # d
          PROVE  FALSE
      <4>1. Has(u, b) /\ Nth(u, b)' = Nth(u, b)
        BY <3>1, <1>18, <1>6 DEF Same
      <4>2. Nth(u, b).pc \in Locking /\ Nth(t, d).pc \in Locking
        BY <4>1, <1>18, <1>2, <1>6 DEF Locking
      <4> QED
        BY <3>1, <4>1, <4>2, <1>6, OneHolder
    <3> QED
      BY <3>1
  <2>2. Nth(u, b)' = g /\ g.i = i + 1 /\ g.arg = m
    BY <2>1, <1>3, <1>5, <1>6
  <2>3. ASSUME NEW j \in 1 .. i
        PROVE  lines'[sinks[j]] # <<>> /\ LastLine(sinks[j])' = Entry(sinks[j], m)
    <3>1. CASE j = i
      BY <3>1, <1>1, <1>5, <1>9, <1>13, <1>14, <1>16
    <3>2. CASE j # i
      <4>1. j \in 1 .. Top(t).i - 1 /\ j \in 1 .. Len(sinks) /\ sinks[j] \in Sinks
        BY <3>2, <1>5, <1>8 DEF StackInv, StackType
      <4>2. sinks[j] # s
        BY <3>2, <4>1, <1>5, <1>8 DEF SinkInv, SinkType
      <4>3. lines[sinks[j]] # <<>> /\ LastLine(sinks[j]) = Entry(sinks[j], m)
        BY <4>1, <1>5, <1>7 DEF Written
      <4> QED
        BY <4>1, <4>2, <4>3, <1>1, <1>14, <1>16
    <3> QED
      BY <3>1, <3>2
  <2>4. \A r : Entry(r, m)' = Entry(r, m)
    BY <1>1 DEF Entry, Attribution, Spdlog
  <2>5. \A j : sinks'[j] = sinks[j]
    BY <1>1
  <2>6. i + 1 - 1 = i /\ i + 1 <= Len(sinks') + 1
    BY <1>1, <1>8
  <2>7. Nth(u, b)'.i - 1 = i /\ Nth(u, b)'.arg = m /\ Nth(u, b)'.i = i + 1
    BY <2>2, <1>8
  <2>8. ASSUME NEW j \in 1 .. Nth(u, b)'.i - 1
        PROVE  lines'[sinks'[j]] # <<>> /\ LastLine(sinks[j])' = Entry(sinks[j], Nth(u, b).arg)'
    <3>1. j \in 1 .. i
      BY <2>7
    <3>2. Entry(sinks[j], Nth(u, b).arg)' = Entry(sinks[j], m)
      BY <2>4, <2>5, <2>7, <1>1 DEF Entry
    <3> QED
      BY <3>1, <3>2, <2>3, <2>5
  <2> QED
    BY <2>6, <2>7, <2>8 DEF Written
<1>19. LineType'
  BY <1>14, <1>15 DEF LineType
<1>20. Writers'
  BY <1>18 DEF Writers
<1> QED
  BY <1>17, <1>19, <1>20 DEF LineInv
-----------------------------------------------------------------------------
(***************************************************************************)
(* The names.  Each is drawn once, whether its sink lives, is dead or      *)
(* never was; so what is dropped from the registry is nobody else's.       *)
(***************************************************************************)
Drawn == {n \in Drawable : n[2] <= counter}

NameType ==
  /\ counter \in 0 .. MaxNames
  /\ name \in [Sinks -> {NoName} \cup Drawn]
  /\ leaked \subseteq Drawn

NamesDiffer == \A s \in Sinks : name[s] # NoName =>
  name[s] \notin leaked /\ \A r \in Sinks : r # s => name[r] # name[s]

Named(s) == Spdlog(s) /\ life[s] \in {"making", "free", "installed", "discarded"} => name[s] # NoName

Registered == Owners \cup Constructing

RegistryIs == \A n : n \in registry <=> n \in leaked \/ \E s \in Registered : n = name[s]

NameInv == NameType /\ NamesDiffer /\ (\A s \in Sinks : Named(s)) /\ RegistryIs

\* The sinks whose constructor runs, by the calls in progress.
Constructs(s) == \E t \in Threads : \E b \in {1, 2} :
  Has(t, b) /\ Nth(t, b).pc = "construct" /\ Nth(t, b).arg = s

ByFrames == Constructing = {s \in Sinks : Constructs(s)}

LEMMA ConstructingIs == StackInv /\ SinkInv => ByFrames
<1> SUFFICES ASSUME StackInv, SinkInv
             PROVE  Constructing = {s \in Sinks : Constructs(s)}
  BY DEF ByFrames
<1>1. ASSUME NEW t \in Threads, At(t, "construct")
      PROVE  \E b \in {1, 2} : Has(t, b) /\ Nth(t, b) = Top(t) /\ Top(t).pc = "construct"
  <2>1. ~ Idle(t) /\ Top(t).pc = "construct"
    BY <1>1 DEF At
  <2>2. Len(stack[t]) \in {1, 2} /\ Top(t) = stack[t][1]
    BY <2>1, TopFacts
  <2> QED
    BY <2>1, <2>2, Places
<1>2. ASSUME NEW t \in Threads, NEW b \in {1, 2}, Has(t, b), Nth(t, b).pc = "construct"
      PROVE  At(t, "construct") /\ Top(t) = Nth(t, b)
  <2>1. Len(stack[t]) \in {1, 2}
    BY <1>2, Places
  <2>2. ~ Idle(t)
    BY <2>1 DEF Idle
  <2>3. Top(t) = stack[t][1]
    BY <2>2, TopFacts
  <2>4. Innermost(t)
    BY DEF SinkInv
  <2>5. Nth(t, b) = stack[t][1]
    BY <1>2, <2>1, <2>4, Places DEF Innermost
  <2> QED
    BY <1>2, <2>2, <2>3, <2>5 DEF At
<1> QED
  BY <1>1, <1>2 DEF Constructing, Constructs

\* A sink whose constructor runs is being made.
LEMMA ConstructingMakes ==
  ASSUME StackInv, SinkInv, NEW s \in Constructing
  PROVE  s \in Sinks /\ life[s] = "making"
<1>1. s \in Sinks /\ \E t \in Threads : \E b \in {1, 2} :
        Has(t, b) /\ Nth(t, b).pc = "construct" /\ Nth(t, b).arg = s
  BY ConstructingIs DEF ByFrames, Constructs
<1> QED
  BY <1>1 DEF SinkInv, SinkFrames, SinkFrame, Owning

\* No constructor begins or ends.
LEMMA ConstructingRest ==
  ASSUME StackInv, SinkInv, StackInv', SinkInv', NEW t \in Threads, NEW d \in {1, 2}, Same(t, d),
         Has(t, d) => Nth(t, d).pc # "construct", Has(t, d)' => Nth(t, d)'.pc # "construct"
  PROVE  Constructing' = Constructing
<1>0. ByFrames /\ ByFrames'
  BY ConstructingIs, PTL
<1>1. Constructing = {s \in Sinks : Constructs(s)}
      /\ Constructing' = {s \in Sinks : Constructs(s)'}
  BY <1>0 DEF ByFrames
<1>2. \A u \in Threads : \A b \in {1, 2} :
        Has(u, b)' /\ Nth(u, b)'.pc = "construct" => Has(u, b) /\ Nth(u, b)' = Nth(u, b)
  BY DEF Same
<1>3. \A u \in Threads : \A b \in {1, 2} :
        Has(u, b) /\ Nth(u, b).pc = "construct" => Has(u, b)' /\ Nth(u, b)' = Nth(u, b)
  BY DEF Same
<1>4. \A s : Constructs(s)' <=> Constructs(s)
  BY <1>2, <1>3 DEF Constructs
<1> QED
  BY <1>1, <1>4

\* A constructor begins.
LEMMA ConstructingBegins ==
  ASSUME StackInv, SinkInv, StackInv', SinkInv', NEW t \in Threads, NEW d \in {1, 2}, NEW f,
         Changes(t, d, f), Nth(t, d).pc = "make", f.pc = "construct", f.arg = Nth(t, d).arg
  PROVE  Constructing' = Constructing \cup {f.arg} /\ f.arg \in Sinks
<1>1. ByFrames /\ ByFrames'
  BY ConstructingIs, PTL
<1>2. Same(t, d) /\ Has(t, d) /\ Has(t, d)' /\ Nth(t, d)' = f
  BY DEF Changes
<1>3. f.arg \in Sinks
  BY <1>2 DEF SinkInv, SinkFrames, SinkFrame, Owning
<1>4. \A s : Constructs(s)' <=> Constructs(s) \/ s = f.arg
  BY <1>2 DEF Constructs, Same
<1> QED
  BY <1>1, <1>3, <1>4 DEF ByFrames

\* A constructor ends, and no other constructs its sink.
LEMMA ConstructingEnds ==
  ASSUME StackInv, SinkInv, StackInv', SinkInv', NEW t \in Threads, NEW d \in {1, 2},
         Ends(t, d), Nth(t, d).pc = "construct"
  PROVE  Constructing' = Constructing \ {Nth(t, d).arg} /\ Nth(t, d).arg \in Constructing
<1> DEFINE r == Nth(t, d).arg
<1>1. ByFrames /\ ByFrames'
  BY ConstructingIs, PTL
<1>2. Same(t, d) /\ Has(t, d) /\ ~ Has(t, d)'
  BY DEF Ends
<1>3. r \in Sinks /\ Constructs(r)
  BY <1>2 DEF SinkInv, SinkFrames, SinkFrame, Owning, Constructs
<1>4. \A u \in Threads : \A b \in {1, 2} :
        Has(u, b) /\ Nth(u, b).pc = "construct" /\ (u # t \/ b # d) => Nth(u, b).arg # r
  BY <1>2 DEF SinkInv, SinksDiffer, Two, Owning
<1>5. \A s : Constructs(s)' <=> Constructs(s) /\ s # r
  <2>1. ASSUME NEW s, Constructs(s)'
        PROVE  Constructs(s) /\ s # r
    BY <2>1, <1>2, <1>4 DEF Constructs, Same
  <2>2. ASSUME NEW s, Constructs(s), s # r
        PROVE  Constructs(s)'
    BY <2>2, <1>2 DEF Constructs, Same
  <2> QED
    BY <2>1, <2>2
<1> QED
  BY <1>1, <1>3, <1>5 DEF ByFrames

\* Names drawn stay drawn.
LEMMA DrawnGrows ==
  ASSUME counter \in Int, counter' \in Int, counter <= counter'
  PROVE  Drawn \subseteq Drawn' /\ NoName \notin Drawn /\ NoName \notin Drawn'
<1>1. \A n \in Drawable : n[2] \in Int
  BY DEF Drawable
<1>2. Drawn \subseteq Drawn'
  BY <1>1 DEF Drawn
<1> QED
  BY <1>2, NameAssumption DEF Drawn

\* Who is registered has a name, drawn and not lost.
LEMMA RegisteredNames ==
  ASSUME StackInv, SinkInv, NameInv, NEW s \in Registered
  PROVE  s \in Sinks /\ name[s] # NoName /\ name[s] \in Drawn /\ name[s] \notin leaked
         /\ Spdlog(s) /\ life[s] \in {"making", "free", "installed", "discarded"}
<1>1. s \in Sinks /\ Spdlog(s) /\ life[s] \in {"making", "free", "installed", "discarded"}
  <2>1. CASE s \in Owners
    BY <2>1 DEF Owners
  <2>2. CASE s \in Constructing
    BY <2>2, ConstructingMakes DEF SinkInv, SinkType
  <2> QED
    BY <2>1, <2>2 DEF Registered
<1>2. name[s] # NoName
  BY <1>1 DEF NameInv, Named
<1> QED
  BY <1>1, <1>2 DEF NameInv, NameType, NamesDiffer

\* No name is drawn, registered or dropped.
LEMMA NamesRest ==
  ASSUME NameInv, UNCHANGED <<counter, registry, name, leaked>>, Registered' = Registered,
         \A s \in Sinks : life'[s] \in {"making", "free", "installed", "discarded"}
           => life[s] \in {"making", "free", "installed", "discarded"}
  PROVE  NameInv'
<1>1. Drawn' = Drawn
  BY DEF Drawn
<1>2. NameType' /\ NamesDiffer' /\ RegistryIs'
  BY <1>1 DEF NameInv, NameType, NamesDiffer, RegistryIs
<1>3. \A s \in Sinks : Named(s)'
  BY DEF NameInv, Named, Spdlog
<1> QED
  BY <1>2, <1>3 DEF NameInv

\* A factory draws a name.
LEMMA NameDrawn ==
  ASSUME StackInv, SinkInv, NameInv, NEW t \in Threads, NEW s \in Sinks, MakeSink(t, s),
         Constructing' = Constructing
  PROVE  NameInv'
<1>1. /\ life[s] = "unmade" /\ counter < MaxNames /\ counter' = counter + 1
      /\ name' = [name EXCEPT ![s] = <<Prefix(KindOf[s]), counter'>>]
      /\ life' = [life EXCEPT ![s] = "making"]
      /\ registry' = registry /\ leaked' = leaked
  BY DEF MakeSink, UniqueName
<1>2. counter \in Nat /\ counter' \in 0 .. MaxNames /\ counter' \in Nat /\ counter <= counter'
      /\ counter' > counter
  BY <1>1, BoundsAssumption DEF NameInv, NameType
<1>3. Drawn \subseteq Drawn' /\ NoName \notin Drawn /\ NoName \notin Drawn'
  BY <1>2, DrawnGrows
<1>4. PICK n : n = <<Prefix(KindOf[s]), counter'>>
  OBVIOUS
<1>5. n \in Drawable /\ n[2] = counter'
  <2>1. Spdlog(s) /\ KindOf[s] \in Kinds
    BY <1>1, KindsAssumption DEF SinkInv, SinkType
  <2>2. Prefix(KindOf[s]) \in {Prefix(kind) : kind \in Kinds \ {"custom", "chatty"}}
    BY <2>1 DEF Spdlog
  <2> QED
    BY <2>2, <1>2, <1>4 DEF Drawable
<1>6. n \in Drawn' /\ n \notin Drawn /\ n # NoName
  BY <1>2, <1>3, <1>5 DEF Drawn
<1>7. name \in [Sinks -> {NoName} \cup Drawn] /\ leaked \subseteq Drawn
  BY DEF NameInv, NameType
<1>8. name'[s] = n /\ name' \in [Sinks -> {NoName} \cup Drawn']
      /\ \A r \in Sinks : r # s => name'[r] = name[r] /\ name[r] \in {NoName} \cup Drawn
  BY <1>1, <1>3, <1>4, <1>6, <1>7
<1>9. life'[s] = "making" /\ \A r \in Sinks : r # s => life'[r] = life[r]
  BY <1>1 DEF SinkInv, SinkType
<1>10. NameType'
  BY <1>1, <1>2, <1>3, <1>7, <1>8 DEF NameType
<1>11. NamesDiffer'
  <2>1. SUFFICES ASSUME NEW r \in Sinks, name'[r] # NoName
                 PROVE  name'[r] \notin leaked /\ \A q \in Sinks : q # r => name'[q] # name'[r]
    BY <1>1 DEF NamesDiffer
  <2>2. CASE r = s
    BY <2>2, <1>6, <1>7, <1>8
  <2>3. CASE r # s
    <3>1. name'[r] = name[r] /\ name[r] \in Drawn /\ name[r] # n
      BY <2>1, <2>3, <1>6, <1>8
    <3> QED
      BY <2>1, <3>1, <1>8 DEF NameInv, NamesDiffer
  <2> QED
    BY <2>2, <2>3
<1>12. \A r \in Sinks : Named(r)'
  BY <1>6, <1>8, <1>9 DEF NameInv, Named, Spdlog
<1>13. Registered' = Registered /\ s \notin Registered
  <2>1. Owners' = Owners /\ s \notin Owners
    BY <1>1, <1>9 DEF Owners, Spdlog
  <2>2. s \notin Constructing
    BY <1>1, ConstructingMakes
  <2> QED
    BY <2>1, <2>2 DEF Registered
<1>14. \A r \in Registered : name'[r] = name[r]
  BY <1>8, <1>13, RegisteredNames
<1>15. RegistryIs'
  BY <1>1, <1>13, <1>14 DEF NameInv, RegistryIs
<1> QED
  BY <1>10, <1>11, <1>12, <1>15 DEF NameInv

\* spdlog registers the logger a factory has made.
LEMMA NameRegistered ==
  ASSUME NameInv, NEW s \in Sinks, registry' = registry \cup {name[s]},
         UNCHANGED <<counter, name, leaked, life>>, Constructing' = Constructing \cup {s}
  PROVE  NameInv'
<1>1. Drawn' = Drawn /\ Owners' = Owners
  BY DEF Drawn, Owners, Spdlog
<1>2. NameType' /\ NamesDiffer'
  BY <1>1 DEF NameInv, NameType, NamesDiffer
<1>3. \A r \in Sinks : Named(r)'
  BY DEF NameInv, Named, Spdlog
<1>4. Registered' = Registered \cup {s}
  BY <1>1 DEF Registered
<1>5. RegistryIs'
  BY <1>4 DEF NameInv, RegistryIs
<1> QED
  BY <1>2, <1>3, <1>5 DEF NameInv

\* A constructor returns the sink.
LEMMA SinkMade ==
  ASSUME StackInv, SinkInv, NameInv, NEW s \in Constructing,
         UNCHANGED <<counter, registry, name, leaked>>,
         life' = [life EXCEPT ![s] = "free"], Constructing' = Constructing \ {s}
  PROVE  NameInv'
<1>1. s \in Sinks /\ life[s] = "making" /\ Spdlog(s)
  BY ConstructingMakes DEF SinkInv, SinkType
<1>2. life'[s] = "free" /\ \A r \in Sinks : r # s => life'[r] = life[r]
  BY <1>1 DEF SinkInv, SinkType
<1>3. Owners' = Owners \cup {s}
  BY <1>1, <1>2 DEF Owners, Spdlog
<1>4. Registered' = Registered
  BY <1>3 DEF Registered
<1>5. \A r \in Sinks : life'[r] \in {"making", "free", "installed", "discarded"}
           => life[r] \in {"making", "free", "installed", "discarded"}
  BY <1>1, <1>2
<1> QED
  BY <1>4, <1>5, NamesRest

\* A factory fails: the name is lost, with the registration if there is one.
LEMMA NameLost ==
  ASSUME StackInv, SinkInv, NameInv, NEW s \in Sinks, life[s] = "making",
         UNCHANGED <<counter, registry>>,
         name' = [name EXCEPT ![s] = NoName], life' = [life EXCEPT ![s] = "unmade"],
         Constructing' = Constructing \ {s},
         leaked' = IF s \in Constructing THEN leaked \cup {name[s]} ELSE leaked
  PROVE  NameInv'
<1>1. name \in [Sinks -> {NoName} \cup Drawn] /\ leaked \subseteq Drawn /\ counter \in Int
      /\ name[s] # NoName /\ name[s] \in Drawn /\ Drawn' = Drawn
  <2>1. name[s] # NoName
    BY DEF NameInv, Named, SinkInv, SinkType
  <2> QED
    BY <2>1 DEF NameInv, NameType, Drawn
<1>2. name'[s] = NoName /\ name' \in [Sinks -> {NoName} \cup Drawn]
      /\ \A r \in Sinks : r # s => name'[r] = name[r]
  BY <1>1
<1>3. life'[s] = "unmade" /\ \A r \in Sinks : r # s => life'[r] = life[r]
  BY DEF SinkInv, SinkType
<1>4. NameType'
  BY <1>1, <1>2 DEF NameInv, NameType
<1>5. NamesDiffer'
  <2>1. SUFFICES ASSUME NEW r \in Sinks, name'[r] # NoName
                 PROVE  name'[r] \notin leaked' /\ \A q \in Sinks : q # r => name'[q] # name'[r]
    BY DEF NamesDiffer
  <2>2. r # s /\ name'[r] = name[r]
    BY <2>1, <1>2
  <2>3. name[r] \notin leaked /\ \A q \in Sinks : q # r => name[q] # name[r]
    BY <2>1, <2>2 DEF NameInv, NamesDiffer
  <2> QED
    BY <2>1, <2>2, <2>3, <1>2
<1>6. \A r \in Sinks : Named(r)'
  BY <1>2, <1>3 DEF NameInv, Named, Spdlog
<1>7. Registered' = Registered \ {s} /\ (s \in Registered <=> s \in Constructing)
  <2>1. Owners' = Owners /\ s \notin Owners
    BY <1>3 DEF Owners, Spdlog
  <2> QED
    BY <2>1 DEF Registered
<1>8. \A r \in Registered : r # s => name'[r] = name[r]
  BY <1>2, RegisteredNames
<1>9. RegistryIs'
  <2>1. ASSUME NEW n
        PROVE  n \in registry <=> n \in leaked' \/ \E r \in Registered' : n = name'[r]
    <3>1. n \in registry <=> n \in leaked \/ \E r \in Registered : n = name[r]
      BY DEF NameInv, RegistryIs
    <3>2. (\E r \in Registered' : n = name'[r]) <=> \E r \in Registered : r # s /\ n = name[r]
      BY <1>7, <1>8
    <3>3. (\E r \in Registered : n = name[r])
            <=> (s \in Constructing /\ n = name[s]) \/ \E r \in Registered : r # s /\ n = name[r]
      BY <1>7
    <3> QED
      BY <3>1, <3>2, <3>3
  <2> QED
    BY <2>1 DEF RegistryIs
<1> QED
  BY <1>4, <1>5, <1>6, <1>9 DEF NameInv

\* A sink is destroyed: its own name is dropped, if it is one of the library.
LEMMA NameDropped ==
  ASSUME StackInv, SinkInv, NameInv, NEW s \in Sinks, DestroySink(s), leaked' = leaked,
         life[s] # "making", Constructing' = Constructing
  PROVE  NameInv'
<1>1. /\ registry' = IF Spdlog(s) THEN registry \ {name[s]} ELSE registry
      /\ life' = [life EXCEPT ![s] = "dead"] /\ counter' = counter /\ name' = name
  BY DEF DestroySink, DropLogger
<1>2. life'[s] = "dead" /\ \A r \in Sinks : r # s => life'[r] = life[r]
  BY <1>1 DEF SinkInv, SinkType
<1>3. NameType' /\ NamesDiffer' /\ \A r \in Sinks : Named(r)'
  <2>1. Drawn' = Drawn
    BY <1>1 DEF Drawn
  <2>2. \A r \in Sinks : Named(r)'
    BY <1>1, <1>2 DEF NameInv, Named, Spdlog
  <2> QED
    BY <1>1, <2>1, <2>2 DEF NameInv, NameType, NamesDiffer
<1>4. Registered' = Registered \ {s} /\ (s \in Registered => Spdlog(s))
  <2>1. Owners' = Owners \ {s} /\ (s \in Owners => Spdlog(s))
    BY <1>2 DEF Owners, Spdlog
  <2>2. s \notin Constructing
    BY ConstructingMakes
  <2> QED
    BY <2>1, <2>2 DEF Registered
<1>5. ASSUME NEW r \in Registered, r # s
      PROVE  name[r] # name[s]
  <2>1. r \in Sinks /\ name[r] # NoName
    BY <1>5, RegisteredNames
  <2> QED
    BY <2>1, <1>5 DEF NameInv, NamesDiffer
<1>6. ASSUME name[s] \in leaked
      PROVE  FALSE
  <2>1. NoName \notin Drawn
    BY NameAssumption DEF Drawn
  <2>2. name[s] # NoName
    BY <1>6, <2>1 DEF NameInv, NameType
  <2> QED
    BY <1>6, <2>2 DEF NameInv, NamesDiffer
<1>7. RegistryIs'
  <2>1. ASSUME NEW n
        PROVE  n \in registry' <=> n \in leaked \/ \E r \in Registered \ {s} : n = name[r]
    <3>1. n \in registry <=> n \in leaked \/ \E r \in Registered : n = name[r]
      BY DEF NameInv, RegistryIs
    <3>2. CASE n = name[s]
      BY <3>1, <3>2, <1>1, <1>4, <1>5, <1>6
    <3>3. CASE n # name[s]
      BY <3>1, <3>3, <1>1, <1>4
    <3> QED
      BY <3>2, <3>3
  <2> QED
    BY <2>1, <1>1, <1>4 DEF RegistryIs
<1> QED
  BY <1>3, <1>7 DEF NameInv

-----------------------------------------------------------------------------
(***************************************************************************)
(* The steps, each with the call it makes, changes or ends.                *)
(***************************************************************************)
LogInv == StackInv /\ CallInv /\ SinkInv /\ LineInv /\ NameInv

\* Nothing is in progress at the start, made, written or named.
LEMMA LogInit ==
  ASSUME Init
  PROVE  LogInv
<1>1. \A t \in Threads : \A b \in {1, 2} : ~ Has(t, b)
  BY DEF Init, Has
<1>2. CallInv
  <2>1. "info" \in Level /\ "off" \in Level
    BY RankType
  <2>2. NoCall \in Posts /\ NoCall.st = "none" /\ NoCall.id = NoId
    BY <2>1 DEF NoCall, Posts, Ids
  <2>3. CallType
    BY <2>1, <2>2 DEF Init, CallType
  <2> QED
    BY <2>3, <1>1 DEF CallInv, CallFrames, CallsDiffer, Two
<1>3. SinkInv
  <2>1. SinkType
    BY DEF Init, SinkType
  <2> QED
    BY <2>1, <1>1 DEF SinkInv, SinkFrames, SinksDiffer, Two, Innermost
<1>4. LineInv
  <2>1. LineType /\ \A s \in Sinks : Flushed(s)
    BY DEF Init, SinksInit, LineType, Flushed
  <2> QED
    BY <2>1, <1>1 DEF LineInv, Writers
<1>5. NameInv
  <2>1. Constructing = {}
    BY DEF Init, Constructing, At, Idle
  <2>2. Owners = {}
    BY DEF Init, Owners
  <2>3. NameType /\ NamesDiffer
    BY BoundsAssumption DEF Init, SinksInit, NameType, NamesDiffer
  <2>4. RegistryIs
    BY <2>1, <2>2 DEF Init, SinksInit, RegistryIs, Registered
  <2>5. \A s \in Sinks : Named(s)
    BY DEF Init, Named
  <2> QED
    BY <2>3, <2>4, <2>5 DEF NameInv
<1> QED
  BY <1>2, <1>3, <1>4, <1>5, StackInit DEF LogInv

\* The stacks stay as they must be.
LEMMA StackNext ==
  ASSUME StackInv, [Next]_vars
  PROVE  StackInv'
<1>1. CASE UNCHANGED vars
  BY <1>1, Between DEF vars, logVars
<1>2. ASSUME NEW t \in Threads, Program(t) \/ Step(t)
      PROVE  StackInv'
  BY <1>2, ProgramKeeps, LoggingKeeps, SinkStepsKeep DEF Step
<1> QED
  BY <1>1, <1>2 DEF Next

\* A call at pc goes on at q.
LEMMA Going ==
  ASSUME StackInv, NEW t \in Threads, NEW pc, At(t, pc), NEW q \in PCs, NEW i \in Nat \ {0},
         NEW arg \in Messages \cup Sinks \cup {NoThread}, Become(t, Frame(q, arg, i))
  PROVE  \E d \in {1, 2} : \E f :
           /\ Changes(t, d, f) /\ Nth(t, d) = Top(t) /\ Nth(t, d).pc = pc
           /\ f.pc = q /\ f.arg = arg /\ f.i = i
<1>1. ~ Idle(t) /\ Top(t).pc = pc
  BY AtFacts
<1>2. Frame(q, arg, i) \in Frames /\ Frame(q, arg, i).pc = q /\ Frame(q, arg, i).arg = arg
      /\ Frame(q, arg, i).i = i
  BY FrameType
<1>3. PICK d \in {1, 2} : Changes(t, d, Frame(q, arg, i))
  BY <1>1, <1>2, BecomeChanges
<1>4. Nth(t, d) = Top(t)
  BY <1>3 DEF Changes
<1> QED
  BY <1>1, <1>2, <1>3, <1>4

\* A call at pc returns.
LEMMA Ending ==
  ASSUME StackInv, NEW t \in Threads, NEW pc, At(t, pc), Return(t)
  PROVE  \E d \in {1, 2} : Ends(t, d) /\ Nth(t, d) = Top(t) /\ Nth(t, d).pc = pc
<1>1. ~ Idle(t) /\ Top(t).pc = pc
  BY AtFacts
<1>2. PICK d \in {1, 2} : Ends(t, d)
  BY <1>1, ReturnEnds
<1>3. Nth(t, d) = Top(t)
  BY <1>2 DEF Ends
<1> QED
  BY <1>1, <1>2, <1>3

\* A call is made, at q.
LEMMA Opening ==
  ASSUME StackInv, StackInv', NEW t \in Threads, UserCode(t), NEW q \in PCs,
         NEW arg \in Messages \cup Sinks \cup {NoThread}, Push(t, Frame(q, arg, 1))
  PROVE  \E d \in {1, 2} : \E f : Opens(t, d, f) /\ f.pc = q /\ f.arg = arg /\ f.i = 1
<1>1. Frame(q, arg, 1) \in Frames /\ Frame(q, arg, 1).pc = q /\ Frame(q, arg, 1).arg = arg
      /\ Frame(q, arg, 1).i = 1
  BY FrameType
<1> QED
  BY <1>1, PushOpens

\* A step of a thread without calls that makes none.
LEMMA Nothing ==
  ASSUME StackInv, NEW t \in Threads, Idle(t), stack' = stack
  PROVE  Same(t, 1) /\ ~ Has(t, 1) /\ ~ Has(t, 1)' /\ Innermost(t)'
<1>1. Len(stack[t]) = 0
  BY DEF Idle
<1>2. ~ Has(t, 1) /\ ~ Has(t, 1)' /\ ~ Has(t, 2)'
  BY <1>1 DEF Has
<1>3. Same(t, 1)
  BY DEF Same, Has, Nth
<1> QED
  BY <1>2, <1>3 DEF Innermost

\* A step of a call that makes, installs and discards no sink.
LEMMA SinksAndNamesRest ==
  ASSUME LogInv, StackInv', NEW t \in Threads, NEW d \in {1, 2}, Same(t, d), Innermost(t)',
         UNCHANGED <<life, counter, registry, name, leaked>>, sinks' = sinks \/ sinks' = <<>>,
         Has(t, d) => Nth(t, d).pc \notin Owning, Has(t, d)' => Nth(t, d)'.pc \notin Owning
  PROVE  SinkInv' /\ NameInv'
<1>1. StackInv /\ SinkInv /\ NameInv
  BY DEF LogInv
<1>2. SinkInv'
  BY <1>1, SinksRest
<1>3. "construct" \in Owning
  BY DEF Owning
<1>4. Constructing' = Constructing
  BY <1>1, <1>2, <1>3, ConstructingRest
<1>5. Registered' = Registered
  BY <1>4 DEF Registered, Owners, Spdlog
<1> QED
  BY <1>1, <1>2, <1>5, NamesRest

\* A step that writes no line and dispatches nothing.
LEMMA LinesAsBefore ==
  ASSUME LogInv, UNCHANGED <<lines, flushed, sinks, call>>,
         NEW t \in Threads, NEW d \in {1, 2}, Same(t, d), Has(t, d)' => Nth(t, d)'.pc # "write"
  PROVE  LineInv'
<1>1. Settled
  BY DEF Settled
<1> QED
  BY <1>1, LinesRest DEF LogInv

\* A log call that is closed while it writes no line.
LEMMA LinesAfterClose ==
  ASSUME LogInv, UNCHANGED <<lines, flushed, sinks>>, NEW t \in Threads, NEW d \in {1, 2},
         Ends(t, d), Nth(t, d).pc \in Logging, NEW st \in {"posted", "dropped", "failed"},
         Close(Nth(t, d).arg, st)
  PROVE  LineInv'
<1>1. Same(t, d) /\ Has(t, d) /\ ~ Has(t, d)'
  BY DEF Ends
<1>2. LineInv /\ CallInv
  BY DEF LogInv
<1>3. Nth(t, d).arg \in Messages
  BY <1>1, <1>2 DEF CallInv, CallFrames, LogFrame
<1>4. Settled /\ \A k \in Messages : k # Nth(t, d).arg => call'[k] = call[k]
  BY <1>2, <1>3, CloseSettles
<1>5. ASSUME NEW u \in Threads, NEW b \in {1, 2}, Has(u, b), Nth(u, b).pc = "write", u # t \/ b # d
      PROVE  call'[Nth(u, b).arg].id = call[Nth(u, b).arg].id
  <2>1. "write" \in Logging
    BY DEF Logging
  <2>2. Nth(u, b).arg \in Messages
    BY <2>1, <1>2, <1>5 DEF CallInv, CallFrames, LogFrame
  <2>3. Nth(u, b).arg # Nth(t, d).arg
    BY <2>1, <1>1, <1>2, <1>5 DEF CallInv, CallsDiffer, Two
  <2> QED
    BY <2>2, <2>3, <1>4
<1> QED
  BY <1>1, <1>2, <1>4, <1>5, LinesRest

\* A log call returns.
LEMMA Closed ==
  ASSUME LogInv, StackInv', NEW t \in Threads, NEW pc \in Logging, At(t, pc), Return(t),
         NEW st \in {"posted", "dropped", "failed"}, Close(Top(t).arg, st),
         UNCHANGED <<sinkVars, level, sinks, life, leaked>>
  PROVE  LogInv'
<1>1. PICK d \in {1, 2} : Ends(t, d) /\ Nth(t, d) = Top(t) /\ Nth(t, d).pc = pc
  BY Ending DEF LogInv
<1>2. CallInv'
  BY <1>1, CallCloses DEF LogInv
<1>3. LineInv'
  BY <1>1, LinesAfterClose DEF sinkVars
<1>4. Same(t, d) /\ ~ Has(t, d)' /\ Innermost(t)' /\ pc \notin Owning
  BY <1>1, StaysInnermost DEF LogInv, Ends, Logging, Owning
<1>5. SinkInv' /\ NameInv'
  BY <1>1, <1>4, SinksAndNamesRest DEF sinkVars
<1> QED
  BY <1>2, <1>3, <1>5 DEF LogInv
-----------------------------------------------------------------------------
\* The level is set.
LEMMA SetLevelStep ==
  ASSUME LogInv, StackInv', NEW t \in Threads, NEW l \in SetLevels, SetLevel(t, l)
  PROVE  LogInv'
<1>1. Idle(t) /\ stack' = stack /\ UNCHANGED <<sinkVars, sinks, life, leaked>>
  BY DEF SetLevel
<1>2. Same(t, 1) /\ ~ Has(t, 1) /\ ~ Has(t, 1)' /\ Innermost(t)'
  BY <1>1, Nothing DEF LogInv
<1>3. CallInv'
  BY CallsSeeLevel DEF LogInv
<1>4. \A m \in Messages : call'[m].st = call[m].st /\ call'[m].lvl = call[m].lvl
                          /\ call'[m].id = call[m].id
  <2>1. ASSUME NEW m \in Messages
        PROVE  call'[m].st = call[m].st /\ call'[m].lvl = call[m].lvl /\ call'[m].id = call[m].id
    <3>1. call[m] \in Posts
      BY DEF LogInv, CallInv, CallType
    <3>2. call'[m] = IF call[m].st = "open" THEN [call[m] EXCEPT !.seen = @ \cup {l}] ELSE call[m]
      BY DEF SetLevel
    <3> QED
      BY <3>1, <3>2 DEF Posts
  <2> QED
    BY <2>1
<1>5. LineInv'
  <2>1. \A u \in Threads : \A b \in {1, 2} :
          Has(u, b) /\ Nth(u, b).pc = "write" => Nth(u, b).arg \in Messages
    BY DEF LogInv, CallInv, CallFrames, LogFrame, Logging
  <2>2. Settled
    BY <1>4 DEF Settled
  <2> QED
    BY <1>1, <1>2, <1>4, <2>1, <2>2, LinesRest DEF LogInv, sinkVars
<1>6. SinkInv' /\ NameInv'
  BY <1>1, <1>2, SinksAndNamesRest DEF sinkVars
<1> QED
  BY <1>3, <1>5, <1>6 DEF LogInv

\* A log call is made: it opens a message nobody logs yet.
LEMMA BeginStep ==
  ASSUME LogInv, StackInv', NEW t \in Threads, NEW fmt \in BOOLEAN, Begin(t, fmt)
  PROVE  LogInv'
<1>1. UserCode(t) /\ UNCHANGED <<sinkVars, sinks, life, leaked>>
  BY DEF Begin
<1>2. PICK m \in Messages :
        /\ call[m].st = "none"
        /\ \E p : p.st = "open" /\ call' = [call EXCEPT ![m] = p]
        /\ Push(t, Frame(IF fmt THEN "check" ELSE "lock", m, 1))
  <2>1. \E m \in Messages : \E lvl \in MsgLevels[m] :
          /\ call[m].st = "none"
          /\ call' = [call EXCEPT ![m] = [st |-> "open", lvl |-> lvl, id |-> logger(m), fmt |-> fmt,
                                          seen |-> {level}]]
          /\ Push(t, Frame(IF fmt THEN "check" ELSE "lock", m, 1))
    BY DEF Begin
  <2> QED
    BY <2>1
<1>3. PICK q \in {"check", "lock"} : Push(t, Frame(q, m, 1))
  BY <1>2
<1>4. q \in PCs \ {"write"} /\ q \notin Owning
  BY DEF PCs, Owning
<1>5. PICK d \in {1, 2} : \E f : Opens(t, d, f) /\ f.pc = q /\ f.arg = m /\ f.i = 1
  BY <1>1, <1>3, <1>4, Opening DEF LogInv
<1>6. PICK f : Opens(t, d, f) /\ f.pc = q
  BY <1>5
<1>7. Same(t, d) /\ ~ Has(t, d) /\ Nth(t, d)'.pc = q /\ Innermost(t)'
  BY <1>1, <1>6, OpensOnUser DEF LogInv, Opens
<1>8. CallInv'
  BY CallBegins DEF LogInv
<1>9. LineInv'
  <2>1. \A k \in Messages : k # m => call'[k] = call[k]
    BY <1>2 DEF LogInv, CallInv, CallType
  <2>2. Settled
    BY <1>2, <2>1 DEF Settled
  <2>3. \A u \in Threads : \A b \in {1, 2} :
          Has(u, b) /\ Nth(u, b).pc = "write" => Nth(u, b).arg \in Messages \ {m}
    BY <1>2 DEF LogInv, CallInv, CallFrames, LogFrame, Logging
  <2> QED
    BY <1>1, <1>4, <1>7, <2>1, <2>2, <2>3, LinesRest DEF LogInv, sinkVars
<1>10. SinkInv' /\ NameInv'
  BY <1>1, <1>4, <1>7, SinksAndNamesRest DEF sinkVars
<1> QED
  BY <1>8, <1>9, <1>10 DEF LogInv

\* A log call goes on with the sinks as they are, and writes nothing yet.
LEMMA GoesOnTo ==
  ASSUME LogInv, StackInv', NEW t \in Threads, NEW pc \in Logging, At(t, pc),
         NEW q \in Logging \ {"write"}, Become(t, Frame(q, Top(t).arg, 1)),
         q = "check" => call[Top(t).arg].fmt,
         q = "format" => Enabled(call[Top(t).arg].lvl) /\ call[Top(t).arg].fmt,
         UNCHANGED <<sinkVars, level, sinks, life, call, leaked>>
  PROVE  LogInv'
<1>1. q \in PCs /\ q \notin Owning /\ pc \notin Owning /\ 1 \in Nat \ {0}
      /\ Top(t).arg \in Messages \cup Sinks \cup {NoThread}
  BY AtFacts DEF LogInv, Logging, Owning, PCs
<1>2. PICK d \in {1, 2} : \E f :
        /\ Changes(t, d, f) /\ Nth(t, d) = Top(t) /\ Nth(t, d).pc = pc
        /\ f.pc = q /\ f.arg = Top(t).arg /\ f.i = 1
  BY <1>1, Going DEF LogInv
<1>3. PICK f : Changes(t, d, f) /\ Nth(t, d) = Top(t) /\ Nth(t, d).pc = pc
               /\ f.pc = q /\ f.arg = Top(t).arg
  BY <1>2
<1>4. Same(t, d) /\ Has(t, d) /\ Nth(t, d)' = f /\ Innermost(t)'
  BY <1>3, StaysInnermost DEF LogInv, Changes
<1>5. CallInv'
  <2>1. LogFrame(Nth(t, d))
    BY <1>3, <1>4 DEF LogInv, CallInv, CallFrames
  <2>2. call[f.arg].st = "open" /\ f.arg \in Messages /\ level \in call[f.arg].seen
    BY <1>3, <2>1 DEF LogFrame, LogInv, CallInv, CallType
  <2>3. LogFrame(f)
    BY <1>3, <2>2 DEF LogFrame, Enabled
  <2> QED
    BY <1>3, <2>3, CallGoesOn DEF LogInv
<1>6. LineInv'
  BY <1>3, <1>4, LinesAsBefore DEF sinkVars
<1>7. SinkInv' /\ NameInv'
  BY <1>1, <1>3, <1>4, SinksAndNamesRest DEF sinkVars
<1> QED
  BY <1>5, <1>6, <1>7 DEF LogInv

\* What the frame on top of a log call says.
LEMMA TopLogs ==
  ASSUME StackInv, CallInv, NEW t \in Threads, NEW pc \in Logging, At(t, pc)
  PROVE  LogFrame(Top(t)) /\ Top(t).pc = pc /\ call[Top(t).arg].lvl \in Level /\ level \in Level
         /\ level \in call[Top(t).arg].seen
<1>1. ~ Idle(t) /\ Top(t).pc = pc
  BY AtFacts
<1>2. Len(stack[t]) \in {1, 2} /\ Top(t) = stack[t][1]
  BY <1>1, TopFacts
<1>3. \E b \in {1, 2} : Has(t, b) /\ Nth(t, b) = Top(t)
  BY <1>2, Places
<1>4. LogFrame(Top(t))
  BY <1>1, <1>3 DEF CallInv, CallFrames
<1>5. call[Top(t).arg] \in Posts
  BY <1>4 DEF LogFrame, CallInv, CallType
<1>6. call[Top(t).arg].lvl \in Level
  BY <1>5 DEF Posts
<1> QED
  BY <1>1, <1>4, <1>6 DEF LogFrame, CallInv, CallType

\* The level is checked, the text is formatted.
LEMMA FormatStep ==
  ASSUME LogInv, StackInv', NEW t \in Threads, CheckLevel(t) \/ Formatted(t)
  PROVE  LogInv'
<1> DEFINE m == Top(t).arg
<1>0. "check" \in Logging /\ "format" \in Logging \ {"write"} /\ "lock" \in Logging \ {"write"}
  BY DEF Logging
<1>1. CASE CheckLevel(t)
  <2>1. At(t, "check") /\ UNCHANGED <<sinkVars, level, sinks, life, leaked>>
    BY <1>1 DEF CheckLevel
  <2>2. LogFrame(Top(t)) /\ Top(t).pc = "check"
    BY <2>1, <1>0, TopLogs DEF LogInv
  <2>3. \/ Enabled(call[m].lvl) /\ Become(t, Frame("format", m, 1)) /\ call' = call
        \/ Return(t) /\ Close(m, "dropped")
    BY <1>1 DEF CheckLevel
  <2>4. CASE Enabled(call[m].lvl) /\ Become(t, Frame("format", m, 1)) /\ call' = call
    BY <2>1, <2>2, <2>4, <1>0, GoesOnTo DEF LogFrame
  <2>5. CASE Return(t) /\ Close(m, "dropped")
    BY <2>1, <2>5, <1>0, Closed
  <2> QED
    BY <2>3, <2>4, <2>5
<1>2. CASE Formatted(t)
  <2>1. At(t, "format") /\ UNCHANGED <<sinkVars, level, sinks, life, leaked>>
    BY <1>2 DEF Formatted
  <2>2. \/ Become(t, Frame("lock", m, 1)) /\ call' = call
        \/ Return(t) /\ Close(m, "failed")
    BY <1>2 DEF Formatted
  <2>3. CASE Become(t, Frame("lock", m, 1)) /\ call' = call
    BY <2>1, <2>3, <1>0, GoesOnTo
  <2>4. CASE Return(t) /\ Close(m, "failed")
    BY <2>1, <2>4, <1>0, Closed
  <2> QED
    BY <2>2, <2>3, <2>4
<1> QED
  BY <1>1, <1>2

\* The lock is taken and the dispatch begins, or the message is dropped.
LEMMA LogMessageStep ==
  ASSUME LogInv, StackInv', NEW t \in Threads, LogMessage(t)
  PROVE  LogInv'
<1> DEFINE m == Top(t).arg
<1>0. "lock" \in Logging /\ "lock" \notin Owning /\ "write" \notin Owning /\ "write" \in PCs
      /\ 1 \in Nat \ {0} /\ "write" \in Locking /\ "lock" # "write"
  BY DEF Logging, Owning, PCs, Locking
<1>1. At(t, "lock") /\ mtx = NoThread /\ UNCHANGED <<sinkVars, level, sinks, life, leaked>>
  BY DEF LogMessage, Locked
<1>2. CASE Return(t) /\ Close(m, "dropped")
  BY <1>0, <1>1, <1>2, Closed
<1>3. CASE ~ Rank[call[m].lvl] < Rank[level] /\ Become(t, Frame("write", m, 1)) /\ call' = call
  <2>1. Top(t).arg \in Messages \cup Sinks \cup {NoThread}
    BY <1>1, AtFacts DEF LogInv
  <2>2. PICK d \in {1, 2} : \E f :
          /\ Changes(t, d, f) /\ Nth(t, d) = Top(t) /\ Nth(t, d).pc = "lock"
          /\ f.pc = "write" /\ f.arg = Top(t).arg /\ f.i = 1
    BY <1>0, <1>1, <1>3, <2>1, Going DEF LogInv
  <2>3. PICK f : Changes(t, d, f) /\ Nth(t, d) = Top(t) /\ Nth(t, d).pc = "lock"
                 /\ f.pc = "write" /\ f.arg = Top(t).arg /\ f.i = 1
    BY <2>2
  <2>4. Same(t, d) /\ Has(t, d) /\ Nth(t, d)' = f /\ Innermost(t)'
    BY <2>3, StaysInnermost DEF LogInv, Changes
  <2>5. LogFrame(Top(t)) /\ call[Top(t).arg].lvl \in Level /\ level \in Level
    BY <1>0, <1>1, TopLogs DEF LogInv
  <2>6. Rank[level] <= Rank[call[m].lvl]
    BY <2>5, <1>3, RankType
  <2>7. LogFrame(f)
    BY <2>3, <2>5, <2>6 DEF LogFrame
  <2>8. CallInv'
    BY <1>0, <1>1, <1>3, <2>3, <2>7, CallGoesOn DEF LogInv
  <2>9. LineInv'
    <3>1. ASSUME NEW u \in Threads, NEW b \in {1, 2}, Has(u, b)', Nth(u, b)'.pc = "write"
          PROVE  Nth(u, b)'.i = 1
      <4>1. CASE u = t /\ b = d
        BY <4>1, <2>3, <2>4
      <4>2. CASE u # t \/ b # d
        <5>1. Has(u, b) /\ Nth(u, b)' = Nth(u, b)
          BY <3>1, <4>2, <2>4 DEF Same
        <5> QED
          BY <3>1, <5>1, <1>0, <1>1, NoHolder DEF LogInv
      <4> QED
        BY <4>1, <4>2
    <3>2. Settled
      BY <1>3 DEF Settled
    <3> QED
      BY <1>1, <3>1, <3>2, LinesFresh DEF LogInv, sinkVars
  <2>10. SinkInv' /\ NameInv'
    BY <1>0, <1>1, <2>3, <2>4, SinksAndNamesRest DEF sinkVars
  <2> QED
    BY <2>8, <2>9, <2>10 DEF LogInv
<1> QED
  BY <1>2, <1>3 DEF LogMessage

\* A sink is written to.
LEMMA WriteSinkStep ==
  ASSUME LogInv, StackInv', NEW t \in Threads, WriteSink(t)
  PROVE  LogInv'
<1> DEFINE m == Top(t).arg
           i == Top(t).i
<1>0. "write" \in Logging /\ "write" \notin Owning /\ "write" \in PCs
  BY DEF Logging, Owning, PCs
<1>1. /\ At(t, "write") /\ Become(t, Frame("write", m, i + 1))
      /\ UNCHANGED <<counter, registry, name, level, sinks, life, call, leaked>>
  BY DEF WriteSink
<1>2. m \in Messages \cup Sinks \cup {NoThread} /\ i + 1 \in Nat \ {0}
  BY <1>1, AtFacts DEF LogInv
<1>3. PICK d \in {1, 2} : \E f :
        /\ Changes(t, d, f) /\ Nth(t, d) = Top(t) /\ Nth(t, d).pc = "write"
        /\ f.pc = "write" /\ f.arg = m /\ f.i = i + 1
  BY <1>0, <1>1, <1>2, Going DEF LogInv
<1>4. PICK f : Changes(t, d, f) /\ Nth(t, d) = Top(t) /\ Nth(t, d).pc = "write"
               /\ f.pc = "write" /\ f.arg = m
  BY <1>3
<1>5. Same(t, d) /\ Has(t, d) /\ Nth(t, d)' = f /\ Innermost(t)'
  BY <1>4, StaysInnermost DEF LogInv, Changes
<1>6. LogFrame(f)
  BY <1>0, <1>1, <1>4, TopLogs DEF LogFrame, LogInv
<1>7. CallInv'
  BY <1>0, <1>1, <1>4, <1>6, CallGoesOn DEF LogInv
<1>8. LineInv'
  BY SinkWritten DEF LogInv
<1>9. SinkInv' /\ NameInv'
  BY <1>0, <1>1, <1>4, <1>5, SinksAndNamesRest
<1> QED
  BY <1>7, <1>8, <1>9 DEF LogInv

\* The dispatch ends.
LEMMA EndMessageStep ==
  ASSUME LogInv, StackInv', NEW t \in Threads, EndMessage(t)
  PROVE  LogInv'
<1>1. "write" \in Logging
  BY DEF Logging
<1>2. At(t, "write") /\ Return(t) /\ Close(Top(t).arg, "posted")
      /\ UNCHANGED <<sinkVars, level, sinks, life, leaked>>
  BY DEF EndMessage
<1> QED
  BY <1>1, <1>2, Closed
-----------------------------------------------------------------------------
\* A step of a call that logs nothing leaves the log calls and the lines alone.
LEMMA LogRests ==
  ASSUME LogInv, UNCHANGED <<lines, flushed, sinks, level, call>>,
         NEW t \in Threads, NEW d \in {1, 2}, Same(t, d), Has(t, d)' => Nth(t, d)'.pc \notin Logging
  PROVE  CallInv' /\ LineInv'
<1>1. Has(t, d)' => Nth(t, d)'.pc # "write"
  BY DEF Logging
<1>2. LineInv'
  BY <1>1, LinesAsBefore
<1>3. CallInv'
  BY CallsRest DEF LogInv
<1> QED
  BY <1>2, <1>3

\* A sink is drawn a name.
LEMMA MakeSinkStep ==
  ASSUME LogInv, StackInv', NEW t \in Threads, NEW s \in Sinks, MakeSink(t, s)
  PROVE  LogInv'
<1>0. "make" \notin Logging /\ "make" \in PCs /\ "make" # "construct"
  BY DEF Logging, PCs
<1>1. /\ UserCode(t) /\ Push(t, Frame("make", s, 1)) /\ life[s] = "unmade"
      /\ life' = [life EXCEPT ![s] = "making"]
      /\ UNCHANGED <<lines, flushed, sinks, level, call>>
  BY DEF MakeSink, UserCode
<1>2. PICK d \in {1, 2} : \E f : Opens(t, d, f) /\ f.pc = "make" /\ f.arg = s /\ f.i = 1
  BY <1>0, <1>1, Opening DEF LogInv
<1>3. PICK f : Opens(t, d, f) /\ f.pc = "make" /\ f.arg = s
  BY <1>2
<1>4. Same(t, d) /\ ~ Has(t, d) /\ Nth(t, d)' = f
  BY <1>3 DEF Opens
<1>5. CallInv' /\ LineInv'
  BY <1>0, <1>1, <1>3, <1>4, LogRests
<1>6. SinkInv'
  BY <1>1, <1>3, OwnerOpens DEF LogInv
<1>7. Constructing' = Constructing
  BY <1>0, <1>3, <1>4, <1>6, ConstructingRest DEF LogInv
<1>8. NameInv'
  BY <1>7, NameDrawn DEF LogInv
<1> QED
  BY <1>5, <1>6, <1>8 DEF LogInv

\* The logger of a sink is registered.
LEMMA OpenLoggerStep ==
  ASSUME LogInv, StackInv', NEW t \in Threads, OpenLogger(t)
  PROVE  LogInv'
<1> DEFINE s == Top(t).arg
<1>0. "construct" \notin Logging /\ "construct" \in PCs /\ 1 \in Nat \ {0}
  BY DEF Logging, PCs
<1>1. /\ At(t, "make") /\ Become(t, Frame("construct", s, 1)) /\ registry' = registry \cup {name[s]}
      /\ UNCHANGED <<counter, name, lines, flushed, level, sinks, life, call, leaked>>
  BY DEF OpenLogger, RegisterLogger
<1>2. s \in Messages \cup Sinks \cup {NoThread}
  BY <1>1, AtFacts DEF LogInv
<1>3. PICK d \in {1, 2} : \E f :
        /\ Changes(t, d, f) /\ Nth(t, d) = Top(t) /\ Nth(t, d).pc = "make"
        /\ f.pc = "construct" /\ f.arg = s /\ f.i = 1
  BY <1>0, <1>1, <1>2, Going DEF LogInv
<1>4. PICK f : Changes(t, d, f) /\ Nth(t, d) = Top(t) /\ Nth(t, d).pc = "make"
               /\ f.pc = "construct" /\ f.arg = s
  BY <1>3
<1>5. Same(t, d) /\ Nth(t, d)' = f
  BY <1>4 DEF Changes
<1>6. CallInv' /\ LineInv'
  BY <1>0, <1>1, <1>4, <1>5, LogRests
<1>7. SinkInv'
  BY <1>1, <1>4, OwnerGoesOn DEF LogInv
<1>8. Constructing' = Constructing \cup {s} /\ s \in Sinks
  BY <1>4, <1>7, ConstructingBegins DEF LogInv
<1>9. NameInv'
  BY <1>1, <1>8, NameRegistered DEF LogInv
<1> QED
  BY <1>6, <1>7, <1>9 DEF LogInv

\* The sink of a call that makes it is not constructed by another.
LEMMA OneMaker ==
  ASSUME StackInv, SinkInv, NEW t \in Threads, NEW d \in {1, 2}, Has(t, d), Nth(t, d).pc = "make"
  PROVE  Nth(t, d).arg \notin Constructing
<1>1. SUFFICES ASSUME Constructs(Nth(t, d).arg)
               PROVE  FALSE
  BY ConstructingIs DEF ByFrames
<1>2. PICK u \in Threads, b \in {1, 2} :
        Has(u, b) /\ Nth(u, b).pc = "construct" /\ Nth(u, b).arg = Nth(t, d).arg
  BY <1>1 DEF Constructs
<1>3. Two(t, d, u, b)
  BY <1>2 DEF Two
<1> QED
  BY <1>2, <1>3 DEF SinkInv, SinksDiffer, Owning

\* A factory fails or returns.
LEMMA FactoryStep ==
  ASSUME LogInv, StackInv', NEW t \in Threads, OpenFails(t) \/ Construct(t)
  PROVE  LogInv'
<1> DEFINE s == Top(t).arg
<1>1. PICK pc \in {"make", "construct"} : At(t, pc) /\ (pc = "make" <=> OpenFails(t))
  BY DEF OpenFails, Construct, At
<1>2. Return(t) /\ UNCHANGED <<counter, registry, lines, flushed, level, sinks, call>>
  BY DEF OpenFails, Construct
<1>3. PICK d \in {1, 2} : Ends(t, d) /\ Nth(t, d) = Top(t) /\ Nth(t, d).pc = pc
  BY <1>1, <1>2, Ending DEF LogInv
<1>4. Same(t, d) /\ Has(t, d) /\ ~ Has(t, d)' /\ pc \in Owning
  BY <1>3 DEF Ends, Owning
<1>5. CallInv' /\ LineInv'
  BY <1>2, <1>4, LogRests
<1>6. s \in Sinks /\ life[s] = "making"
  BY <1>3, <1>4 DEF LogInv, SinkInv, SinkFrames, SinkFrame
<1>7. CASE pc = "make"
  <2>1. /\ life' = [life EXCEPT ![s] = "unmade"] /\ name' = [name EXCEPT ![s] = NoName]
        /\ leaked' = leaked
    BY <1>1, <1>7 DEF OpenFails
  <2>2. SinkInv'
    BY <1>2, <1>3, <1>4, <1>7, <2>1, OwnerEnds DEF LogInv
  <2>3. Constructing' = Constructing
    BY <1>3, <1>4, <1>7, <2>2, ConstructingRest DEF LogInv
  <2>4. s \notin Constructing
    BY <1>3, <1>4, <1>7, OneMaker DEF LogInv
  <2>5. NameInv'
    BY <1>2, <1>6, <2>1, <2>3, <2>4, NameLost DEF LogInv
  <2> QED
    BY <1>5, <2>2, <2>5 DEF LogInv
<1>8. CASE pc = "construct"
  <2>1. \/ life' = [life EXCEPT ![s] = "free"] /\ UNCHANGED <<name, leaked>>
        \/ /\ life' = [life EXCEPT ![s] = "unmade"]
           /\ leaked' = leaked \cup {name[s]}
           /\ name' = [name EXCEPT ![s] = NoName]
    BY <1>1, <1>8 DEF Construct
  <2>2. PICK l \in {"free", "unmade"} : life' = [life EXCEPT ![s] = l]
    BY <2>1
  <2>3. SinkInv'
    BY <1>2, <1>3, <1>4, <1>8, <2>2, OwnerEnds DEF LogInv
  <2>4. Constructing' = Constructing \ {s} /\ s \in Constructing
    BY <1>3, <1>8, <2>3, ConstructingEnds DEF LogInv
  <2>5. NameInv'
    <3>1. CASE life' = [life EXCEPT ![s] = "free"] /\ UNCHANGED <<name, leaked>>
      BY <3>1, <1>2, <2>4, SinkMade DEF LogInv
    <3>2. CASE /\ life' = [life EXCEPT ![s] = "unmade"]
               /\ leaked' = leaked \cup {name[s]}
               /\ name' = [name EXCEPT ![s] = NoName]
      BY <3>2, <1>2, <1>6, <2>4, NameLost DEF LogInv
    <3> QED
      BY <2>1, <3>1, <3>2
  <2> QED
    BY <1>5, <2>3, <2>5 DEF LogInv
<1> QED
  BY <1>7, <1>8

\* A sink is destroyed that was not installed.
LEMMA DiscardSinkStep ==
  ASSUME LogInv, StackInv', NEW t \in Threads, DiscardSink(t)
  PROVE  LogInv'
<1> DEFINE s == Top(t).arg
<1>1. At(t, "discard") /\ Return(t) /\ DestroySink(s) /\ UNCHANGED <<level, sinks, call, leaked>>
  BY DEF DiscardSink
<1>2. life' = [life EXCEPT ![s] = "dead"] /\ UNCHANGED <<lines, flushed>>
  BY <1>1 DEF DestroySink
<1>3. PICK d \in {1, 2} : Ends(t, d) /\ Nth(t, d) = Top(t) /\ Nth(t, d).pc = "discard"
  BY <1>1, Ending DEF LogInv
<1>4. Same(t, d) /\ Has(t, d) /\ ~ Has(t, d)' /\ "discard" \in Owning
  BY <1>3 DEF Ends, Owning
<1>5. CallInv' /\ LineInv'
  BY <1>1, <1>2, <1>4, LogRests
<1>6. s \in Sinks /\ life[s] = "discarded"
  BY <1>3, <1>4 DEF LogInv, SinkInv, SinkFrames, SinkFrame
<1>7. SinkInv'
  BY <1>1, <1>2, <1>3, <1>4, OwnerEnds DEF LogInv
<1>8. Constructing' = Constructing
  BY <1>3, <1>4, <1>7, ConstructingRest DEF LogInv
<1>9. NameInv'
  BY <1>1, <1>6, <1>8, NameDropped DEF LogInv
<1> QED
  BY <1>5, <1>7, <1>9 DEF LogInv

\* A sink is let go.
LEMMA LetGoStep ==
  ASSUME LogInv, StackInv', NEW t \in Threads, NEW s \in Sinks, UserCode(t), life[s] = "free",
         life' = [life EXCEPT ![s] = "discarded"], Push(t, Frame("discard", s, 1)),
         UNCHANGED <<sinkVars, level, sinks, call, leaked>>
  PROVE  LogInv'
<1>0. "discard" \notin Logging /\ "discard" \in PCs /\ "discard" # "construct" /\ "discard" # "make"
  BY DEF Logging, PCs
<1>1. PICK d \in {1, 2} : \E f : Opens(t, d, f) /\ f.pc = "discard" /\ f.arg = s /\ f.i = 1
  BY <1>0, Opening DEF LogInv
<1>2. PICK f : Opens(t, d, f) /\ f.pc = "discard" /\ f.arg = s
  BY <1>1
<1>3. Same(t, d) /\ ~ Has(t, d) /\ Nth(t, d)' = f
  BY <1>2 DEF Opens
<1>4. CallInv' /\ LineInv'
  BY <1>0, <1>2, <1>3, LogRests DEF sinkVars
<1>5. SinkInv'
  BY <1>0, <1>2, OwnerOpens DEF LogInv
<1>6. Constructing' = Constructing
  BY <1>0, <1>2, <1>3, <1>5, ConstructingRest DEF LogInv
<1>7. life'[s] = "discarded" /\ \A r \in Sinks : r # s => life'[r] = life[r]
  BY DEF LogInv, SinkInv, SinkType
<1>8. Registered' = Registered
  BY <1>6, <1>7 DEF Registered, Owners, Spdlog
<1>9. NameInv'
  BY <1>7, <1>8, NamesRest DEF LogInv, sinkVars
<1> QED
  BY <1>4, <1>5, <1>9 DEF LogInv

\* A sink is installed, or destroyed as it cannot be.
LEMMA AddSinkStep ==
  ASSUME LogInv, StackInv', NEW t \in Threads, NEW s \in Sinks, AddSink(t, s) \/ ReleaseSink(t, s)
  PROVE  LogInv'
<1>1. Idle(t) /\ UserCode(t) /\ life[s] = "free" /\ UNCHANGED <<sinkVars, level, call, leaked>>
  BY DEF AddSink, ReleaseSink, UserCode
<1>2. CASE /\ life' = [life EXCEPT ![s] = "discarded"]
           /\ Push(t, Frame("discard", s, 1)) /\ UNCHANGED sinks
  BY <1>1, <1>2, LetGoStep
<1>3. CASE /\ mtx = NoThread /\ sinks' = Append(sinks, s)
           /\ life' = [life EXCEPT ![s] = "installed"] /\ UNCHANGED stack
  <2>1. Same(t, 1) /\ ~ Has(t, 1) /\ ~ Has(t, 1)'
    BY <1>1, <1>3, Nothing DEF LogInv
  <2>2. CallInv'
    BY <1>1, <2>1, CallsRest DEF LogInv
  <2>3. SinkInv'
    BY <1>1, <1>3, SinkInstalled DEF LogInv
  <2>4. LineInv'
    <3>1. "write" \in Locking
      BY DEF Locking
    <3>2. \A u \in Threads : \A b \in {1, 2} : Has(u, b)' => Nth(u, b)'.pc # "write"
      BY <1>3, <3>1, NoHolder DEF LogInv, Has, Nth
    <3>3. Settled
      BY <1>1 DEF Settled
    <3> QED
      BY <1>1, <3>2, <3>3, LinesFresh DEF LogInv, sinkVars
  <2>5. NameInv'
    <3>1. Constructing' = Constructing
      BY <2>1, <2>3, ConstructingRest DEF LogInv
    <3>2. life'[s] = "installed" /\ \A r \in Sinks : r # s => life'[r] = life[r]
      BY <1>3 DEF LogInv, SinkInv, SinkType
    <3>3. Registered' = Registered
      BY <1>1, <3>1, <3>2 DEF Registered, Owners, Spdlog
    <3> QED
      BY <1>1, <3>2, <3>3, NamesRest DEF LogInv, sinkVars
  <2> QED
    BY <2>2, <2>3, <2>4, <2>5 DEF LogInv
<1> QED
  BY <1>2, <1>3 DEF AddSink, ReleaseSink, Locked

\* The sinks are cleared.
LEMMA ClearStep ==
  ASSUME LogInv, StackInv', NEW t \in Threads, ClearSinks(t) \/ ClearNext(t) \/ ClearDone(t)
  PROVE  LogInv'
<1>0. "destroy" \notin Logging /\ "destroy" \notin Owning /\ "destroy" \in PCs
      /\ "destroy" \in Locking /\ "destroy" # "construct" /\ "destroy" # "write"
  BY DEF Logging, Owning, PCs, Locking
<1>1. CASE ClearSinks(t)
  <2>1. /\ UserCode(t) /\ Push(t, Frame("destroy", NoThread, 1))
        /\ UNCHANGED <<sinkVars, level, sinks, life, call, leaked>>
    BY <1>1 DEF ClearSinks, UserCode
  <2>2. PICK d \in {1, 2} : \E f : Opens(t, d, f) /\ f.pc = "destroy" /\ f.arg = NoThread /\ f.i = 1
    BY <1>0, <2>1, Opening DEF LogInv
  <2>3. PICK f : Opens(t, d, f) /\ f.pc = "destroy"
    BY <2>2
  <2>4. Same(t, d) /\ ~ Has(t, d) /\ Nth(t, d)' = f /\ Innermost(t)'
    BY <2>1, <2>3, OpensOnUser DEF LogInv, Opens
  <2>5. CallInv' /\ LineInv'
    BY <1>0, <2>1, <2>3, <2>4, LogRests DEF sinkVars
  <2>6. SinkInv' /\ NameInv'
    BY <1>0, <2>1, <2>3, <2>4, SinksAndNamesRest DEF sinkVars
  <2> QED
    BY <2>5, <2>6 DEF LogInv
<1>2. CASE ClearNext(t)
  <2> DEFINE i == Top(t).i
             s == sinks[i]
  <2>1. /\ At(t, "destroy") /\ i <= Len(sinks) /\ DestroySink(s)
        /\ Become(t, Frame("destroy", NoThread, i + 1))
        /\ UNCHANGED <<level, sinks, call, leaked>>
    BY <1>2 DEF ClearNext
  <2>2. i \in Nat \ {0} /\ i + 1 \in Nat \ {0}
    BY <2>1, AtFacts DEF LogInv
  <2>3. i \in 1 .. Len(sinks) /\ s \in Sinks /\ life[s] # "making"
    <3>1. sinks \in Seq(Sinks) /\ \A k \in 1 .. Len(sinks) : life[sinks[k]] \in {"installed", "dead"}
      BY DEF LogInv, StackInv, StackType, SinkInv, SinkType
    <3>2. i \in 1 .. Len(sinks)
      BY <2>1, <2>2, <3>1
    <3> QED
      BY <3>1, <3>2
  <2>4. life' = [life EXCEPT ![s] = "dead"] /\ UNCHANGED <<lines, flushed>>
    BY <2>1 DEF DestroySink
  <2>5. PICK d \in {1, 2} : \E f :
          /\ Changes(t, d, f) /\ Nth(t, d) = Top(t) /\ Nth(t, d).pc = "destroy"
          /\ f.pc = "destroy" /\ f.arg = NoThread /\ f.i = i + 1
    BY <1>0, <2>1, <2>2, Going DEF LogInv
  <2>6. PICK f : Changes(t, d, f) /\ Nth(t, d).pc = "destroy" /\ f.pc = "destroy"
    BY <2>5
  <2>7. Same(t, d) /\ Nth(t, d)' = f
    BY <2>6 DEF Changes
  <2>8. CallInv' /\ LineInv'
    BY <1>0, <2>1, <2>4, <2>6, <2>7, LogRests
  <2>9. SinkInv'
    BY <2>1, <2>3, <2>4, <2>6, SinkCleared DEF LogInv
  <2>10. Constructing' = Constructing
    BY <1>0, <2>6, <2>7, <2>9, ConstructingRest DEF LogInv
  <2>11. NameInv'
    BY <2>1, <2>3, <2>10, NameDropped DEF LogInv
  <2> QED
    BY <2>8, <2>9, <2>11 DEF LogInv
<1>3. CASE ClearDone(t)
  <2>1. /\ At(t, "destroy") /\ Return(t) /\ sinks' = <<>>
        /\ UNCHANGED <<sinkVars, level, life, call, leaked>>
    BY <1>3 DEF ClearDone
  <2>2. PICK d \in {1, 2} : Ends(t, d) /\ Nth(t, d).pc = "destroy"
    BY <2>1, Ending DEF LogInv
  <2>3. Same(t, d) /\ Has(t, d) /\ ~ Has(t, d)' /\ Innermost(t)'
    BY <2>2, StaysInnermost DEF LogInv, Ends
  <2>4. CallInv'
    BY <2>1, <2>3, CallsRest DEF LogInv
  <2>5. LineInv'
    <3>1. ASSUME NEW u \in Threads, NEW b \in {1, 2}, Has(u, b)', Nth(u, b)'.pc = "write"
          PROVE  FALSE
      <4>1. Has(u, b) /\ Nth(u, b)' = Nth(u, b) /\ (u # t \/ b # d)
        BY <3>1, <2>3 DEF Same
      <4>2. Nth(u, b).pc \in Locking
        BY <3>1, <4>1 DEF Locking
      <4> QED
        BY <4>1, <4>2, <1>0, <2>2, <2>3, OneHolder DEF LogInv
    <3>2. Settled
      BY <2>1 DEF Settled
    <3> QED
      BY <2>1, <3>1, <3>2, LinesFresh DEF LogInv, sinkVars
  <2>6. SinkInv' /\ NameInv'
    BY <1>0, <2>1, <2>2, <2>3, SinksAndNamesRest DEF sinkVars
  <2> QED
    BY <2>4, <2>5, <2>6 DEF LogInv
<1> QED
  BY <1>1, <1>2, <1>3

\* A step after which nothing has changed.
LEMMA LogStutters ==
  ASSUME LogInv, StackInv', UNCHANGED vars
  PROVE  LogInv'
<1>1. UNCHANGED <<counter, registry, name, lines, flushed>>
      /\ UNCHANGED <<mtx, level, sinks, life, stack, call, controls, leaked>>
  BY DEF vars, sinkVars, logVars
<1>2. \A u \in Threads : \A b \in {1, 2} : (Has(u, b)' <=> Has(u, b)) /\ Nth(u, b)' = Nth(u, b)
  BY <1>1 DEF Has, Nth
<1>3. CallInv'
  <2>1. CallType' /\ CallFrames'
    BY <1>1, <1>2 DEF LogInv, CallInv, CallType, CallFrames, LogFrame
  <2>2. CallsDiffer'
    BY <1>2 DEF LogInv, CallInv, CallsDiffer, Two
  <2> QED
    BY <2>1, <2>2 DEF CallInv
<1>4. SinkInv'
  <2>1. SinkType' /\ SinkFrames'
    BY <1>1, <1>2 DEF LogInv, SinkInv, SinkType, SinkFrames, SinkFrame, Spdlog
  <2>2. SinksDiffer' /\ \A t \in Threads : Innermost(t)'
    BY <1>2 DEF LogInv, SinkInv, SinksDiffer, Two, Innermost
  <2> QED
    BY <2>1, <2>2 DEF SinkInv
<1>5. LineInv'
  <2>1. Settled
    BY <1>1 DEF Settled
  <2>2. LineType' /\ \A s \in Sinks : Flushed(s)'
    BY <1>1, <2>1, FlushedRest DEF LogInv
  <2>3. Writers'
    BY <1>1, <1>2 DEF LogInv, LineInv, Writers, Written, LastLine, Entry, Attribution, Spdlog
  <2> QED
    BY <2>2, <2>3 DEF LineInv
<1>6. NameInv'
  <2>1. Constructing' = Constructing
    BY <1>1 DEF Constructing, At, Top, Idle
  <2>2. Registered' = Registered
    BY <1>1, <2>1 DEF Registered, Owners, Spdlog
  <2> QED
    BY <1>1, <2>2, NamesRest DEF LogInv
<1> QED
  BY <1>3, <1>4, <1>5, <1>6 DEF LogInv

\* The invariant is inductive.
LEMMA LogNext ==
  ASSUME LogInv, [Next]_vars
  PROVE  LogInv'
<1>0. StackInv'
  BY StackNext DEF LogInv
<1>1. CASE UNCHANGED vars
  BY <1>0, <1>1, LogStutters
<1>2. ASSUME NEW t \in Threads, Program(t)
      PROVE  LogInv'
  <2>1. CASE LogString(t) \/ LogFormat(t)
    BY <1>0, <2>1, BeginStep DEF LogString, LogFormat
  <2>2. CASE \E l \in SetLevels : SetLevel(t, l)
    BY <1>0, <2>2, SetLevelStep
  <2>3. CASE \E s \in Sinks : MakeSink(t, s)
    BY <1>0, <2>3, MakeSinkStep
  <2>4. CASE \E s \in Sinks : AddSink(t, s) \/ ReleaseSink(t, s)
    BY <1>0, <2>4, AddSinkStep
  <2>5. CASE ClearSinks(t)
    BY <1>0, <2>5, ClearStep
  <2> QED
    BY <1>2, <2>1, <2>2, <2>3, <2>4, <2>5 DEF Program
<1>3. ASSUME NEW t \in Threads, Step(t)
      PROVE  LogInv'
  <2>1. CASE CheckLevel(t) \/ Formatted(t) \/ LogMessage(t) \/ WriteSink(t) \/ EndMessage(t)
    BY <1>0, <2>1, FormatStep, LogMessageStep, WriteSinkStep, EndMessageStep
  <2>2. CASE OpenLogger(t) \/ OpenFails(t) \/ Construct(t) \/ DiscardSink(t)
    BY <1>0, <2>2, OpenLoggerStep, FactoryStep, DiscardSinkStep
  <2>3. CASE ClearNext(t) \/ ClearDone(t)
    BY <1>0, <2>3, ClearStep
  <2> QED
    BY <1>3, <2>1, <2>2, <2>3 DEF Step
<1> QED
  BY <1>1, <1>2, <1>3 DEF Next

\* It holds in every reachable state.
LEMMA LogAlways == Spec => []LogInv
<1>1. Init => LogInv
  BY LogInit
<1>2. LogInv /\ [Next]_vars => LogInv'
  BY LogNext
<1> QED
  BY <1>1, <1>2, PTL DEF Spec
-----------------------------------------------------------------------------
\* A thread never waits for a mutex it holds itself, however many threads, sinks
\* and messages there are, unless a sink of the application logs while it is
\* written to or destroyed under the lock: formatting, a sink that could not be
\* added and a factory run with the mutex free, and every call that takes the
\* mutex gives it back.
THEOREM NoOtherSelfLock == Spec => []OnlySinksLockThemselves
<1>1. Init => StackInv
  BY StackInit
<1>2. StackInv /\ [Next]_vars => StackInv'
  BY StackNext
<1>3. StackInv => OnlySinksLockThemselves
  BY SelfLock
<1> QED
  BY <1>1, <1>2, <1>3, PTL DEF Spec

\* The state of the log has its shape in every reachable state: what is on the
\* stacks, in the calls and in the sinks is what the code puts there, and no
\* sink has flushed more lines than it was given.
THEOREM LogTypeCorrect == Spec => []TypeOK
<1>1. LogInv => TypeOK
  <2> SUFFICES ASSUME LogInv PROVE TypeOK
    OBVIOUS
  <2>1. ASSUME NEW m \in Messages
        PROVE  /\ call[m].st \in {"none", "open", "posted", "dropped", "failed"}
               /\ call[m].lvl \in Level /\ call[m].seen \subseteq Level
               /\ call[m].id \in {NoId, Caller[m]} /\ call[m].fmt \in BOOLEAN
    <3>1. call[m] \in Posts /\ call[m].id \in {NoId, Caller[m]}
      BY DEF LogInv, CallInv, CallType
    <3> QED
      BY <3>1 DEF Posts
  <2>2. ASSUME NEW t \in Threads, NEW k \in 1 .. Len(stack[t])
        PROVE  stack[t][k].pc \in PCs
    <3>1. stack[t] \in Seq(Frames)
      BY DEF LogInv, StackInv, StackType
    <3>2. stack[t][k] \in Frames
      BY <3>1
    <3> QED
      BY <3>2 DEF Frames
  <2>3. ASSUME NEW s \in Sinks
        PROVE  flushed[s] \in 0 .. Len(lines[s])
    <3>1. lines[s] \in Seq(Entries) /\ flushed[s] \in Nat /\ flushed[s] <= Len(lines[s])
      BY DEF LogInv, LineInv, LineType, Flushed
    <3> QED
      BY <3>1
  <2>4. DOMAIN call = Messages /\ level \in Level
    BY DEF LogInv, CallInv, CallType
  <2>5. mtx \in Threads \cup {NoThread} /\ sinks \in Seq(Sinks)
    BY DEF LogInv, StackInv, StackType
  <2>6. life \in [Sinks -> {"unmade", "making", "free", "installed", "discarded", "dead"}]
    BY DEF LogInv, SinkInv, SinkType
  <2>7. counter \in 0 .. MaxNames
    BY DEF LogInv, NameInv, NameType
  <2>8. ASSUME NEW t \in Threads
        PROVE  mtx = t <=> \E k \in 1 .. Len(stack[t]) : stack[t][k].pc \in {"write", "destroy"}
    <3>1. /\ Len(stack[t]) \in {0, 1, 2}
          /\ mtx = t <=> TopHolds(t) \/ BelowHolds(t)
      BY DEF LogInv, StackInv, ThreadInv
    <3> QED
      BY <3>1 DEF TopHolds, BelowHolds, Locking
  <2> QED
    BY <2>1, <2>2, <2>3, <2>4, <2>5, <2>6, <2>7, <2>8 DEF TypeOK, PCs
<1> QED
  BY <1>1, LogAlways, PTL

\* Whatever the threads do, and however dispatches end, the last line any sink
\* holds has left the process unless it was logged at level off: every call to
\* write() leaves nothing in a buffer behind it, so that a process that dies
\* loses no line of a call that has returned.
THEOREM LinesAlwaysOnDisk == Spec => []LinesOnDisk
<1>1. LogInv => LinesOnDisk
  <2> SUFFICES ASSUME LogInv, NEW s \in Sinks, flushed[s] < Len(lines[s])
               PROVE  call[lines[s][Len(lines[s])].msg].lvl = "off"
    BY DEF LinesOnDisk
  <2>1. lines[s] \in Seq(Entries) /\ flushed[s] \in Nat /\ Flushed(s)
    BY DEF LogInv, LineInv, LineType
  <2>2. lines[s] # <<>>
    BY <2>1
  <2> QED
    BY <2>1, <2>2 DEF Flushed, LastLine
<1> QED
  BY <1>1, LogAlways, PTL

\* spdlog's registry holds exactly the loggers of the sinks that live and of those
\* whose constructor runs, but for the names constructors that threw have left in
\* it; no sink's name is one of those or another sink's.  A sink that is destroyed
\* drops its own logger and no other.
THEOREM RegistryAlwaysOwned == Spec => []RegistryOwned
<1>1. LogInv => RegistryOwned
  <2> SUFFICES ASSUME LogInv PROVE RegistryOwned
    OBVIOUS
  <2>1. registry = {name[s] : s \in Owners \cup Constructing} \cup leaked
    BY DEF LogInv, NameInv, RegistryIs, Registered
  <2>2. ASSUME NEW s \in Sinks, life[s] = "making" \/ s \in Owners
        PROVE  name[s] \notin leaked /\ \A r \in Sinks \ {s} : name[r] # name[s]
    <3>1. Spdlog(s) /\ life[s] \in {"making", "free", "installed", "discarded"}
      BY <2>2 DEF Owners, LogInv, SinkInv, SinkType
    <3>2. name[s] # NoName
      BY <3>1 DEF LogInv, NameInv, Named
    <3> QED
      BY <3>2 DEF LogInv, NameInv, NamesDiffer
  <2> QED
    BY <2>1, <2>2 DEF RegistryOwned
<1> QED
  BY <1>1, LogAlways, PTL

-----------------------------------------------------------------------------
(***************************************************************************)
(* The log implements the journal.  A line counts once its dispatch is     *)
(* over; until then what a sink shows is what it had before.               *)
(***************************************************************************)
Shown == [s \in Sinks |-> IF InDispatch(s) THEN Front(lines[s]) ELSE lines[s]]

\* The dispatch of frame f has reached sink s.
Reached(f, s) == f.pc = "write" /\ \E j \in 1 .. f.i - 1 : sinks[j] = s

ReachedIs == \A s : InDispatch(s) <=>
  \E t \in Threads : \E b \in {1, 2} : Has(t, b) /\ Reached(Nth(t, b), s)

LEMMA DispatchFrames == StackInv => ReachedIs
<1> SUFFICES ASSUME StackInv, NEW s
             PROVE  InDispatch(s) <=>
                      \E t \in Threads : \E b \in {1, 2} : Has(t, b) /\ Reached(Nth(t, b), s)
  BY DEF ReachedIs
<1>1. ASSUME NEW t \in Threads
      PROVE  (\E k \in 1 .. Len(stack[t]) : Reached(stack[t][k], s))
               <=> \E b \in {1, 2} : Has(t, b) /\ Reached(Nth(t, b), s)
  <2>1. CASE Len(stack[t]) = 0
    BY <2>1, Places
  <2>2. CASE Len(stack[t]) = 1
    <3>1. \A k \in 1 .. Len(stack[t]) : k = 1
      BY <2>2
    <3> QED
      BY <2>2, <3>1, Places
  <2>3. CASE Len(stack[t]) = 2
    <3>1. 1 .. Len(stack[t]) = {1, 2}
      BY <2>3
    <3> QED
      BY <2>3, <3>1, Places
  <2> QED
    BY <2>1, <2>2, <2>3, Places
<1> QED
  BY <1>1 DEF InDispatch, Reached

\* A step that neither writes nor ends a dispatch shows what was shown.
LEMMA ShownRest ==
  ASSUME StackInv, StackInv', NEW t \in Threads, NEW d \in {1, 2}, Same(t, d),
         UNCHANGED <<lines, sinks>>,
         Has(t, d) => Nth(t, d).pc # "write" \/ Nth(t, d).i = 1,
         Has(t, d)' => Nth(t, d)'.pc # "write" \/ Nth(t, d)'.i = 1
  PROVE  Shown' = Shown
<1>1. ReachedIs /\ ReachedIs'
  BY DispatchFrames, PTL
<1>2. \A s : (Has(t, d) => ~ Reached(Nth(t, d), s)) /\ (Has(t, d)' => ~ Reached(Nth(t, d), s)')
  BY DEF Reached
<1>3. \A s : \A u \in Threads : \A b \in {1, 2} :
        (Has(u, b) /\ Reached(Nth(u, b), s)) <=> (Has(u, b)' /\ Reached(Nth(u, b), s)')
  <2>1. SUFFICES ASSUME NEW s, NEW u \in Threads, NEW b \in {1, 2}
                 PROVE  (Has(u, b) /\ Reached(Nth(u, b), s)) <=> (Has(u, b)' /\ Reached(Nth(u, b), s)')
    OBVIOUS
  <2>2. CASE u = t /\ b = d
    BY <2>2, <1>2
  <2>3. CASE u # t \/ b # d
    BY <2>3 DEF Same, Reached
  <2> QED
    BY <2>2, <2>3
<1>4. \A s : InDispatch(s)' <=> InDispatch(s)
  BY <1>1, <1>3 DEF ReachedIs
<1> QED
  BY <1>4 DEF Shown

\* During a dispatch the sinks reached show all but their last line.
LEMMA ShownBefore ==
  ASSUME StackInv, NEW t \in Threads, NEW d \in {1, 2}, Has(t, d), Nth(t, d).pc = "write"
  PROVE  Shown = [s \in Sinks |->
           IF \E j \in 1 .. Nth(t, d).i - 1 : sinks[j] = s THEN Front(lines[s]) ELSE lines[s]]
<1>1. \A u \in Threads : \A b \in {1, 2} : Has(u, b) /\ Nth(u, b).pc = "write" => u = t /\ b = d
  BY OneHolder DEF Locking
<1>2. \A s : InDispatch(s) <=> \E j \in 1 .. Nth(t, d).i - 1 : sinks[j] = s
  BY <1>1, DispatchFrames DEF ReachedIs, Reached
<1> QED
  BY <1>2 DEF Shown

\* The last element of a sequence, and what is before it.
LEMMA FrontOf ==
  ASSUME NEW S, NEW q \in Seq(S)
  PROVE  /\ \A e \in S : Front(Append(q, e)) = q
         /\ q # <<>> => q = Append(Front(q), q[Len(q)])
<1>1. ASSUME NEW e \in S
      PROVE  Front(Append(q, e)) = q
  BY DEF Front
<1>2. ASSUME q # <<>>
      PROVE  q = Append(Front(q), q[Len(q)])
  BY <1>2 DEF Front
<1> QED
  BY <1>1, <1>2

\* A sink shows whom a message comes from the way the journal wants it.
LEMMA ShowsWhom ==
  ASSUME NEW s \in Sinks, NEW id
  PROVE  J!Label(s, id) = Attribution(s, id)
<1>1. KindOf[s] \in Kinds
  BY KindsAssumption
<1> QED
  BY <1>1 DEF J!Label, Attribution, Spdlog, BundleId, Kinds
-----------------------------------------------------------------------------
JournalStep == [J!JournalNext]_(J!journalVars)

\* What the journal shows of the log, with the lines as they are shown.
LEMMA JournalState ==
  /\ J!journalVars = <<level, sinks, Shown, call>>
  /\ (J!journalVars)' = <<level', sinks', Shown', call'>>
BY DEF J!journalVars, Shown

\* A step of a call that neither writes nor closes is none of the journal's.
LEMMA Stutters ==
  ASSUME StackInv, StackInv', NEW t \in Threads, NEW d \in {1, 2}, Same(t, d),
         UNCHANGED <<lines, sinks, level, call>>,
         Has(t, d) => Nth(t, d).pc # "write" \/ Nth(t, d).i = 1,
         Has(t, d)' => Nth(t, d)'.pc # "write" \/ Nth(t, d)'.i = 1
  PROVE  JournalStep
BY ShownRest, JournalState DEF JournalStep

\* The level is set.
LEMMA SetLevelPosts ==
  ASSUME LogInv, StackInv', NEW t \in Threads, NEW l \in SetLevels, SetLevel(t, l)
  PROVE  JournalStep
<1>1. Idle(t) /\ stack' = stack /\ UNCHANGED <<lines, sinks>>
  BY DEF SetLevel, sinkVars
<1>2. Same(t, 1) /\ ~ Has(t, 1) /\ ~ Has(t, 1)'
  BY <1>1, Nothing DEF LogInv
<1>3. Shown' = Shown
  BY <1>1, <1>2, ShownRest DEF LogInv
<1>4. l \in DOMAIN Rank
  BY LevelsAssumption DEF Level
<1>5. J!SetThreshold(l)
  BY <1>1, <1>3 DEF SetLevel, J!SetThreshold, J!Open, Shown
<1> QED
  BY <1>4, <1>5 DEF JournalStep, J!JournalNext

\* A call is made.
LEMMA BeginPosts ==
  ASSUME LogInv, StackInv', NEW t \in Threads, NEW fmt \in BOOLEAN, Begin(t, fmt)
  PROVE  JournalStep
<1>1. UserCode(t) /\ UNCHANGED <<lines, sinks, level>>
  BY DEF Begin, sinkVars
<1>2. PICK m \in Messages :
        /\ call[m].st = "none"
        /\ \E p : p.st = "open" /\ p.seen = {level} /\ call' = [call EXCEPT ![m] = p]
        /\ Push(t, Frame(IF fmt THEN "check" ELSE "lock", m, 1))
  <2>1. \E m \in Messages : \E lvl \in MsgLevels[m] :
          /\ call[m].st = "none"
          /\ call' = [call EXCEPT ![m] = [st |-> "open", lvl |-> lvl, id |-> logger(m), fmt |-> fmt,
                                          seen |-> {level}]]
          /\ Push(t, Frame(IF fmt THEN "check" ELSE "lock", m, 1))
    BY DEF Begin
  <2> QED
    BY <2>1
<1>3. PICK q \in {"check", "lock"} : Push(t, Frame(q, m, 1))
  BY <1>2
<1>4. q \in PCs \ {"write"}
  BY DEF PCs
<1>5. PICK d \in {1, 2} : \E f : Opens(t, d, f) /\ f.pc = q /\ f.arg = m /\ f.i = 1
  BY <1>1, <1>3, <1>4, Opening DEF LogInv
<1>6. Same(t, d) /\ ~ Has(t, d) /\ Nth(t, d)'.pc = q
  BY <1>5 DEF Opens
<1>7. Shown' = Shown
  BY <1>1, <1>4, <1>6, ShownRest DEF LogInv
<1>8. /\ call'[m].st = "open" /\ call'[m].seen = {level}
      /\ \A k \in Messages \ {m} : call'[k] = call[k]
  BY <1>2 DEF LogInv, CallInv, CallType
<1>9. J!Call(m)
  BY <1>1, <1>2, <1>7, <1>8 DEF J!Call, Shown
<1> QED
  BY <1>9 DEF JournalStep, J!JournalNext

\* The outcome a call is closed with is what the journal remembers.
LEMMA ClosesAsJournal ==
  ASSUME NEW m, NEW st, Close(m, st)
  PROVE  J!Close(m, st)
<1> DEFINE p == [NoCall EXCEPT !.st = st, !.lvl = call[m].lvl]
           q == [st |-> st, lvl |-> call[m].lvl, id |-> NoId, fmt |-> FALSE, seen |-> {}]
           Shapes == [st : {"none", st}, lvl : {"off", call[m].lvl}, id : {NoId}, fmt : BOOLEAN,
                      seen : {{}}]
<1>1. p = q
  <2>1. NoCall \in Shapes
    BY DEF NoCall
  <2>2. p \in Shapes
    BY <2>1
  <2>3. p.st = st /\ p.lvl = call[m].lvl /\ p.id = NoId /\ p.fmt = FALSE /\ p.seen = {}
    BY DEF NoCall
  <2>4. q \in Shapes
    OBVIOUS
  <2>5. \A r, s \in Shapes :
          r.st = s.st /\ r.lvl = s.lvl /\ r.id = s.id /\ r.fmt = s.fmt /\ r.seen = s.seen => r = s
    OBVIOUS
  <2> HIDE DEF p, Shapes
  <2> QED
    BY <2>2, <2>3, <2>4, <2>5
<1>2. call' = [call EXCEPT ![m] = p]
  BY DEF Close
<1>3. J!Close(m, st) <=> call' = [call EXCEPT ![m] = q]
  BY Zenon DEF J!Close
<1> HIDE DEF p, q
<1> QED
  BY <1>1, <1>2, <1>3

\* A call that is not dispatched returns.
LEMMA ReturnPosts ==
  ASSUME LogInv, StackInv', NEW t \in Threads, NEW pc \in Logging \ {"write"}, At(t, pc), Return(t),
         UNCHANGED <<lines, sinks, level>>,
         NEW st \in {"dropped", "failed"}, Close(Top(t).arg, st),
         st = "dropped" => ~ Enabled(call[Top(t).arg].lvl),
         st = "failed" => pc = "format"
  PROVE  JournalStep
<1> DEFINE m == Top(t).arg
<1>1. PICK d \in {1, 2} : Ends(t, d) /\ Nth(t, d) = Top(t) /\ Nth(t, d).pc = pc
  BY Ending DEF LogInv
<1>2. Same(t, d) /\ ~ Has(t, d)'
  BY <1>1 DEF Ends
<1>3. Shown' = Shown
  BY <1>1, <1>2, ShownRest DEF LogInv
<1>4. LogFrame(Top(t)) /\ Top(t).pc = pc /\ call[m].lvl \in Level /\ level \in Level
      /\ level \in call[m].seen
  BY TopLogs DEF LogInv
<1>5. m \in Messages /\ call[m].st = "open" /\ J!Close(m, st)
  BY <1>4, ClosesAsJournal DEF LogFrame
<1>6. CASE st = "dropped"
  <2>1. Rank[call[m].lvl] < Rank[level]
    BY <1>4, <1>6, RankType DEF Enabled
  <2>2. J!Drop(m)
    BY <2>1, <1>3, <1>4, <1>5, <1>6 DEF J!Drop, J!Open, Shown
  <2> QED
    BY <2>2, <1>5 DEF JournalStep, J!JournalNext
<1>7. CASE st = "failed"
  <2>1. call[m].fmt /\ \E l \in call[m].seen : Rank[l] <= Rank[call[m].lvl]
    BY <1>4, <1>7 DEF LogFrame
  <2>2. J!Fail(m)
    BY <2>1, <1>3, <1>5, <1>7 DEF J!Fail, J!Open, Shown
  <2> QED
    BY <2>2, <1>5 DEF JournalStep, J!JournalNext
<1> QED
  BY <1>6, <1>7

\* A call goes on, not yet with a sink behind it.
LEMMA GoesOnPosts ==
  ASSUME LogInv, StackInv', NEW t \in Threads, NEW pc \in PCs \ {"write"}, At(t, pc),
         NEW q \in PCs, NEW i \in Nat \ {0}, q = "write" => i = 1,
         NEW arg \in Messages \cup Sinks \cup {NoThread}, Become(t, Frame(q, arg, i)),
         UNCHANGED <<lines, sinks, level, call>>
  PROVE  JournalStep
<1>1. PICK d \in {1, 2} : \E f :
        /\ Changes(t, d, f) /\ Nth(t, d) = Top(t) /\ Nth(t, d).pc = pc
        /\ f.pc = q /\ f.arg = arg /\ f.i = i
  BY Going DEF LogInv
<1>2. Same(t, d) /\ Nth(t, d).pc = pc /\ Nth(t, d)'.pc = q /\ Nth(t, d)'.i = i
  BY <1>1 DEF Changes
<1> QED
  BY <1>2, Stutters DEF LogInv

\* A call that makes or discards a sink returns.
LEMMA QuietReturn ==
  ASSUME LogInv, StackInv', NEW t \in Threads, NEW pc \in PCs \ {"write"}, At(t, pc), Return(t),
         UNCHANGED <<lines, sinks, level, call>>
  PROVE  JournalStep
<1>1. PICK d \in {1, 2} : Ends(t, d) /\ Nth(t, d) = Top(t) /\ Nth(t, d).pc = pc
  BY Ending DEF LogInv
<1>2. Same(t, d) /\ ~ Has(t, d)'
  BY <1>1 DEF Ends
<1> QED
  BY <1>1, <1>2, Stutters DEF LogInv

\* A call is made that does not log.
LEMMA QuietCall ==
  ASSUME LogInv, StackInv', NEW t \in Threads, UserCode(t), NEW q \in PCs \ {"write"},
         NEW arg \in Messages \cup Sinks \cup {NoThread}, Push(t, Frame(q, arg, 1)),
         UNCHANGED <<lines, sinks, level, call>>
  PROVE  JournalStep
<1>1. PICK d \in {1, 2} : \E f : Opens(t, d, f) /\ f.pc = q /\ f.arg = arg /\ f.i = 1
  BY Opening DEF LogInv
<1>2. Same(t, d) /\ ~ Has(t, d) /\ Nth(t, d)'.pc = q
  BY <1>1 DEF Opens
<1> QED
  BY <1>2, Stutters DEF LogInv

\* A line is written: it does not show yet.
LEMMA WritePosts ==
  ASSUME LogInv, StackInv', NEW t \in Threads, WriteSink(t)
  PROVE  JournalStep
<1> DEFINE m == Top(t).arg
           i == Top(t).i
           s == sinks[i]
           e == [msg |-> m, by |-> Attribution(s, call[m].id)]
<1>1. /\ At(t, "write") /\ i <= Len(sinks) /\ Become(t, Frame("write", m, i + 1))
      /\ lines' = [lines EXCEPT ![s] = Append(lines[s], e)]
      /\ UNCHANGED <<level, sinks, call>>
  BY DEF WriteSink, Write
<1>2. i \in Nat \ {0} /\ i + 1 \in Nat \ {0} /\ m \in Messages \cup Sinks \cup {NoThread}
      /\ "write" \in PCs /\ "write" \in Logging
  BY <1>1, AtFacts DEF LogInv, PCs, Logging
<1>3. PICK d \in {1, 2} : \E f :
        /\ Changes(t, d, f) /\ Nth(t, d) = Top(t) /\ Nth(t, d).pc = "write"
        /\ f.pc = "write" /\ f.arg = m /\ f.i = i + 1
  BY <1>1, <1>2, Going DEF LogInv
<1>4. Has(t, d) /\ Has(t, d)' /\ Nth(t, d)'.pc = "write" /\ Nth(t, d)'.i = i + 1 /\ Nth(t, d).i = i
      /\ Nth(t, d).pc = "write"
  BY <1>3 DEF Changes
<1> DEFINE Old(r) == \E j \in 1 .. i - 1 : sinks[j] = r
<1>5. Shown = [r \in Sinks |-> IF Old(r) THEN Front(lines[r]) ELSE lines[r]]
  BY <1>4, ShownBefore DEF LogInv
<1>6. Shown' = [r \in Sinks |->
        IF \E j \in 1 .. (i + 1) - 1 : sinks[j] = r THEN Front(lines'[r]) ELSE lines'[r]]
  <2>1. \A u \in Threads : \A b \in {1, 2} :
          Has(u, b)' /\ Nth(u, b)'.pc = "write" => u = t /\ b = d
    <3>1. Same(t, d)
      BY <1>3 DEF Changes
    <3>2. \A u \in Threads : \A b \in {1, 2} :
            Has(u, b) /\ Nth(u, b).pc = "write" => u = t /\ b = d
      BY <1>4, OneHolder DEF LogInv, Locking
    <3> QED
      BY <3>1, <3>2 DEF Same
  <2>2. ReachedIs'
    BY DispatchFrames, PTL
  <2>3. \A r : InDispatch(r)' <=> \E j \in 1 .. (i + 1) - 1 : sinks[j] = r
    BY <1>1, <1>4, <2>1, <2>2 DEF ReachedIs, Reached
  <2> QED
    BY <2>3 DEF Shown
<1>7. i \in 1 .. Len(sinks) /\ s \in Sinks /\ Len(sinks) \in Nat /\ ~ Old(s)
  <2>1. sinks \in Seq(Sinks) /\ \A j, k \in 1 .. Len(sinks) : j # k => sinks[j] # sinks[k]
    BY DEF LogInv, StackInv, StackType, SinkInv, SinkType
  <2>2. i \in 1 .. Len(sinks) /\ Len(sinks) \in Nat
    BY <1>1, <1>2, <2>1
  <2>3. s \in Sinks
    BY <2>1, <2>2
  <2>4. \A j \in 1 .. i - 1 : j \in 1 .. Len(sinks) /\ j # i
    BY <2>2
  <2> QED
    BY <2>1, <2>2, <2>3, <2>4
<1>8. \A r : (\E j \in 1 .. (i + 1) - 1 : sinks[j] = r) <=> Old(r) \/ r = s
  BY <1>7
<1>9. lines[s] \in Seq(Entries) /\ e \in Entries /\ lines \in [Sinks -> Seq(Entries)]
  <2>1. m \in Messages /\ call[m].id \in Ids
    <3>1. LogFrame(Top(t))
      BY <1>1, <1>2, TopLogs DEF LogInv
    <3>2. m \in Messages /\ call[m] \in Posts
      BY <3>1 DEF LogFrame, LogInv, CallInv, CallType
    <3> QED
      BY <3>2 DEF Posts
  <2>2. e \in Entries
    BY <2>1, <1>7 DEF Entries
  <2> QED
    BY <2>2, <1>7 DEF LogInv, LineInv, LineType
<1> HIDE DEF e
<1>10. lines'[s] = Append(lines[s], e) /\ \A r \in Sinks : r # s => lines'[r] = lines[r]
  BY <1>1, <1>7, <1>9
<1>11. Front(lines'[s]) = lines[s]
  BY <1>9, <1>10, FrontOf
<1> HIDE DEF Old
<1>12. Shown' = Shown
  <2>1. ASSUME NEW r \in Sinks
        PROVE  (IF \E j \in 1 .. (i + 1) - 1 : sinks[j] = r THEN Front(lines'[r]) ELSE lines'[r])
                 = (IF Old(r) THEN Front(lines[r]) ELSE lines[r])
    <3>1. CASE r = s
      BY <3>1, <1>7, <1>8, <1>11
    <3>2. CASE r # s
      BY <3>2, <1>8, <1>10
    <3> QED
      BY <3>1, <3>2
  <2> QED
    BY <2>1, <1>5, <1>6
<1> QED
  BY <1>1, <1>12, JournalState DEF JournalStep

\* The dispatch ends: every sink it has reached shows the line at once.
LEMMA EndPosts ==
  ASSUME LogInv, StackInv', NEW t \in Threads, EndMessage(t)
  PROVE  JournalStep
<1>0. PICK m : m = Top(t).arg
  OBVIOUS
<1> DEFINE i == Top(t).i
           Old(r) == \E j \in 1 .. i - 1 : sinks[j] = r
<1>1. /\ At(t, "write") /\ (i <= Len(sinks) => MayThrow(sinks[i], call[m].id))
      /\ Return(t) /\ Close(m, "posted")
      /\ UNCHANGED <<lines, level, sinks>>
  BY <1>0 DEF EndMessage, sinkVars
<1>2. i \in Nat \ {0} /\ "write" \in Logging
  BY <1>1, AtFacts DEF LogInv, Logging
<1>3. PICK d \in {1, 2} : Ends(t, d) /\ Nth(t, d) = Top(t) /\ Nth(t, d).pc = "write"
  BY <1>1, Ending DEF LogInv
<1>4. Has(t, d) /\ Nth(t, d).i = i /\ Nth(t, d).arg = m /\ Same(t, d) /\ ~ Has(t, d)'
  BY <1>0, <1>3 DEF Ends
<1>5. Shown = [r \in Sinks |-> IF Old(r) THEN Front(lines[r]) ELSE lines[r]]
  BY <1>3, <1>4, ShownBefore DEF LogInv
<1>6. Shown' = [r \in Sinks |-> lines[r]]
  <2>1. \A u \in Threads : \A b \in {1, 2} : Has(u, b)' => Nth(u, b)'.pc # "write"
    <3>1. \A u \in Threads : \A b \in {1, 2} :
            Has(u, b) /\ Nth(u, b).pc = "write" => u = t /\ b = d
      BY <1>3, <1>4, OneHolder DEF LogInv, Locking
    <3> QED
      BY <3>1, <1>4 DEF Same
  <2>2. ReachedIs'
    BY DispatchFrames, PTL
  <2>3. \A r : ~ InDispatch(r)'
    BY <2>1, <2>2 DEF ReachedIs, Reached
  <2> QED
    BY <1>1, <2>3 DEF Shown
<1>7. LogFrame(Top(t)) /\ Written(Top(t)) /\ Top(t).pc = "write"
  <2>1. LogFrame(Top(t)) /\ Top(t).pc = "write"
    BY <1>1, <1>2, TopLogs DEF LogInv
  <2> QED
    BY <2>1, <1>3, <1>4 DEF LogInv, LineInv, Writers
<1>8. m \in Messages /\ call[m].st = "open" /\ Rank[level] <= Rank[call[m].lvl]
      /\ J!Close(m, "posted")
  BY <1>0, <1>1, <1>7, ClosesAsJournal DEF LogFrame
<1>9. i - 1 \in 0 .. Len(sinks) /\ sinks \in Seq(Sinks) /\ Len(sinks) \in Nat
  <2>1. sinks \in Seq(Sinks) /\ Len(sinks) \in Nat
    BY DEF LogInv, StackInv, StackType
  <2> QED
    BY <2>1, <1>2, <1>7 DEF Written
<1>10. i - 1 < Len(sinks) => J!Fails(sinks[(i - 1) + 1], call[m].id)
  <2>1. (i - 1) + 1 = i
    BY <1>2
  <2>2. ASSUME i - 1 < Len(sinks)
        PROVE  i \in 1 .. Len(sinks) /\ sinks[i] \in Sinks
    BY <2>2, <1>2, <1>9
  <2>3. ASSUME NEW s \in Sinks, NEW id, MayThrow(s, id) PROVE J!Fails(s, id)
    BY <2>3 DEF MayThrow, J!Fails
  <2> QED
    BY <2>1, <2>2, <2>3, <1>1
<1>11. ASSUME NEW r \in Sinks, Old(r)
       PROVE  lines[r] = Append(Front(lines[r]), [msg |-> m, by |-> J!Label(r, call[m].id)])
  <2>1. lines[r] # <<>> /\ LastLine(r) = Entry(r, m)
    BY <1>0, <1>7, <1>11 DEF Written
  <2>2. lines[r] \in Seq(Entries)
    BY DEF LogInv, LineInv, LineType
  <2>3. lines[r] = Append(Front(lines[r]), LastLine(r))
    BY <2>1, <2>2, FrontOf DEF LastLine
  <2>4. J!Label(r, call[m].id) = Attribution(r, call[m].id)
    BY ShowsWhom
  <2> QED
    BY <2>1, <2>3, <2>4 DEF Entry
<1>12. Shown' = [r \in Sinks |->
         IF Old(r) THEN Append(Shown[r], [msg |-> m, by |-> J!Label(r, call[m].id)]) ELSE Shown[r]]
  <2> HIDE DEF Old
  <2> QED
    BY <1>5, <1>6, <1>11
<1>13. J!Post(m)
  <2>1. \E n \in 0 .. Len(sinks) :
          /\ n < Len(sinks) => J!Fails(sinks[n + 1], call[m].id)
          /\ Shown' = [r \in Sinks |->
               IF \E j \in 1 .. n : sinks[j] = r
                 THEN Append(Shown[r], [msg |-> m, by |-> J!Label(r, call[m].id)])
                 ELSE Shown[r]]
    BY <1>9, <1>10, <1>12
  <2> QED
    BY <2>1, <1>1, <1>8 DEF J!Post, J!Open, Shown
<1>14. J!JournalNext
  BY <1>8, <1>13 DEF J!JournalNext
<1> QED
  BY <1>14 DEF JournalStep

\* A sink is installed, or is not.
LEMMA AddPosts ==
  ASSUME LogInv, StackInv', NEW t \in Threads, NEW s \in Sinks, AddSink(t, s) \/ ReleaseSink(t, s)
  PROVE  JournalStep
<1>1. Idle(t) /\ UserCode(t) /\ life[s] = "free" /\ UNCHANGED <<lines, level, call>>
  BY DEF AddSink, ReleaseSink, UserCode, sinkVars
<1>2. CASE Push(t, Frame("discard", s, 1)) /\ UNCHANGED sinks
  BY <1>1, <1>2, QuietCall DEF PCs
<1>3. CASE /\ mtx = NoThread /\ sinks' = Append(sinks, s)
           /\ life' = [life EXCEPT ![s] = "installed"] /\ UNCHANGED stack
  <2>1. \A u \in Threads : \A b \in {1, 2} : Has(u, b) => Nth(u, b).pc # "write"
    BY <1>3, NoHolder DEF LogInv, Locking
  <2>2. \A u \in Threads : \A b \in {1, 2} : Has(u, b)' => Nth(u, b)'.pc # "write"
    BY <1>3, <2>1 DEF Has, Nth
  <2>3. ReachedIs /\ ReachedIs'
    BY DispatchFrames, PTL DEF LogInv
  <2>4. \A r : ~ InDispatch(r) /\ ~ InDispatch(r)'
    BY <2>1, <2>2, <2>3 DEF ReachedIs, Reached
  <2>5. Shown' = Shown
    BY <1>1, <2>4 DEF Shown
  <2>6. \A i \in 1 .. Len(sinks) : sinks[i] # s
    BY <1>1 DEF LogInv, SinkInv, SinkType
  <2>7. J!Install(s)
    BY <1>1, <1>3, <2>5, <2>6 DEF J!Install, Shown
  <2> QED
    BY <2>7 DEF JournalStep, J!JournalNext
<1> QED
  BY <1>2, <1>3 DEF AddSink, ReleaseSink, Locked

\* The sinks are cleared: at once, when the last is destroyed.
LEMMA ClearPosts ==
  ASSUME LogInv, StackInv', NEW t \in Threads, ClearSinks(t) \/ ClearNext(t) \/ ClearDone(t)
  PROVE  JournalStep
<1>0. "destroy" \in PCs \ {"write"} /\ "destroy" \in Locking /\ 1 \in Nat \ {0}
  BY DEF PCs, Locking
<1>1. CASE ClearSinks(t)
  <2>1. /\ UserCode(t) /\ Push(t, Frame("destroy", NoThread, 1))
        /\ UNCHANGED <<lines, sinks, level, call>>
    BY <1>1 DEF ClearSinks, UserCode, sinkVars
  <2> QED
    BY <1>0, <2>1, QuietCall
<1>2. CASE ClearNext(t)
  <2>1. /\ At(t, "destroy") /\ Become(t, Frame("destroy", NoThread, Top(t).i + 1))
        /\ UNCHANGED <<lines, sinks, level, call>>
    BY <1>2 DEF ClearNext, DestroySink
  <2>2. Top(t).i + 1 \in Nat \ {0}
    BY <2>1, AtFacts DEF LogInv
  <2> QED
    BY <1>0, <2>1, <2>2, GoesOnPosts
<1>3. CASE ClearDone(t)
  <2>1. /\ At(t, "destroy") /\ Return(t) /\ sinks' = <<>>
        /\ UNCHANGED <<lines, level, call>>
    BY <1>3 DEF ClearDone, sinkVars
  <2>2. PICK d \in {1, 2} : Ends(t, d) /\ Nth(t, d).pc = "destroy"
    BY <2>1, Ending DEF LogInv
  <2>3. Same(t, d) /\ Has(t, d) /\ ~ Has(t, d)'
    BY <2>2 DEF Ends
  <2>4. \A u \in Threads : \A b \in {1, 2} : Has(u, b) /\ Nth(u, b).pc \in Locking => u = t /\ b = d
    BY <1>0, <2>2, <2>3, OneHolder DEF LogInv
  <2>5. \A u \in Threads : \A b \in {1, 2} : Has(u, b) => Nth(u, b).pc # "write"
    BY <2>2, <2>4 DEF Locking
  <2>6. \A u \in Threads : \A b \in {1, 2} : Has(u, b)' => Nth(u, b)'.pc # "write"
    BY <2>3, <2>5 DEF Same
  <2>7. ReachedIs /\ ReachedIs'
    BY DispatchFrames, PTL DEF LogInv
  <2>8. \A r : ~ InDispatch(r) /\ ~ InDispatch(r)'
    BY <2>5, <2>6, <2>7 DEF ReachedIs, Reached
  <2>9. Shown' = Shown
    BY <2>1, <2>8 DEF Shown
  <2>10. J!Clear
    BY <2>1, <2>9 DEF J!Clear, Shown
  <2> QED
    BY <2>10 DEF JournalStep, J!JournalNext
<1> QED
  BY <1>1, <1>2, <1>3

\* The steps of a call in progress.
LEMMA StepPosts ==
  ASSUME LogInv, StackInv', NEW t \in Threads, Step(t)
  PROVE  JournalStep
<1>0. /\ {"check", "format", "lock"} \subseteq (PCs \cap Logging) \ {"write"}
      /\ {"make", "construct", "discard"} \subseteq PCs \ {"write"}
      /\ "write" \in PCs /\ 1 \in Nat \ {0}
  BY DEF PCs, Logging
<1>1. CASE CheckLevel(t)
  <2>1. At(t, "check") /\ UNCHANGED <<lines, sinks, level>>
    BY <1>1 DEF CheckLevel, sinkVars
  <2>2. Top(t).arg \in Messages \cup Sinks \cup {NoThread}
    BY <2>1, AtFacts DEF LogInv
  <2>3. CASE Become(t, Frame("format", Top(t).arg, 1)) /\ call' = call
    BY <1>0, <2>1, <2>2, <2>3, GoesOnPosts
  <2>4. CASE ~ Enabled(call[Top(t).arg].lvl) /\ Return(t) /\ Close(Top(t).arg, "dropped")
    BY <1>0, <2>1, <2>4, ReturnPosts
  <2> QED
    BY <1>1, <2>3, <2>4 DEF CheckLevel
<1>2. CASE Formatted(t)
  <2>1. At(t, "format") /\ UNCHANGED <<lines, sinks, level>>
    BY <1>2 DEF Formatted, sinkVars
  <2>2. Top(t).arg \in Messages \cup Sinks \cup {NoThread}
    BY <2>1, AtFacts DEF LogInv
  <2>3. CASE Become(t, Frame("lock", Top(t).arg, 1)) /\ call' = call
    BY <1>0, <2>1, <2>2, <2>3, GoesOnPosts
  <2>4. CASE Return(t) /\ Close(Top(t).arg, "failed")
    BY <1>0, <2>1, <2>4, ReturnPosts
  <2> QED
    BY <1>2, <2>3, <2>4 DEF Formatted
<1>3. CASE LogMessage(t)
  <2>1. At(t, "lock") /\ UNCHANGED <<lines, sinks, level>>
    BY <1>3 DEF LogMessage, sinkVars
  <2>2. Top(t).arg \in Messages \cup Sinks \cup {NoThread}
    BY <2>1, AtFacts DEF LogInv
  <2>3. CASE Become(t, Frame("write", Top(t).arg, 1)) /\ call' = call
    BY <1>0, <2>1, <2>2, <2>3, GoesOnPosts
  <2>4. CASE Rank[call[Top(t).arg].lvl] < Rank[level] /\ Return(t) /\ Close(Top(t).arg, "dropped")
    <3>1. call[Top(t).arg].lvl \in Level /\ level \in Level
      BY <1>0, <2>1, TopLogs DEF LogInv
    <3>2. ~ Enabled(call[Top(t).arg].lvl)
      BY <2>4, <3>1, RankType DEF Enabled
    <3> QED
      BY <1>0, <2>1, <2>4, <3>2, ReturnPosts
  <2> QED
    BY <1>3, <2>3, <2>4 DEF LogMessage
<1>4. CASE OpenLogger(t)
  <2>1. /\ At(t, "make") /\ Become(t, Frame("construct", Top(t).arg, 1))
        /\ UNCHANGED <<lines, sinks, level, call>>
    BY <1>4 DEF OpenLogger
  <2>2. Top(t).arg \in Messages \cup Sinks \cup {NoThread}
    BY <2>1, AtFacts DEF LogInv
  <2> QED
    BY <1>0, <2>1, <2>2, GoesOnPosts
<1>5. CASE OpenFails(t) \/ Construct(t) \/ DiscardSink(t)
  <2>1. Return(t) /\ UNCHANGED <<lines, sinks, level, call>>
    BY <1>5 DEF OpenFails, Construct, DiscardSink, DestroySink
  <2>2. \E pc \in {"make", "construct", "discard"} : At(t, pc)
    BY <1>5 DEF OpenFails, Construct, DiscardSink
  <2> QED
    BY <1>0, <2>1, <2>2, QuietReturn
<1> QED
  BY <1>1, <1>2, <1>3, <1>4, <1>5, WritePosts, EndPosts, ClearPosts DEF Step

\* Every step of the log is one of the journal, or none.
LEMMA NextPosts ==
  ASSUME LogInv, [Next]_vars
  PROVE  JournalStep
<1>0. StackInv'
  BY StackNext DEF LogInv
<1>1. CASE UNCHANGED vars
  <2>1. Shown' = Shown /\ UNCHANGED <<level, sinks, call>>
    BY <1>1 DEF Shown, InDispatch, vars, sinkVars, logVars
  <2> QED
    BY <2>1, JournalState DEF JournalStep
<1>2. ASSUME NEW t \in Threads, Program(t)
      PROVE  JournalStep
  <2>1. CASE LogString(t) \/ LogFormat(t)
    BY <1>0, <2>1, BeginPosts DEF LogString, LogFormat
  <2>2. CASE \E l \in SetLevels : SetLevel(t, l)
    BY <1>0, <2>2, SetLevelPosts
  <2>3. CASE \E s \in Sinks : MakeSink(t, s)
    <3>1. PICK s \in Sinks : MakeSink(t, s)
      BY <2>3
    <3>2. /\ UserCode(t) /\ Push(t, Frame("make", s, 1))
          /\ UNCHANGED <<lines, sinks, level, call>>
      BY <3>1 DEF MakeSink, UserCode
    <3> QED
      BY <1>0, <3>2, QuietCall DEF PCs
  <2>4. CASE \E s \in Sinks : AddSink(t, s) \/ ReleaseSink(t, s)
    BY <1>0, <2>4, AddPosts
  <2>5. CASE ClearSinks(t)
    BY <1>0, <2>5, ClearPosts
  <2> QED
    BY <1>2, <2>1, <2>2, <2>3, <2>4, <2>5 DEF Program
<1>3. ASSUME NEW t \in Threads, Step(t)
      PROVE  JournalStep
  BY <1>0, <1>3, StepPosts
<1> QED
  BY <1>1, <1>2, <1>3 DEF Next

\* The log keeps the promises of Journal, for every number of threads, sinks and
\* messages: what is posted reaches, at one instant, every sink installed at that
\* instant - or those before one of the application's that throws - each with the
\* attribution of its kind, and at a level the message is enabled at; what is
\* dropped was disabled at some instant of its call; and arguments are formatted
\* only for what was enabled at one.
THEOREM JournalImplemented == Spec => ImplementsJournal
<1>1. Init => J!JournalInit
  <2> SUFFICES ASSUME Init PROVE J!JournalInit
    OBVIOUS
  <2>1. \A t \in Threads : Len(stack[t]) = 0
    BY DEF Init
  <2>2. \A s : ~ InDispatch(s)
    BY <2>1 DEF InDispatch
  <2> QED
    BY <2>2 DEF Init, SinksInit, NoCall, J!JournalInit
<1>2. LogInv /\ [Next]_vars => [J!JournalNext]_(J!journalVars)
  BY NextPosts DEF JournalStep
<1> QED
  BY <1>1, <1>2, LogAlways, PTL DEF Spec, ImplementsJournal, J!JournalSpec
=============================================================================
