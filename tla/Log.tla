-------------------------------- MODULE Log --------------------------------
(***************************************************************************)
(* collab::log: the state all threads share behind one mutex, the level    *)
(* and the installed sinks, and the calls in progress.                     *)
(*                                                                         *)
(* Every thread has a stack of calls.  Formatting an argument, a sink of   *)
(* the application and its destructor are user code, which may log again.  *)
(* A call that does all its work under the mutex and calls nothing else    *)
(* there is one step, taken when the mutex is free.                        *)
(***************************************************************************)
EXTENDS SpdlogSinks, FiniteSets, SequencesExt

CONSTANTS
  Threads,
  NoThread,
  Does,        \* what each thread calls
  Caller,      \* who logs each message: the identifier of a library, or NoId
  SetLevels,   \* levels the program sets
  MsgLevels,   \* levels each message may be logged at
  MaxCalls,    \* bound: messages logged
  MaxControls, \* bound: calls of set_level and clear_sinks
  MaxNames     \* bound: names drawn

Messages == 1 .. MaxCalls

Operations == {"set_level", "string", "format", "make", "add", "clear"}

ASSUME LevelsAssumption ==
  SetLevels \subseteq Level /\ MsgLevels \in [Messages -> SUBSET Level]

ASSUME ProgramAssumption ==
  Does \in [Threads -> SUBSET Operations] /\ DOMAIN Caller = Messages

ASSUME BoundsAssumption == MaxCalls \in Nat /\ MaxNames \in Nat

ASSUME ThreadsAssumption == NoThread \notin Threads

VARIABLES
  mtx,       \* the thread that holds the mutex
  level,     \* current_level
  sinks,     \* the vector of installed sinks
  life,      \* what became of each sink object
  stack,     \* per thread the calls in progress, the innermost first
  call,      \* the log calls made: arguments, outcome, levels seen while open
  controls,  \* calls of set_level and clear_sinks
  leaked     \* names registered by constructors that failed afterwards

logVars == <<mtx, level, sinks, life, stack, call, controls, leaked>>
vars == <<sinkVars, logVars>>

Frame(pc, arg, i) == [pc |-> pc, arg |-> arg, i |-> i]

NoCall == [st |-> "none", lvl |-> "off", id |-> NoId, fmt |-> FALSE, seen |-> {}]

Init ==
  /\ SinksInit
  /\ mtx = NoThread
  /\ level = "info"
  /\ sinks = <<>>
  /\ life = [s \in Sinks |-> IF Spdlog(s) THEN "unmade" ELSE "free"]
  /\ stack = [t \in Threads |-> <<>>]
  /\ call = [m \in Messages |-> NoCall]
  /\ controls = 0
  /\ leaked = {}

Idle(t) == stack[t] = <<>>
Top(t) == Head(stack[t])
At(t, pc) == ~ Idle(t) /\ Top(t).pc = pc

Push(t, frame) == stack' = [stack EXCEPT ![t] = <<frame>> \o @]
Become(t, frame) == stack' = [stack EXCEPT ![t] = <<frame>> \o Tail(@)]
Return(t) == stack' = [stack EXCEPT ![t] = Tail(@)]

Locked(t) == mtx = NoThread     \* lock_guard of thread t: the mutex is not recursive

Close(m, st) == call' = [call EXCEPT ![m] = [NoCall EXCEPT !.st = st, !.lvl = call[m].lvl]]

\* User code on top of t's stack: it runs, and may call the log.
UserCode(t) ==
  \/ Idle(t)
  \/ /\ Len(stack[t]) = 1
     /\ \/ At(t, "format")
        \/ /\ Top(t).pc \in {"write", "destroy"} /\ Top(t).i <= Len(sinks)
           /\ KindOf[sinks[Top(t).i]] = "chatty"
        \/ At(t, "discard") /\ KindOf[Top(t).arg] = "chatty"
-----------------------------------------------------------------------------
(* The level.                                                              *)

SetLevel(t, l) ==
  /\ Idle(t) /\ Locked(t)
  /\ l # level /\ controls < MaxControls
  /\ controls' = controls + 1
  /\ level' = l
  /\ call' = [m \in Messages |->
       IF call[m].st = "open" THEN [call[m] EXCEPT !.seen = @ \cup {l}] ELSE call[m]]
  /\ UNCHANGED <<sinkVars, mtx, sinks, life, stack, leaked>>

\* get_level() <= lvl, the check of the fmt-style overloads: a lock of its own.
Enabled(lvl) == Rank[level] <= Rank[lvl]
-----------------------------------------------------------------------------
(* Logging.                                                                *)

\* logger<I>: whatever a library logs, at any level, carries the identifier it was built with.
logger(m) == Caller[m]

\* The call of an overload at a level; the ..._with overloads pass an identifier.
Begin(t, fmt) ==
  /\ UserCode(t)
  /\ fmt => Idle(t)
  /\ \E m \in Messages : \E lvl \in MsgLevels[m] :
       /\ call[m].st = "none" /\ \A k \in 1 .. m - 1 : call[k].st # "none"
       /\ call' = [call EXCEPT ![m] = [st |-> "open", lvl |-> lvl, id |-> logger(m), fmt |-> fmt,
                                       seen |-> {level}]]
       /\ Push(t, Frame(IF fmt THEN "check" ELSE "lock", m, 1))
  /\ UNCHANGED <<sinkVars, mtx, level, sinks, life, controls, leaked>>

\* A string view: straight to log_message.
LogString(t) == Begin(t, FALSE)

\* A format string and its arguments.
LogFormat(t) == Begin(t, TRUE)

\* Bug: the lock the level is tested under is held until the text is formatted.
CheckLevelHolding(t) ==
  /\ At(t, "check") /\ Locked(t)
  /\ Enabled(call[Top(t).arg].lvl)
  /\ Become(t, Frame("format", Top(t).arg, 1))
  /\ mtx' = t
  /\ UNCHANGED <<sinkVars, level, sinks, life, call, controls, leaked>>

CheckLevel(t) ==
  /\ At(t, "check") /\ Locked(t)
  /\ LET m == Top(t).arg IN
     IF Enabled(call[m].lvl)
       THEN Become(t, Frame("format", m, 1)) /\ UNCHANGED call
       ELSE Return(t) /\ Close(m, "dropped")
  /\ UNCHANGED <<sinkVars, mtx, level, sinks, life, controls, leaked>>

\* fmt::format returns the text, or a formatter throws.
Formatted(t) ==
  /\ At(t, "format")
  /\ LET m == Top(t).arg IN
       \/ Become(t, Frame("lock", m, 1)) /\ UNCHANGED call
       \/ Return(t) /\ Close(m, "failed")
  /\ UNCHANGED <<sinkVars, mtx, level, sinks, life, controls, leaked>>

\* Bug: the mutex is locked and unlocked by hand, and not unlocked before the early return.
LogMessageByHand(t) ==
  /\ At(t, "lock") /\ Locked(t)
  /\ LET m == Top(t).arg IN
     IF Rank[call[m].lvl] < Rank[level]
       THEN Return(t) /\ Close(m, "dropped")
       ELSE Become(t, Frame("write", m, 1)) /\ UNCHANGED call
  /\ mtx' = t
  /\ UNCHANGED <<sinkVars, level, sinks, life, controls, leaked>>

\* Bug: the test of the fmt-style overload is trusted, and not made again.
LogMessageTrusting(t) ==
  /\ At(t, "lock") /\ Locked(t)
  /\ Become(t, Frame("write", Top(t).arg, 1))
  /\ mtx' = t
  /\ UNCHANGED <<sinkVars, level, sinks, life, call, controls, leaked>>

\* log_message(): the level is tested again, under the lock the sinks are written under.
LogMessage(t) ==
  /\ At(t, "lock") /\ Locked(t)
  /\ LET m == Top(t).arg IN
     IF Rank[call[m].lvl] < Rank[level]
       THEN Return(t) /\ Close(m, "dropped") /\ UNCHANGED mtx
       ELSE Become(t, Frame("write", m, 1)) /\ mtx' = t /\ UNCHANGED call
  /\ UNCHANGED <<sinkVars, level, sinks, life, controls, leaked>>

\* The loop over the sinks, one at a time.
WriteSink(t) ==
  /\ At(t, "write") /\ Top(t).i <= Len(sinks)
  /\ LET m == Top(t).arg IN
       /\ Write(sinks[Top(t).i], m, call[m].lvl, call[m].id)
       /\ Become(t, Frame("write", m, Top(t).i + 1))
  /\ UNCHANGED <<counter, registry, name, mtx, level, sinks, life, call, controls, leaked>>

\* Bug: the mutex is unlocked after the loop, not by a guard.
EndMessageUnguarded(t) ==
  /\ At(t, "write")
  /\ Top(t).i <= Len(sinks) => MayThrow(sinks[Top(t).i], call[Top(t).arg].id)
  /\ mtx' = IF Top(t).i > Len(sinks) THEN NoThread ELSE mtx
  /\ Return(t) /\ Close(Top(t).arg, "posted")
  /\ UNCHANGED <<sinkVars, level, sinks, life, controls, leaked>>

\* The loop has ended, or a sink throws out of it.
EndMessage(t) ==
  /\ At(t, "write")
  /\ Top(t).i <= Len(sinks) => MayThrow(sinks[Top(t).i], call[Top(t).arg].id)
  /\ mtx' = NoThread
  /\ Return(t) /\ Close(Top(t).arg, "posted")
  /\ UNCHANGED <<sinkVars, level, sinks, life, controls, leaked>>
-----------------------------------------------------------------------------
(* Sinks.                                                                  *)

\* A factory: make_spdlog_pair draws a name,
MakeSink(t, s) ==
  /\ Idle(t) /\ life[s] = "unmade" /\ counter < MaxNames
  /\ UniqueName(s)
  /\ life' = [life EXCEPT ![s] = "making"]
  /\ Push(t, Frame("make", s, 1))
  /\ UNCHANGED <<registry, lines, flushed, mtx, level, sinks, call, controls, leaked>>

\* has spdlog make and register a logger,
OpenLogger(t) ==
  /\ At(t, "make")
  /\ RegisterLogger(Top(t).arg)
  /\ Become(t, Frame("construct", Top(t).arg, 1))
  /\ UNCHANGED <<counter, name, lines, flushed, mtx, level, sinks, life, call, controls, leaked>>

\* which may throw: the file cannot be opened, the name is taken;
OpenFails(t) ==
  /\ At(t, "make") /\ CannotRegister(Top(t).arg)
  /\ life' = [life EXCEPT ![Top(t).arg] = "unmade"]
  /\ name' = [name EXCEPT ![Top(t).arg] = NoName]
  /\ Return(t)
  /\ UNCHANGED <<counter, registry, lines, flushed, mtx, level, sinks, call, controls, leaked>>

\* the constructor of the base sets level and pattern.  If that throws no
\* destructor runs, and nothing owns the registration.
Construct(t) ==
  /\ At(t, "construct")
  /\ LET s == Top(t).arg IN
       \/ life' = [life EXCEPT ![s] = "free"] /\ UNCHANGED <<name, leaked>>
       \/ /\ life' = [life EXCEPT ![s] = "unmade"]
          /\ leaked' = leaked \cup {name[s]}
          /\ name' = [name EXCEPT ![s] = NoName]
  /\ Return(t)
  /\ UNCHANGED <<counter, registry, lines, flushed, mtx, level, sinks, call, controls>>

\* push_back under the lock; if it throws, the argument is destroyed after the unlock.
AddSink(t, s) ==
  /\ Idle(t) /\ Locked(t) /\ life[s] = "free"
  /\ \/ /\ sinks' = Append(sinks, s)
        /\ life' = [life EXCEPT ![s] = "installed"]
        /\ UNCHANGED stack
     \/ /\ life' = [life EXCEPT ![s] = "discarded"]
        /\ Push(t, Frame("discard", s, 1))
        /\ UNCHANGED sinks
  /\ UNCHANGED <<sinkVars, mtx, level, call, controls, leaked>>

\* The program destroys a sink it has not added.
ReleaseSink(t, s) ==
  /\ Idle(t) /\ life[s] = "free"
  /\ life' = [life EXCEPT ![s] = "discarded"]
  /\ Push(t, Frame("discard", s, 1))
  /\ UNCHANGED <<sinkVars, mtx, level, sinks, call, controls, leaked>>

DestroySink(s) ==
  /\ DropLogger(s)
  /\ life' = [life EXCEPT ![s] = "dead"]
  /\ UNCHANGED <<counter, name, lines, flushed>>

DiscardSink(t) ==
  /\ At(t, "discard")
  /\ DestroySink(Top(t).arg)
  /\ Return(t)
  /\ UNCHANGED <<mtx, level, sinks, call, controls, leaked>>

\* clear_sinks(): the sinks are destroyed one after the other, under the lock.
ClearSinks(t) ==
  /\ Idle(t) /\ Locked(t) /\ sinks # <<>> /\ controls < MaxControls
  /\ controls' = controls + 1
  /\ mtx' = t
  /\ Push(t, Frame("destroy", NoThread, 1))
  /\ UNCHANGED <<sinkVars, level, sinks, life, call, leaked>>

ClearNext(t) ==
  /\ At(t, "destroy") /\ Top(t).i <= Len(sinks)
  /\ DestroySink(sinks[Top(t).i])
  /\ Become(t, Frame("destroy", NoThread, Top(t).i + 1))
  /\ UNCHANGED <<mtx, level, sinks, call, controls, leaked>>

ClearDone(t) ==
  /\ At(t, "destroy") /\ Top(t).i > Len(sinks)
  /\ sinks' = <<>>
  /\ mtx' = NoThread
  /\ Return(t)
  /\ UNCHANGED <<sinkVars, level, life, call, controls, leaked>>
-----------------------------------------------------------------------------
\* What the program calls, and the steps of the calls in progress.
Program(t) ==
  \/ "set_level" \in Does[t] /\ \E l \in SetLevels : SetLevel(t, l)
  \/ "string" \in Does[t] /\ LogString(t)
  \/ "format" \in Does[t] /\ LogFormat(t)
  \/ "make" \in Does[t] /\ \E s \in Sinks : MakeSink(t, s)
  \/ "add" \in Does[t] /\ \E s \in Sinks : AddSink(t, s) \/ ReleaseSink(t, s)
  \/ "clear" \in Does[t] /\ ClearSinks(t)

Step(t) ==
  \/ CheckLevel(t) \/ Formatted(t) \/ LogMessage(t) \/ WriteSink(t) \/ EndMessage(t)
  \/ OpenLogger(t) \/ OpenFails(t) \/ Construct(t) \/ DiscardSink(t)
  \/ ClearNext(t) \/ ClearDone(t)

Next == \E t \in Threads : Program(t) \/ Step(t)

Spec == Init /\ [][Next]_vars

\* Calls run on: no step of a call waits but for the mutex.  A std::mutex is not
\* fair; the calls are finitely many, so it is free for good in the end.
FairSpec == Spec /\ \A t \in Threads : WF_vars(Step(t))
-----------------------------------------------------------------------------
\* The shape of the state; the mutex is held by whoever writes to sinks or clears them.
TypeOK ==
  /\ counter \in 0 .. MaxNames
  /\ mtx \in Threads \cup {NoThread}
  /\ level \in Level
  /\ sinks \in Seq(Sinks)
  /\ life \in [Sinks -> {"unmade", "making", "free", "installed", "discarded", "dead"}]
  /\ DOMAIN call = Messages
  /\ \A m \in Messages :
       /\ call[m].st \in {"none", "open", "posted", "dropped", "failed"}
       /\ call[m].lvl \in Level /\ call[m].seen \subseteq Level
       /\ call[m].id \in {NoId, Caller[m]} /\ call[m].fmt \in BOOLEAN
  /\ \A t \in Threads : \A k \in 1 .. Len(stack[t]) :
       stack[t][k].pc \in {"check", "format", "lock", "write", "make", "construct", "discard",
                           "destroy"}
  /\ \A t \in Threads :
       mtx = t <=> \E k \in 1 .. Len(stack[t]) : stack[t][k].pc \in {"write", "destroy"}
  /\ \A s \in Sinks : flushed[s] \in 0 .. Len(lines[s])

\* The code of log.hpp keeps the promises of Journal: dispatch to all sinks is
\* indivisible, at a level that admits the message; the level check without the
\* lock held drops only what was disabled at some instant of the call, and
\* formatting, whatever it logs itself, is only ever begun for what was enabled.
\* A message being dispatched counts for the sinks it has reached when the last has it.
InDispatch(s) == \E t \in Threads : \E k \in 1 .. Len(stack[t]) :
  stack[t][k].pc = "write" /\ \E i \in 1 .. stack[t][k].i - 1 : sinks[i] = s

J == INSTANCE Journal WITH
  Targets <- Sinks, Fallible <- {s \in Sinks : ~ Spdlog(s)}, Calls <- Messages, Nobody <- NoId,
  Style <- [s \in Sinks |-> CASE KindOf[s] = "file" -> "bundle ID"
                              [] KindOf[s] \in {"custom", "chatty"} -> "pointer"
                              [] OTHER -> "display name"],
  threshold <- level, targets <- sinks, posts <- call,
  entries <- [s \in Sinks |-> IF InDispatch(s) THEN Front(lines[s]) ELSE lines[s]]

ImplementsJournal == J!JournalSpec

\* A thread that waits for the mutex it holds waits for ever.  Formatting and
\* destroying what could not be added run with the mutex free, so the only way
\* there is a sink that logs while it is written to or cleared.
SelfLocked(t) == mtx = t /\ (At(t, "check") \/ At(t, "lock"))

OnlySinksLockThemselves ==
  \A t \in Threads : SelfLocked(t) =>
    \E k \in 2 .. Len(stack[t]) :
      stack[t][k].pc \in {"write", "destroy"} /\ KindOf[sinks[stack[t][k].i]] = "chatty"

\* spdlog's registry holds the logger of every living sink and of no dead one
\* ("dropping the sink also drops its named logger"), under a name no other
\* sink has; but for what constructors that fail late leave in it.
Owners == {s \in Sinks : Spdlog(s) /\ life[s] \in {"free", "installed", "discarded"}}
Constructing == {s \in Sinks : \E t \in Threads : At(t, "construct") /\ Top(t).arg = s}

RegistryOwned ==
  /\ registry = {name[s] : s \in Owners \cup Constructing} \cup leaked
  /\ \A s \in Sinks : life[s] = "making" \/ s \in Owners =>
       /\ name[s] \notin leaked
       /\ \A r \in Sinks \ {s} : name[r] # name[s]

\* What a file sink has been given it has put on disk: if the process dies, every
\* call that has returned is in the file.  Messages logged at level off are not flushed.
LinesOnDisk ==
  \A s \in Sinks : flushed[s] < Len(lines[s]) => call[lines[s][Len(lines[s])].msg].lvl = "off"

\* Every log call returns, unless a sink that logs has locked its thread out.
CallsReturn ==
  [](\A t \in Threads : ~ SelfLocked(t))
    => \A m \in Messages : [](call[m].st = "open" => <>(call[m].st # "open"))
=============================================================================
