--------------------------- MODULE RegisterProofs ---------------------------
(***************************************************************************)
(* More proofs about AtomicFileWriter: descriptors always have one owner;  *)
(* what a returned commit() promised outlives every power failure; and,    *)
(* while no fallback copy is possible, the writers implement the register  *)
(* of AtomicFile.                                                          *)
(*                                                                         *)
(* OwnInv needs no other invariant and no assumption on the environment.   *)
(* DurInv rests on it (a session whose commit() returned is not committed  *)
(* again) and on the invariant of AtomicFileWriterProofs (what the target  *)
(* is linked to is whole, and nobody writes to it).                        *)
(***************************************************************************)
EXTENDS AtomicFileWriterProofs

\* What an object knows of its handle and of its session.
Own(o) ==
  /\ obj[o].ses <= count.sessions
  /\ obj[o].handle # Invalid => obj[o].handle = obj[o].ses /\ obj[o].handle \in fds
  /\ obj[o].committed => obj[o].handle = Invalid /\ obj[o].pc = "idle"
  /\ obj[o].ses = NoSession => obj[o].pc = "none" \/ obj[o].committed
  /\ obj[o].pc = "none" => obj[o] = NoObject
  /\ obj[o].ses # NoSession /\ ses[obj[o].ses].result = "ok" => obj[o].committed
  /\ obj[o].pc \in {"attributes", "chmod", "chown", "replace", "copy", "remove", "dirsync"} => obj[o].handle = Invalid

\* The descriptors and the sessions are shared out among the objects.
OwnInv ==
  /\ \A s \in fds : \E o \in Writers : obj[o].handle = s
  /\ \A o \in Writers : Own(o)
  /\ \A s \in Sessions : s > count.sessions => ses[s].result = "none"
  /\ \A o, q \in Writers : o # q /\ obj[o].ses = obj[q].ses => obj[o].ses = NoSession

-----------------------------------------------------------------------------
(* HandlesOwned.                                                           *)

\* A step of one object that keeps its session and its handle.
LEMMA OwnKept ==
  ASSUME TypeOK, TypeOK', OwnInv, NEW o \in Writers, NEW r, Become(o, r),
         obj[o].pc # "none", r.pc # "none",
         r.ses = obj[o].ses, r.handle = obj[o].handle, r.committed = obj[o].committed,
         obj[o].committed => r.pc = "idle",
         r.pc \in {"attributes", "chmod", "chown", "replace", "copy", "remove", "dirsync"} => r.handle = Invalid,
         fds' = fds, count'.sessions = count.sessions,
         \A s \in Sessions : \/ ses'[s].result = ses[s].result
                             \/ s = obj[o].ses /\ ses'[s].result # "ok"
  PROVE  OwnInv'
<1>1. obj'[o] = r /\ \A q \in Writers \ {o} : obj'[q] = obj[q]
  BY OneObject
<1>2. \A q \in Writers : obj'[q].ses = obj[q].ses /\ obj'[q].handle = obj[q].handle
  BY <1>1
<1>3. \A q \in Writers : obj[q].ses \in 0 .. MaxSessions /\ obj[q].ses <= count.sessions
  BY ObjectFacts DEF OwnInv, Own
<1>4. \A s \in Sessions : ses'[s].result = "ok" => ses[s].result = "ok"
  OBVIOUS
<1>5. ASSUME NEW q \in Writers PROVE Own(q)'
  <2>1. Own(q) /\ obj[q].ses \in 0 .. MaxSessions
    BY <1>3 DEF OwnInv
  <2>2. obj[q].ses # NoSession => obj[q].ses \in Sessions
    BY <2>1 DEF Sessions, NoSession
  <2>3. CASE q = o
    BY <1>1, <1>4, <2>1, <2>2, <2>3 DEF Own
  <2>4. CASE q # o
    BY <1>1, <1>4, <2>1, <2>2, <2>4 DEF Own
  <2> QED
    BY <2>3, <2>4
<1>6. \A s \in Sessions : s > count'.sessions => ses'[s].result = "none"
  <2>1. \A s \in Sessions : s > count.sessions => s # obj[o].ses
    BY <1>3 DEF Sessions, TypeOK, Counts
  <2> QED
    BY <2>1 DEF OwnInv
<1> QED
  BY <1>2, <1>5, <1>6 DEF OwnInv

\* Leaving commit() by an exception keeps the ownership.
LEMMA ThrowOwn ==
  ASSUME TypeOK, TypeOK', OwnInv, NEW o \in Writers, NEW leaf \in CommitErrors, Throw(o, leaf),
         obj[o].pc \notin {"none", "idle"}, fds' = fds, count' = count
  PROVE  OwnInv'
<1> DEFINE r == [obj[o] EXCEPT !.pc = "idle", !.st = NewFile]
<1>1. /\ Become(o, r) /\ r.ses = obj[o].ses /\ r.handle = obj[o].handle
      /\ r.committed = obj[o].committed /\ r.pc = "idle"
  BY ObjectFacts DEF Throw, Goto, Objects
<1>2. \A s \in Sessions : \/ ses'[s].result = ses[s].result
                          \/ s = obj[o].ses /\ ses'[s].result # "ok"
  BY DEF Throw, TypeOK, Sessions, CommitErrors, Pasts
<1> QED
  BY <1>1, <1>2, OwnKept

\* Moving on within commit() keeps the ownership.
LEMMA GotoOwn ==
  ASSUME TypeOK, TypeOK', OwnInv, NEW o \in Writers, NEW pc \in CommitPCs, Goto(o, pc),
         obj[o].pc # "none", ~ obj[o].committed, obj[o].handle = Invalid \/ pc = "fsync",
         fds' = fds, count'.sessions = count.sessions,
         \A s \in Sessions : ses'[s].result = ses[s].result
  PROVE  OwnInv'
<1> DEFINE r == [obj[o] EXCEPT !.pc = pc, !.st = NewFile]
<1>1. /\ Become(o, r) /\ r.ses = obj[o].ses /\ r.handle = obj[o].handle
      /\ r.committed = obj[o].committed /\ r.pc = pc
  BY ObjectFacts DEF Goto, Objects
<1> QED
  BY <1>1, OwnKept DEF CommitPCs

\* write() keeps the ownership.
LEMMA WriteOwn ==
  ASSUME TypeOK, TypeOK', OwnInv, NEW o \in Writers, NEW k \in 1 .. MaxLen,
         BeginWrite(o, k) \/ WriteSome(o, k)
  PROVE  OwnInv'
<1>1. Own(o) /\ obj[o] \in Objects
  BY ObjectFacts DEF OwnInv
<1>2. CASE BeginWrite(o, k)
  <2> DEFINE r == [obj[o] EXCEPT !.pc = "write", !.left = k]
  <2>1. /\ Become(o, r) /\ r.ses = obj[o].ses /\ r.handle = obj[o].handle
        /\ r.committed = obj[o].committed /\ r.pc = "write"
    BY <1>1, <1>2 DEF BeginWrite, Objects
  <2>2. obj[o].pc = "idle" /\ ~ obj[o].committed /\ fds' = fds /\ count' = count
    BY <1>2 DEF BeginWrite, At, Uncommitted
  <2>3. \A s \in Sessions : ses'[s].result = ses[s].result
    BY <1>2 DEF BeginWrite, TypeOK, Pasts, Sessions
  <2> QED
    BY <2>1, <2>2, <2>3, OwnKept
<1>3. CASE WriteSome(o, k)
  <2> DEFINE r == [obj[o] EXCEPT !.left = @ - k, !.pc = IF k = obj[o].left THEN "idle" ELSE @]
  <2>1. /\ Become(o, r) /\ r.ses = obj[o].ses /\ r.handle = obj[o].handle
        /\ r.committed = obj[o].committed /\ r.pc \in {"idle", "write"}
    BY <1>1, <1>3 DEF WriteSome, Objects, At
  <2>2. obj[o].pc = "write" /\ ~ obj[o].committed /\ fds' = fds /\ count' = count /\ ses' = ses
    BY <1>1, <1>3 DEF WriteSome, At, Own
  <2> QED
    BY <2>1, <2>2, OwnKept
<1> QED
  BY <1>2, <1>3

\* write() gives up.
LEMMA WriteFailsOwn ==
  ASSUME TypeOK, TypeOK', OwnInv, NEW o \in Writers, WriteFails(o)
  PROVE  OwnInv'
<1> DEFINE r == [obj[o] EXCEPT !.pc = "idle", !.left = 0]
<1>1. /\ Become(o, r) /\ r.ses = obj[o].ses /\ r.handle = obj[o].handle
      /\ r.committed = obj[o].committed /\ r.pc = "idle"
  BY ObjectFacts DEF WriteFails, Objects
<1>2. obj[o].pc = "write" /\ fds' = fds /\ count' = count /\ ses' = ses
  BY DEF WriteFails, At
<1> QED
  BY <1>1, <1>2, OwnKept

\* Every step of commit() that leaves its object within commit().
LEMMA CommitMovesOn ==
  ASSUME TypeOK, TypeOK', OwnInv, NEW o \in Writers,
         \/ BeginCommit(o) \/ CopyAttributes(o) \/ Rename(o) \/ RemoveTemp(o)
  PROVE  OwnInv'
<1>1. Own(o)
  BY DEF OwnInv
<1>2. CASE BeginCommit(o)
  BY <1>1, <1>2, GotoOwn DEF BeginCommit, At, CommitPCs, PCs
<1>3. CASE CopyAttributes(o)
  <2>1. PICK q \in Objects :
          /\ Become(o, q) /\ q.pc \in {"chmod", "chown", "replace"}
          /\ q.ses = obj[o].ses /\ q.handle = obj[o].handle /\ q.committed = obj[o].committed
    BY <1>3, CopyAttributesSteps
  <2>2. obj[o].pc \in {"attributes", "chmod", "chown"} /\ fds' = fds /\ ses' = ses /\ count' = count
    BY <1>3, CopyAttributesSteps
  <2>3. ~ obj[o].committed /\ obj[o].handle = Invalid
    BY <1>1, <2>2 DEF Own
  <2> QED
    BY <2>1, <2>2, <2>3, OwnKept
<1>4. CASE Rename(o)
  <2>1. \A s \in Sessions : ses'[s].result = ses[s].result
    BY <1>4 DEF Rename, Put, TypeOK, Pasts, Sessions
  <2>2. count'.sessions = count.sessions
    BY <1>4 DEF Rename, Put, TypeOK, Counts
  <2> QED
    BY <1>1, <1>4, <2>1, <2>2, GotoOwn DEF Rename, At, CommitPCs, PCs, Own
<1>5. CASE RemoveTemp(o)
  BY <1>1, <1>5, GotoOwn DEF RemoveTemp, At, CommitPCs, PCs, Own
<1> QED
  BY <1>2, <1>3, <1>4, <1>5

\* Every exception of commit().
LEMMA CommitThrows ==
  ASSUME TypeOK, TypeOK', OwnInv, NEW o \in Writers,
         \/ SyncTempFails(o) \/ CopyAttributesFails(o) \/ RenameFails(o)
         \/ RenameCrossesFilesystems(o) \/ SyncDirFails(o)
  PROVE  OwnInv'
BY ThrowOwn DEF SyncTempFails, CopyAttributesFails, RenameFails, RenameCrossesFilesystems,
   SyncDirFails, At, CommitErrors

\* The steps of the fallback copy.
LEMMA CopyOwn ==
  ASSUME TypeOK, TypeOK', OwnInv, NEW o \in Writers, CopyBegins(o) \/ CopyEnds(o) \/ CopyFails(o)
  PROVE  OwnInv'
<1>1. Own(o) /\ obj[o] \in Objects
  BY ObjectFacts DEF OwnInv
<1>2. CASE CopyBegins(o)
  <2> DEFINE r == [obj[o] EXCEPT !.pc = "copy", !.into = dir[Target]]
  <2>1. /\ Become(o, r) /\ r.ses = obj[o].ses /\ r.handle = obj[o].handle
        /\ r.committed = obj[o].committed /\ r.pc = "copy"
    BY <1>1, <1>2 DEF CopyBegins, Objects
  <2>2. obj[o].pc = "replace" /\ fds' = fds
    BY <1>2 DEF CopyBegins, At
  <2>3. ~ obj[o].committed /\ obj[o].handle = Invalid
    BY <1>1, <2>2 DEF Own
  <2>4. \A s \in Sessions : ses'[s].result = ses[s].result
    BY <1>2 DEF CopyBegins, Put, TypeOK, Pasts, Sessions
  <2>5. count'.sessions = count.sessions
    BY <1>2 DEF CopyBegins, Put, TypeOK, Counts
  <2> QED
    BY <2>1, <2>2, <2>3, <2>4, <2>5, OwnKept
<1>3. CASE CopyEnds(o)
  <2> DEFINE r == [obj[o] EXCEPT !.pc = "remove", !.into = NoFile]
  <2>1. /\ Become(o, r) /\ r.ses = obj[o].ses /\ r.handle = obj[o].handle
        /\ r.committed = obj[o].committed /\ r.pc = "remove"
    BY <1>1, <1>3 DEF CopyEnds, Objects
  <2>2. obj[o].pc = "copy" /\ fds' = fds /\ ses' = ses /\ count' = count
    BY <1>3 DEF CopyEnds, At
  <2>3. ~ obj[o].committed /\ obj[o].handle = Invalid
    BY <1>1, <2>2 DEF Own
  <2> QED
    BY <2>1, <2>2, <2>3, OwnKept
<1>4. CASE CopyFails(o)
  <2> DEFINE r == [obj[o] EXCEPT !.pc = "idle", !.into = NoFile]
  <2>1. /\ Become(o, r) /\ r.ses = obj[o].ses /\ r.handle = obj[o].handle
        /\ r.committed = obj[o].committed /\ r.pc = "idle"
    BY <1>1, <1>4 DEF CopyFails, Objects
  <2>2. obj[o].pc \in {"replace", "copy"} /\ fds' = fds /\ count' = count
    BY <1>4 DEF CopyFails, At
  <2>3. \A s \in Sessions : \/ ses'[s].result = ses[s].result
                            \/ s = obj[o].ses /\ ses'[s].result # "ok"
    BY <1>4 DEF CopyFails, TypeOK, Sessions, Pasts
  <2> QED
    BY <2>1, <2>2, <2>3, OwnKept
<1> QED
  BY <1>2, <1>3, <1>4

\* Opting in or out of the fallback.
LEMMA SetFallbackOwn ==
  ASSUME TypeOK, TypeOK', OwnInv, NEW o \in Writers, NEW enabled \in BOOLEAN,
         SetFallback(o, enabled)
  PROVE  OwnInv'
<1> DEFINE r == [obj[o] EXCEPT !.fallback = enabled]
<1>1. /\ Become(o, r) /\ r.ses = obj[o].ses /\ r.handle = obj[o].handle
      /\ r.committed = obj[o].committed /\ r.pc = "idle" /\ obj[o].pc = "idle"
  BY ObjectFacts DEF SetFallback, Objects, At
<1> QED
  BY <1>1, OwnKept DEF SetFallback

\* The constructor: the new object is the only one to know the new session.
LEMMA ConstructOwn ==
  ASSUME TypeOK, TypeOK', OwnInv, NEW o \in Writers, Construct(o)
  PROVE  OwnInv'
<1> DEFINE s == count.sessions + 1
           r == [NoObject EXCEPT !.pc = "idle", !.ses = s, !.handle = s]
<1>1. /\ count.sessions \in Nat /\ s \in Sessions /\ count'.sessions = s
      /\ fds' = fds \cup {s}
  BY DEF Construct, OpenTemp, TypeOK, Counts
<1>2. obj'[o] = r /\ \A q \in Writers \ {o} : obj'[q] = obj[q]
  BY OneObject DEF Construct
<1>3. r.pc = "idle" /\ r.ses = s /\ r.handle = s /\ ~ r.committed
  BY DEF NoObject
<1>4. obj[o].handle = Invalid
  BY DEF Construct, At, OwnInv, Own, NoObject
<1>5. \A q \in Writers : obj[q].ses \in 0 .. MaxSessions /\ obj[q].ses <= count.sessions
  BY ObjectFacts DEF OwnInv, Own
<1>6. \A q \in Writers : obj[q].ses # s
  <2>1. \A x \in 0 .. MaxSessions : x <= count.sessions => x # s
    BY <1>1
  <2> QED
    BY <1>5, <2>1
<1>7. \A x \in Sessions : ses'[x].result = ses[x].result
  BY <1>1 DEF Construct, TypeOK, Pasts, Sessions
<1>8. ses'[s].result = "none"
  <2>1. s > count.sessions
    BY <1>1
  <2> QED
    BY <1>1, <1>7, <2>1 DEF OwnInv
<1>9. Own(o)'
  <2>1. s # NoSession /\ s <= s /\ s \in fds'
    BY <1>1 DEF NoSession
  <2> QED
    BY <1>1, <1>2, <1>3, <1>8, <2>1 DEF Own
<1>10. ASSUME NEW q \in Writers, q # o PROVE Own(q)'
  <2>1. Own(q) /\ obj'[q] = obj[q] /\ obj[q].ses \in 0 .. MaxSessions
    BY <1>2, <1>5, <1>10 DEF OwnInv
  <2>2. obj[q].ses <= s
    <3>1. \A x \in 0 .. MaxSessions : x <= count.sessions => x <= s
      BY <1>1
    <3> QED
      BY <1>5, <3>1
  <2>3. obj[q].ses # NoSession => obj[q].ses \in Sessions
    BY <2>1 DEF Sessions, NoSession
  <2> QED
    BY <1>1, <1>7, <2>1, <2>2, <2>3 DEF Own
<1>11. ASSUME NEW x \in fds' PROVE \E q \in Writers : obj'[q].handle = x
  <2>1. CASE x = s
    BY <1>2, <1>3, <2>1
  <2>2. CASE x # s
    <3>1. PICK q \in Writers : obj[q].handle = x
      BY <1>1, <1>11, <2>2 DEF OwnInv
    <3>2. x \in Sessions
      BY <1>1, <1>11, <2>2 DEF TypeOK
    <3>3. q # o
      BY <1>4, <3>1, <3>2 DEF Invalid, Sessions
    <3> QED
      BY <1>2, <3>1, <3>3
  <2> QED
    BY <2>1, <2>2
<1>12. \A x \in Sessions : x > s => ses'[x].result = "none"
  <2>1. \A x \in Sessions : x > s => x > count.sessions
    BY <1>1 DEF Sessions
  <2> QED
    BY <1>7, <2>1 DEF OwnInv
<1>13. \A q, u \in Writers : q # u /\ obj'[q].ses = obj'[u].ses => obj'[q].ses = NoSession
  <2>1. obj'[o].ses = s /\ \A q \in Writers \ {o} : obj'[q].ses = obj[q].ses /\ obj[q].ses # s
    BY <1>2, <1>3, <1>6
  <2>2. \A q, u \in Writers : q # u /\ obj[q].ses = obj[u].ses => obj[q].ses = NoSession
    BY DEF OwnInv
  <2> HIDE DEF s, r
  <2> QED
    BY <2>1, <2>2
<1> QED
  BY <1>1, <1>9, <1>10, <1>11, <1>12, <1>13 DEF OwnInv

\* The flush closes the temp: its session goes on without a descriptor.
LEMMA SyncTempOwn ==
  ASSUME TypeOK, TypeOK', OwnInv, NEW o \in Writers, SyncTemp(o)
  PROVE  OwnInv'
<1> DEFINE r == [obj[o] EXCEPT !.pc = "attributes", !.handle = Invalid]
<1>1. /\ Become(o, r) /\ r.ses = obj[o].ses /\ r.handle = Invalid
      /\ r.committed = obj[o].committed /\ r.pc = "attributes"
  BY ObjectFacts DEF SyncTemp, Objects
<1>2. obj'[o] = r /\ \A q \in Writers \ {o} : obj'[q] = obj[q]
  BY <1>1, OneObject
<1>3. Own(o) /\ obj[o].pc = "fsync" /\ obj[o].handle # Invalid
  BY DEF SyncTemp, At, OwnInv
<1>4. obj[o].handle = obj[o].ses /\ obj[o].handle \in Sessions /\ obj[o].ses # NoSession
  BY <1>3 DEF Own, TypeOK, Sessions, NoSession
<1>5. fds' = fds \ {obj[o].ses} /\ ses' = ses /\ count' = count
  BY <1>4 DEF SyncTemp, Close
<1>6. ASSUME NEW q \in Writers, q # o PROVE Own(q)'
  <2>1. Own(q) /\ obj'[q] = obj[q] /\ obj[q].ses # obj[o].ses
    BY <1>2, <1>4, <1>6 DEF OwnInv
  <2> QED
    BY <1>5, <2>1 DEF Own
<1>7. Own(o)'
  BY <1>1, <1>2, <1>3, <1>5 DEF Own
<1>8. \A x \in fds' : \E q \in Writers : obj'[q].handle = x
  BY <1>2, <1>4, <1>5 DEF OwnInv
<1>9. \A q \in Writers : obj'[q].ses = obj[q].ses
  BY <1>1, <1>2
<1> QED
  BY <1>5, <1>6, <1>7, <1>8, <1>9 DEF OwnInv

\* The commit is complete: the session's result and committed_ say so together.
LEMMA SyncDirOwn ==
  ASSUME TypeOK, TypeOK', OwnInv, NEW o \in Writers, SyncDir(o)
  PROVE  OwnInv'
<1> DEFINE r == [obj[o] EXCEPT !.pc = "idle", !.committed = TRUE]
<1>1. /\ Become(o, r) /\ r.ses = obj[o].ses /\ r.handle = obj[o].handle
      /\ r.committed /\ r.pc = "idle"
  BY ObjectFacts DEF SyncDir, Objects
<1>2. obj'[o] = r /\ \A q \in Writers \ {o} : obj'[q] = obj[q]
  BY <1>1, OneObject
<1>3. Own(o) /\ obj[o].pc = "dirsync" /\ fds' = fds /\ count' = count
  BY DEF SyncDir, At, OwnInv
<1>4. obj[o].handle = Invalid /\ obj[o].ses # NoSession
  BY <1>3 DEF Own
<1>5. \A x \in Sessions : x # obj[o].ses => ses'[x] = ses[x]
  BY DEF SyncDir, TypeOK, Sessions
<1>6. \A q \in Writers : obj[q].ses \in 0 .. MaxSessions /\ obj'[q].ses = obj[q].ses
                         /\ obj'[q].handle = obj[q].handle
  BY <1>1, <1>2, ObjectFacts
<1>7. ASSUME NEW q \in Writers, q # o PROVE Own(q)'
  <2>1. Own(q) /\ obj'[q] = obj[q] /\ obj[q].ses # obj[o].ses
    BY <1>2, <1>4, <1>7 DEF OwnInv
  <2>2. obj[q].ses # NoSession => ses'[obj[q].ses] = ses[obj[q].ses]
    BY <1>5, <1>6, <2>1 DEF Sessions, NoSession
  <2> QED
    BY <1>3, <2>1, <2>2 DEF Own
<1>8. Own(o)'
  BY <1>1, <1>2, <1>3, <1>4 DEF Own
<1>9. \A s \in Sessions : s > count'.sessions => ses'[s].result = "none"
  <2>1. obj[o].ses <= count.sessions /\ obj[o].ses \in Int /\ count.sessions \in Int
    BY <1>3, ObjectFacts DEF Own, TypeOK, Counts
  <2>2. \A s \in Sessions : s > count.sessions => s # obj[o].ses
    BY <2>1 DEF Sessions
  <2> QED
    BY <1>3, <1>5, <2>2 DEF OwnInv
<1> QED
  BY <1>3, <1>6, <1>7, <1>8, <1>9 DEF OwnInv

\* Objects that go, by destruction or with their process, take their descriptors along.
LEMMA Gone ==
  ASSUME TypeOK, TypeOK', OwnInv, NEW dead \in SUBSET Writers,
         obj' = [q \in Writers |-> IF q \in dead THEN NoObject ELSE obj[q]],
         fds' = fds \ {obj[q].handle : q \in dead},
         ses' = ses, count'.sessions = count.sessions
  PROVE  OwnInv'
<1>1. NoObject.pc = "none" /\ NoObject.ses = NoSession /\ NoObject.handle = Invalid
      /\ ~ NoObject.committed
  BY DEF NoObject
<1>2. ASSUME NEW q \in dead PROVE Own(q)' /\ obj'[q].ses = NoSession
  <2>1. obj'[q] = NoObject
    BY <1>2
  <2>2. NoSession <= count.sessions
    BY DEF NoSession, TypeOK, Counts
  <2> QED
    BY <1>1, <2>1, <2>2 DEF Own
<1>3. ASSUME NEW q \in Writers \ dead PROVE Own(q)' /\ obj'[q] = obj[q]
  <2>1. Own(q) /\ obj'[q] = obj[q]
    BY <1>3 DEF OwnInv
  <2>2. ASSUME obj[q].handle # Invalid PROVE obj[q].handle \in fds'
    <3>1. obj[q].handle \in fds /\ obj[q].handle = obj[q].ses
      BY <2>1, <2>2 DEF Own
    <3>2. ASSUME NEW u \in dead PROVE obj[u].handle # obj[q].handle
      <4>1. obj[q].handle # NoSession
        BY <3>1 DEF TypeOK, Sessions, NoSession
      <4>2. u # q /\ u \in Writers
        BY <1>3, <3>2
      <4>3. obj[u].ses # obj[q].ses
        BY <3>1, <4>1, <4>2 DEF OwnInv
      <4> QED
        BY <2>2, <3>1, <4>2, <4>3 DEF OwnInv, Own
    <3> QED
      BY <3>1, <3>2
  <2> QED
    BY <2>1, <2>2 DEF Own
<1>4. \A x \in fds' : \E q \in Writers : obj'[q].handle = x
  <2> SUFFICES ASSUME NEW x \in fds' PROVE \E q \in Writers : obj'[q].handle = x
    OBVIOUS
  <2>1. PICK q \in Writers : obj[q].handle = x
    BY DEF OwnInv
  <2>2. q \notin dead
    BY <2>1
  <2> QED
    BY <1>3, <2>1, <2>2
<1>5. \A q \in Writers : Own(q)'
  BY <1>2, <1>3
<1>6. \A q, u \in Writers : q # u /\ obj'[q].ses = obj'[u].ses => obj'[q].ses = NoSession
  <2>1. \A q, u \in Writers : q # u /\ obj[q].ses = obj[u].ses => obj[q].ses = NoSession
    BY DEF OwnInv
  <2> QED
    BY <1>2, <1>3, <2>1
<1> QED
  BY <1>4, <1>5, <1>6 DEF OwnInv

\* The destructor closes the descriptor, if the object has one.
LEMMA DiscardCloses ==
  ASSUME TypeOK, OwnInv, NEW o \in Writers, Discard(o)
  PROVE  fds' = fds \ {obj[o].handle}
<1>1. CASE Uncommitted(obj[o])
  BY <1>1 DEF Discard, Close
<1>2. CASE ~ Uncommitted(obj[o])
  <2>1. obj[o].handle = Invalid /\ Invalid \notin fds
    BY <1>2 DEF Uncommitted, OwnInv, Own, TypeOK, Sessions, Invalid
  <2> QED
    BY <1>2, <2>1 DEF Discard
<1> QED
  BY <1>1, <1>2

\* Destruction keeps the ownership.
LEMMA DestroyOwn ==
  ASSUME TypeOK, TypeOK', OwnInv, NEW o \in Writers, Destroy(o)
  PROVE  OwnInv'
<1>1. fds' = fds \ {obj[q].handle : q \in {o}}
  BY DiscardCloses DEF Destroy
<1>2. obj' = [q \in Writers |-> IF q \in {o} THEN NoObject ELSE obj[q]]
  BY DEF Destroy, Become, TypeOK
<1> QED
  BY <1>1, <1>2, Gone DEF Destroy

\* So do a kill and a power failure.
LEMMA DieOwn ==
  ASSUME TypeOK, TypeOK', OwnInv, NEW ps, Die(ps)
  PROVE  OwnInv'
<1> DEFINE dead == {o \in Writers : Home[o] \in ps}
<1>1. dead \in SUBSET Writers
  OBVIOUS
<1>2. /\ obj' = [q \in Writers |-> IF q \in dead THEN NoObject ELSE obj[q]]
      /\ fds' = fds \ {obj[q].handle : q \in dead}
      /\ ses' = ses
  BY DEF Die
<1>3. count'.sessions = count.sessions
  BY DEF Die, TypeOK, Counts
<1> QED
  BY <1>1, <1>2, <1>3, Gone

\* A move hands over the session and the descriptor, and the source keeps neither.
LEMMA MoveOwn ==
  ASSUME TypeOK, TypeOK', OwnInv, NEW from \in Writers, NEW to \in Writers, from # to,
         obj[from].pc = "idle", MoveMembers(from, to), fds' = fds \ {obj[to].handle}
  PROVE  OwnInv'
<1> DEFINE m == MovedFrom(obj[from])
<1>1. /\ obj'[to] = obj[from] /\ obj'[from] = m
      /\ \A q \in Writers \ {from, to} : obj'[q] = obj[q]
      /\ ses' = ses /\ count' = count
  BY DEF MoveMembers, TypeOK
<1>2. m.ses = NoSession /\ m.handle = Invalid /\ m.committed /\ m.pc = "idle"
  BY ObjectFacts DEF MovedFrom, Objects
<1>3. \A q, u \in Writers : q # u /\ obj[q].ses = obj[u].ses => obj[q].ses = NoSession
  BY DEF OwnInv
<1>4. ASSUME NEW q \in Writers, q # to, obj[q].handle # Invalid
      PROVE  obj[q].handle \in fds' /\ obj[q].handle = obj[q].ses
  <2>1. Own(q) /\ Own(to)
    BY DEF OwnInv
  <2>2. obj[q].handle \in fds /\ obj[q].handle = obj[q].ses /\ obj[q].ses # NoSession
    BY <1>4, <2>1 DEF Own, TypeOK, Sessions, NoSession
  <2>3. obj[to].handle # obj[q].handle
    BY <1>3, <1>4, <2>1, <2>2 DEF Own
  <2> QED
    BY <2>2, <2>3
<1>5. Own(to)'
  <2>1. Own(from)
    BY DEF OwnInv
  <2> QED
    BY <1>1, <1>4, <2>1 DEF Own
<1>6. Own(from)'
  <2>1. NoSession <= count.sessions
    BY DEF NoSession, TypeOK, Counts
  <2> QED
    BY <1>1, <1>2, <2>1 DEF Own
<1>7. ASSUME NEW q \in Writers, q # from, q # to PROVE Own(q)'
  <2>1. Own(q) /\ obj'[q] = obj[q]
    BY <1>1, <1>7 DEF OwnInv
  <2> QED
    BY <1>1, <1>4, <1>7, <2>1 DEF Own
<1>8. \A x \in fds' : \E q \in Writers : obj'[q].handle = x
  <2> SUFFICES ASSUME NEW x \in fds' PROVE \E q \in Writers : obj'[q].handle = x
    OBVIOUS
  <2>1. PICK q \in Writers : obj[q].handle = x
    BY DEF OwnInv
  <2>2. q # to
    BY <2>1
  <2> QED
    BY <1>1, <2>1, <2>2
<1>9. \A q, u \in Writers : q # u /\ obj'[q].ses = obj'[u].ses => obj'[q].ses = NoSession
  <2> HIDE DEF m
  <2>1. ASSUME NEW q \in Writers, NEW u \in Writers, q # u, obj'[q].ses = obj'[u].ses
        PROVE  obj'[q].ses = NoSession
    <3>1. CASE q = from \/ u = from
      BY <1>1, <1>2, <2>1, <3>1
    <3>2. CASE q = to /\ u # from
      BY <1>1, <1>3, <2>1, <3>2
    <3>3. CASE u = to /\ q # from
      BY <1>1, <1>3, <2>1, <3>3
    <3>4. CASE q \notin {from, to} /\ u \notin {from, to}
      BY <1>1, <1>3, <2>1, <3>4
    <3> QED
      BY <3>1, <3>2, <3>3, <3>4
  <2> QED
    BY <2>1
<1> QED
  BY <1>1, <1>5, <1>6, <1>7, <1>8, <1>9 DEF OwnInv

\* Both moves of the class.
LEMMA MovesOwn ==
  ASSUME TypeOK, TypeOK', OwnInv, NEW from \in Writers, NEW to \in Writers,
         MoveConstruct(from, to) \/ MoveAssign(from, to)
  PROVE  OwnInv'
<1>1. CASE MoveConstruct(from, to)
  <2>1. from # to /\ obj[from].pc = "idle" /\ obj[to].pc = "none"
    BY <1>1 DEF MoveConstruct, At
  <2>2. obj[to].handle = Invalid
    BY <2>1 DEF OwnInv, Own, NoObject
  <2>3. fds' = fds \ {obj[to].handle}
    BY <1>1, <2>2 DEF MoveConstruct, TypeOK, Sessions, Invalid
  <2> QED
    BY <1>1, <2>1, <2>3, MoveOwn DEF MoveConstruct
<1>2. CASE MoveAssign(from, to)
  BY <1>2, DiscardCloses, MoveOwn DEF MoveAssign, At
<1> QED
  BY <1>1, <1>2

\* Steps that touch neither objects nor sessions.
LEMMA OwnSame ==
  ASSUME OwnInv, obj' = obj, fds' = fds, ses' = ses, count'.sessions = count.sessions
  PROVE  OwnInv'
BY DEF OwnInv, Own

\* At the start there is nothing to own.
LEMMA OwnInit ==
  ASSUME Init PROVE OwnInv
<1>1. /\ fds = {} /\ count.sessions = 0
      /\ \A o \in Writers : obj[o] = NoObject
      /\ \A s \in Sessions : ses[s].result = "none"
  <2>1. \A s \in 0 .. MaxSessions : ses[s].result = "none"
    BY DEF Init
  <2>2. \A s \in Sessions : s \in 0 .. MaxSessions
    BY DEF Sessions
  <2> QED
    BY <2>1, <2>2 DEF Init
<1>2. NoObject.pc = "none" /\ NoObject.ses = NoSession /\ NoObject.handle = Invalid
      /\ ~ NoObject.committed /\ NoSession <= 0
  BY DEF NoObject, NoSession
<1>3. \A o \in Writers : Own(o)
  BY <1>1, <1>2 DEF Own
<1> QED
  BY <1>1, <1>2, <1>3 DEF OwnInv

\* OwnInv is inductive.
LEMMA OwnStep ==
  ASSUME TypeOK, TypeOK', OwnInv, [Next]_vars
  PROVE  OwnInv'
<1>1. CASE UNCHANGED vars
  BY <1>1, OwnSame DEF vars, writerVars
<1>2. ASSUME NEW o \in Writers, WriterStep(o) PROVE OwnInv'
  <2>1. CASE CommitStep(o)
    BY <2>1, SyncTempOwn, CommitMovesOn, CommitThrows, CopyOwn, SyncDirOwn DEF CommitStep
  <2>2. CASE ConstructFails(o)
    BY <2>2, OwnSame DEF ConstructFails
  <2>3. ASSUME NEW k \in 1 .. MaxLen, BeginWrite(o, k) \/ WriteSome(o, k) PROVE OwnInv'
    BY <2>3, WriteOwn
  <2>4. CASE WriteFails(o)
    BY <2>4, WriteFailsOwn
  <2>5. ASSUME NEW to \in Writers, MoveConstruct(o, to) \/ MoveAssign(o, to) PROVE OwnInv'
    BY <2>5, MovesOwn
  <2>6. ASSUME NEW enabled \in BOOLEAN, SetFallback(o, enabled) PROVE OwnInv'
    BY <2>6, SetFallbackOwn
  <2> QED
    BY <1>2, <2>1, <2>2, <2>3, <2>4, <2>5, <2>6, ConstructOwn, CommitMovesOn, DestroyOwn
       DEF WriterStep
<1>3. CASE \E p \in Processes : Kill(p)
  BY <1>3, DieOwn DEF Kill
<1>4. CASE Crash
  BY <1>4, DieOwn DEF Crash
<1>5. CASE \E mode \in {"user", "ro"} : UserChmod(mode)
  <2>1. count'.sessions = count.sessions
    BY <1>5 DEF UserChmod, TypeOK, Counts
  <2> QED
    BY <1>5, <2>1, OwnSame DEF UserChmod
<1> QED
  BY <1>1, <1>2, <1>3, <1>4, <1>5 DEF Next

(* Whatever fails, moves, dies or is copied, and in every order: an open   *)
(* descriptor has exactly one object that will close it, and no object     *)
(* holds a descriptor that is closed.                                      *)
THEOREM HandlesAlwaysOwned == Spec => []HandlesOwned
<1>1. Init => TypeOK /\ OwnInv
  BY TypeInit, OwnInit
<1>2. TypeOK /\ OwnInv /\ [Next]_vars => (TypeOK /\ OwnInv)'
  BY TypeStep, OwnStep
<1>3. TypeOK /\ OwnInv => HandlesOwned
  <2> SUFFICES ASSUME TypeOK, OwnInv PROVE HandlesOwned
    OBVIOUS
  <2>1. \A o \in Writers : obj[o].handle # Invalid =>
          obj[o].handle = obj[o].ses /\ obj[o].handle \in fds /\ obj[o].ses # NoSession
    BY DEF OwnInv, Own, TypeOK, Sessions, NoSession
  <2>2. \A o, q \in Writers : obj[o].handle = obj[q].handle /\ o # q => obj[o].handle = Invalid
    BY <2>1 DEF OwnInv
  <2> QED
    BY <2>1, <2>2 DEF HandlesOwned, OwnInv
<1> QED
  BY <1>1, <1>2, <1>3, PTL DEF Spec

-----------------------------------------------------------------------------
(* Durable.                                                                *)

\* In the directory d the target is a file, of session s or of one that
\* replaced the target later.
NoOlder(d, s) ==
  /\ d[Target] # NoFile
  /\ \A c \in dataDisk[d[Target]] : ses[c.by].rank >= ses[s].rank

\* Ranks number the replacements.
RankInv == \A s \in Sessions : ses[s].rank = NotPut \/ ses[s].rank \in 1 .. count.puts

\* Nothing that was acknowledged can be undone.
AckInv == \A s \in Sessions : ses[s].result = "ok" =>
  /\ ses[s].rank # NotPut
  /\ \A d \in dirDisk : NoOlder(d, s)

\* On its way to the flush of the directory, a commit has put its content
\* there or been overtaken; on Windows the rename has flushed it already.
SyncInv == \A o \in Writers : obj[o].pc = "dirsync" =>
  /\ ses[obj[o].ses].rank # NotPut
  /\ NoOlder(dir, obj[o].ses)
  /\ ~ Posix => \A d \in dirDisk : NoOlder(d, obj[o].ses)

\* Of every file the target may be linked to after a crash all is on the disk.
FlushedInv == \A d \in dirDisk : d[Target] # NoFile => dataDisk[d[Target]] = {data[d[Target]]}

DurInv == RankInv /\ AckInv /\ SyncInv /\ FlushedInv

\* The file is the target in some directory that a crash may leave.
Linked(j) == \E d \in dirDisk : d[Target] = j

\* The steps that lose nothing of the target: the links a crash may leave
\* it are among those from before, their files are the same, and nobody's
\* commit() makes progress beyond the rename.
Narrows ==
  /\ \A d \in dirDisk' : \E e \in dirDisk : d[Target] = e[Target]
  /\ \A j \in Inodes : Linked(j) => data'[j] = data[j] /\ dataDisk'[j] = dataDisk[j]
  /\ \A s \in 0 .. MaxSessions : ses'[s].rank = ses[s].rank
  /\ count'.puts = count.puts
  /\ \A s \in Sessions : ses'[s].result = "ok" => ses[s].result = "ok"
  /\ \A q \in Writers : obj'[q].pc = "dirsync" =>
       obj[q].pc = "dirsync" /\ obj'[q].ses = obj[q].ses /\ dir'[Target] = dir[Target]

\* What the target may be after a crash is whole and has a writer.
LEMMA WriterKnown ==
  ASSUME TypeOK, Rest, NEW d \in dirDisk, d[Target] # NoFile
  PROVE  /\ d[Target] \in Inodes /\ Linked(d[Target])
         /\ \A c \in dataDisk[d[Target]] : c.by \in 0 .. MaxSessions /\ ses[c.by].rank # NotPut
<1>1. d[Target] \in Inodes
  BY DEF TypeOK, FSTypeOK, Names
<1> QED
  BY <1>1 DEF Rest, WholeInv, Whole, Linked, Inodes

\* The versions that a narrowing step leaves are no older than before.
LEMMA OlderKept ==
  ASSUME TypeOK, Rest, Narrows, NEW d, NEW e \in dirDisk, d[Target] = e[Target],
         NEW s \in 0 .. MaxSessions, NoOlder(e, s)
  PROVE  NoOlder(d, s)'
<1>1. e[Target] \in Inodes /\ Linked(e[Target])
  BY WriterKnown DEF NoOlder
<1>2. dataDisk'[e[Target]] = dataDisk[e[Target]]
  BY <1>1 DEF Narrows
<1>3. \A c \in dataDisk[e[Target]] : c.by \in 0 .. MaxSessions
  BY WriterKnown DEF NoOlder
<1>4. \A c \in dataDisk[e[Target]] : ses'[c.by].rank = ses[c.by].rank
  BY <1>3 DEF Narrows
<1>5. ses'[s].rank = ses[s].rank
  BY DEF Narrows
<1> QED
  BY <1>2, <1>4, <1>5 DEF NoOlder

\* A narrowing step preserves DurInv.
LEMMA NarrowsKeeps ==
  ASSUME TypeOK, TypeOK', Rest, DurInv, Narrows
  PROVE  DurInv'
<1>1. RankInv'
  BY DEF DurInv, RankInv, Narrows, Sessions
<1>2. AckInv'
  <2> SUFFICES ASSUME NEW s \in Sessions, ses'[s].result = "ok"
               PROVE  ses'[s].rank # NotPut /\ \A d \in dirDisk' : NoOlder(d, s)'
    BY DEF AckInv
  <2>1. s \in 0 .. MaxSessions
    BY DEF Sessions
  <2>2. ses[s].result = "ok"
    BY DEF Narrows
  <2>3. ses[s].rank # NotPut /\ \A e \in dirDisk : NoOlder(e, s)
    BY <2>2 DEF DurInv, AckInv
  <2>4. ASSUME NEW d \in dirDisk' PROVE NoOlder(d, s)'
    <3>1. PICK e \in dirDisk : d[Target] = e[Target]
      BY DEF Narrows
    <3> QED
      BY <2>1, <2>3, <3>1, OlderKept
  <2>5. ses'[s].rank # NotPut
    BY <2>1, <2>3 DEF Narrows
  <2> QED
    BY <2>4, <2>5
<1>3. SyncInv'
  <2> SUFFICES ASSUME NEW o \in Writers, obj'[o].pc = "dirsync"
               PROVE  /\ ses'[obj'[o].ses].rank # NotPut
                      /\ NoOlder(dir, obj[o].ses)'
                      /\ ~ Posix => \A d \in dirDisk' : NoOlder(d, obj[o].ses)'
    BY DEF SyncInv
  <2>1. obj[o].ses \in 0 .. MaxSessions /\ dir \in dirDisk
    BY ObjectFacts DEF Rest, DirInv
  <2>2. PICK s \in 0 .. MaxSessions : s = obj[o].ses
    BY <2>1
  <2>3. PICK now : now = dir'
    OBVIOUS
  <2>4. obj[o].pc = "dirsync" /\ obj'[o].ses = s /\ now[Target] = dir[Target]
    BY <2>2, <2>3 DEF Narrows
  <2>5. /\ ses[s].rank # NotPut /\ NoOlder(dir, s)
        /\ ~ Posix => \A d \in dirDisk : NoOlder(d, s)
    BY <2>2, <2>4 DEF DurInv, SyncInv, NoOlder
  <2>6. ses'[s].rank # NotPut
    BY <2>5 DEF Narrows
  <2>7. NoOlder(now, s)'
    BY <2>1, <2>4, <2>5, OlderKept
  <2>8. ASSUME ~ Posix, NEW d \in dirDisk' PROVE NoOlder(d, s)'
    <3>1. PICK e \in dirDisk : d[Target] = e[Target]
      BY DEF Narrows
    <3> QED
      BY <2>5, <2>8, <3>1, OlderKept
  <2> QED
    BY <2>3, <2>4, <2>6, <2>7, <2>8 DEF NoOlder
<1>4. FlushedInv'
  <2> SUFFICES ASSUME NEW d \in dirDisk', d[Target] # NoFile
               PROVE  dataDisk'[d[Target]] = {data'[d[Target]]}
    BY DEF FlushedInv
  <2>1. PICK e \in dirDisk : d[Target] = e[Target]
    BY DEF Narrows
  <2>2. e[Target] \in Inodes /\ Linked(e[Target])
    BY <2>1, WriterKnown
  <2>3. dataDisk'[e[Target]] = dataDisk[e[Target]] /\ data'[e[Target]] = data[e[Target]]
    BY <2>2 DEF Narrows
  <2>4. dataDisk[e[Target]] = {data[e[Target]]}
    BY <2>1 DEF DurInv, FlushedInv
  <2> QED
    BY <2>1, <2>3, <2>4
<1> QED
  BY <1>1, <1>2, <1>3, <1>4 DEF DurInv

\* The steps that a reader, a crash and the callers of commit() do not notice.
Still ==
  /\ Narrows
  /\ dir'[Target] = dir[Target]
  /\ \A e \in dirDisk : \E d \in dirDisk' : d[Target] = e[Target]
  /\ \A s \in Sessions : ses[s].result = "ok" => ses'[s].result = "ok"

\* A step of one object that ends outside the flush of the directory.
LEMMA NotSyncing ==
  ASSUME TypeOK, NEW o \in Writers, NEW r, Become(o, r), r.pc # "dirsync"
  PROVE  \A q \in Writers : obj'[q].pc = "dirsync" =>
           obj[q].pc = "dirsync" /\ obj'[q].ses = obj[q].ses
BY OneObject

\* Steps that leave the directory and the files' bytes alone.
LEMMA SameFilesStill ==
  ASSUME dir' = dir, dirDisk' = dirDisk, data' = data, dataDisk' = dataDisk,
         count'.puts = count.puts,
         \A s \in 0 .. MaxSessions : ses'[s].rank = ses[s].rank,
         \A s \in Sessions : ses'[s].result = "ok" <=> ses[s].result = "ok",
         \A q \in Writers : obj'[q].pc = "dirsync" =>
           obj[q].pc = "dirsync" /\ obj'[q].ses = obj[q].ses
  PROVE  Still
BY DEF Still, Narrows

\* The exceptions of commit(): the session was not acknowledged and is not now.
LEMMA ThrowStill ==
  ASSUME TypeOK, OwnInv, NEW o \in Writers, NEW leaf \in CommitErrors, Throw(o, leaf),
         obj[o].pc \notin {"none", "idle"}, count' = count,
         dir' = dir, dirDisk' = dirDisk, data' = data, dataDisk' = dataDisk
  PROVE  Still
<1>1. obj[o].ses \in Sessions /\ ses[obj[o].ses].result # "ok"
  BY ObjectFacts DEF OwnInv, Own, Sessions, NoSession
<1>2. \A s \in 0 .. MaxSessions : ses'[s].rank = ses[s].rank
  BY ThrowKeepsPasts DEF SamePasts
<1>3. \A s \in Sessions : ses'[s].result = "ok" <=> ses[s].result = "ok"
  BY <1>1 DEF Throw, TypeOK, Sessions, Pasts, CommitErrors
<1>4. [obj[o] EXCEPT !.pc = "idle", !.st = NewFile].pc # "dirsync"
  BY ObjectFacts DEF Objects
<1>5. \A q \in Writers : obj'[q].pc = "dirsync" =>
        obj[q].pc = "dirsync" /\ obj'[q].ses = obj[q].ses
  BY <1>4, NotSyncing DEF Throw, Goto
<1> QED
  BY <1>2, <1>3, <1>5, SameFilesStill

\* Every exception of commit().
LEMMA CommitThrowsStill ==
  ASSUME TypeOK, OwnInv, NEW o \in Writers,
         \/ SyncTempFails(o) \/ CopyAttributesFails(o) \/ RenameFails(o)
         \/ RenameCrossesFilesystems(o) \/ SyncDirFails(o)
  PROVE  Still
<1>1. CASE SyncTempFails(o)
  BY <1>1, ThrowStill DEF SyncTempFails, At, CommitErrors, fsVars, FsyncError
<1>2. CASE CopyAttributesFails(o)
  BY <1>2, ThrowStill DEF CopyAttributesFails, At, CommitErrors, fsVars, SetAttributes
<1>3. CASE RenameFails(o)
  BY <1>3, ThrowStill DEF RenameFails, At, CommitErrors, fsVars
<1>4. CASE RenameCrossesFilesystems(o)
  BY <1>4, ThrowStill DEF RenameCrossesFilesystems, At, CommitErrors, fsVars
<1>5. CASE SyncDirFails(o)
  BY <1>5, ThrowStill DEF SyncDirFails, At, CommitErrors, fsVars
<1> QED
  BY <1>1, <1>2, <1>3, <1>4, <1>5

\* The other steps of one object that do not touch the files' bytes.
LEMMA QuietStill ==
  ASSUME TypeOK, OwnInv, NEW o \in Writers,
         \/ WriteFails(o) \/ BeginCommit(o) \/ CopyAttributes(o) \/ ConstructFails(o)
         \/ \E k \in 1 .. MaxLen : BeginWrite(o, k)
         \/ \E enabled \in BOOLEAN : SetFallback(o, enabled)
  PROVE  Still
<1>1. obj[o] \in Objects
  BY ObjectFacts
<1>2. CASE WriteFails(o)
  <2>1. [obj[o] EXCEPT !.pc = "idle", !.left = 0].pc # "dirsync"
    BY <1>1 DEF Objects
  <2> QED
    BY <1>2, <2>1, NotSyncing, SameFilesStill DEF WriteFails, fsVars
<1>3. CASE BeginCommit(o)
  <2>1. [obj[o] EXCEPT !.pc = "fsync", !.st = NewFile].pc # "dirsync"
    BY <1>1 DEF Objects
  <2> QED
    BY <1>3, <2>1, NotSyncing, SameFilesStill DEF BeginCommit, Goto, fsVars
<1>4. CASE CopyAttributes(o)
  <2>1. PICK q \in Objects : Become(o, q) /\ q.pc # "dirsync"
    BY <1>4, CopyAttributesSteps
  <2>2. dir' = dir /\ dirDisk' = dirDisk /\ data' = data /\ dataDisk' = dataDisk
        /\ ses' = ses /\ count' = count
    BY <1>4, CopyAttributesSteps DEF SetAttributes, fsVars
  <2> QED
    BY <2>1, <2>2, NotSyncing, SameFilesStill
<1>5. CASE ConstructFails(o)
  BY <1>5, SameFilesStill DEF ConstructFails, fsVars
<1>6. ASSUME NEW k \in 1 .. MaxLen, BeginWrite(o, k) PROVE Still
  <2>1. [obj[o] EXCEPT !.pc = "write", !.left = k].pc # "dirsync"
    BY <1>1 DEF Objects
  <2>2. \A s \in 0 .. MaxSessions : ses'[s].rank = ses[s].rank /\ ses'[s].result = ses[s].result
    BY <1>6 DEF BeginWrite, TypeOK, Pasts
  <2>3. \A s \in Sessions : ses'[s].result = "ok" <=> ses[s].result = "ok"
    BY <2>2 DEF Sessions
  <2> QED
    BY <1>6, <2>1, <2>2, <2>3, NotSyncing, SameFilesStill DEF BeginWrite, fsVars
<1>7. ASSUME NEW enabled \in BOOLEAN, SetFallback(o, enabled) PROVE Still
  <2>1. [obj[o] EXCEPT !.fallback = enabled].pc # "dirsync"
    BY <1>1, <1>7 DEF Objects, SetFallback, At
  <2> QED
    BY <1>7, <2>1, NotSyncing, SameFilesStill DEF SetFallback, fsVars
<1> QED
  BY <1>2, <1>3, <1>4, <1>5, <1>6, <1>7

\* The fallback's copy could not even open the target.
LEMMA CopyFailsStill ==
  ASSUME TypeOK, OwnInv, NEW o \in Writers, CopyFails(o)
  PROVE  Still
<1>1. obj[o].pc \in {"replace", "copy"}
  BY DEF CopyFails, At
<1>2. obj[o].ses \in Sessions /\ ses[obj[o].ses].result # "ok"
  BY <1>1, ObjectFacts DEF OwnInv, Own, Sessions, NoSession
<1>3. \A s \in 0 .. MaxSessions : ses'[s].rank = ses[s].rank
  BY DEF CopyFails, TypeOK, Pasts
<1>4. \A s \in Sessions : ses'[s].result = "ok" <=> ses[s].result = "ok"
  BY <1>2 DEF CopyFails, TypeOK, Sessions, Pasts
<1>5. [obj[o] EXCEPT !.pc = "idle", !.into = NoFile].pc # "dirsync"
  BY ObjectFacts DEF Objects
<1> QED
  BY <1>3, <1>4, <1>5, NotSyncing, SameFilesStill DEF CopyFails, fsVars

\* A temp may be written and flushed unnoticed.
LEMMA TempStill ==
  ASSUME TypeOK, Rest, NEW o \in Writers,
         SyncTemp(o) \/ \E k \in 1 .. MaxLen : WriteSome(o, k)
  PROVE  Still
<1>1. obj[o] \in Objects /\ Ino(o) \in Inodes
  BY ObjectFacts
<1>2. Holds(o)
  BY DEF SyncTemp, WriteSome, At, Rest, PhaseInv, Phase, Holds
<1>3. ~ Linked(Ino(o))
  BY <1>2, TargetApart DEF Linked
<1>4. /\ dir' = dir /\ dirDisk' = dirDisk /\ ses' = ses /\ count' = count
      /\ \A j \in Inodes \ {Ino(o)} : data'[j] = data[j] /\ dataDisk'[j] = dataDisk[j]
  BY <1>1 DEF SyncTemp, WriteSome, Fsync, SetContents, SetData, TypeOK, FSTypeOK
<1>5. \A q \in Writers : obj'[q].pc = "dirsync" =>
        obj[q].pc = "dirsync" /\ obj'[q].ses = obj[q].ses
  <2>1. CASE SyncTemp(o)
    <3>1. [obj[o] EXCEPT !.pc = "attributes", !.handle = Invalid].pc # "dirsync"
      BY <1>1 DEF Objects
    <3> QED
      BY <2>1, <3>1, NotSyncing DEF SyncTemp
  <2>2. ASSUME NEW k \in 1 .. MaxLen, WriteSome(o, k)
        PROVE  \A q \in Writers : obj'[q].pc = "dirsync" =>
                 obj[q].pc = "dirsync" /\ obj'[q].ses = obj[q].ses
    <3>1. [obj[o] EXCEPT !.left = @ - k, !.pc = IF k = obj[o].left THEN "idle" ELSE @].pc # "dirsync"
      BY <1>1, <2>2 DEF Objects, WriteSome, At
    <3> QED
      BY <2>2, <3>1, NotSyncing DEF WriteSome
  <2> QED
    BY <2>1, <2>2
<1> QED
  BY <1>1, <1>3, <1>4, <1>5 DEF Still, Narrows

\* So may a temp be opened, even one that was left behind by a dead process.
LEMMA ConstructStill ==
  ASSUME TypeOK, Rest, NEW o \in Writers, Construct(o)
  PROVE  Still
<1> DEFINE s == count.sessions + 1
           name == TempName(Home[o])
           i == IF Exists(name) THEN dir[name] ELSE s
<1>1. /\ count.sessions \in Nat /\ s \in Inodes /\ s \in 0 .. MaxSessions
      /\ name \in Temps /\ name \in Names /\ Target \in Names /\ name # Target
      /\ OpenTrunc(name, s, s)
  BY TargetAssumption DEF Construct, OpenTemp, TypeOK, Counts, Sessions, Inodes, Names
<1>2. i \in Inodes
  BY <1>1 DEF Exists, TypeOK, FSTypeOK
<1>3. /\ \A j \in Inodes \ {i} : data'[j] = data[j] /\ dataDisk'[j] = dataDisk[j]
      /\ dir' = (IF Exists(name) THEN dir ELSE [dir EXCEPT ![name] = s])
      /\ dirDisk' = dirDisk \cup {dir'}
  BY <1>1 DEF OpenTrunc, SetDir, SetData, TypeOK, FSTypeOK
<1>4. dir'[Target] = dir[Target]
  BY <1>1, <1>3 DEF TypeOK, FSTypeOK
<1>5. ~ Linked(i)
  <2>1. \A d \in dirDisk : d[Target] \in Int /\ d[Target] <= count.sessions
    BY <1>1 DEF Rest, DirInv, TypeOK, FSTypeOK, Inodes, NoFile
  <2>2. \A d \in dirDisk : d[Target] # s
    BY <1>1, <2>1
  <2>3. \A d \in dirDisk : d[Target] # i
    BY <1>1, <2>2 DEF Rest, DirInv, Exists
  <2> QED
    BY <2>3 DEF Linked
<1>6. \A x \in 0 .. MaxSessions : ses'[x].rank = ses[x].rank /\ ses'[x].result = ses[x].result
  BY <1>1 DEF Construct, TypeOK, Pasts
<1>7. \A x \in Sessions : ses'[x].result = ses[x].result
  BY <1>6 DEF Sessions
<1>8. count'.puts = count.puts
  BY DEF Construct, TypeOK, Counts
<1>9. \A q \in Writers : obj'[q].pc = "dirsync" =>
        obj[q].pc = "dirsync" /\ obj'[q].ses = obj[q].ses
  <2>1. [NoObject EXCEPT !.pc = "idle", !.ses = s, !.handle = s].pc # "dirsync"
    BY DEF NoObject
  <2> QED
    BY <2>1, NotSyncing DEF Construct
<1>10. (\A d \in dirDisk' : \E e \in dirDisk : d[Target] = e[Target])
       /\ (\A e \in dirDisk : \E d \in dirDisk' : d[Target] = e[Target])
  BY <1>3, <1>4 DEF Rest, DirInv
<1>11. \A j \in Inodes : Linked(j) => data'[j] = data[j] /\ dataDisk'[j] = dataDisk[j]
  BY <1>3, <1>5
<1> QED
  BY <1>4, <1>6, <1>7, <1>8, <1>9, <1>10, <1>11 DEF Still, Narrows

\* The destructor removes a temp, or nothing.
LEMMA DiscardStill ==
  ASSUME TypeOK, Rest, NEW o \in Writers, Discard(o), ses' = ses, count' = count,
         \A q \in Writers : obj'[q].pc = "dirsync" =>
           obj[q].pc = "dirsync" /\ obj'[q].ses = obj[q].ses
  PROVE  Still
<1>1. CASE UNCHANGED fsVars
  BY <1>1, SameFilesStill DEF fsVars
<1>2. CASE Uncommitted(obj[o]) /\ Unlink(Temp(o))
  <2>1. Temp(o) \in Temps /\ Temp(o) \in Names /\ Target \in Names /\ Temp(o) # Target
    BY <1>2, TargetAssumption DEF Uncommitted, Holds, Rest, TempInv, KnowsTemp, Names
  <2>2. /\ dir'[Target] = dir[Target] /\ dirDisk' = dirDisk \cup {dir'}
        /\ data' = data /\ dataDisk' = dataDisk
    BY <1>2, <2>1 DEF Unlink, SetDir, TypeOK, FSTypeOK
  <2>3. (\A d \in dirDisk' : \E e \in dirDisk : d[Target] = e[Target])
        /\ (\A e \in dirDisk : \E d \in dirDisk' : d[Target] = e[Target])
    BY <2>2 DEF Rest, DirInv
  <2> QED
    BY <2>2, <2>3 DEF Still, Narrows
<1> QED
  BY <1>1, <1>2 DEF Discard, RemoveQuietly

\* Destruction and moves.
LEMMA LifeStill ==
  ASSUME TypeOK, Rest, NEW o \in Writers,
         Destroy(o) \/ \E to \in Writers : MoveConstruct(o, to) \/ MoveAssign(o, to)
  PROVE  Still
<1>1. CASE Destroy(o)
  <2>1. NoObject.pc # "dirsync"
    BY DEF NoObject
  <2> QED
    BY <1>1, <2>1, NotSyncing, DiscardStill DEF Destroy
<1>2. ASSUME NEW to \in Writers, MoveConstruct(o, to) \/ MoveAssign(o, to) PROVE Still
  <2>1. MovedFrom(obj[o]).pc = "idle" /\ obj[o].pc = "idle"
    BY <1>2, ObjectFacts DEF MoveConstruct, MoveAssign, At, MovedFrom, Objects
  <2>2. ses' = ses /\ count' = count
        /\ obj' = [obj EXCEPT ![to] = obj[o], ![o] = MovedFrom(obj[o])]
    BY <1>2 DEF MoveConstruct, MoveAssign, MoveMembers
  <2>3. \A q \in Writers : obj'[q].pc = "dirsync" =>
          obj[q].pc = "dirsync" /\ obj'[q].ses = obj[q].ses
    BY <2>1, <2>2 DEF TypeOK
  <2> QED
    BY <1>2, <2>2, <2>3, DiscardStill, SameFilesStill DEF MoveConstruct, MoveAssign, fsVars
<1> QED
  BY <1>1, <1>2

\* A kill, and a change of the target's mode.
LEMMA OutsideStill ==
  ASSUME TypeOK, \/ \E p \in Processes : Kill(p)
                 \/ \E mode \in {"user", "ro"} : UserChmod(mode)
  PROVE  Still
<1>1. ASSUME NEW p \in Processes, Kill(p) PROVE Still
  <2>1. \A q \in Writers : obj'[q].pc = "dirsync" =>
          obj[q].pc = "dirsync" /\ obj'[q].ses = obj[q].ses
    BY <1>1 DEF Kill, Die, NoObject
  <2>2. count'.puts = count.puts /\ ses' = ses
    BY <1>1 DEF Kill, Die, TypeOK, Counts
  <2> QED
    BY <1>1, <2>1, <2>2, SameFilesStill DEF Kill, fsVars
<1>2. ASSUME NEW mode \in {"user", "ro"}, UserChmod(mode) PROVE Still
  <2>1. count'.puts = count.puts
    BY <1>2 DEF UserChmod, TypeOK, Counts
  <2> QED
    BY <1>2, <2>1, SameFilesStill DEF UserChmod, SetAttributes
<1> QED
  BY <1>1, <1>2

\* A power failure picks what the target was before: all of it was on the disk.
LEMMA CrashNarrows ==
  ASSUME TypeOK, TypeOK', Rest, DurInv, Crash
  PROVE  Narrows /\ dir' \in dirDisk /\ dirDisk' = {dir'}
<1>1. /\ dir' \in dirDisk /\ dirDisk' = {dir'} /\ ses' = ses /\ count'.puts = count.puts
      /\ \A q \in Writers : obj'[q] = NoObject
  BY WritersAssumption DEF Crash, FSCrash, Die, TypeOK, Counts
<1>2. \A q \in Writers : obj'[q].pc # "dirsync"
  BY <1>1 DEF NoObject
<1>3. data' = data
  <2>1. CASE dir'[Target] = NoFile
    BY <2>1 DEF Crash, FSCrash
  <2>2. CASE dir'[Target] # NoFile
    <3>1. dir'[Target] \in Inodes
      BY <1>1, <2>2, WriterKnown
    <3>2. dataDisk[dir'[Target]] = {data[dir'[Target]]}
      BY <1>1, <2>2 DEF DurInv, FlushedInv
    <3>3. PICK c \in dataDisk[dir'[Target]] : data' = [data EXCEPT ![dir'[Target]] = c]
      BY <2>2 DEF Crash, FSCrash
    <3> QED
      BY <3>1, <3>2, <3>3 DEF TypeOK, FSTypeOK
  <2> QED
    BY <2>1, <2>2
<1>4. ASSUME NEW j \in Inodes, Linked(j) PROVE data'[j] = data[j] /\ dataDisk'[j] = dataDisk[j]
  <2>1. PICK d \in dirDisk : d[Target] = j
    BY <1>4 DEF Linked
  <2>2. dataDisk[j] = {data[j]}
    BY <1>4, <2>1 DEF DurInv, FlushedInv, Inodes, NoFile
  <2>3. dataDisk'[j] = {data'[j]}
    BY <1>4 DEF Crash, FSCrash
  <2> QED
    BY <1>3, <2>2, <2>3
<1> QED
  BY <1>1, <1>2, <1>4 DEF Narrows

\* What the rename does to the target and to the numbering.
LEMMA RenameFacts ==
  ASSUME TypeOK, TypeOK', Rest, OwnInv, DurInv, NEW o \in Writers, Rename(o)
  PROVE  /\ obj[o].ses \in Sessions /\ ses[obj[o].ses].result # "ok"
         /\ ses[obj[o].ses].rank = NotPut
         /\ count.puts \in Nat /\ count'.puts = count.puts + 1
         /\ ses'[obj[o].ses].rank = count.puts + 1
         /\ \A x \in 0 .. MaxSessions : x # obj[o].ses => ses'[x].rank = ses[x].rank
         /\ \A x \in Sessions : ses'[x].result = ses[x].result
         /\ data' = data /\ dataDisk' = dataDisk
         /\ dir'[Target] = Ino(o) /\ Ino(o) \in Inodes
         /\ data[Ino(o)].by = obj[o].ses /\ dataDisk[Ino(o)] = {data[Ino(o)]}
         /\ dirDisk' = IF Posix THEN dirDisk \cup {dir'} ELSE {dir'}
         /\ obj'[o].pc = "dirsync" /\ obj'[o].ses = obj[o].ses
         /\ \A q \in Writers \ {o} : obj'[q] = obj[q]
<1>1. obj[o].pc = "replace" /\ Phase(o) /\ Holds(o) /\ KnowsTemp(o)
  BY DEF Rename, At, Rest, PhaseInv, TempInv, Holds
<1>2. obj[o].ses \in Sessions /\ ses[obj[o].ses].result # "ok"
  BY <1>1 DEF KnowsTemp, OwnInv, Own, Sessions, NoSession
<1>3. count.puts \in Nat /\ count'.puts = count.puts + 1
  BY DEF Rename, Put, TypeOK, Counts
<1>4. obj[o].ses \in 0 .. MaxSessions /\ Ino(o) \in Inodes
  BY ObjectFacts
<1>5. /\ ses'[obj[o].ses].rank = count.puts + 1
      /\ \A x \in 0 .. MaxSessions : x # obj[o].ses => ses'[x].rank = ses[x].rank
      /\ \A x \in 0 .. MaxSessions : ses'[x].result = ses[x].result
  BY <1>4 DEF Rename, Put, TypeOK, Pasts
<1>6. \A x \in Sessions : ses'[x].result = ses[x].result
  BY <1>5 DEF Sessions
<1>7. Temp(o) \in Temps /\ Temp(o) \in Names /\ Target \in Names /\ Temp(o) # Target
  BY <1>1, TargetAssumption DEF KnowsTemp, Names
<1>8. /\ data' = data /\ dataDisk' = dataDisk /\ dir'[Target] = Ino(o)
      /\ dirDisk' = IF Posix THEN dirDisk \cup {dir'} ELSE {dir'}
  BY <1>1, <1>7, WritersAssumption DEF Rename, RenameToTarget, KnowsTemp, TypeOK, FSTypeOK
<1>9. data[Ino(o)].by = obj[o].ses /\ dataDisk[Ino(o)] = {data[Ino(o)]}
      /\ ses[obj[o].ses].rank = NotPut
  BY <1>1 DEF KnowsTemp, Phase
<1>10. /\ obj'[o].pc = "dirsync" /\ obj'[o].ses = obj[o].ses
       /\ \A q \in Writers \ {o} : obj'[q] = obj[q]
  <2> DEFINE r == [obj[o] EXCEPT !.pc = "dirsync", !.st = NewFile]
  <2>1. r.pc = "dirsync" /\ r.ses = obj[o].ses
    BY ObjectFacts DEF Objects
  <2>2. Become(o, r)
    BY DEF Rename, Goto
  <2> HIDE DEF r
  <2> QED
    BY <2>1, <2>2, OneObject
<1> QED
  BY <1>2, <1>3, <1>4, <1>5, <1>6, <1>8, <1>9, <1>10

\* The rename puts the newest version into the directory.
LEMMA RenameDur ==
  ASSUME TypeOK, TypeOK', Rest, OwnInv, DurInv, NEW o \in Writers, Rename(o)
  PROVE  DurInv'
<1> DEFINE n == count.puts + 1
<1>0. PICK s \in Sessions : s = obj[o].ses
  BY RenameFacts
<1>1. /\ ses[s].result # "ok" /\ ses[s].rank = NotPut /\ s \in 0 .. MaxSessions
      /\ count.puts \in Nat /\ count'.puts = n /\ ses'[s].rank = n
      /\ \A x \in 0 .. MaxSessions : x # s => ses'[x].rank = ses[x].rank
      /\ \A x \in Sessions : ses'[x].result = ses[x].result
      /\ dataDisk' = dataDisk /\ data' = data
  BY <1>0, RenameFacts DEF Sessions
<1>2. /\ dir'[Target] = Ino(o) /\ Ino(o) \in Inodes /\ Ino(o) # NoFile
      /\ data[Ino(o)].by = s /\ dataDisk[Ino(o)] = {data[Ino(o)]}
      /\ dirDisk' = IF Posix THEN dirDisk \cup {dir'} ELSE {dir'}
  BY <1>0, RenameFacts DEF Inodes, NoFile
<1>3. \A x \in Sessions : ses[x].rank = NotPut \/ ses[x].rank \in 1 .. count.puts
  BY DEF DurInv, RankInv
<1>4. \A x \in Sessions : ses'[x].rank = NotPut \/ ses'[x].rank \in 1 .. n
  <2>1. n \in 1 .. n /\ \A k \in 1 .. count.puts : k \in 1 .. n
    BY <1>1
  <2>2. \A x \in Sessions : x \in 0 .. MaxSessions
    BY DEF Sessions
  <2> HIDE DEF n
  <2> QED
    BY <1>1, <1>3, <2>1, <2>2
<1>5. RankInv'
  BY <1>1, <1>4 DEF RankInv
<1>6. ASSUME NEW x \in Sessions, x # s PROVE ses'[x].rank = ses[x].rank /\ ses'[x].rank <= n
  <2>1. x \in 0 .. MaxSessions
    BY DEF Sessions
  <2>2. ses'[x].rank = ses[x].rank
    BY <1>1, <1>6, <2>1
  <2>3. \A k \in 1 .. n : k <= n
    OBVIOUS
  <2>4. NotPut <= n
    BY <1>1 DEF NotPut
  <2> HIDE DEF n
  <2> QED
    BY <1>4, <2>2, <2>3, <2>4
<1>7. ASSUME NEW d, d[Target] = dir'[Target], NEW x \in Sessions PROVE NoOlder(d, x)'
  <2>1. \A c \in dataDisk'[d[Target]] : ses'[c.by].rank = n
    BY <1>1, <1>2, <1>7
  <2>2. ses'[x].rank <= n /\ ses'[x].rank \in Int /\ n \in Int
    <3>1. ses'[x].rank \in Int
      <4>1. \A k \in 1 .. n : k \in Int
        OBVIOUS
      <4>2. NotPut \in Int
        BY DEF NotPut
      <4> HIDE DEF n
      <4> QED
        BY <1>4, <4>1, <4>2
    <3> QED
      BY <1>1, <1>6, <3>1
  <2>3. n >= ses'[x].rank
    BY <2>2
  <2> HIDE DEF n
  <2> QED
    BY <1>2, <1>7, <2>1, <2>3 DEF NoOlder
<1>8. ASSUME NEW d \in dirDisk, NEW x \in Sessions, x # s, NoOlder(d, x) PROVE NoOlder(d, x)'
  <2>1. \A c \in dataDisk[d[Target]] : c.by \in 0 .. MaxSessions /\ ses[c.by].rank # NotPut
    BY <1>8, WriterKnown DEF NoOlder
  <2>2. \A c \in dataDisk[d[Target]] : ses'[c.by].rank = ses[c.by].rank
    BY <1>1, <2>1
  <2> QED
    BY <1>1, <1>6, <1>8, <2>2 DEF NoOlder
<1>9. AckInv'
  <2> SUFFICES ASSUME NEW x \in Sessions, ses'[x].result = "ok"
               PROVE  ses'[x].rank # NotPut /\ \A d \in dirDisk' : NoOlder(d, x)'
    BY DEF AckInv
  <2>1. x # s /\ ses[x].result = "ok"
    BY <1>1
  <2>2. ses[x].rank # NotPut /\ \A d \in dirDisk : NoOlder(d, x)
    BY <2>1 DEF DurInv, AckInv
  <2>3. \A d \in dirDisk' : d \in dirDisk \/ d = dir'
    BY <1>2
  <2> QED
    BY <1>6, <1>7, <1>8, <2>1, <2>2, <2>3
<1>10. SyncInv'
  <2> SUFFICES ASSUME NEW q \in Writers, obj'[q].pc = "dirsync"
               PROVE  /\ ses'[obj'[q].ses].rank # NotPut
                      /\ NoOlder(dir, obj[q].ses)'
                      /\ ~ Posix => \A d \in dirDisk' : NoOlder(d, obj[q].ses)'
    BY DEF SyncInv
  <2>1. PICK x \in 0 .. MaxSessions : x = obj'[q].ses
    BY DEF TypeOK, Objects
  <2>2. x \in Sessions /\ ses'[x].rank # NotPut
    <3>1. CASE q = o
      BY <1>0, <1>1, <2>1, <3>1, RenameFacts DEF NotPut
    <3>2. CASE q # o
      <4>1. obj[q].pc = "dirsync" /\ obj[q].ses = x
        BY <2>1, <3>2, RenameFacts
      <4>2. x # NoSession
        BY <4>1 DEF OwnInv, Own
      <4>3. x # s
        BY <1>0, <3>2, <4>1, <4>2 DEF OwnInv
      <4>4. ses[x].rank # NotPut
        BY <4>1 DEF DurInv, SyncInv
      <4> QED
        BY <1>1, <4>2, <4>3, <4>4 DEF Sessions, NoSession
    <3> QED
      BY <3>1, <3>2
  <2>3. PICK now : now = dir'
    OBVIOUS
  <2>4. NoOlder(now, x)'
    BY <1>7, <2>2, <2>3
  <2>5. ASSUME ~ Posix, NEW d \in dirDisk' PROVE NoOlder(d, x)'
    BY <1>2, <1>7, <2>2, <2>5
  <2> QED
    BY <2>1, <2>2, <2>3, <2>4, <2>5 DEF NoOlder
<1>11. FlushedInv'
  <2> SUFFICES ASSUME NEW d \in dirDisk', d[Target] # NoFile
               PROVE  dataDisk'[d[Target]] = {data'[d[Target]]}
    BY DEF FlushedInv
  <2>1. CASE d \in dirDisk
    BY <1>1, <2>1 DEF DurInv, FlushedInv
  <2>2. CASE d = dir'
    BY <1>1, <1>2, <2>2
  <2> QED
    BY <1>2, <2>1, <2>2
<1> QED
  BY <1>5, <1>9, <1>10, <1>11 DEF DurInv

\* What the flush of the directory does.
LEMMA SyncDirFacts ==
  ASSUME TypeOK, OwnInv, DurInv, Posix => "dirsync_einval" \notin Faults,
         NEW o \in Writers, SyncDir(o)
  PROVE  /\ obj[o].ses \in Sessions /\ obj[o].pc = "dirsync"
         /\ ses'[obj[o].ses].result = "ok"
         /\ \A x \in Sessions : x # obj[o].ses => ses'[x].result = ses[x].result
         /\ \A x \in 0 .. MaxSessions : ses'[x].rank = ses[x].rank
         /\ dir' = dir /\ data' = data /\ dataDisk' = dataDisk /\ count' = count
         /\ dirDisk' = IF Posix THEN {dir} ELSE dirDisk
         /\ \A q \in Writers : obj'[q].pc = "dirsync" =>
              obj[q].pc = "dirsync" /\ obj'[q].ses = obj[q].ses
<1>1. obj[o].pc = "dirsync" /\ obj[o].ses \in Sessions
  BY ObjectFacts DEF SyncDir, At, OwnInv, Own, Sessions, NoSession
<1>2. /\ ses'[obj[o].ses].result = "ok"
      /\ \A x \in Sessions : x # obj[o].ses => ses'[x].result = ses[x].result
      /\ \A x \in 0 .. MaxSessions : ses'[x].rank = ses[x].rank
  BY <1>1 DEF SyncDir, TypeOK, Pasts, Sessions
<1>3. /\ dir' = dir /\ data' = data /\ dataDisk' = dataDisk /\ count' = count
      /\ dirDisk' = IF Posix THEN {dir} ELSE dirDisk
  BY DEF SyncDir, FsyncDir, fsVars, MayFail
<1>4. [obj[o] EXCEPT !.pc = "idle", !.committed = TRUE].pc # "dirsync"
  BY ObjectFacts DEF Objects
<1> QED
  BY <1>1, <1>2, <1>3, <1>4, NotSyncing DEF SyncDir

\* The acknowledgement comes when no crash can go back before the commit.
LEMMA SyncDirDur ==
  ASSUME TypeOK, TypeOK', Rest, OwnInv, DurInv, Posix => "dirsync_einval" \notin Faults,
         NEW o \in Writers, SyncDir(o)
  PROVE  DurInv'
<1>0. PICK s \in Sessions : s = obj[o].ses
  BY SyncDirFacts
<1>1. /\ \A d \in dirDisk' : d \in dirDisk
      /\ \A d \in dirDisk' : Posix => d = dir
      /\ s \in 0 .. MaxSessions
  BY SyncDirFacts DEF Rest, DirInv, Sessions
<1>3. ASSUME NEW d \in dirDisk', NEW x \in 0 .. MaxSessions, NoOlder(d, x) PROVE NoOlder(d, x)'
  <2>1. \A c \in dataDisk[d[Target]] : c.by \in 0 .. MaxSessions
    BY <1>1, <1>3, WriterKnown DEF NoOlder
  <2> QED
    BY <1>3, <2>1, SyncDirFacts DEF NoOlder
<1>4. RankInv'
  BY SyncDirFacts DEF DurInv, RankInv, Sessions
<1>5. AckInv'
  <2> SUFFICES ASSUME NEW x \in Sessions, ses'[x].result = "ok"
               PROVE  ses'[x].rank # NotPut /\ \A d \in dirDisk' : NoOlder(d, x)'
    BY DEF AckInv
  <2>1. ses[x].rank # NotPut /\ \A d \in dirDisk' : NoOlder(d, x)
    <3>1. CASE x = s
      <4>1. /\ ses[s].rank # NotPut /\ NoOlder(dir, s)
            /\ ~ Posix => \A d \in dirDisk : NoOlder(d, s)
        BY <1>0, SyncDirFacts DEF DurInv, SyncInv, NoOlder
      <4> QED
        BY <1>1, <3>1, <4>1, WritersAssumption
    <3>2. CASE x # s
      <4>1. ses[x].result = "ok"
        BY <1>0, <3>2, SyncDirFacts
      <4> QED
        BY <1>1, <4>1 DEF DurInv, AckInv
    <3> QED
      BY <3>1, <3>2
  <2>2. x \in 0 .. MaxSessions
    BY DEF Sessions
  <2> QED
    BY <1>3, <2>1, <2>2, SyncDirFacts
<1>6. SyncInv'
  <2> SUFFICES ASSUME NEW q \in Writers, obj'[q].pc = "dirsync"
               PROVE  /\ ses'[obj'[q].ses].rank # NotPut
                      /\ NoOlder(dir, obj[q].ses)'
                      /\ ~ Posix => \A d \in dirDisk' : NoOlder(d, obj[q].ses)'
    BY DEF SyncInv
  <2>1. PICK x \in 0 .. MaxSessions : x = obj[q].ses
    BY ObjectFacts
  <2>2. obj'[q].ses = x /\ obj[q].pc = "dirsync"
    BY <2>1, SyncDirFacts
  <2>3. PICK now \in dirDisk' : now = dir'
    BY SyncDirFacts DEF Rest, DirInv
  <2>4. /\ ses[x].rank # NotPut /\ NoOlder(now, x)
        /\ ~ Posix => \A d \in dirDisk' : NoOlder(d, x)
    BY <1>1, <2>1, <2>2, <2>3, SyncDirFacts DEF DurInv, SyncInv, NoOlder
  <2>5. ses'[x].rank # NotPut
    BY <2>4, SyncDirFacts
  <2>6. NoOlder(now, x)'
    BY <1>3, <2>4
  <2>7. ~ Posix => \A d \in dirDisk' : NoOlder(d, x)'
    BY <1>3, <2>4
  <2> QED
    BY <2>2, <2>3, <2>5, <2>6, <2>7 DEF NoOlder
<1>7. FlushedInv'
  BY <1>1, SyncDirFacts DEF DurInv, FlushedInv
<1> QED
  BY <1>4, <1>5, <1>6, <1>7 DEF DurInv

\* Which steps are not still, as long as nothing is copied into the target.
LEMMA MostStill ==
  ASSUME TypeOK, Rest, OwnInv, [Next]_vars, ~ copied'
  PROVE  Still \/ (\E o \in Writers : Rename(o) \/ SyncDir(o)) \/ Crash
<1>1. CASE UNCHANGED vars
  BY <1>1, SameFilesStill DEF vars, fsVars, writerVars
<1>2. ASSUME NEW o \in Writers, WriterStep(o) PROVE Still \/ Rename(o) \/ SyncDir(o)
  <2>1. CASE CommitStep(o)
    <3>1. ~ CopyBegins(o)
      BY DEF CopyBegins
    <3>2. ~ CopyEnds(o) /\ ~ RemoveTemp(o)
      BY NoCopy
    <3> QED
      BY <2>1, <3>1, <3>2, TempStill, CommitThrowsStill, QuietStill, CopyFailsStill
         DEF CommitStep
  <2>2. ASSUME NEW k \in 1 .. MaxLen, BeginWrite(o, k) \/ WriteSome(o, k) PROVE Still
    BY <2>2, QuietStill, TempStill
  <2>3. ASSUME NEW to \in Writers, MoveConstruct(o, to) \/ MoveAssign(o, to) PROVE Still
    BY <2>3, LifeStill
  <2>4. ASSUME NEW enabled \in BOOLEAN, SetFallback(o, enabled) PROVE Still
    BY <2>4, QuietStill
  <2> QED
    BY <1>2, <2>1, <2>2, <2>3, <2>4, ConstructStill, QuietStill, LifeStill DEF WriterStep
<1>3. CASE (\E p \in Processes : Kill(p)) \/ (\E mode \in {"user", "ro"} : UserChmod(mode))
  BY <1>3, OutsideStill
<1> QED
  BY <1>1, <1>2, <1>3 DEF Next

\* DurInv is inductive while nothing is copied into the target.
LEMMA DurStep ==
  ASSUME Posix => "dirsync_einval" \notin Faults,
         TypeOK, TypeOK', Rest, OwnInv, DurInv, [Next]_vars, ~ copied'
  PROVE  DurInv'
<1>1. CASE Still
  BY <1>1, NarrowsKeeps DEF Still
<1>2. CASE Crash
  BY <1>2, CrashNarrows, NarrowsKeeps
<1>3. CASE \E o \in Writers : Rename(o) \/ SyncDir(o)
  BY <1>3, RenameDur, SyncDirDur
<1> QED
  BY <1>1, <1>2, <1>3, MostStill

\* The initial states satisfy DurInv.
LEMMA DurInit ==
  ASSUME Init PROVE DurInv
<1>1. \A s \in Sessions : s \in 0 .. MaxSessions /\ s # 0
  BY DEF Sessions
<1>2. \A s \in 0 .. MaxSessions : ses[s].result = "none" /\ (s # 0 => ses[s].rank = NotPut)
  BY DEF Init
<1>3. \A o \in Writers : obj[o].pc = "none"
  BY DEF Init, NoObject
<1>4. \A d \in dirDisk : d[Target] # NoFile => dataDisk[d[Target]] = {data[d[Target]]}
  <2>1. \A d \in dirDisk : d[Target] \in {0, NoFile}
    BY DEF Init, FSInit, Names
  <2>2. dataDisk[0] = {data[0]}
    BY SessionsAssumption DEF Init, FSInit, Inodes
  <2> QED
    BY <2>1, <2>2
<1> QED
  BY <1>1, <1>2, <1>3, <1>4 DEF DurInv, RankInv, AckInv, SyncInv, FlushedInv

\* All the invariants together.
FullInv == IInv /\ OwnInv /\ (~ copied => DurInv)

\* They hold at the start ...
LEMMA FullInit == Init => FullInv
BY TypeInit, RestInit, OwnInit, DurInit DEF FullInv, IInv

\* ... and every step keeps them.
LEMMA FullStep ==
  ASSUME "fsync_drops" \notin Faults, Posix => "dirsync_einval" \notin Faults
  PROVE  FullInv /\ [Next]_vars => FullInv'
<1> SUFFICES ASSUME FullInv, [Next]_vars PROVE FullInv'
  OBVIOUS
<1>1. IInv' /\ TypeOK /\ TypeOK'
  BY InvariantStep DEF FullInv, IInv
<1>2. OwnInv'
  BY <1>1, OwnStep DEF FullInv
<1>3. ASSUME ~ copied' PROVE DurInv'
  <2>1. ~ copied
    BY <1>1, <1>3, CopiedStays
  <2> QED
    BY <1>1, <1>3, <2>1, DurStep DEF FullInv, IInv
<1> QED
  BY <1>1, <1>2, <1>3 DEF FullInv

(* When commit() has returned, no sequence of power failures, kills and    *)
(* other writers' commits can bring back anything older than its content:  *)
(* whatever the target shows after a crash is whole and not older.  It     *)
(* takes an fsync that keeps the dirty pages it could not write, a         *)
(* directory that can be flushed, and no fallback copy.                    *)
THEOREM AlwaysDurable ==
  ASSUME "fsync_drops" \notin Faults, Posix => "dirsync_einval" \notin Faults
  PROVE  Spec => []Durable
<1>1. FullInv => Durable
  <2> SUFFICES ASSUME FullInv, ~ copied, NEW s \in Sessions, ses[s].result = "ok", NEW d \in dirDisk
               PROVE  /\ d[Target] # NoFile
                      /\ \A c \in dataDisk[d[Target]] : Whole(c) /\ ses[c.by].rank >= ses[s].rank
    BY DEF Durable, OnPlatter
  <2> QED
    BY DEF FullInv, IInv, Rest, WholeInv, DurInv, AckInv, NoOlder
<1> QED
  BY <1>1, FullInit, FullStep, PTL DEF Spec

-----------------------------------------------------------------------------
(* ImplementsRegister.                                                     *)

\* The version of the target in one of the directories a crash may leave.
Version(d) == IF d[Target] = NoFile THEN 0 ELSE ses[data[d[Target]].by].rank

Acked == {ses[s].rank : s \in {r \in Sessions : ses[r].result = "ok"}}

\* Without copies the refinement mapping is simple: every possible target
\* has one version.
LEMMA Versions == TypeOK /\ Rest /\ DurInv =>
  /\ LiveVersion = Version(dir)
  /\ DiskVersions = {Version(d) : d \in dirDisk}
<1> SUFFICES ASSUME TypeOK, Rest, DurInv
             PROVE  /\ LiveVersion = Version(dir)
                    /\ DiskVersions = {Version(d) : d \in dirDisk}
  OBVIOUS
<1>1. ASSUME NEW d \in dirDisk, d[Target] # NoFile
      PROVE  Whole(data[d[Target]]) /\ dataDisk[d[Target]] = {data[d[Target]]}
  BY <1>1 DEF DurInv, FlushedInv, Rest, WholeInv
<1>2. LiveVersion = Version(dir)
  BY <1>1 DEF LiveVersion, Version, Exists, Rest, DirInv
<1>3. ASSUME NEW d \in dirDisk
      PROVE  (IF d[Target] = NoFile THEN {0} ELSE VersionOf(d[Target])) = {Version(d)}
  <2>1. CASE d[Target] = NoFile
    BY <2>1 DEF Version
  <2>2. CASE d[Target] # NoFile
    BY <1>1, <2>2 DEF VersionOf, Version
  <2> QED
    BY <2>1, <2>2
<1>4. DiskVersions = {Version(d) : d \in dirDisk}
  BY <1>3 DEF DiskVersions
<1> QED
  BY <1>2, <1>4

\* The same of the next state.
LEMMA NextVersions == (TypeOK /\ Rest /\ DurInv =>
  /\ LiveVersion = Version(dir)
  /\ DiskVersions = {Version(d) : d \in dirDisk})'
BY Versions, PTL

\* Where the links, the contents and the ranks are kept, so are the versions.
LEMMA VersionKept ==
  ASSUME TypeOK, Rest, NEW d, NEW e \in dirDisk, d[Target] = e[Target],
         e[Target] # NoFile => data'[e[Target]] = data[e[Target]],
         \A s \in 0 .. MaxSessions : ses[s].rank # NotPut => ses'[s].rank = ses[s].rank
  PROVE  Version(d)' = Version(e)
<1>1. ASSUME e[Target] # NoFile
      PROVE  data[e[Target]].by \in 0 .. MaxSessions /\ ses[data[e[Target]].by].rank # NotPut
  BY <1>1, WriterKnown DEF Rest, DiskInv
<1> QED
  BY <1>1 DEF Version

\* A still step is none of the register.
LEMMA StillRegister ==
  ASSUME TypeOK, Rest, DurInv, TypeOK', Rest', DurInv', Still
  PROVE  UNCHANGED <<LiveVersion, DiskVersions, count.puts, Acked>>
<1>1. ASSUME NEW d, NEW e \in dirDisk, d[Target] = e[Target] PROVE Version(d)' = Version(e)
  <2>1. e[Target] # NoFile => data'[e[Target]] = data[e[Target]]
    BY WriterKnown DEF Still, Narrows
  <2>2. \A s \in 0 .. MaxSessions : ses[s].rank # NotPut => ses'[s].rank = ses[s].rank
    BY DEF Still, Narrows
  <2> QED
    BY <1>1, <2>1, <2>2, VersionKept
<1>2. LiveVersion' = LiveVersion
  <2>1. PICK now : now = dir'
    OBVIOUS
  <2>2. dir \in dirDisk /\ now[Target] = dir[Target]
    BY <2>1 DEF Rest, DirInv, Still
  <2>3. Version(now)' = Version(dir)
    BY <1>1, <2>2
  <2> QED
    BY <2>1, <2>3, Versions, NextVersions DEF Version
<1>3. DiskVersions' = DiskVersions
  <2>1. DiskVersions' \subseteq DiskVersions
    BY <1>1, Versions, NextVersions DEF Still, Narrows
  <2>2. DiskVersions \subseteq DiskVersions'
    BY <1>1, Versions, NextVersions DEF Still
  <2> QED
    BY <2>1, <2>2
<1>4. Acked' = Acked
  <2>1. \A s \in Sessions : ses'[s].rank = ses[s].rank
    BY DEF Still, Narrows, Sessions
  <2>2. \A s \in Sessions : ses'[s].result = "ok" <=> ses[s].result = "ok"
    BY DEF Still, Narrows
  <2> QED
    BY <2>1, <2>2 DEF Acked
<1> QED
  BY <1>2, <1>3, <1>4 DEF Still, Narrows

\* The rename is the indivisible replacement.
LEMMA RenameReplaces ==
  ASSUME TypeOK, Rest, OwnInv, DurInv, TypeOK', Rest', DurInv', NEW o \in Writers, Rename(o)
  PROVE  Register!Replace
<1> DEFINE n == count.puts + 1
<1>0. PICK s \in Sessions : s = obj[o].ses
  BY RenameFacts
<1>1. /\ ses[s].result # "ok" /\ ses[s].rank = NotPut /\ s \in 0 .. MaxSessions
      /\ count.puts \in Nat /\ count'.puts = n /\ ses'[s].rank = n
      /\ \A x \in 0 .. MaxSessions : x # s => ses'[x].rank = ses[x].rank
      /\ \A x \in Sessions : ses'[x].result = ses[x].result
      /\ data' = data
  BY <1>0, RenameFacts DEF Sessions
<1>2. /\ dir'[Target] = Ino(o) /\ Ino(o) # NoFile /\ data[Ino(o)].by = s
      /\ dirDisk' = IF Posix THEN dirDisk \cup {dir'} ELSE {dir'}
  BY <1>0, RenameFacts DEF Inodes, NoFile
<1>3. \A d : d[Target] = dir'[Target] => Version(d)' = n
  BY <1>1, <1>2 DEF Version
<1>4. \A d \in dirDisk : Version(d)' = Version(d)
  <2>1. \A x \in 0 .. MaxSessions : ses[x].rank # NotPut => ses'[x].rank = ses[x].rank
    BY <1>1
  <2> QED
    BY <1>1, <2>1, VersionKept
<1>5. LiveVersion' = n
  <2>1. PICK now : now = dir'
    OBVIOUS
  <2>2. Version(now)' = n
    BY <1>3, <2>1
  <2> QED
    BY <2>1, <2>2, NextVersions DEF Version
<1>6. DiskVersions' = DiskVersions \cup {n} \/ DiskVersions' = {n}
  <2> HIDE DEF n
  <2>1. CASE Posix
    BY <1>2, <1>3, <1>4, <2>1, Versions, NextVersions
  <2>2. CASE ~ Posix
    BY <1>2, <1>3, <2>2, NextVersions
  <2> QED
    BY <2>1, <2>2
<1>7. Acked' = Acked
  <2>1. \A x \in Sessions : ses[x].result = "ok" => ses'[x].rank = ses[x].rank
    BY <1>1 DEF Sessions
  <2> QED
    BY <1>1, <2>1 DEF Acked
<1> QED
  BY <1>1, <1>5, <1>6, <1>7 DEF Register!Replace, Acked

\* The end of commit() is the acknowledgement of its version.
LEMMA SyncDirAcknowledges ==
  ASSUME TypeOK, Rest, OwnInv, DurInv, TypeOK', Rest', DurInv',
         Posix => "dirsync_einval" \notin Faults, NEW o \in Writers, SyncDir(o)
  PROVE  \E v \in 1 .. count.puts : Register!Acknowledge(v)
<1>0. PICK s \in Sessions : s = obj[o].ses
  BY SyncDirFacts
<1>1. /\ obj[o].pc = "dirsync" /\ ses'[s].result = "ok" /\ s \in 0 .. MaxSessions
      /\ \A x \in Sessions : x # s => ses'[x].result = ses[x].result
      /\ \A x \in 0 .. MaxSessions : ses'[x].rank = ses[x].rank
      /\ dir' = dir /\ data' = data /\ dataDisk' = dataDisk /\ count' = count
      /\ dirDisk' = IF Posix THEN {dir} ELSE dirDisk
  BY <1>0, SyncDirFacts DEF Sessions
<1>2. PICK v : v = ses[s].rank
  OBVIOUS
<1>3. v \in 1 .. count.puts
  BY <1>0, <1>1, <1>2 DEF DurInv, RankInv, SyncInv
<1>4. \A d \in dirDisk : Version(d)' = Version(d)
  BY <1>1, VersionKept
<1>5. dir \in dirDisk /\ dirDisk' \subseteq dirDisk
  BY <1>1 DEF Rest, DirInv
<1>6. LiveVersion' = LiveVersion
  <2>1. PICK now \in dirDisk : now = dir
    BY <1>5
  <2>2. Version(now)' = Version(now)
    BY <1>4
  <2> QED
    BY <1>1, <2>1, <2>2, Versions, NextVersions DEF Version
<1>7. DiskVersions' \in {DiskVersions, {LiveVersion}}
  <2>1. DiskVersions' = {Version(d) : d \in dirDisk'}
    BY <1>4, <1>5, NextVersions
  <2>2. CASE Posix
    BY <1>1, <2>1, <2>2, Versions
  <2>3. CASE ~ Posix
    BY <1>1, <2>1, <2>3, Versions
  <2> QED
    BY <2>2, <2>3
<1>8. \A u \in DiskVersions' : u >= v
  <2> SUFFICES ASSUME NEW d \in dirDisk' PROVE Version(d)' >= v
    BY NextVersions
  <2>1. NoOlder(d, s)'
    BY <1>1 DEF DurInv, AckInv
  <2>2. d[Target] \in Inodes
    BY <2>1 DEF NoOlder, TypeOK, FSTypeOK, Names
  <2>3. data'[d[Target]] \in dataDisk'[d[Target]]
    BY <2>2 DEF Rest, DiskInv
  <2> QED
    BY <1>1, <1>2, <2>1, <2>3 DEF NoOlder, Version
<1>9. Acked' = Acked \cup {v}
  <2>1. \A x \in Sessions : ses'[x].rank = ses[x].rank
    BY <1>1 DEF Sessions
  <2>2. \A x \in Sessions : ses'[x].result = "ok" <=> ses[x].result = "ok" \/ x = s
    BY <1>1
  <2> QED
    BY <1>2, <2>1, <2>2 DEF Acked
<1>10. Register!Acknowledge(v)
  BY <1>1, <1>6, <1>7, <1>8, <1>9 DEF Register!Acknowledge, Acked
<1> QED
  BY <1>3, <1>10

\* A power failure of the file system is one of the register.
LEMMA CrashFails ==
  ASSUME TypeOK, Rest, OwnInv, DurInv, TypeOK', Rest', DurInv', Crash
  PROVE  Register!PowerFailure
<1>1. Narrows /\ dir' \in dirDisk /\ dirDisk' = {dir'} /\ ses' = ses
  BY CrashNarrows DEF Crash, Die
<1>2. PICK now \in dirDisk : now = dir'
  BY <1>1
<1>3. Version(now)' = Version(now)
  <2>1. now[Target] # NoFile => data'[now[Target]] = data[now[Target]]
    BY <1>1, WriterKnown DEF Narrows
  <2>2. \A s \in 0 .. MaxSessions : ses[s].rank # NotPut => ses'[s].rank = ses[s].rank
    BY <1>1
  <2> QED
    BY <2>1, <2>2, VersionKept
<1>4. LiveVersion' = Version(now)
  BY <1>2, <1>3, NextVersions DEF Version
<1>5. DiskVersions' = {Version(now)}
  BY <1>1, <1>2, <1>3, NextVersions DEF Version
<1>6. Version(now) \in DiskVersions
  BY Versions
<1> QED
  BY <1>1, <1>4, <1>5, <1>6 DEF Register!PowerFailure, Narrows

\* The fallback stays off where the caller never asks for it.
NoCopies == ~ copied /\ ("fallback" \notin Client => \A o \in Writers : ~ obj[o].fallback)

\* No step starts a copy then.
LEMMA NoCopiesStep ==
  ASSUME "exdev" \notin Faults \/ "fallback" \notin Client
  PROVE  TypeOK /\ NoCopies /\ [Next]_vars => NoCopies'
<1> SUFFICES ASSUME TypeOK, NoCopies, [Next]_vars PROVE NoCopies'
  OBVIOUS
<1>1. \A o \in Writers : ~ CopyBegins(o)
  BY DEF CopyBegins, NoCopies, MayFail
<1>2. ~ copied'
  BY ZenonT(40), <1>1 DEF NoCopies, Next, WriterStep, CommitStep, vars, writerVars, Construct,
       ConstructFails, BeginWrite, WriteSome, WriteFails, BeginCommit, SyncTemp,
       SyncTempFails, CopyAttributes, StatTarget, ChmodTemp, ChownTemp, CopyAttributesFails,
       Rename, RenameFails,
       RenameCrossesFilesystems, CopyEnds, CopyFails, RemoveTemp, SyncDir, SyncDirFails,
       Destroy, MoveConstruct, MoveAssign, MoveMembers, SetFallback, Kill, Crash, Die,
       UserChmod
<1>3. ASSUME "fallback" \notin Client, NEW q \in Writers PROVE ~ obj'[q].fallback
  <2>0. /\ \A o \in Writers : ~ obj[o].fallback /\ obj[o] \in Objects
        /\ ~ NoObject.fallback
    BY <1>3, ObjectFacts DEF NoCopies, NoObject
  <2>1. ASSUME NEW o \in Writers, NEW r, Become(o, r), ~ r.fallback PROVE ~ obj'[q].fallback
    BY <2>0, <2>1, OneObject
  <2>2. CASE UNCHANGED vars
    BY <2>0, <2>2 DEF vars, writerVars
  <2>3. ASSUME NEW o \in Writers, NEW leaf, Throw(o, leaf) PROVE ~ obj'[q].fallback
    <3>1. ~ [obj[o] EXCEPT !.pc = "idle", !.st = NewFile].fallback
      BY <2>0 DEF Objects
    <3> QED
      BY <2>1, <2>3, <3>1 DEF Throw, Goto
  <2>4. ASSUME NEW o \in Writers, CommitStep(o) PROVE ~ obj'[q].fallback
    <3>1. CASE \/ SyncTempFails(o) \/ CopyAttributesFails(o) \/ RenameFails(o)
               \/ RenameCrossesFilesystems(o) \/ SyncDirFails(o)
      BY <2>3, <3>1 DEF SyncTempFails, CopyAttributesFails, RenameFails,
         RenameCrossesFilesystems, SyncDirFails
    <3>2. CASE Rename(o) \/ RemoveTemp(o)
      <4>1. ~ [obj[o] EXCEPT !.pc = "dirsync", !.st = NewFile].fallback
        BY <2>0 DEF Objects
      <4> QED
        BY <2>1, <3>2, <4>1 DEF Rename, RemoveTemp, Goto
    <3>5. CASE CopyAttributes(o)
      <4>1. PICK r \in Objects : Become(o, r) /\ r.fallback = obj[o].fallback
        BY <3>5, CopyAttributesSteps
      <4> QED
        BY <2>0, <2>1, <4>1
    <3>3. CASE SyncTemp(o) \/ SyncDir(o)
      <4>1. /\ ~ [obj[o] EXCEPT !.pc = "attributes", !.handle = Invalid].fallback
            /\ ~ [obj[o] EXCEPT !.pc = "idle", !.committed = TRUE].fallback
        BY <2>0 DEF Objects
      <4> QED
        BY <2>1, <3>3, <4>1 DEF SyncTemp, SyncDir
    <3>4. CASE CopyEnds(o) \/ CopyFails(o)
      <4>1. /\ ~ [obj[o] EXCEPT !.pc = "remove", !.into = NoFile].fallback
            /\ ~ [obj[o] EXCEPT !.pc = "idle", !.into = NoFile].fallback
        BY <2>0 DEF Objects
      <4> QED
        BY <2>1, <3>4, <4>1 DEF CopyEnds, CopyFails
    <3> QED
      BY <1>1, <2>4, <3>1, <3>2, <3>3, <3>4, <3>5 DEF CommitStep
  <2>5. ASSUME NEW o \in Writers, NEW k \in 1 .. MaxLen,
               BeginWrite(o, k) \/ WriteSome(o, k)
        PROVE  ~ obj'[q].fallback
    <3>1. /\ ~ [obj[o] EXCEPT !.pc = "write", !.left = k].fallback
          /\ ~ [obj[o] EXCEPT !.left = @ - k,
                              !.pc = IF k = obj[o].left THEN "idle" ELSE @].fallback
      BY <2>0 DEF Objects
    <3> QED
      BY <2>1, <2>5, <3>1 DEF BeginWrite, WriteSome
  <2>6. ASSUME NEW o \in Writers, Construct(o) \/ ConstructFails(o) \/ BeginCommit(o) \/ Destroy(o)
                                  \/ WriteFails(o)
        PROVE  ~ obj'[q].fallback
    <3>1. ~ [NoObject EXCEPT !.pc = "idle", !.ses = count.sessions + 1,
                             !.handle = count.sessions + 1].fallback
      BY DEF NoObject
    <3>2. ~ [obj[o] EXCEPT !.pc = "fsync", !.st = NewFile].fallback
      BY <2>0 DEF Objects
    <3>3. ~ [obj[o] EXCEPT !.pc = "idle", !.left = 0].fallback
      BY <2>0 DEF Objects
    <3> QED
      BY <2>0, <2>1, <2>6, <3>1, <3>2, <3>3 DEF Construct, ConstructFails, BeginCommit, Goto, Destroy,
         WriteFails
  <2>7. ASSUME NEW from \in Writers, NEW to \in Writers, MoveMembers(from, to)
        PROVE  ~ obj'[q].fallback
    <3>1. ~ MovedFrom(obj[from]).fallback
      BY <2>0 DEF MovedFrom, Objects
    <3> QED
      BY <2>0, <2>7, <3>1 DEF MoveMembers, TypeOK
  <2>8. ASSUME NEW o \in Writers, WriterStep(o) PROVE ~ obj'[q].fallback
    BY <1>3, <2>4, <2>5, <2>6, <2>7, <2>8 DEF WriterStep, MoveConstruct, MoveAssign, SetFallback
  <2>9. ASSUME NEW ps, Die(ps) PROVE ~ obj'[q].fallback
    BY <2>0, <2>9 DEF Die
  <2> QED
    BY <2>0, <2>2, <2>8, <2>9 DEF Next, Kill, Crash, UserChmod
<1> QED
  BY <1>2, <1>3 DEF NoCopies

(* For any number of writers in any number of processes, every             *)
(* interleaving of their system calls, errors, kills and power failures is *)
(* a behaviour of the register: replacements are indivisible, an           *)
(* acknowledged one is never undone.  Copies into the target must be       *)
(* impossible: no EXDEV, or no caller who opted in to the fallback.        *)
THEOREM RegisterImplemented ==
  ASSUME "fsync_drops" \notin Faults, Posix => "dirsync_einval" \notin Faults,
         "exdev" \notin Faults \/ "fallback" \notin Client
  PROVE  Spec => ImplementsRegister
<1>1. Init => FullInv /\ NoCopies
  <2>1. Init => NoCopies
    BY DEF Init, NoCopies, NoObject
  <2> QED
    BY <2>1, FullInit
<1>2. FullInv /\ NoCopies /\ [Next]_vars => (FullInv /\ NoCopies)'
  BY FullStep, NoCopiesStep DEF FullInv, IInv
<1>3. Init => Register!RegisterInit
  <2> SUFFICES ASSUME Init PROVE Register!RegisterInit
    OBVIOUS
  <2>1. TypeOK /\ Rest /\ DurInv
    BY TypeInit, RestInit, DurInit
  <2>2. \A d \in dirDisk : Version(d) = 0
    <3>1. \A d \in dirDisk : d[Target] \in {0, NoFile}
      BY DEF Init, FSInit, Names
    <3>2. 0 \in Inodes /\ 0 \in 0 .. MaxSessions
      BY SessionsAssumption DEF Inodes
    <3>3. data[0].by = 0 /\ ses[0].rank = 0
      BY <3>2 DEF Init, FSInit
    <3> QED
      BY <3>1, <3>3 DEF Version
  <2>3. dirDisk = {dir} /\ count.puts = 0
    BY DEF Init, FSInit
  <2>4. LiveVersion = 0 /\ DiskVersions = {0}
    BY <2>1, <2>2, <2>3, Versions
  <2>5. Acked = {}
    <3>1. \A s \in Sessions : s \in 0 .. MaxSessions
      BY DEF Sessions
    <3>2. \A s \in 0 .. MaxSessions : ses[s].result = "none"
      BY DEF Init
    <3> QED
      BY <3>1, <3>2 DEF Acked
  <2> QED
    BY <2>3, <2>4, <2>5 DEF Register!RegisterInit, Acked
<1>4. FullInv /\ NoCopies /\ (FullInv /\ NoCopies)' /\ [Next]_vars
        => [Register!RegisterNext]_(Register!registerVars)
  <2> SUFFICES ASSUME FullInv, NoCopies, (FullInv /\ NoCopies)', [Next]_vars
               PROVE  Register!RegisterNext \/ UNCHANGED Register!registerVars
    OBVIOUS
  <2>1. TypeOK /\ Rest /\ OwnInv /\ DurInv /\ TypeOK' /\ Rest' /\ DurInv' /\ ~ copied'
    BY DEF FullInv, NoCopies, IInv
  <2>2. CASE Still
    BY <2>1, <2>2, StillRegister DEF Register!registerVars, Acked
  <2>3. ASSUME NEW o \in Writers, Rename(o) PROVE Register!RegisterNext
    BY <2>1, <2>3, RenameReplaces DEF Register!RegisterNext
  <2>4. ASSUME NEW o \in Writers, SyncDir(o) PROVE Register!RegisterNext
    BY <2>1, <2>4, SyncDirAcknowledges DEF Register!RegisterNext
  <2>5. CASE Crash
    BY <2>1, <2>5, CrashFails DEF Register!RegisterNext
  <2> QED
    BY <2>1, <2>2, <2>3, <2>4, <2>5, MostStill
<1> QED
  BY <1>1, <1>2, <1>3, <1>4, PTL DEF Spec, ImplementsRegister, Register!RegisterSpec
=============================================================================
