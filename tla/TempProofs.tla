----------------------------- MODULE TempProofs -----------------------------
(***************************************************************************)
(* Proofs about the temps of AtomicFileWriter: none is left behind while   *)
(* nothing fails once it is closed, the one that replaces the target has   *)
(* the target's mode, and one that is copied over the target replaces it   *)
(* whole.                                                                  *)
(***************************************************************************)
EXTENDS RegisterProofs

\* A temp in the directory has an object that still works on it.
HeldInv ==
  count.deaths = 0 =>
    \A t \in Temps : Exists(t) => \E o \in Writers : Holds(o) /\ Temp(o) = t

\* The errors that leave a temp behind: those between the close and the
\* rename, and that of the removal.
Leaks == {"chmod", "chown", "rename", "exdev", "remove"}

-----------------------------------------------------------------------------
(* TempsOwned.                                                             *)

\* A step that adds no name and lets nobody go who works on a temp.
LEMMA HeldKept ==
  ASSUME TypeOK, HeldInv, count'.deaths = count.deaths,
         \A t \in Temps : dir'[t] # NoFile => dir[t] # NoFile,
         \A o \in Writers : Holds(o) /\ dir'[Temp(o)] # NoFile =>
           \E q \in Writers : Holds(q)' /\ Temp(q)' = Temp(o)
  PROVE  HeldInv'
BY DEF HeldInv, Exists

\* Such a step of one object that goes on holding what it held.
LEMMA HolderHeld ==
  ASSUME TypeOK, HeldInv, NEW o \in Writers, NEW r, Become(o, r),
         Holds(o) /\ dir'[Temp(o)] # NoFile =>
           r.ses = obj[o].ses /\ (r.handle # Invalid \/ r.pc \in {"attributes", "chmod", "chown", "replace"}),
         count'.deaths = count.deaths,
         \A t \in Temps : dir'[t] # NoFile => dir[t] # NoFile,
         \A s \in 0 .. MaxSessions : ses'[s].temp = ses[s].temp
  PROVE  HeldInv'
<1>1. obj'[o] = r /\ \A q \in Writers \ {o} : obj'[q] = obj[q]
  BY OneObject
<1>2. ASSUME NEW q \in Writers, Holds(q), dir'[Temp(q)] # NoFile PROVE Holds(q)' /\ Temp(q)' = Temp(q)
  <2>1. obj[q].ses \in 0 .. MaxSessions
    BY ObjectFacts
  <2>2. CASE q = o
    BY <1>1, <1>2, <2>1, <2>2 DEF Holds, Temp
  <2>3. CASE q # o
    BY <1>1, <1>2, <2>1, <2>3 DEF Holds, Temp
  <2> QED
    BY <2>2, <2>3
<1> QED
  BY <1>2, HeldKept

\* Leaving commit() by an exception: the temp is open, or gone.
LEMMA ThrowHeld ==
  ASSUME TypeOK, HeldInv, NEW o \in Writers, NEW leaf, Throw(o, leaf), count' = count, dir' = dir,
         obj[o].pc \notin {"attributes", "chmod", "chown", "replace"}
  PROVE  HeldInv'
<1> DEFINE r == [obj[o] EXCEPT !.pc = "idle", !.st = NewFile]
<1>1. Become(o, r) /\ r.ses = obj[o].ses /\ r.handle = obj[o].handle
  BY ObjectFacts DEF Throw, Goto, Objects
<1>2. \A s \in 0 .. MaxSessions : ses'[s].temp = ses[s].temp
  BY ThrowKeepsPasts DEF SamePasts
<1>3. Holds(o) => r.handle # Invalid
  BY <1>1 DEF Holds
<1> QED
  BY <1>1, <1>2, <1>3, HolderHeld

\* The steps of commit() that move on.
LEMMA CommitHeld ==
  ASSUME Posix, Faults \cap Leaks = {}, TypeOK, TypeOK', OwnInv, HeldInv, NEW o \in Writers,
         BeginCommit(o) \/ CommitStep(o)
  PROVE  HeldInv'
<1>0. obj[o] \in Objects /\ Own(o)
  BY ObjectFacts DEF OwnInv
<1>1. CASE BeginCommit(o)
  <2> DEFINE r == [obj[o] EXCEPT !.pc = "fsync", !.st = NewFile]
  <2>1. r.ses = obj[o].ses /\ r.handle = obj[o].handle
    BY <1>0 DEF Objects
  <2>2. Holds(o) => r.handle # Invalid
    BY <1>1, <2>1 DEF Holds, BeginCommit, At
  <2> QED
    BY <1>1, <2>1, <2>2, HolderHeld DEF BeginCommit, Goto, fsVars
<1>2. CASE SyncTemp(o)
  <2> DEFINE r == [obj[o] EXCEPT !.pc = "attributes", !.handle = Invalid]
  <2>1. r.ses = obj[o].ses /\ r.pc = "attributes"
    BY <1>0 DEF Objects
  <2> QED
    BY <1>2, <2>1, HolderHeld DEF SyncTemp, Fsync
<1>3. CASE SyncTempFails(o) \/ SyncDirFails(o)
  BY <1>3, ThrowHeld DEF SyncTempFails, SyncDirFails, At, fsVars, FsyncError
<1>4. CASE CopyAttributes(o)
  <2>1. PICK r \in Objects :
          Become(o, r) /\ r.ses = obj[o].ses /\ r.pc \in {"chmod", "chown", "replace"}
    BY <1>4, CopyAttributesSteps
  <2>2. dir' = dir /\ count' = count /\ ses' = ses
    BY <1>4, CopyAttributesSteps DEF SetAttributes, fsVars
  <2> QED
    BY <2>1, <2>2, HolderHeld
<1>5. CASE Rename(o)
  <2>1. Temp(o) \in Names /\ \A t \in Temps : t \in Names /\ t # Target
    BY ObjectFacts, TargetAssumption DEF Names
  <2>2. /\ \A t \in Temps : dir'[t] # NoFile => dir[t] # NoFile
        /\ dir'[Temp(o)] = NoFile
    BY <1>5, <2>1 DEF Rename, RenameToTarget, TypeOK, FSTypeOK
  <2>3. /\ count'.deaths = count.deaths
        /\ \A s \in 0 .. MaxSessions : ses'[s].temp = ses[s].temp
    BY <1>5 DEF Rename, Put, TypeOK, Counts, Pasts
  <2> QED
    BY <1>5, <2>2, <2>3, HolderHeld DEF Rename, Goto
<1>6. ~ CopyAttributesFails(o) /\ ~ RenameFails(o) /\ ~ RenameCrossesFilesystems(o) /\ ~ CopyBegins(o)
  BY DEF CopyAttributesFails, RenameFails, RenameCrossesFilesystems, CopyBegins, MayFail, Leaks,
     WindowsRefuses
<1>7. CASE CopyEnds(o) \/ CopyFails(o) \/ RemoveTemp(o) \/ SyncDir(o)
  <2>1. obj[o].pc \in {"copy", "remove", "dirsync"}
    BY <1>7 DEF CopyEnds, CopyFails, RemoveTemp, SyncDir, At, MayFail, Leaks
  <2>2. ~ Holds(o)
    BY <1>0, <2>1 DEF Own, Holds
  <2>3. count' = count /\ \E r : Become(o, r)
    BY <1>7 DEF CopyEnds, CopyFails, RemoveTemp, SyncDir, Goto
  <2>4. \A s \in 0 .. MaxSessions : ses'[s].temp = ses[s].temp
    BY <1>7 DEF CopyEnds, CopyFails, RemoveTemp, SyncDir, TypeOK, Pasts
  <2>5. \A t \in Temps : dir'[t] # NoFile => dir[t] # NoFile
    BY <1>7 DEF CopyEnds, CopyFails, RemoveTemp, SyncDir, fsVars, SetContents, Unlink, SetDir,
       FsyncDir, TypeOK, FSTypeOK, Names
  <2> QED
    BY <2>2, <2>3, <2>4, <2>5, HolderHeld
<1> QED
  BY <1>1, <1>2, <1>3, <1>4, <1>5, <1>6, <1>7 DEF CommitStep

\* write(), and its caller's choice of the fallback.
LEMMA WriteHeld ==
  ASSUME TypeOK, HeldInv, NEW o \in Writers,
         \/ WriteFails(o)
         \/ \E k \in 1 .. MaxLen : BeginWrite(o, k) \/ WriteSome(o, k)
         \/ \E enabled \in BOOLEAN : SetFallback(o, enabled)
  PROVE  HeldInv'
<1>0. obj[o] \in Objects
  BY ObjectFacts
<1>1. CASE WriteFails(o)
  <2> DEFINE r == [obj[o] EXCEPT !.pc = "idle", !.left = 0]
  <2>1. r.ses = obj[o].ses /\ r.handle = obj[o].handle
    BY <1>0 DEF Objects
  <2>2. Holds(o) => r.handle # Invalid
    BY <1>1, <2>1 DEF Holds, WriteFails, At
  <2> QED
    BY <1>1, <2>1, <2>2, HolderHeld DEF WriteFails, fsVars
<1>2. ASSUME NEW k \in 1 .. MaxLen, BeginWrite(o, k) PROVE HeldInv'
  <2> DEFINE r == [obj[o] EXCEPT !.pc = "write", !.left = k]
  <2>1. r.ses = obj[o].ses /\ r.handle = obj[o].handle
    BY <1>0 DEF Objects
  <2>2. Holds(o) => r.handle # Invalid
    BY <1>2, <2>1 DEF Holds, BeginWrite, At
  <2>3. \A s \in 0 .. MaxSessions : ses'[s].temp = ses[s].temp
    BY <1>2 DEF BeginWrite, TypeOK, Pasts
  <2> QED
    BY <1>2, <2>1, <2>2, <2>3, HolderHeld DEF BeginWrite, fsVars
<1>3. ASSUME NEW k \in 1 .. MaxLen, WriteSome(o, k) PROVE HeldInv'
  <2> DEFINE r == [obj[o] EXCEPT !.left = @ - k, !.pc = IF k = obj[o].left THEN "idle" ELSE @]
  <2>1. r.ses = obj[o].ses /\ r.handle = obj[o].handle
    BY <1>0 DEF Objects
  <2>2. Holds(o) => r.handle # Invalid
    BY <1>3, <2>1 DEF Holds, WriteSome, At
  <2> QED
    BY <1>3, <2>1, <2>2, HolderHeld DEF WriteSome, SetContents
<1>4. ASSUME NEW enabled \in BOOLEAN, SetFallback(o, enabled) PROVE HeldInv'
  <2> DEFINE r == [obj[o] EXCEPT !.fallback = enabled]
  <2>1. r.ses = obj[o].ses /\ r.handle = obj[o].handle
    BY <1>0 DEF Objects
  <2>2. Holds(o) => r.handle # Invalid
    BY <1>4, <2>1 DEF Holds, SetFallback, At
  <2> QED
    BY <1>4, <2>1, <2>2, HolderHeld DEF SetFallback, fsVars
<1> QED
  BY <1>1, <1>2, <1>3, <1>4

\* The constructor: the one new name belongs to the new object.
LEMMA ConstructHeld ==
  ASSUME TypeOK, TypeOK', OwnInv, HeldInv, NEW o \in Writers, Construct(o)
  PROVE  HeldInv'
<1> DEFINE s == count.sessions + 1
           name == TempName(Home[o])
           r == [NoObject EXCEPT !.pc = "idle", !.ses = s, !.handle = s]
<1>1. /\ count.sessions \in Nat /\ s \in 0 .. MaxSessions /\ s # Invalid
      /\ name \in Temps /\ name \in Names
      /\ dir' = (IF Exists(name) THEN dir ELSE [dir EXCEPT ![name] = s])
  BY DEF Construct, OpenTemp, OpenTrunc, SetDir, TypeOK, Counts, Sessions, Names, Invalid
<1>2. obj'[o] = r /\ \A q \in Writers \ {o} : obj'[q] = obj[q]
  BY OneObject DEF Construct
<1>3. r.ses = s /\ r.handle = s
  BY DEF NoObject
<1>4. ses'[s].temp = name /\ \A x \in 0 .. MaxSessions : x # s => ses'[x] = ses[x]
  BY <1>1 DEF Construct, TypeOK, Pasts
<1>5. Holds(o)' /\ Temp(o)' = name
  BY <1>1, <1>2, <1>3, <1>4 DEF Holds, Temp
<1>6. ASSUME NEW q \in Writers, Holds(q) PROVE Holds(q)' /\ Temp(q)' = Temp(q)
  <2>1. q # o
    BY <1>6 DEF Construct, At, OwnInv, Own, NoObject, Holds
  <2>2. obj[q].ses \in 0 .. MaxSessions /\ obj[q].ses <= count.sessions
    BY ObjectFacts DEF OwnInv, Own
  <2>3. \A x \in 0 .. MaxSessions : x <= count.sessions => x # s
    BY <1>1
  <2>4. obj[q].ses # s
    BY <2>2, <2>3
  <2> QED
    BY <1>2, <1>4, <1>6, <2>1, <2>2, <2>4 DEF Holds, Temp
<1>7. count'.deaths = count.deaths
  BY DEF Construct, TypeOK, Counts
<1>8. \A t \in Temps : dir'[t] # NoFile => t = name \/ dir[t] # NoFile
  BY <1>1 DEF TypeOK, FSTypeOK, Names
<1> QED
  BY <1>5, <1>6, <1>7, <1>8 DEF HeldInv, Exists

\* The destructor's removal, for the steps that let o's members go.
LEMMA DiscardHeld ==
  ASSUME "remove" \notin Faults, TypeOK, OwnInv, NEW o \in Writers, obj[o].pc = "idle", Discard(o)
  PROVE  /\ \A t \in Temps : dir'[t] # NoFile => dir[t] # NoFile
         /\ Holds(o) => dir'[Temp(o)] = NoFile
<1>1. Own(o) /\ Temp(o) \in Names /\ \A t \in Temps : t \in Names
  BY ObjectFacts DEF OwnInv, Names
<1>2. Holds(o) => Uncommitted(obj[o])
  BY <1>1 DEF Holds, Uncommitted, Own
<1>3. CASE Uncommitted(obj[o])
  BY <1>1, <1>3 DEF Discard, RemoveQuietly, MayFail, Unlink, SetDir, TypeOK, FSTypeOK
<1>4. CASE ~ Uncommitted(obj[o])
  BY <1>2, <1>4 DEF Discard, fsVars
<1> QED
  BY <1>3, <1>4

\* Destruction and moves: the temp goes, or goes over to the other object.
LEMMA LifeHeld ==
  ASSUME "remove" \notin Faults, TypeOK, OwnInv, HeldInv, NEW o \in Writers,
         Destroy(o) \/ \E to \in Writers : MoveConstruct(o, to) \/ MoveAssign(o, to)
  PROVE  HeldInv'
<1>1. CASE Destroy(o)
  BY <1>1, DiscardHeld, HolderHeld DEF Destroy, At
<1>2. ASSUME NEW to \in Writers, MoveConstruct(o, to) \/ MoveAssign(o, to) PROVE HeldInv'
  <2>1. o # to /\ obj[o].pc = "idle" /\ ses' = ses /\ count' = count
    BY <1>2 DEF MoveConstruct, MoveAssign, MoveMembers, At
  <2>2. obj'[to] = obj[o] /\ \A q \in Writers \ {o, to} : obj'[q] = obj[q]
    BY <1>2 DEF MoveConstruct, MoveAssign, MoveMembers, TypeOK
  <2>3. /\ \A t \in Temps : dir'[t] # NoFile => dir[t] # NoFile
        /\ Holds(to) => dir'[Temp(to)] = NoFile
    <3>1. CASE MoveConstruct(o, to)
      BY <3>1 DEF MoveConstruct, At, OwnInv, Own, NoObject, Holds, fsVars
    <3>2. CASE MoveAssign(o, to)
      BY <3>2, DiscardHeld DEF MoveAssign, At
    <3> QED
      BY <1>2, <3>1, <3>2
  <2>4. ASSUME NEW q \in Writers, Holds(q), dir'[Temp(q)] # NoFile
        PROVE  \E u \in Writers : Holds(u)' /\ Temp(u)' = Temp(q)
    <3>1. CASE q = o
      BY <2>1, <2>2, <2>4, <3>1 DEF Holds, Temp
    <3>2. CASE q # o
      <4>1. q # to
        BY <2>3, <2>4
      <4> QED
        BY <2>1, <2>2, <2>4, <3>2, <4>1 DEF Holds, Temp
    <3> QED
      BY <3>1, <3>2
  <2> QED
    BY <2>1, <2>3, <2>4, HeldKept
<1> QED
  BY <1>1, <1>2

\* HeldInv is inductive.
LEMMA HeldStep ==
  ASSUME Posix, Faults \cap Leaks = {}, TypeOK, TypeOK', OwnInv, HeldInv, [Next]_vars
  PROVE  HeldInv'
<1>0. "remove" \notin Faults
  BY DEF Leaks
<1>1. ASSUME dir' = dir, obj' = obj, ses' = ses, count'.deaths = count.deaths PROVE HeldInv'
  BY <1>1 DEF HeldInv, Exists, Holds, Temp
<1>2. ASSUME NEW o \in Writers, WriterStep(o) PROVE HeldInv'
  <2>1. CASE ConstructFails(o)
    BY <1>1, <2>1 DEF ConstructFails, fsVars
  <2>2. ASSUME NEW k \in 1 .. MaxLen, BeginWrite(o, k) \/ WriteSome(o, k) PROVE HeldInv'
    BY <2>2, WriteHeld
  <2>3. ASSUME NEW enabled \in BOOLEAN, SetFallback(o, enabled) PROVE HeldInv'
    BY <2>3, WriteHeld
  <2>4. ASSUME NEW to \in Writers, MoveConstruct(o, to) \/ MoveAssign(o, to) PROVE HeldInv'
    BY <1>0, <2>4, LifeHeld
  <2> QED
    BY <1>0, <1>2, <2>1, <2>2, <2>3, <2>4, ConstructHeld, CommitHeld, WriteHeld, LifeHeld
       DEF WriterStep
<1>3. ASSUME NEW ps, Die(ps) PROVE HeldInv'
  <2>1. count'.deaths # 0
    BY <1>3 DEF Die, TypeOK, Counts
  <2> QED
    BY <2>1 DEF HeldInv
<1>4. ASSUME NEW mode, UserChmod(mode) PROVE HeldInv'
  <2>1. count'.deaths = count.deaths
    BY <1>4 DEF UserChmod, TypeOK, Counts
  <2> QED
    BY <1>1, <1>4, <2>1 DEF UserChmod, SetAttributes
<1>5. CASE UNCHANGED vars
  BY <1>1, <1>5 DEF vars, fsVars, writerVars
<1> QED
  BY <1>2, <1>3, <1>4, <1>5 DEF Next, Kill, Crash

(* While no process has died, every temp in the directory has an object    *)
(* that will rename or remove it, through every sequence of moves, short   *)
(* or failed writes and failed flushes: provided that, on POSIX, nothing   *)
(* fails between the close and the rename, and no removal does.  (A commit *)
(* that fails there does leave its temp behind: the run AfwLeak.)          *)
THEOREM TempsAlwaysOwned ==
  ASSUME Posix, Faults \cap Leaks = {}
  PROVE  Spec => []TempsOwned
<1>1. Init => TypeOK /\ OwnInv /\ HeldInv
  <2>1. Init => HeldInv
    BY TargetAssumption DEF Init, FSInit, HeldInv, Exists, Names
  <2> QED
    BY <2>1, TypeInit, OwnInit
<1>2. TypeOK /\ OwnInv /\ HeldInv /\ [Next]_vars => (TypeOK /\ OwnInv /\ HeldInv)'
  BY TypeStep, OwnStep, HeldStep
<1>3. TypeOK /\ OwnInv /\ HeldInv => TempsOwned
  BY DEF TempsOwned, HeldInv, OwnInv, Own, NoObject, Holds, At
<1> QED
  BY <1>1, <1>2, <1>3, PTL DEF Spec

-----------------------------------------------------------------------------
(* ModeKept.                                                               *)

\* An object with these members works on a temp: it is open, or about to replace
\* the target, to be copied over it or to be removed after that.
Works(r) == r.handle # Invalid \/ r.pc \in {"attributes", "chmod", "chown", "replace", "copy", "remove"}

\* That temp has a name its process has drawn, and is what the name is linked to.
Placed(o) ==
  /\ Temp(o) \in Temps /\ Temp(o)[1] = Home[o] /\ Temp(o)[2] < counter[Home[o]]
  /\ dir[Temp(o)] = Ino(o)

\* No two objects work on one name.  Unlike what TargetWhole rests on, it outlives
\* fallback copies, flushes that drop pages, and crashes.
LinkedInv ==
  /\ \A o \in Writers : Works(obj[o]) => Placed(o)
  /\ \A o, q \in Writers : Works(obj[o]) /\ Works(obj[q]) /\ o # q => Temp(o) # Temp(q)

\* Where an object knows the target's mode, or its temp has it.
Copying == {"chmod", "chown", "replace"}

\* There was no target at the start: all files have the mode open() gave them.
AllDefault ==
  /\ \A i \in Inodes : i # 0 => attr[i].mode = "default"
  /\ \A n \in Names : dir[n] # 0
  /\ \A s \in Sessions : s <= count.sessions => ses[s].ino # 0
  /\ \A o \in Writers : obj[o].pc = "chmod" => obj[o].st.mode = "default"

\* The target has a mode of its owner's, which every object in a commit has
\* read by the time it needs it, and given its temp before it renames it.
TargetModed ==
  /\ Exists(Target) /\ attr[dir[Target]].mode # "default"
  /\ \A o \in Writers :
       /\ obj[o].pc = "chmod" => obj[o].st.mode # "default"
       /\ obj[o].pc \in {"chown", "replace"} => attr[Ino(o)].mode # "default"

\* Nobody comes there.
Stay == \A q \in Writers : obj'[q].pc \in Copying =>
          obj'[q].pc = obj[q].pc /\ obj'[q].ses = obj[q].ses /\ obj'[q].st = obj[q].st

\* Steps that change no attributes and no link of the target, and bring nobody there.
LEMMA ModeSame ==
  ASSUME TypeOK, TargetModed, Stay, attr' = attr, dir'[Target] = dir[Target],
         \A q \in Writers : obj'[q].pc \in Copying =>
           ses'[obj[q].ses].ino = ses[obj[q].ses].ino
  PROVE  TargetModed'
BY DEF TargetModed, Stay, Copying, Exists, Ino

\* A step of one object that leaves these places, or does not come to them.
LEMMA StayOne ==
  ASSUME TypeOK, NEW o \in Writers, NEW r, Become(o, r), r.pc \notin Copying
  PROVE  Stay
BY OneObject DEF Stay

\* The steps that touch neither attributes nor names.
QuietStep(o) ==
  \/ WriteFails(o) \/ BeginCommit(o) \/ ConstructFails(o) \/ SyncTemp(o) \/ SyncDir(o)
  \/ SyncTempFails(o) \/ RenameFails(o) \/ RenameCrossesFilesystems(o) \/ SyncDirFails(o)
  \/ CopyBegins(o) \/ CopyEnds(o) \/ CopyFails(o)
  \/ \E k \in 1 .. MaxLen : BeginWrite(o, k) \/ WriteSome(o, k)
  \/ \E enabled \in BOOLEAN : SetFallback(o, enabled)

\* They leave alone which file a session has, too.
LEMMA QuietFiles ==
  ASSUME TypeOK, NEW o \in Writers, QuietStep(o)
  PROVE  /\ attr' = attr /\ dir' = dir /\ count'.sessions = count.sessions
         /\ \A s \in 0 .. MaxSessions : ses'[s].ino = ses[s].ino /\ ses'[s].temp = ses[s].temp
<1>1. attr' = attr /\ dir' = dir /\ count'.sessions = count.sessions
  <2>1. CASE CopyBegins(o)
    <3>1. attr' = attr /\ dir' = dir /\ count' = [count EXCEPT !.puts = @ + 1]
      BY <2>1 DEF CopyBegins, SetContents, Put
    <3>2. count \in Counts
      BY DEF TypeOK
    <3> QED
      BY <3>1, <3>2 DEF Counts
  <2>2. CASE ~ CopyBegins(o)
    BY Zenon, <2>2 DEF QuietStep, WriteFails, BeginCommit, ConstructFails, SyncTemp, SyncDir, SyncTempFails, RenameFails,
       RenameCrossesFilesystems, SyncDirFails, CopyEnds, CopyFails, BeginWrite, WriteSome,
       SetFallback, fsVars, Fsync, FsyncError, FsyncDir, SetContents
  <2> QED
    BY <2>1, <2>2
<1> DEFINE Same == \A s \in 0 .. MaxSessions : ses'[s].ino = ses[s].ino /\ ses'[s].temp = ses[s].temp
<1>2. Same
  <2>1. CASE ses' = ses
    BY <2>1
  <2>2. ASSUME NEW leaf, ses' = [ses EXCEPT ![obj[o].ses].result = leaf] PROVE Same
    BY <2>2 DEF TypeOK, Pasts
  <2>3. ASSUME NEW k \in 1 .. MaxLen, BeginWrite(o, k) PROVE Same
    BY <2>3 DEF BeginWrite, TypeOK, Pasts
  <2>4. CASE SyncTempFails(o) \/ RenameFails(o) \/ RenameCrossesFilesystems(o) \/ SyncDirFails(o)
    BY <2>2, <2>4 DEF SyncTempFails, RenameFails, RenameCrossesFilesystems, SyncDirFails, Throw
  <2>5. CASE SyncDir(o) \/ CopyFails(o)
    BY <2>2, <2>5 DEF SyncDir, CopyFails
  <2>6. CASE CopyBegins(o)
    BY <2>6 DEF CopyBegins, Put, TypeOK, Pasts
  <2>7. CASE WriteFails(o) \/ BeginCommit(o) \/ ConstructFails(o) \/ SyncTemp(o) \/ CopyEnds(o)
    BY <2>1, <2>7 DEF WriteFails, BeginCommit, ConstructFails, SyncTemp, CopyEnds
  <2>8. ASSUME NEW k \in 1 .. MaxLen, WriteSome(o, k) PROVE Same
    BY <2>1, <2>8 DEF WriteSome
  <2>9. ASSUME NEW enabled \in BOOLEAN, SetFallback(o, enabled) PROVE Same
    BY <2>1, <2>9 DEF SetFallback
  <2> HIDE DEF Same
  <2> QED
    BY <2>3, <2>4, <2>5, <2>6, <2>7, <2>8, <2>9 DEF QuietStep
<1> QED
  BY <1>1, <1>2

\* Nobody comes to a mode by them, or to work on a temp who did not.
LEMMA QuietObject ==
  ASSUME TypeOK, OwnInv, NEW o \in Writers, QuietStep(o), ~ ConstructFails(o)
  PROVE  /\ counter' = counter
         /\ \E r : /\ Become(o, r) /\ r.ses = obj[o].ses /\ r.pc \notin Copying
                   /\ Works(r) => Works(obj[o])
<1> DEFINE Goes == \E r : /\ Become(o, r) /\ r.ses = obj[o].ses /\ r.pc \notin Copying
                          /\ Works(r) => Works(obj[o])
<1>0. obj[o] \in Objects /\ Own(o)
  BY ObjectFacts DEF OwnInv
<1>1. counter' = counter
  BY DEF QuietStep, WriteFails, BeginCommit, SyncTemp, SyncDir, SyncTempFails, RenameFails,
     RenameCrossesFilesystems, SyncDirFails, CopyBegins, CopyEnds, CopyFails, BeginWrite, WriteSome,
     SetFallback
<1>2. ASSUME NEW r, Become(o, r), r.ses = obj[o].ses, r.handle = obj[o].handle,
             r.pc \notin {"attributes", "chmod", "chown", "replace", "copy", "remove"}
      PROVE  Goes
  <2>1. Works(r) => Works(obj[o])
    BY <1>2 DEF Works
  <2> QED
    BY <1>2, <2>1 DEF Copying
<1>3. ASSUME NEW r, Become(o, r), r.ses = obj[o].ses, r.pc \notin Copying, Works(obj[o])
      PROVE  Goes
  BY <1>3
<1> SUFFICES Goes
  BY <1>1
<1> HIDE DEF Goes
<1>4. CASE SyncTempFails(o) \/ RenameFails(o) \/ RenameCrossesFilesystems(o) \/ SyncDirFails(o)
  <2>1. PICK r : r = [obj[o] EXCEPT !.pc = "idle", !.st = NewFile]
    OBVIOUS
  <2>2. r.ses = obj[o].ses /\ r.handle = obj[o].handle /\ r.pc = "idle"
    BY <1>0, <2>1 DEF Objects
  <2>3. Become(o, r)
    BY <1>4, <2>1 DEF SyncTempFails, RenameFails, RenameCrossesFilesystems, SyncDirFails, Throw, Goto
  <2> QED
    BY <1>2, <2>2, <2>3
<1>5. CASE WriteFails(o)
  <2>1. PICK r : r = [obj[o] EXCEPT !.pc = "idle", !.left = 0]
    OBVIOUS
  <2>2. r.ses = obj[o].ses /\ r.handle = obj[o].handle /\ r.pc = "idle"
    BY <1>0, <2>1 DEF Objects
  <2> QED
    BY <1>2, <1>5, <2>1, <2>2 DEF WriteFails
<1>6. CASE BeginCommit(o)
  <2>1. PICK r : r = [obj[o] EXCEPT !.pc = "fsync", !.st = NewFile]
    OBVIOUS
  <2>2. r.ses = obj[o].ses /\ r.handle = obj[o].handle /\ r.pc = "fsync"
    BY <1>0, <2>1 DEF Objects
  <2> QED
    BY <1>2, <1>6, <2>1, <2>2 DEF BeginCommit, Goto
<1>7. CASE SyncTemp(o)
  <2>1. PICK r : r = [obj[o] EXCEPT !.pc = "attributes", !.handle = Invalid]
    OBVIOUS
  <2>2. r.ses = obj[o].ses /\ r.pc = "attributes"
    BY <1>0, <2>1 DEF Objects
  <2> QED
    BY <1>3, <1>7, <2>1, <2>2 DEF SyncTemp, Works, Copying
<1>8. CASE SyncDir(o)
  <2>1. PICK r : r = [obj[o] EXCEPT !.pc = "idle", !.committed = TRUE]
    OBVIOUS
  <2>2. r.ses = obj[o].ses /\ r.handle = obj[o].handle /\ r.pc = "idle"
    BY <1>0, <2>1 DEF Objects
  <2> QED
    BY <1>2, <1>8, <2>1, <2>2 DEF SyncDir
<1>9. CASE CopyBegins(o)
  <2>1. PICK r : r = [obj[o] EXCEPT !.pc = "copy", !.into = dir[Target]]
    OBVIOUS
  <2>2. r.ses = obj[o].ses /\ r.pc = "copy"
    BY <1>0, <2>1 DEF Objects
  <2> QED
    BY <1>3, <1>9, <2>1, <2>2 DEF CopyBegins, At, Works, Copying
<1>10. CASE CopyEnds(o)
  <2>1. PICK r : r = [obj[o] EXCEPT !.pc = "remove", !.into = NoFile]
    OBVIOUS
  <2>2. r.ses = obj[o].ses /\ r.pc = "remove"
    BY <1>0, <2>1 DEF Objects
  <2> QED
    BY <1>3, <1>10, <2>1, <2>2 DEF CopyEnds, At, Works, Copying
<1>11. CASE CopyFails(o)
  <2>1. PICK r : r = [obj[o] EXCEPT !.pc = "idle", !.into = NoFile]
    OBVIOUS
  <2>2. r.ses = obj[o].ses /\ r.handle = obj[o].handle /\ r.pc = "idle"
    BY <1>0, <2>1 DEF Objects
  <2> QED
    BY <1>2, <1>11, <2>1, <2>2 DEF CopyFails
<1>12. ASSUME NEW k \in 1 .. MaxLen, BeginWrite(o, k) PROVE Goes
  <2>1. PICK r : r = [obj[o] EXCEPT !.pc = "write", !.left = k]
    OBVIOUS
  <2>2. r.ses = obj[o].ses /\ r.handle = obj[o].handle /\ r.pc = "write"
    BY <1>0, <2>1 DEF Objects
  <2> QED
    BY <1>2, <1>12, <2>1, <2>2 DEF BeginWrite
<1>13. ASSUME NEW k \in 1 .. MaxLen, WriteSome(o, k) PROVE Goes
  <2>1. PICK r : r = [obj[o] EXCEPT !.left = @ - k, !.pc = IF k = obj[o].left THEN "idle" ELSE @]
    OBVIOUS
  <2>2. r.ses = obj[o].ses /\ r.handle = obj[o].handle /\ r.pc \in {"idle", "write"}
    BY <1>0, <1>13, <2>1 DEF Objects, WriteSome, At
  <2> QED
    BY <1>2, <1>13, <2>1, <2>2 DEF WriteSome
<1>14. ASSUME NEW enabled \in BOOLEAN, SetFallback(o, enabled) PROVE Goes
  <2>1. PICK r : r = [obj[o] EXCEPT !.fallback = enabled]
    OBVIOUS
  <2>2. r.ses = obj[o].ses /\ r.handle = obj[o].handle /\ r.pc = "idle"
    BY <1>0, <1>14, <2>1 DEF Objects, SetFallback, At
  <2> QED
    BY <1>2, <1>14, <2>1, <2>2 DEF SetFallback
<1> QED
  BY <1>4, <1>5, <1>6, <1>7, <1>8, <1>9, <1>10, <1>11, <1>12, <1>13, <1>14 DEF QuietStep

\* Each writer's steps, by what they touch.
LEMMA WriterSteps ==
  ASSUME NEW o \in Writers, WriterStep(o)
  PROVE  \/ QuietStep(o) \/ Construct(o) \/ Rename(o) \/ CopyAttributes(o)
         \/ CopyAttributesFails(o) \/ RemoveTemp(o) \/ Destroy(o)
         \/ \E to \in Writers : MoveConstruct(o, to) \/ MoveAssign(o, to)
BY DEF WriterStep, CommitStep, QuietStep

\* Nor by any other step but those of preserve_attributes.
LEMMA OthersStay ==
  ASSUME TypeOK, OwnInv, NEW o \in Writers, WriterStep(o), ~ CopyAttributes(o)
  PROVE  Stay
<1>0. obj[o] \in Objects
  BY ObjectFacts
<1>1. CASE QuietStep(o)
  <2>1. CASE ConstructFails(o)
    BY <2>1 DEF ConstructFails, Stay
  <2>2. CASE ~ ConstructFails(o)
    BY <1>1, <2>2, QuietObject, StayOne
  <2> QED
    BY <2>1, <2>2
<1>2. CASE Construct(o)
  <2>1. PICK s : s = count.sessions + 1
    OBVIOUS
  <2>2. [NoObject EXCEPT !.pc = "idle", !.ses = s, !.handle = s].pc \notin Copying
    BY DEF NoObject, Copying
  <2> QED
    BY <1>2, <2>1, <2>2, StayOne DEF Construct
<1>3. CASE Rename(o) \/ RemoveTemp(o)
  <2>1. [obj[o] EXCEPT !.pc = "dirsync", !.st = NewFile].pc \notin Copying
    BY <1>0 DEF Objects, Copying
  <2> QED
    BY <1>3, <2>1, StayOne DEF Rename, RemoveTemp, Goto
<1>4. CASE CopyAttributesFails(o)
  <2>1. [obj[o] EXCEPT !.pc = "idle", !.st = NewFile].pc \notin Copying
    BY <1>0 DEF Objects, Copying
  <2> QED
    BY <1>4, <2>1, StayOne DEF CopyAttributesFails, Throw, Goto
<1>5. CASE Destroy(o)
  <2>1. NoObject.pc \notin Copying
    BY DEF NoObject, Copying
  <2> QED
    BY <1>5, <2>1, StayOne DEF Destroy
<1>6. ASSUME NEW to \in Writers, MoveConstruct(o, to) \/ MoveAssign(o, to) PROVE Stay
  <2>1. o # to /\ obj[o].pc = "idle"
    BY <1>6 DEF MoveConstruct, MoveAssign, At
  <2>2. MovedFrom(obj[o]).pc = "idle"
    BY <1>0, <2>1 DEF MovedFrom, Objects
  <2>3. /\ obj'[to] = obj[o] /\ obj'[o] = MovedFrom(obj[o])
        /\ \A q \in Writers \ {o, to} : obj'[q] = obj[q]
    BY <1>6, <2>1 DEF MoveConstruct, MoveAssign, MoveMembers, TypeOK
  <2> QED
    BY <2>1, <2>2, <2>3 DEF Stay, Copying
<1> QED
  BY <1>1, <1>2, <1>3, <1>4, <1>5, <1>6, WriterSteps

\* So the target keeps a mode of its owner's.
LEMMA QuietModed ==
  ASSUME TypeOK, TargetModed, Stay, NEW o \in Writers, QuietStep(o)
  PROVE  TargetModed'
BY QuietFiles, ModeSame, ObjectFacts

-----------------------------------------------------------------------------
(* What objects work on.                                                   *)

\* A step of one object that takes up no temp, and removes the name of its
\* own at most, when it is done with it.
LEMMA LinkedKept ==
  ASSUME TypeOK, LinkedInv, NEW o \in Writers, NEW r, Become(o, r), counter' = counter,
         Works(r) => Works(obj[o]) /\ r.ses = obj[o].ses,
         \A t \in Temps : dir'[t] = dir[t] \/ (t = Temp(o) /\ Works(obj[o]) /\ ~ Works(r)),
         \A s \in 0 .. MaxSessions : ses'[s].ino = ses[s].ino /\ ses'[s].temp = ses[s].temp
  PROVE  LinkedInv'
<1>1. obj'[o] = r /\ \A q \in Writers \ {o} : obj'[q] = obj[q]
  BY OneObject
<1>2. ASSUME NEW q \in Writers, Works(obj'[q])
      PROVE  /\ Works(obj[q]) /\ Temp(q)' = Temp(q) /\ Ino(q)' = Ino(q)
             /\ dir'[Temp(q)] = dir[Temp(q)]
  <2>1. Works(obj[q]) /\ obj'[q].ses = obj[q].ses /\ (q = o => Works(r))
    BY <1>1, <1>2
  <2>2. Temp(q)' = Temp(q) /\ Ino(q)' = Ino(q)
    BY <2>1, ObjectFacts DEF Temp, Ino
  <2>3. Temp(q) \in Temps
    BY <2>1 DEF LinkedInv, Placed
  <2>4. Temp(q) = Temp(o) /\ Works(obj[o]) => q = o
    BY <2>1 DEF LinkedInv
  <2> QED
    BY <2>1, <2>2, <2>3, <2>4
<1>3. ASSUME NEW q \in Writers, Works(obj'[q]) PROVE Placed(q)'
  <2>1. Placed(q)
    BY <1>2, <1>3 DEF LinkedInv
  <2> QED
    BY <1>2, <1>3, <2>1 DEF Placed
<1> QED
  BY <1>2, <1>3 DEF LinkedInv

\* A constructor takes a name that no object has: its process has not drawn it before.
LEMMA ConstructLinked ==
  ASSUME TypeOK, OwnInv, LinkedInv, NEW o \in Writers, Construct(o)
  PROVE  LinkedInv'
<1> PICK s : s = count.sessions + 1
  OBVIOUS
<1> PICK p : p = Home[o]
  OBVIOUS
<1> PICK t : t = TempName(p)
  OBVIOUS
<1> PICK i : i = IF Exists(t) THEN dir[t] ELSE s
  OBVIOUS
<1> PICK r : r = [NoObject EXCEPT !.pc = "idle", !.ses = s, !.handle = s]
  OBVIOUS
<1>1. /\ Become(o, r) /\ s \in Sessions /\ t \in Temps /\ counter' = [counter EXCEPT ![p] = @ + 1]
      /\ dir' = IF Exists(t) THEN dir ELSE [dir EXCEPT ![t] = s]
      /\ ses' = [ses EXCEPT ![s] = [@ EXCEPT !.temp = t, !.want = 0, !.ino = i]]
  BY DEF Construct, OpenTemp, OpenTrunc, SetDir, Drawn
<1>2. r.ses = s /\ t[1] = p /\ t[2] = counter[p] /\ t \in Names
  BY <1>1 DEF NoObject, TempName, Names
<1>3. p \in Processes /\ \A q \in Writers : Home[q] \in Processes
  BY WritersAssumption
<1>4. \A x \in Processes : counter[x] \in Nat /\ counter'[x] = IF x = p THEN counter[x] + 1 ELSE counter[x]
  BY <1>1 DEF TypeOK
<1>5. obj'[o] = r /\ \A q \in Writers \ {o} : obj'[q] = obj[q]
  BY <1>1, OneObject
<1>6. /\ ses'[s].temp = t /\ ses'[s].ino = i
      /\ \A x \in 0 .. MaxSessions : x # s => ses'[x] = ses[x]
  BY <1>1 DEF TypeOK, Pasts, Sessions
<1>7. dir'[t] = i /\ \A n \in Names \ {t} : dir'[n] = dir[n]
  BY <1>1, <1>2 DEF TypeOK, FSTypeOK
<1>8. Temp(o)' = t /\ Ino(o)' = i
  BY <1>2, <1>5, <1>6 DEF Temp, Ino
<1>9. \A q \in Writers \ {o} : obj[q].ses \in 0 .. MaxSessions /\ obj[q].ses # s
  <2>1. count.sessions \in Nat
    BY DEF TypeOK, Counts
  <2>2. \A q \in Writers : obj[q].ses \in 0 .. MaxSessions /\ obj[q].ses <= count.sessions
    BY ObjectFacts DEF OwnInv, Own
  <2> QED
    BY <2>1, <2>2
<1>10. ASSUME NEW q \in Writers \ {o}, Works(obj'[q])
       PROVE  Works(obj[q]) /\ Placed(q) /\ Temp(q)' = Temp(q) /\ Ino(q)' = Ino(q) /\ Temp(q) # t
  <2>1. Works(obj[q]) /\ Placed(q)
    BY <1>5, <1>10 DEF LinkedInv
  <2>2. Temp(q)' = Temp(q) /\ Ino(q)' = Ino(q)
    BY <1>5, <1>6, <1>9 DEF Temp, Ino
  <2>3. Temp(q) # t
    <3>1. Temp(q)[1] = Home[q] /\ Temp(q)[2] < counter[Home[q]]
      BY <2>1 DEF Placed
    <3>2. CASE Home[q] = p
      <4>1. counter[p] \in Nat
        BY <1>3, <1>4
      <4> QED
        BY <1>2, <3>1, <3>2, <4>1
    <3>3. CASE Home[q] # p
      BY <1>2, <3>1, <3>3
    <3> QED
      BY <3>2, <3>3
  <2> QED
    BY <2>1, <2>2, <2>3
<1>11. ASSUME NEW q \in Writers, Works(obj'[q]) PROVE Placed(q)'
  <2>1. CASE q = o
    <3>1. t[2] < counter'[p]
      BY <1>2, <1>3, <1>4
    <3> QED
      BY <1>1, <1>2, <1>7, <1>8, <2>1, <3>1 DEF Placed
  <2>2. CASE q # o
    <3>1. Placed(q) /\ Temp(q)' = Temp(q) /\ Ino(q)' = Ino(q) /\ Temp(q) # t
      BY <1>10, <1>11, <2>2
    <3>2. Temp(q) \in Temps /\ dir'[Temp(q)] = dir[Temp(q)]
      BY <1>7, <3>1 DEF Placed, Names
    <3>3. Temp(q)[2] < counter'[Home[q]]
      <4>1. PICK n : n = Temp(q)[2]
        OBVIOUS
      <4>2. n \in Int
        BY <3>2, <4>1 DEF Temps
      <4>3. n < counter[Home[q]]
        BY <3>1, <4>1 DEF Placed
      <4>4. n < counter'[Home[q]]
        BY <1>3, <1>4, <4>2, <4>3
      <4> QED
        BY <4>1, <4>4
    <3> QED
      BY <3>1, <3>2, <3>3 DEF Placed
  <2> QED
    BY <2>1, <2>2
<1>12. ASSUME NEW q \in Writers, NEW x \in Writers, Works(obj'[q]), Works(obj'[x]), q # x
       PROVE  Temp(q)' # Temp(x)'
  <2>1. CASE q = o
    BY <1>8, <1>10, <1>12, <2>1
  <2>2. CASE x = o
    BY <1>8, <1>10, <1>12, <2>2
  <2>3. CASE q # o /\ x # o
    BY <1>10, <1>12, <2>3 DEF LinkedInv
  <2> QED
    BY <2>1, <2>2, <2>3
<1> QED
  BY <1>11, <1>12 DEF LinkedInv

\* A name that is drawn and not used is not drawn again.
LEMMA ConstructFailsLinked ==
  ASSUME TypeOK, LinkedInv, NEW o \in Writers, ConstructFails(o)
  PROVE  LinkedInv'
<1>1. /\ obj' = obj /\ dir' = dir /\ ses' = ses
      /\ counter' = [counter EXCEPT ![Home[o]] = @ + 1]
  BY DEF ConstructFails, Drawn, fsVars
<1>2. \A q \in Writers : Temp(q)' = Temp(q) /\ Ino(q)' = Ino(q)
  BY <1>1 DEF Temp, Ino
<1>3. ASSUME NEW q \in Writers, Placed(q) PROVE Placed(q)'
  <2>1. PICK n : n = Temp(q)[2]
    OBVIOUS
  <2>2. n \in Int /\ n < counter[Home[q]]
    BY <1>3, <2>1 DEF Placed, Temps
  <2>3. Home[q] \in Processes /\ Home[o] \in Processes
    BY WritersAssumption
  <2>4. n < counter'[Home[q]]
    BY <1>1, <2>2, <2>3 DEF TypeOK
  <2> QED
    BY <1>1, <1>2, <1>3, <2>1, <2>4 DEF Placed
<1> QED
  BY <1>1, <1>2, <1>3 DEF LinkedInv

\* A temp changes hands, and one that is let go of is nobody else's.
LEMMA MoveLinked ==
  ASSUME TypeOK, OwnInv, LinkedInv, NEW from \in Writers, NEW to \in Writers,
         MoveConstruct(from, to) \/ MoveAssign(from, to)
  PROVE  LinkedInv'
<1>1. /\ from # to /\ obj[from].pc = "idle" /\ ses' = ses /\ counter' = counter
      /\ Home[from] = Home[to]
  BY DEF MoveConstruct, MoveAssign, MoveMembers, At
<1>2. /\ obj'[to] = obj[from] /\ obj'[from] = MovedFrom(obj[from])
      /\ \A q \in Writers \ {from, to} : obj'[q] = obj[q]
  BY <1>1 DEF MoveConstruct, MoveAssign, MoveMembers, TypeOK
<1>3. ~ Works(MovedFrom(obj[from]))
  BY <1>1, ObjectFacts DEF Works, MovedFrom, Objects
<1>4. dir' = dir \/ (Works(obj[to]) /\ dir' = [dir EXCEPT ![Temp(to)] = NoFile])
  BY DEF MoveConstruct, MoveAssign, Discard, RemoveQuietly, Unlink, SetDir, Uncommitted, Works, fsVars
<1>5. ASSUME NEW q \in Writers, Works(obj'[q])
      PROVE  \E p \in Writers : /\ p = IF q = to THEN from ELSE q
                                /\ p # to /\ Works(obj[p]) /\ Placed(p) /\ Home[p] = Home[q]
                                /\ Temp(q)' = Temp(p) /\ Ino(q)' = Ino(p)
                                /\ dir'[Temp(p)] = dir[Temp(p)]
  <2>1. PICK p \in Writers : p = IF q = to THEN from ELSE q
    OBVIOUS
  <2>2. p # to /\ obj'[q] = obj[p] /\ Home[p] = Home[q]
    BY <1>1, <1>2, <1>3, <1>5, <2>1
  <2>3. Works(obj[p]) /\ Placed(p)
    BY <1>5, <2>2 DEF LinkedInv
  <2>4. Temp(q)' = Temp(p) /\ Ino(q)' = Ino(p)
    BY <1>1, <2>2 DEF Temp, Ino
  <2>5. Works(obj[to]) => Temp(to) # Temp(p)
    BY <2>2, <2>3 DEF LinkedInv
  <2>6. dir'[Temp(p)] = dir[Temp(p)]
    BY <1>4, <2>3, <2>5 DEF Placed, TypeOK, FSTypeOK, Names
  <2> QED
    BY <2>1, <2>2, <2>3, <2>4, <2>6
<1>6. ASSUME NEW q \in Writers, Works(obj'[q]) PROVE Placed(q)'
  <2>1. PICK p \in Writers : /\ Placed(p) /\ Home[p] = Home[q] /\ Temp(q)' = Temp(p) /\ Ino(q)' = Ino(p)
                             /\ dir'[Temp(p)] = dir[Temp(p)]
    BY <1>5, <1>6
  <2> QED
    BY <1>1, <2>1 DEF Placed
<1>7. ASSUME NEW q \in Writers, NEW x \in Writers, Works(obj'[q]), Works(obj'[x]), q # x
      PROVE  Temp(q)' # Temp(x)'
  <2>1. PICK p \in Writers : /\ p = (IF q = to THEN from ELSE q)
                             /\ p # to /\ Works(obj[p]) /\ Temp(q)' = Temp(p)
    BY <1>5, <1>7
  <2>2. PICK y \in Writers : /\ y = (IF x = to THEN from ELSE x)
                             /\ y # to /\ Works(obj[y]) /\ Temp(x)' = Temp(y)
    BY <1>5, <1>7
  <2>3. q # from /\ x # from
    BY <1>2, <1>3, <1>7
  <2>4. p # y
    BY <1>7, <2>1, <2>2, <2>3
  <2> QED
    BY <2>1, <2>2, <2>4 DEF LinkedInv
<1> QED
  BY <1>6, <1>7 DEF LinkedInv

\* Who dies works on nothing, whatever a crash makes of the directory; the
\* others' processes go on counting.
LEMMA DieLinked ==
  ASSUME TypeOK, LinkedInv, NEW ps, Die(ps), dir' = dir \/ ps = Processes
  PROVE  LinkedInv'
<1>1. ~ Works(NoObject)
  BY DEF Works, NoObject
<1>2. ASSUME NEW q \in Writers, Works(obj'[q])
      PROVE  /\ Works(obj[q]) /\ Temp(q)' = Temp(q) /\ Ino(q)' = Ino(q)
             /\ dir' = dir /\ counter'[Home[q]] = counter[Home[q]]
  <2>1. Home[q] \in Processes /\ Home[q] \notin ps /\ obj'[q] = obj[q]
    BY <1>1, <1>2, WritersAssumption DEF Die
  <2>2. ses' = ses /\ counter'[Home[q]] = counter[Home[q]] /\ dir' = dir
    BY <2>1 DEF Die
  <2> QED
    BY <1>2, <2>1, <2>2 DEF Temp, Ino
<1>3. ASSUME NEW q \in Writers, Works(obj'[q]) PROVE Placed(q)'
  <2>1. Placed(q)
    BY <1>2, <1>3 DEF LinkedInv
  <2> QED
    BY <1>2, <1>3, <2>1 DEF Placed
<1> QED
  BY <1>2, <1>3 DEF LinkedInv

\* The steps of commit() and of the destructor that touch names or attributes.
LEMMA TouchLinked ==
  ASSUME TypeOK, OwnInv, LinkedInv, NEW o \in Writers,
         \/ CopyAttributes(o) \/ CopyAttributesFails(o) \/ Rename(o) \/ RemoveTemp(o) \/ Destroy(o)
  PROVE  LinkedInv'
<1>0. obj[o] \in Objects /\ Target \notin Temps
  BY ObjectFacts, TargetAssumption
<1> DEFINE Same == \A s \in 0 .. MaxSessions : ses'[s].ino = ses[s].ino /\ ses'[s].temp = ses[s].temp
<1>1. ses' = ses => Same
  OBVIOUS
<1> HIDE DEF Same
<1>2. CASE CopyAttributes(o)
  <2>1. PICK r \in Objects : Become(o, r) /\ r.ses = obj[o].ses
    BY <1>2, CopyAttributesSteps
  <2>2. Works(obj[o])
    BY <1>2, CopyAttributesSteps DEF Works
  <2>3. dir' = dir /\ counter' = counter /\ Same
    BY <1>1, <1>2, CopyAttributesSteps DEF SetAttributes, fsVars
  <2> QED
    BY <2>1, <2>2, <2>3, LinkedKept DEF Same
<1>3. CASE CopyAttributesFails(o)
  <2>1. PICK r : r = [obj[o] EXCEPT !.pc = "idle", !.st = NewFile]
    OBVIOUS
  <2>2. Become(o, r) /\ Works(obj[o]) /\ r.ses = obj[o].ses
    BY <1>0, <1>3, <2>1 DEF CopyAttributesFails, At, Throw, Goto, Works, Objects
  <2>3. dir' = dir /\ counter' = counter
    BY <1>3 DEF CopyAttributesFails, SetAttributes, fsVars
  <2>4. Same
    BY <1>3, ThrowKeepsPasts DEF CopyAttributesFails, SamePasts, Same
  <2> QED
    BY <2>2, <2>3, <2>4, LinkedKept DEF Same
<1>4. CASE Rename(o)
  <2>1. PICK r : r = [obj[o] EXCEPT !.pc = "dirsync", !.st = NewFile]
    OBVIOUS
  <2>2. Become(o, r) /\ Works(obj[o]) /\ r.ses = obj[o].ses /\ r.pc = "dirsync" /\ r.handle = obj[o].handle
    BY <1>0, <1>4, <2>1 DEF Rename, At, Goto, Works, Objects
  <2>3. counter' = counter /\ Same
    BY <1>4 DEF Rename, Put, TypeOK, Pasts, Same
  <2>4. \A t \in Temps : dir'[t] = dir[t] \/ t = Temp(o)
    BY <1>0, <1>4 DEF Rename, RenameToTarget, TypeOK, FSTypeOK, Names
  <2>5. ~ Works(r)
    BY <2>2, <1>4 DEF OwnInv, Own, Rename, At, Works
  <2> QED
    BY <2>2, <2>3, <2>4, <2>5, LinkedKept DEF Same
<1>5. CASE RemoveTemp(o)
  <2>1. PICK r : r = [obj[o] EXCEPT !.pc = "dirsync", !.st = NewFile]
    OBVIOUS
  <2>2. Become(o, r) /\ Works(obj[o]) /\ r.ses = obj[o].ses /\ r.pc = "dirsync" /\ r.handle = obj[o].handle
    BY <1>0, <1>5, <2>1 DEF RemoveTemp, At, Goto, Works, Objects
  <2>3. counter' = counter /\ Same
    BY <1>1, <1>5 DEF RemoveTemp
  <2>4. \A t \in Temps : dir'[t] = dir[t] \/ t = Temp(o)
    BY <1>5 DEF RemoveTemp, Unlink, SetDir, fsVars, TypeOK, FSTypeOK, Names
  <2>5. ~ Works(r)
    BY <2>2, <1>5 DEF OwnInv, Own, RemoveTemp, At, Works
  <2> QED
    BY <2>2, <2>3, <2>4, <2>5, LinkedKept DEF Same
<1>6. CASE Destroy(o)
  <2>1. Become(o, NoObject) /\ counter' = counter /\ Same
    BY <1>1, <1>6 DEF Destroy
  <2>2. ~ Works(NoObject)
    BY DEF Works, NoObject
  <2>3. \A t \in Temps : dir'[t] = dir[t] \/ (t = Temp(o) /\ Works(obj[o]))
    BY <1>6 DEF Destroy, Discard, RemoveQuietly, Unlink, SetDir, Uncommitted, Works, fsVars, TypeOK, FSTypeOK, Names
  <2> QED
    BY <2>1, <2>2, <2>3, LinkedKept DEF Same
<1> QED
  BY <1>2, <1>3, <1>4, <1>5, <1>6

\* The steps that touch neither leave it alone.
LEMMA QuietLinked ==
  ASSUME TypeOK, OwnInv, LinkedInv, NEW o \in Writers, QuietStep(o)
  PROVE  LinkedInv'
<1>1. CASE ConstructFails(o)
  BY <1>1, ConstructFailsLinked
<1>2. CASE ~ ConstructFails(o)
  <2>1. PICK r : Become(o, r) /\ r.ses = obj[o].ses /\ (Works(r) => Works(obj[o]))
    BY <1>2, QuietObject
  <2>2. /\ counter' = counter /\ dir' = dir
        /\ \A s \in 0 .. MaxSessions : ses'[s].ino = ses[s].ino /\ ses'[s].temp = ses[s].temp
    BY <1>2, QuietObject, QuietFiles
  <2> QED
    BY <2>1, <2>2, LinkedKept
<1> QED
  BY <1>1, <1>2

\* LinkedInv is inductive, with what objects own, whatever fails.
LEMMA LinkedStep == TypeOK /\ OwnInv /\ LinkedInv /\ [Next]_vars => LinkedInv'
<1> SUFFICES ASSUME TypeOK, OwnInv, LinkedInv, [Next]_vars PROVE LinkedInv'
  OBVIOUS
<1>1. ASSUME NEW o \in Writers, WriterStep(o) PROVE LinkedInv'
  <2>1. CASE QuietStep(o)
    BY <2>1, QuietLinked
  <2>2. CASE Construct(o)
    BY <2>2, ConstructLinked
  <2>3. CASE \/ CopyAttributes(o) \/ CopyAttributesFails(o) \/ Rename(o) \/ RemoveTemp(o) \/ Destroy(o)
    BY <2>3, TouchLinked
  <2>4. CASE \E to \in Writers : MoveConstruct(o, to) \/ MoveAssign(o, to)
    BY <2>4, MoveLinked
  <2> QED
    BY <1>1, <2>1, <2>2, <2>3, <2>4, WriterSteps
<1>2. CASE \E p \in Processes : Kill(p)
  BY <1>2, DieLinked DEF Kill, fsVars
<1>3. CASE Crash
  BY <1>3, DieLinked DEF Crash
<1>4. CASE UNCHANGED vars \/ \E mode \in {"user", "ro"} : UserChmod(mode)
  <2>1. obj' = obj /\ dir' = dir /\ ses' = ses /\ counter' = counter
    BY <1>4 DEF vars, fsVars, writerVars, UserChmod, SetAttributes
  <2> QED
    BY <2>1 DEF LinkedInv, Placed, Temp, Ino
<1> QED
  BY <1>1, <1>2, <1>3, <1>4 DEF Next

\* In the beginning there is no object.
LEMMA LinkedInit == Init => LinkedInv
BY DEF Init, NoObject, LinkedInv, Works

-----------------------------------------------------------------------------
(* What the target shows.                                                  *)

\* What stat returns is the target's mode, and that is what the temp is given.
LEMMA CopyAttributesModed ==
  ASSUME TypeOK, TargetModed, NEW o \in Writers, CopyAttributes(o)
  PROVE  TargetModed'
<1>0. obj[o] \in Objects /\ Ino(o) \in Inodes /\ attr[Ino(o)] \in Attributes
  BY ObjectFacts
<1>1. dir' = dir /\ ses' = ses /\ dir[Target] \in Inodes
  <2>1. dir' = dir /\ ses' = ses
    BY CopyAttributesSteps DEF SetAttributes, fsVars
  <2> QED
    BY <2>1 DEF TargetModed, Exists, TypeOK, FSTypeOK, Names
<1>2. ASSUME NEW r, Become(o, r), r.ses = obj[o].ses,
             \A i \in Inodes : attr[i].mode # "default" => attr'[i].mode # "default",
             r.pc = "chmod" => r.st.mode # "default",
             r.pc \in {"chown", "replace"} => attr'[Ino(o)].mode # "default"
      PROVE  TargetModed'
  <2>1. obj'[o] = r /\ \A q \in Writers \ {o} : obj'[q] = obj[q]
    BY <1>2, OneObject
  <2>2. \A q \in Writers : Ino(q)' = Ino(q) /\ Ino(q) \in Inodes
    BY <1>1, <1>2, <2>1, ObjectFacts DEF Ino
  <2> QED
    BY <1>1, <1>2, <2>1, <2>2 DEF TargetModed, Exists
<1>3. /\ [obj[o] EXCEPT !.pc = "replace", !.st = NewFile].pc = "replace"
      /\ [obj[o] EXCEPT !.pc = "replace", !.st = NewFile].ses = obj[o].ses
      /\ [obj[o] EXCEPT !.pc = "chown"].pc = "chown"
      /\ [obj[o] EXCEPT !.pc = "chown"].ses = obj[o].ses
  BY <1>0 DEF Objects
<1>4. CASE StatTarget(o)
  <2>1. PICK r : r = [obj[o] EXCEPT !.pc = "chmod", !.st = attr[dir[Target]]]
    OBVIOUS
  <2>2. r.pc = "chmod" /\ r.ses = obj[o].ses /\ r.st = attr[dir[Target]]
    BY <1>0, <2>1 DEF Objects
  <2>3. Become(o, r) /\ attr' = attr
    BY <1>4, <2>1 DEF StatTarget, TargetModed, fsVars
  <2> QED
    BY <1>2, <2>2, <2>3 DEF TargetModed
<1>5. CASE ChmodTemp(o)
  <2>1. obj[o].st.mode # "default"
    BY <1>5 DEF ChmodTemp, At, TargetModed
  <2>2. attr'[Ino(o)].mode # "default" /\ \A i \in Inodes \ {Ino(o)} : attr'[i] = attr[i]
    <3>1. [attr[Ino(o)] EXCEPT !.mode = obj[o].st.mode].mode = obj[o].st.mode
      BY <1>0 DEF Attributes
    <3> QED
      BY <1>0, <1>5, <2>1, <3>1 DEF ChmodTemp, SetAttributes, TypeOK, FSTypeOK
  <2>3. \A i \in Inodes : attr[i].mode # "default" => attr'[i].mode # "default"
    BY <2>2
  <2> QED
    BY <1>2, <1>3, <1>5, <2>2, <2>3 DEF ChmodTemp, Goto
<1>6. CASE ChownTemp(o)
  <2>1. attr[Ino(o)].mode # "default"
    BY <1>6 DEF ChownTemp, At, TargetModed
  <2>2. \A i \in Inodes : attr'[i].mode = attr[i].mode
    <3>1. [attr[Ino(o)] EXCEPT !.owner = obj[o].st.owner].mode = attr[Ino(o)].mode
      BY <1>0 DEF Attributes
    <3> QED
      BY <1>0, <1>6, <3>1 DEF ChownTemp, SetAttributes, TypeOK, FSTypeOK, fsVars
  <2> QED
    BY <1>0, <1>2, <1>3, <1>6, <2>1, <2>2 DEF ChownTemp, Goto
<1> QED
  BY <1>4, <1>5, <1>6 DEF CopyAttributes

\* A commit that fails at it has not touched the target.
LEMMA CopyAttributesFailsModed ==
  ASSUME TypeOK, TargetModed, Stay, NEW o \in Writers, CopyAttributesFails(o)
  PROVE  TargetModed'
<1>1. attr' = attr /\ dir' = dir /\ \A s \in 0 .. MaxSessions : ses'[s].ino = ses[s].ino
  BY ThrowKeepsPasts DEF CopyAttributesFails, SamePasts, fsVars
<1> QED
  BY <1>1, ModeSame, ObjectFacts

\* The rename links the target to a file with such a mode.
LEMMA RenameModed ==
  ASSUME TypeOK, LinkedInv, TargetModed, Stay, NEW o \in Writers, Rename(o)
  PROVE  TargetModed'
<1>1. obj[o].pc = "replace" /\ Placed(o) /\ Ino(o) \in Inodes
  BY ObjectFacts DEF Rename, At, Works, LinkedInv
<1>2. Temp(o) \in Names /\ Target \in Names /\ Temp(o) # Target
  BY <1>1, TargetAssumption DEF Placed, Names
<1>3. dir'[Target] = Ino(o) /\ attr' = attr
  BY <1>1, <1>2 DEF Rename, RenameToTarget, Placed, TypeOK, FSTypeOK
<1>4. \A s \in 0 .. MaxSessions : ses'[s].ino = ses[s].ino
  BY DEF Rename, Put, TypeOK, Pasts
<1>5. \A q \in Writers : obj'[q].pc \in Copying => Ino(q)' = Ino(q)
  BY <1>4, ObjectFacts DEF Stay, Ino
<1> QED
  BY <1>1, <1>3, <1>5, SessionsAssumption DEF TargetModed, Stay, Copying, Exists, Inodes, NoFile

\* A new temp is neither the target nor about to be renamed.
LEMMA ConstructModed ==
  ASSUME TypeOK, OwnInv, TargetModed, Stay, NEW o \in Writers, Construct(o)
  PROVE  TargetModed'
<1> DEFINE s == count.sessions + 1
           name == TempName(Home[o])
<1>1. count.sessions \in Nat /\ name \in Temps /\ name # Target
  BY TargetAssumption DEF Construct, TypeOK, Counts
<1>2. attr' = attr /\ dir'[Target] = dir[Target]
  BY <1>1 DEF Construct, OpenTemp, OpenTrunc, SetDir, TypeOK, FSTypeOK, Names
<1>3. \A x \in 0 .. MaxSessions : x # s => ses'[x] = ses[x]
  BY DEF Construct, TypeOK, Pasts
<1>4. \A q \in Writers : obj[q].ses \in 0 .. MaxSessions /\ obj[q].ses # s
  BY <1>1, ObjectFacts DEF OwnInv, Own
<1> HIDE DEF s
<1> QED
  BY <1>2, <1>3, <1>4, ModeSame

\* Nor is the temp that a destructor removes the target.
LEMMA DiscardModed ==
  ASSUME TypeOK, LinkedInv, NEW o \in Writers, Discard(o)
  PROVE  attr' = attr /\ dir'[Target] = dir[Target]
<1>1. CASE Uncommitted(obj[o])
  <2>1. Temp(o) \in Names /\ Temp(o) # Target
    BY <1>1, TargetAssumption DEF Uncommitted, LinkedInv, Works, Placed, Names
  <2> QED
    BY <1>1, <2>1 DEF Discard, RemoveQuietly, Unlink, SetDir, fsVars, TypeOK, FSTypeOK, Names
<1>2. CASE ~ Uncommitted(obj[o])
  BY <1>2 DEF Discard, fsVars
<1> QED
  BY <1>1, <1>2

\* Destruction and moves.
LEMMA LifeModed ==
  ASSUME TypeOK, LinkedInv, TargetModed, Stay, NEW o \in Writers,
         Destroy(o) \/ \E to \in Writers : MoveConstruct(o, to) \/ MoveAssign(o, to)
  PROVE  TargetModed'
<1>1. ses' = ses
  BY DEF Destroy, MoveConstruct, MoveAssign, MoveMembers
<1>2. attr' = attr /\ dir'[Target] = dir[Target]
  BY DiscardModed DEF Destroy, MoveConstruct, MoveAssign, fsVars
<1> QED
  BY <1>1, <1>2, ModeSame

\* Nor is the temp that a fallback copy removes.
LEMMA RemoveTempModed ==
  ASSUME TypeOK, LinkedInv, TargetModed, Stay, NEW o \in Writers, RemoveTemp(o)
  PROVE  TargetModed'
<1>1. Temp(o) \in Names /\ Temp(o) # Target
  BY TargetAssumption DEF RemoveTemp, At, Works, LinkedInv, Placed, Names
<1>2. attr' = attr /\ dir'[Target] = dir[Target] /\ ses' = ses
  BY <1>1 DEF RemoveTemp, Unlink, SetDir, fsVars, TypeOK, FSTypeOK, Names
<1> QED
  BY <1>2, ModeSame

\* A process that dies leaves the files, and the other objects, as they are.
LEMMA KillModed ==
  ASSUME TypeOK, NEW p \in Processes, Kill(p)
  PROVE  Stay /\ (TargetModed => TargetModed')
<1>1. attr' = attr /\ dir' = dir /\ ses' = ses
  BY DEF Kill, Die, fsVars
<1>2. NoObject.pc \notin Copying
  BY DEF NoObject, Copying
<1>3. \A q \in Writers : obj'[q] = NoObject \/ obj'[q] = obj[q]
  BY DEF Kill, Die
<1>4. Stay
  BY <1>2, <1>3 DEF Stay
<1> QED
  BY <1>1, <1>4, ModeSame

-----------------------------------------------------------------------------
\* Where everybody has the default mode, nobody can be given another one.
LEMMA DefaultSame ==
  ASSUME TypeOK, AllDefault, Stay, attr' = attr, dir' = dir, count'.sessions = count.sessions,
         \A s \in 0 .. MaxSessions : ses'[s].ino = ses[s].ino
  PROVE  AllDefault'
BY DEF AllDefault, Sessions, Stay, Copying

\* A new file has the default mode.
LEMMA ConstructDefault ==
  ASSUME TypeOK, AllDefault, Stay, NEW o \in Writers, Construct(o)
  PROVE  AllDefault'
<1> DEFINE s == count.sessions + 1
           name == TempName(Home[o])
<1>1. count.sessions \in Nat /\ s \in Sessions /\ s # 0 /\ name \in Names /\ count'.sessions = s
  BY DEF Construct, TypeOK, Counts, Names, Sessions
<1>2. attr' = attr /\ dir' = IF Exists(name) THEN dir ELSE [dir EXCEPT ![name] = s]
  BY DEF Construct, OpenTemp, OpenTrunc, SetDir
<1>3. \A x \in Sessions : x # s => ses'[x] = ses[x]
  BY DEF Construct, TypeOK, Pasts, Sessions
<1>4. ses'[s].ino = IF Exists(name) THEN dir[name] ELSE s
  BY <1>1 DEF Construct, TypeOK, Pasts, Sessions
<1>5. \A n \in Names : dir'[n] # 0
  BY <1>1, <1>2 DEF AllDefault, TypeOK, FSTypeOK
<1>6. ses'[s].ino # 0
  BY <1>1, <1>4 DEF AllDefault
<1>7. \A x \in Sessions : x <= s => x = s \/ x <= count.sessions
  BY <1>1 DEF Sessions
<1> HIDE DEF s
<1> QED
  BY <1>1, <1>2, <1>3, <1>5, <1>6, <1>7 DEF AllDefault, Stay, Copying

\* So has the file that is renamed.
LEMMA RenameDefault ==
  ASSUME TypeOK, AllDefault, Stay, NEW o \in Writers, Rename(o)
  PROVE  AllDefault'
<1>1. Temp(o) \in Names /\ Target \in Names
  BY ObjectFacts DEF Names
<1>2. attr' = attr /\ \A n \in Names : dir'[n] # 0
  BY <1>1 DEF Rename, RenameToTarget, AllDefault, TypeOK, FSTypeOK, NoFile
<1>3. \A s \in 0 .. MaxSessions : ses'[s].ino = ses[s].ino
  BY DEF Rename, Put, TypeOK, Pasts
<1>4. count'.sessions = count.sessions
  BY DEF Rename, Put, TypeOK, Counts
<1> QED
  BY <1>2, <1>3, <1>4 DEF AllDefault, Stay, Copying, Sessions

\* What is copied is the default mode.
LEMMA CopyAttributesDefault ==
  ASSUME TypeOK, AllDefault, NEW o \in Writers, CopyAttributes(o)
  PROVE  AllDefault'
<1>0. obj[o] \in Objects /\ Ino(o) \in Inodes /\ attr[Ino(o)] \in Attributes
  BY ObjectFacts
<1>1. dir' = dir /\ ses' = ses /\ count' = count
  BY CopyAttributesSteps DEF SetAttributes, fsVars
<1>2. ASSUME NEW r, Become(o, r), r.pc = "chmod" => r.st.mode = "default",
             \A i \in Inodes : i # 0 => attr'[i].mode = "default"
      PROVE  AllDefault'
  <2>1. obj'[o] = r /\ \A q \in Writers \ {o} : obj'[q] = obj[q]
    BY <1>2, OneObject
  <2> QED
    BY <1>1, <1>2, <2>1 DEF AllDefault
<1>3. /\ [obj[o] EXCEPT !.pc = "replace", !.st = NewFile].pc = "replace"
      /\ [obj[o] EXCEPT !.pc = "chown"].pc = "chown"
  BY <1>0 DEF Objects
<1>4. CASE StatTarget(o)
  <2>1. attr' = attr
    BY <1>4 DEF StatTarget, fsVars
  <2>2. CASE Exists(Target)
    <3>1. PICK r : r = [obj[o] EXCEPT !.pc = "chmod", !.st = attr[dir[Target]]]
      OBVIOUS
    <3>2. r.st = attr[dir[Target]]
      BY <1>0, <3>1 DEF Objects
    <3>3. dir[Target] \in Inodes /\ dir[Target] # 0
      BY <2>2 DEF AllDefault, Exists, TypeOK, FSTypeOK, Names
    <3> QED
      BY <1>2, <1>4, <2>1, <2>2, <3>1, <3>2, <3>3 DEF StatTarget, AllDefault
  <2>3. CASE ~ Exists(Target)
    BY <1>2, <1>3, <1>4, <2>1, <2>3 DEF StatTarget, Goto, AllDefault
  <2> QED
    BY <2>2, <2>3
<1>5. CASE ChmodTemp(o)
  <2>1. [attr[Ino(o)] EXCEPT !.mode = obj[o].st.mode].mode = "default"
    BY <1>0, <1>5 DEF ChmodTemp, At, AllDefault, Attributes
  <2>2. \A i \in Inodes : i # 0 => attr'[i].mode = "default"
    BY <1>0, <1>5, <2>1 DEF ChmodTemp, SetAttributes, AllDefault, TypeOK, FSTypeOK
  <2> QED
    BY <1>2, <1>3, <1>5, <2>2 DEF ChmodTemp, Goto
<1>6. CASE ChownTemp(o)
  <2>1. [attr[Ino(o)] EXCEPT !.owner = obj[o].st.owner].mode = attr[Ino(o)].mode
    BY <1>0 DEF Attributes
  <2>2. \A i \in Inodes : i # 0 => attr'[i].mode = "default"
    BY <1>0, <1>6, <2>1 DEF ChownTemp, SetAttributes, AllDefault, TypeOK, FSTypeOK, fsVars
  <2> QED
    BY <1>2, <1>3, <1>6, <2>2 DEF ChownTemp, Goto
<1> QED
  BY <1>4, <1>5, <1>6 DEF CopyAttributes

\* A commit that fails at it copies nothing.
LEMMA CopyAttributesFailsDefault ==
  ASSUME TypeOK, AllDefault, Stay, NEW o \in Writers, CopyAttributesFails(o)
  PROVE  AllDefault'
<1>1. /\ attr' = attr /\ dir' = dir /\ count' = count
      /\ \A s \in 0 .. MaxSessions : ses'[s].ino = ses[s].ino
  BY ThrowKeepsPasts DEF CopyAttributesFails, SamePasts, fsVars
<1> QED
  BY <1>1, DefaultSame

\* Removing a name links no name to the old file.
LEMMA LifeDefault ==
  ASSUME TypeOK, AllDefault, Stay, NEW o \in Writers,
         Destroy(o) \/ \E to \in Writers : MoveConstruct(o, to) \/ MoveAssign(o, to)
  PROVE  AllDefault'
<1>1. attr' = attr /\ count' = count /\ ses' = ses
  BY DEF Destroy, MoveConstruct, MoveAssign, MoveMembers, Discard, RemoveQuietly, Unlink, fsVars
<1>2. ASSUME NEW q \in Writers, Discard(q) PROVE \A n \in Names : dir'[n] # 0
  BY <1>2, ObjectFacts DEF Discard, RemoveQuietly, Unlink, SetDir, fsVars, AllDefault, TypeOK,
     FSTypeOK, NoFile
<1>3. dir' = dir => \A n \in Names : dir'[n] # 0
  BY DEF AllDefault
<1>4. \A n \in Names : dir'[n] # 0
  BY <1>2, <1>3 DEF Destroy, MoveConstruct, MoveAssign, fsVars
<1> QED
  BY <1>1, <1>4 DEF AllDefault, Stay, Copying

\* Nor does removing a copied temp.
LEMMA RemoveTempDefault ==
  ASSUME TypeOK, AllDefault, Stay, NEW o \in Writers, RemoveTemp(o)
  PROVE  AllDefault'
<1>1. attr' = attr /\ count' = count /\ ses' = ses
  BY DEF RemoveTemp, Unlink, fsVars
<1>2. \A n \in Names : dir'[n] # 0
  BY ObjectFacts DEF RemoveTemp, Unlink, SetDir, fsVars, AllDefault, TypeOK, FSTypeOK, NoFile
<1> QED
  BY <1>1, <1>2 DEF AllDefault, Stay, Copying

-----------------------------------------------------------------------------
ModeInv == AllDefault \/ TargetModed

\* ModeInv is inductive, and its first case is for ever where it holds.
LEMMA ModeStep ==
  ASSUME "crash" \notin Faults, MaxChmods = 0, TypeOK, OwnInv, LinkedInv, [Next]_vars
  PROVE  (AllDefault => AllDefault') /\ (TargetModed => TargetModed')
<1>1. CASE UNCHANGED vars
  BY <1>1 DEF vars, fsVars, writerVars, AllDefault, TargetModed, Exists, Ino
<1>2. ASSUME NEW o \in Writers, WriterStep(o)
      PROVE  (AllDefault => AllDefault') /\ (TargetModed => TargetModed')
  <2>1. CASE CopyAttributes(o)
    BY <2>1, CopyAttributesDefault, CopyAttributesModed
  <2>2. CASE ~ CopyAttributes(o)
    <3>0. Stay
      BY <1>2, <2>2, OthersStay
    <3>1. CASE QuietStep(o)
      BY <3>0, <3>1, QuietFiles, DefaultSame, QuietModed
    <3>2. CASE Construct(o)
      BY <3>0, <3>2, ConstructDefault, ConstructModed
    <3>3. CASE Rename(o)
      BY <3>0, <3>3, RenameDefault, RenameModed
    <3>4. CASE CopyAttributesFails(o)
      BY <3>0, <3>4, CopyAttributesFailsDefault, CopyAttributesFailsModed
    <3>5. CASE RemoveTemp(o)
      BY <3>0, <3>5, RemoveTempDefault, RemoveTempModed
    <3>6. CASE Destroy(o) \/ \E to \in Writers : MoveConstruct(o, to) \/ MoveAssign(o, to)
      BY <3>0, <3>6, LifeDefault, LifeModed
    <3> QED
      BY <1>2, <2>2, <3>1, <3>2, <3>3, <3>4, <3>5, <3>6, WriterSteps
  <2> QED
    BY <2>1, <2>2
<1>3. ASSUME NEW p \in Processes, Kill(p)
      PROVE  (AllDefault => AllDefault') /\ (TargetModed => TargetModed')
  <2>1. attr' = attr /\ dir' = dir /\ ses' = ses /\ count'.sessions = count.sessions
    BY <1>3 DEF Kill, Die, fsVars, TypeOK, Counts
  <2> QED
    BY <1>3, <2>1, DefaultSame, KillModed
<1>4. ~ Crash /\ \A mode : ~ UserChmod(mode)
  BY DEF Crash, MayFail, UserChmod, TypeOK, Counts
<1> QED
  BY <1>1, <1>2, <1>3, <1>4 DEF Next

\* At the start there is a target with its owner's mode, or none.
LEMMA ModeInit == Init => ModeInv
<1> SUFFICES ASSUME Init PROVE ModeInv
  OBVIOUS
<1>1. PICK i \in {0, NoFile} : dir = [n \in Names |-> IF n = Target THEN i ELSE NoFile]
  BY DEF Init, FSInit
<1>2. \A o \in Writers : obj[o].pc = "none"
  BY DEF Init, NoObject
<1>3. \A j \in Inodes : attr[j].mode = IF j = 0 THEN "user" ELSE "default"
  BY DEF Init, FSInit, OldFile, NewFile
<1>4. CASE i = 0
  <2>1. dir[Target] = 0 /\ 0 \in Inodes
    BY <1>1, <1>4, SessionsAssumption DEF Names, Inodes
  <2> QED
    BY <1>2, <1>3, <2>1 DEF ModeInv, TargetModed, Exists, NoFile
<1>5. CASE i = NoFile
  <2>1. \A s \in Sessions : ~ s <= count.sessions
    BY DEF Init, Sessions
  <2>2. \A n \in Names : dir[n] # 0
    BY <1>1, <1>5 DEF NoFile
  <2> QED
    BY <1>2, <1>3, <2>1, <2>2 DEF ModeInv, AllDefault
<1> QED
  BY <1>1, <1>4, <1>5

(* A target that has a mode of its owner's keeps one, through every        *)
(* interleaving of commits, fallback copies, failures and kills, on either *)
(* system: provided that the power does not fail (the mode is copied after *)
(* the flush, see the run AfwModeCrash), and that the owner changes        *)
(* nothing in the meantime (a mode set between the stat and the rename is  *)
(* lost).                                                                  *)
THEOREM ModeAlwaysKept ==
  ASSUME "crash" \notin Faults, MaxChmods = 0
  PROVE  Spec => ModeKept
<1> DEFINE I == TypeOK /\ OwnInv /\ LinkedInv /\ ModeInv
<1>1. Init => I
  BY TypeInit, OwnInit, LinkedInit, ModeInit
<1>2. I /\ [Next]_vars => I'
  <2> SUFFICES ASSUME I, [Next]_vars PROVE I'
    OBVIOUS
  <2>1. TypeOK' /\ OwnInv' /\ LinkedInv'
    BY TypeStep, OwnStep, LinkedStep
  <2> QED
    BY <2>1, ModeStep DEF ModeInv
<1>3. I /\ [Next]_vars =>
        [Exists(Target) /\ attr[dir[Target]].mode # "default"
           => attr'[dir'[Target]].mode # "default"]_vars
  <2> SUFFICES ASSUME I, [Next]_vars, Exists(Target), attr[dir[Target]].mode # "default"
               PROVE  attr'[dir'[Target]].mode # "default"
    OBVIOUS
  <2>1. ~ AllDefault
    BY DEF AllDefault, TypeOK, FSTypeOK, Exists, Names
  <2>2. TargetModed'
    BY <2>1, ModeStep DEF ModeInv
  <2> QED
    BY <2>2 DEF TargetModed
<1> QED
  BY <1>1, <1>2, <1>3, PTL DEF Spec, ModeKept

-----------------------------------------------------------------------------
(* FallbackWhole.                                                          *)

\* The program has one writer object, which serves session after session.
OneWriter == \A o, q \in Writers : o = q

\* What commit() has told of a session whose temp it still holds or copies.
Untold == {"none", "fsync_temp_failed"}

\* The last who wrote to the target is session s.
Last(s) == Exists(Target) /\ data[dir[Target]].by = s

\* What the object knows of its temp and of the target: until its commit has
\* come to the rename its content is not the target's; then it is, and either
\* a copy of it is on its way or it is whole.
Stands(o) ==
  /\ obj[o].ses \in 1 .. count.sessions /\ Temp(o) \in Temps
  /\ Holds(o) \/ obj[o].pc = "copy" => ses[obj[o].ses].result \in Untold
  /\ Holds(o) => dir[Temp(o)] = Ino(o) /\ data[Ino(o)].by = obj[o].ses /\ ~ Last(obj[o].ses)
  /\ obj[o].pc \in {"fsync", "attributes", "chmod", "chown", "replace"} /\ Holds(o) => Complete(o)
  /\ obj[o].pc = "write" => obj[o].handle # Invalid
  /\ obj[o].pc = "copy" => /\ obj[o].into = dir[Target] /\ Last(obj[o].ses)
                           /\ ses[obj[o].ses].rank # NotPut
  /\ obj[o].pc \in {"remove", "dirsync"} /\ Last(obj[o].ses) => Whole(data[dir[Target]])

\* The names link to different files of sessions that have begun, and the
\* target's content is of such a session.
LinkInv ==
  /\ \A n \in Names : dir[n] <= count.sessions
  /\ \A n, m \in Names : dir[n] = dir[m] /\ dir[n] # NoFile => n = m
  /\ Exists(Target) => data[dir[Target]].by \in 0 .. count.sessions

StandInv == \A o \in Writers : obj[o].pc # "none" => Stands(o)

FallInv == LinkInv /\ StandInv /\ FallbackWhole

\* With one object, only it is changed.
LEMMA OneBecomes ==
  ASSUME OneWriter, TypeOK, NEW o \in Writers, NEW r, Become(o, r)
  PROVE  obj'[o] = r /\ \A q \in Writers : q = o
BY OneObject DEF OneWriter

\* The steps that change neither names nor contents, nor what was asked for.
LEMMA QuietFalls ==
  ASSUME OneWriter, TypeOK, TypeOK', FallInv, NEW o \in Writers, NEW r, Become(o, r), SamePasts,
         dir' = dir, data' = data, count'.sessions = count.sessions,
         \A s \in 0 .. MaxSessions : s # obj[o].ses => ses'[s].result = ses[s].result,
         obj[o].pc # "none", r.pc \notin {"none", "copy"}, r.ses = obj[o].ses,
         r.handle # Invalid \/ r.pc \in {"attributes", "chmod", "chown", "replace"} =>
           Holds(o) /\ ses'[obj[o].ses].result \in Untold,
         r.pc \in {"fsync", "attributes", "chmod", "chown", "replace"} /\ Holds(o) => Complete(o),
         r.pc = "write" => r.handle # Invalid,
         r.pc \in {"remove", "dirsync"} => obj[o].pc = r.pc,
         Last(obj[o].ses) =>
           \/ Whole(data[dir[Target]])
           \/ ses'[obj[o].ses].result \in {"direct_write_failed", "fsync_temp_failed"}
  PROVE  FallInv'
<1> SUFFICES LinkInv' /\ StandInv' /\ FallbackWhole'
  BY DEF FallInv
<1> DEFINE s == obj[o].ses
<1>1. LinkInv /\ Stands(o) /\ FallbackWhole
  BY DEF FallInv, StandInv
<1>2. obj'[o] = r /\ \A q \in Writers : q = o
  BY OneBecomes
<1>3. s \in 0 .. MaxSessions /\ Temp(o)' = Temp(o) /\ Ino(o)' = Ino(o) /\ obj'[o].ses = s
  BY <1>2, ObjectFacts DEF SamePasts, Temp, Ino
<1>4. LinkInv'
  <2>1. \A n \in Names : dir'[n] <= count'.sessions
    BY <1>1 DEF LinkInv
  <2>2. \A n, m \in Names : dir'[n] = dir'[m] /\ dir'[n] # NoFile => n = m
    BY <1>1 DEF LinkInv
  <2>3. Exists(Target)' => data'[dir'[Target]].by \in 0 .. count'.sessions
    BY <1>1 DEF LinkInv, Exists
  <2> QED
    BY Zenon, <2>1, <2>2, <2>3 DEF LinkInv
<1>5. ASSUME NEW c, Whole(c) PROVE Whole(c)'
  BY <1>5, WholeStays DEF SamePasts, Inodes
<1>6. Last(s)' <=> Last(s)
  BY <1>3 DEF Last, Exists
<1>7. StandInv'
  <2>1. Holds(o)' => Holds(o) /\ ses'[s].result \in Untold
    BY <1>2 DEF Holds
  <2>2. Complete(o)' <=> Complete(o)
    BY <1>3 DEF Complete, SamePasts
  <2>3. Stands(o)'
    BY <1>1, <1>2, <1>3, <1>5, <1>6, <2>1, <2>2 DEF Stands
  <2> QED
    BY <1>2, <2>3 DEF StandInv
<1>8. FallbackWhole'
  <2> SUFFICES ASSUME Exists(Target), NEW c, c = data[dir[Target]]
               PROVE  \/ Whole(c)'
                      \/ ses'[c.by].result \in {"direct_write_failed", "fsync_temp_failed"}
                      \/ Abandoned(c.by)'
    BY DEF FallbackWhole, Exists
  <2>1. CASE c.by = s
    <3>1. Whole(c) \/ ses'[s].result \in {"direct_write_failed", "fsync_temp_failed"}
      BY <2>1 DEF Last
    <3> QED
      BY <1>5, <2>1, <3>1
  <2>2. CASE c.by # s
    <3>1. c.by \in 0 .. MaxSessions
      BY <1>1, SessionsAssumption DEF LinkInv, TypeOK, Counts
    <3>2. ~ \E q \in Writers : At(q, "copy") /\ obj[q].ses = c.by
      BY <1>2, <2>2
    <3>3. \/ Whole(c)
          \/ ses[c.by].result \in {"direct_write_failed", "fsync_temp_failed"}
          \/ ses[c.by].result = "none"
      BY <1>1, <3>2 DEF FallbackWhole, Abandoned
    <3>4. \A q \in Writers : obj'[q].ses # c.by
      BY <1>2, <1>3, <2>2
    <3> QED
      BY <1>5, <2>2, <3>1, <3>3, <3>4 DEF Abandoned
  <2> QED
    BY <2>1, <2>2
<1> QED
  BY <1>4, <1>7, <1>8

\* The quiet steps are those of a commit that do not come to the target, and
\* its errors, which its caller is told.
LEMMA QuietStepsFall ==
  ASSUME OneWriter, TypeOK, TypeOK', OwnInv, FallInv, NEW o \in Writers,
         \/ WriteFails(o) \/ BeginCommit(o) \/ SyncTemp(o) \/ SyncTempFails(o)
         \/ CopyAttributes(o) \/ CopyAttributesFails(o) \/ RenameFails(o)
         \/ RenameCrossesFilesystems(o) \/ CopyFails(o) \/ SyncDir(o) \/ SyncDirFails(o)
         \/ \E enabled \in BOOLEAN : SetFallback(o, enabled)
  PROVE  FallInv'
<1> DEFINE s == obj[o].ses
           Told == {"direct_write_failed", "fsync_temp_failed"}
<1>1. obj[o] \in Objects /\ s \in 0 .. MaxSessions
  BY ObjectFacts
<1>2. count' = count /\ dir' = dir /\ data' = data
  <2>1. CASE CopyAttributes(o)
    BY <2>1, CopyAttributesSteps DEF SetAttributes, fsVars
  <2>2. CASE ~ CopyAttributes(o)
    BY <2>2 DEF WriteFails, BeginCommit, SyncTemp, SyncTempFails, CopyAttributesFails,
       RenameFails, RenameCrossesFilesystems, CopyFails, SyncDir, SyncDirFails, SetFallback, fsVars,
       Fsync, FsyncError, FsyncDir
  <2> QED
    BY <2>1, <2>2
<1>3. ASSUME obj[o].pc # "none"
      PROVE  /\ Stands(o)
             /\ Last(s) /\ obj[o].pc # "copy" => Whole(data[dir[Target]]) \/ ses[s].result \in Told
  <2>1. Stands(o) /\ FallbackWhole
    BY <1>3 DEF FallInv, StandInv
  <2>2. \A q \in Writers : q = o
    BY DEF OneWriter
  <2> QED
    BY <1>3, <2>1, <2>2 DEF FallbackWhole, Abandoned, Last, At
<1>17. obj[o].pc # "none" /\ Holds(o) => ses[s].result \in Untold
  BY <1>3 DEF Stands
<1>18. obj[o].pc \in {"attributes", "chmod", "chown", "replace", "copy", "dirsync"} => obj[o].handle = Invalid
  BY DEF OwnInv, Own
<1>4. CASE WriteFails(o)
  <2> DEFINE r == [obj[o] EXCEPT !.pc = "idle", !.left = 0]
  <2>1. r.pc = "idle" /\ r.ses = s /\ r.handle = obj[o].handle
    BY <1>1 DEF Objects
  <2>2. Become(o, r) /\ ses' = ses /\ obj[o].pc = "write"
    BY <1>4 DEF WriteFails, At
  <2> HIDE DEF r
  <2> QED
    BY <1>1, <1>2, <1>3, <1>17, <2>1, <2>2, QuietFalls DEF Holds, SamePasts
<1>5. CASE BeginCommit(o)
  <2> DEFINE r == [obj[o] EXCEPT !.pc = "fsync", !.st = NewFile]
  <2>1. r.pc = "fsync" /\ r.ses = s /\ r.handle = obj[o].handle
    BY <1>1 DEF Objects
  <2>2. Become(o, r) /\ ses' = ses /\ obj[o].pc = "idle" /\ Complete(o)
    BY <1>5 DEF BeginCommit, At, Goto
  <2> HIDE DEF r
  <2> QED
    BY <1>1, <1>2, <1>3, <1>17, <2>1, <2>2, QuietFalls DEF Holds, SamePasts
<1>6. CASE SyncTemp(o)
  <2> DEFINE r == [obj[o] EXCEPT !.pc = "attributes", !.handle = Invalid]
  <2>1. r.pc = "attributes" /\ r.ses = s /\ r.handle = Invalid
    BY <1>1 DEF Objects
  <2>2. Become(o, r) /\ ses' = ses /\ obj[o].pc = "fsync" /\ Holds(o)
    BY <1>6 DEF SyncTemp, At, Holds
  <2>3. Complete(o)
    BY <1>3, <2>2 DEF Stands
  <2> HIDE DEF r
  <2> QED
    BY <1>1, <1>2, <1>3, <1>17, <2>1, <2>2, <2>3, QuietFalls DEF SamePasts
<1>7. CASE CopyAttributes(o)
  <2>1. PICK r \in Objects :
          /\ Become(o, r) /\ r.pc \in {"chmod", "chown", "replace"}
          /\ r.ses = s /\ r.handle = obj[o].handle
    BY <1>7, CopyAttributesSteps
  <2>2. ses' = ses /\ obj[o].pc \in {"attributes", "chmod", "chown"} /\ Holds(o)
    BY <1>7, CopyAttributesSteps DEF Holds
  <2>3. Complete(o)
    BY <1>3, <2>2 DEF Stands
  <2> QED
    BY <1>1, <1>2, <1>3, <1>17, <2>1, <2>2, <2>3, QuietFalls DEF SamePasts
<1>8. CASE \E enabled \in BOOLEAN : SetFallback(o, enabled)
  <2>1. PICK enabled \in BOOLEAN : SetFallback(o, enabled)
    BY <1>8
  <2> DEFINE r == [obj[o] EXCEPT !.fallback = enabled]
  <2>2. r.pc = obj[o].pc /\ r.ses = s /\ r.handle = obj[o].handle
    BY <1>1 DEF Objects
  <2>3. Become(o, r) /\ ses' = ses /\ obj[o].pc = "idle"
    BY <2>1 DEF SetFallback, At
  <2> HIDE DEF r
  <2> QED
    BY <1>1, <1>2, <1>3, <1>17, <2>2, <2>3, QuietFalls DEF Holds, SamePasts
<1>9. CASE SyncDir(o)
  <2> DEFINE r == [obj[o] EXCEPT !.pc = "idle", !.committed = TRUE]
  <2>1. r.pc = "idle" /\ r.ses = s /\ r.handle = obj[o].handle
    BY <1>1 DEF Objects
  <2>2. Become(o, r) /\ ses' = [ses EXCEPT ![s].result = "ok"] /\ obj[o].pc = "dirsync"
    BY <1>9 DEF SyncDir, At
  <2>3. SamePasts /\ \A u \in 0 .. MaxSessions : u # s => ses'[u].result = ses[u].result
    BY <2>2 DEF TypeOK, Pasts, SamePasts
  <2>4. Last(s) => Whole(data[dir[Target]])
    BY <1>3, <2>2 DEF Stands
  <2> HIDE DEF r
  <2> QED
    BY <1>1, <1>2, <1>18, <2>1, <2>2, <2>3, <2>4, QuietFalls DEF Holds
<1>10. ASSUME NEW leaf, Throw(o, leaf), obj[o].pc # "none",
              Last(s) => Whole(data[dir[Target]]) \/ leaf \in Told,
              obj[o].handle = Invalid \/ leaf \in Untold
       PROVE  FallInv'
  <2> DEFINE r == [obj[o] EXCEPT !.pc = "idle", !.st = NewFile]
  <2>1. r.pc = "idle" /\ r.ses = s /\ r.handle = obj[o].handle
    BY <1>1 DEF Objects
  <2>2. Become(o, r) /\ ses' = [ses EXCEPT ![s].result = leaf]
    BY <1>10 DEF Throw, Goto
  <2>3. /\ SamePasts /\ \A u \in 0 .. MaxSessions : u # s => ses'[u].result = ses[u].result
        /\ ses'[s].result = leaf
    BY <1>1, <2>2 DEF TypeOK, Pasts, SamePasts
  <2> HIDE DEF r
  <2> QED
    BY <1>1, <1>2, <1>10, <2>1, <2>2, <2>3, QuietFalls DEF Holds
<1>11. CASE SyncTempFails(o)
  BY <1>10, <1>11 DEF SyncTempFails, At, Untold
<1>12. CASE CopyAttributesFails(o) \/ RenameFails(o) \/ RenameCrossesFilesystems(o)
  <2>1. obj[o].pc \in {"attributes", "chmod", "chown", "replace"}
    BY <1>12 DEF CopyAttributesFails, RenameFails, RenameCrossesFilesystems, At
  <2>2. ~ Last(s)
    BY <1>3, <2>1 DEF Stands, Holds
  <2> QED
    BY <1>10, <1>12, <1>18, <2>1, <2>2 DEF CopyAttributesFails, RenameFails, RenameCrossesFilesystems
<1>13. CASE SyncDirFails(o)
  <2>1. obj[o].pc = "dirsync"
    BY <1>13 DEF SyncDirFails, At
  <2>2. Last(s) => Whole(data[dir[Target]])
    BY <1>3, <2>1 DEF Stands
  <2> QED
    BY <1>10, <1>13, <1>18, <2>1, <2>2 DEF SyncDirFails
<1>14. CASE CopyFails(o)
  <2> DEFINE r == [obj[o] EXCEPT !.pc = "idle", !.into = NoFile]
  <2>1. r.pc = "idle" /\ r.ses = s /\ r.handle = obj[o].handle
    BY <1>1 DEF Objects
  <2>2. /\ Become(o, r) /\ ses' = [ses EXCEPT ![s].result = "direct_write_failed"]
        /\ obj[o].pc \in {"replace", "copy"}
    BY <1>14 DEF CopyFails, At
  <2>3. /\ SamePasts /\ \A u \in 0 .. MaxSessions : u # s => ses'[u].result = ses[u].result
        /\ ses'[s].result = "direct_write_failed"
    BY <1>1, <2>2 DEF TypeOK, Pasts, SamePasts
  <2> HIDE DEF r
  <2> QED
    BY <1>1, <1>2, <1>18, <2>1, <2>2, <2>3, QuietFalls DEF Holds
<1> QED
  BY <1>4, <1>5, <1>6, <1>7, <1>8, <1>9, <1>11, <1>12, <1>13, <1>14

\* What the target shows stays right when neither it changes nor what is
\* known of who wrote it.
LEMMA TargetStays ==
  ASSUME OneWriter, LinkInv, FallbackWhole, count.sessions \in Nat, NEW o \in Writers,
         obj[o].pc # "copy",
         \/ obj'[o].pc = "none"
         \/ obj[o].pc # "none" /\ obj'[o].ses = obj[o].ses
         \/ obj'[o].ses = count.sessions + 1, dir'[Target] = dir[Target],
         Exists(Target) => data'[dir[Target]] = data[dir[Target]],
         \A u \in 0 .. count.sessions : Last(u) => ses'[u] = ses[u]
  PROVE  FallbackWhole'
<1> SUFFICES ASSUME Exists(Target), NEW c, c = data[dir[Target]]
             PROVE  \/ Whole(c)'
                    \/ ses'[c.by].result \in {"direct_write_failed", "fsync_temp_failed"}
                    \/ Abandoned(c.by)'
  BY DEF FallbackWhole, Exists
<1>1. c.by \in 0 .. count.sessions /\ ses'[c.by] = ses[c.by]
  BY DEF LinkInv, Last
<1>2. ~ \E q \in Writers : At(q, "copy")
  BY DEF OneWriter, At
<1>3. \/ Whole(c)
      \/ ses[c.by].result \in {"direct_write_failed", "fsync_temp_failed"}
      \/ Abandoned(c.by)
  BY <1>2 DEF FallbackWhole
<1>4. Abandoned(c.by) => Abandoned(c.by)'
  BY <1>1 DEF Abandoned, At, OneWriter
<1> QED
  BY <1>1, <1>3, <1>4 DEF Whole

\* A temp is not the target.
LEMMA TempApart ==
  ASSUME TypeOK, LinkInv, NEW o \in Writers, Stands(o), Holds(o)
  PROVE  /\ Temp(o) \in Names /\ Temp(o) # Target /\ Target \in Names
         /\ dir[Temp(o)] = Ino(o) /\ Ino(o) # dir[Target] /\ Ino(o) \in Inodes
<1>1. Temp(o) \in Names /\ Temp(o) # Target /\ Target \in Names /\ Ino(o) \in Inodes
  BY ObjectFacts, TargetAssumption DEF Stands, Names
<1>2. dir[Temp(o)] = Ino(o) /\ Ino(o) # NoFile
  BY <1>1, SessionsAssumption DEF Stands, Inodes, NoFile
<1> QED
  BY <1>1, <1>2 DEF LinkInv

\* More is asked for, and written, while the content is not the target's.
LEMMA BeginWriteFalls ==
  ASSUME OneWriter, TypeOK, FallInv, NEW o \in Writers, NEW k \in 1 .. MaxLen, BeginWrite(o, k)
  PROVE  FallInv'
<1> DEFINE s == obj[o].ses
           r == [obj[o] EXCEPT !.pc = "write", !.left = k]
<1> SUFFICES LinkInv' /\ StandInv' /\ FallbackWhole'
  BY DEF FallInv
<1>1. LinkInv /\ Stands(o) /\ FallbackWhole
  BY DEF FallInv, StandInv, BeginWrite, At
<1>2. /\ Become(o, r) /\ ses' = [ses EXCEPT ![s].want = @ + k] /\ Holds(o) /\ obj[o].pc = "idle"
      /\ dir' = dir /\ data' = data /\ count' = count /\ obj[o].handle # Invalid
  BY DEF BeginWrite, At, Uncommitted, Holds, fsVars
<1>3. r.pc = "write" /\ r.ses = s /\ r.handle = obj[o].handle /\ s \in 0 .. MaxSessions
  BY ObjectFacts DEF Objects
<1> HIDE DEF r
<1>4. obj'[o] = r /\ \A q \in Writers : q = o
  BY <1>2, OneBecomes
<1>5. ses'[s].temp = ses[s].temp /\ ses'[s].ino = ses[s].ino
  BY <1>2, <1>3 DEF TypeOK, Pasts
<1>6. Stands(o)'
  BY <1>1, <1>2, <1>3, <1>4, <1>5 DEF Stands, Temp, Ino, Holds, Last, Exists
<1>7. FallbackWhole'
  <2>1. ASSUME NEW u \in 0 .. count.sessions, Last(u) PROVE ses'[u] = ses[u]
    <3>1. u # s
      BY <1>1, <1>2, <2>1 DEF Stands
    <3> QED
      BY <1>2, <3>1 DEF TypeOK
  <2>2. count.sessions \in Nat
    BY DEF TypeOK, Counts
  <2> QED
    BY <1>1, <1>2, <1>3, <1>4, <2>1, <2>2, TargetStays
<1> QED
  BY <1>1, <1>2, <1>4, <1>6, <1>7 DEF StandInv, LinkInv, Exists

\* A write comes to the temp alone.
LEMMA WriteSomeFalls ==
  ASSUME OneWriter, TypeOK, FallInv, NEW o \in Writers, NEW m \in 1 .. MaxLen, WriteSome(o, m)
  PROVE  FallInv'
<1> DEFINE s == obj[o].ses
           c == data[Ino(o)]
           r == [obj[o] EXCEPT !.left = @ - m, !.pc = IF m = obj[o].left THEN "idle" ELSE @]
<1> SUFFICES LinkInv' /\ StandInv' /\ FallbackWhole'
  BY DEF FallInv
<1>1. LinkInv /\ Stands(o) /\ FallbackWhole
  BY DEF FallInv, StandInv, WriteSome, At
<1>2. /\ Become(o, r) /\ ses' = ses /\ obj[o].pc = "write"
      /\ dir' = dir /\ data' = [data EXCEPT ![Ino(o)] = [c EXCEPT !.len = @ + m]] /\ count' = count
  BY DEF WriteSome, At, SetContents, SetData
<1>3. obj[o].handle # Invalid /\ Holds(o)
  BY <1>1, <1>2 DEF Stands, Holds
<1>4. r.pc \in {"idle", "write"} /\ r.ses = s /\ r.handle = obj[o].handle
  BY <1>2, ObjectFacts DEF Objects
<1> HIDE DEF r
<1>5. obj'[o] = r /\ \A q \in Writers : q = o
  BY <1>2, OneBecomes
<1>6. data'[Ino(o)].by = c.by /\ \A i \in Inodes \ {Ino(o)} : data'[i] = data[i]
  BY <1>2, ObjectFacts DEF TypeOK, FSTypeOK, Contents
<1>7. Exists(Target) => data'[dir[Target]] = data[dir[Target]]
  <2>1. Exists(Target) => dir[Target] \in Inodes /\ dir[Target] # Ino(o)
    BY <1>1, <1>3, TempApart DEF Exists, TypeOK, FSTypeOK
  <2> QED
    BY <1>6, <2>1
<1>8. Stands(o)'
  <2>1. Temp(o)' = Temp(o) /\ Ino(o)' = Ino(o) /\ obj'[o].ses = s /\ obj'[o].handle # Invalid
    BY <1>2, <1>3, <1>4, <1>5 DEF Temp, Ino
  <2>2. Last(s)' <=> Last(s)
    BY <1>2, <1>5, <1>7, <2>1 DEF Last, Exists
  <2>3. dir'[Temp(o)] = Ino(o) /\ data'[Ino(o)].by = s /\ ~ Last(s)
    BY <1>1, <1>2, <1>3, <1>6 DEF Stands
  <2>4. s \in 1 .. count'.sessions /\ Temp(o) \in Temps
    BY <1>1, <1>2 DEF Stands
  <2>5. obj'[o].pc \in {"idle", "write"}
    BY <1>4, <1>5
  <2>6. ses'[s].result \in Untold
    BY <1>1, <1>2, <1>3 DEF Stands
  <2> QED
    BY <2>1, <2>2, <2>3, <2>4, <2>5, <2>6 DEF Stands
<1>9. FallbackWhole'
  <2>1. count.sessions \in Nat
    BY DEF TypeOK, Counts
  <2> QED
    BY <1>1, <1>2, <1>4, <1>5, <1>7, <2>1, TargetStays
<1> QED
  BY <1>1, <1>2, <1>5, <1>7, <1>8, <1>9 DEF StandInv, LinkInv, Exists

\* The rename puts a complete content there.
LEMMA RenameFalls ==
  ASSUME OneWriter, TypeOK, OwnInv, FallInv, NEW o \in Writers, Rename(o)
  PROVE  FallInv'
<1> DEFINE s == obj[o].ses
           r == [obj[o] EXCEPT !.pc = "dirsync", !.st = NewFile]
<1> SUFFICES LinkInv' /\ StandInv' /\ FallbackWhole'
  BY DEF FallInv
<1>1. LinkInv /\ Stands(o)
  BY DEF FallInv, StandInv, Rename, At
<1>2. /\ Become(o, r) /\ obj[o].pc = "replace" /\ Holds(o) /\ data' = data
      /\ dir' = [dir EXCEPT ![Target] = dir[Temp(o)], ![Temp(o)] = NoFile]
      /\ ses' = [ses EXCEPT ![s].rank = count.puts + 1]
      /\ count'.sessions = count.sessions
  BY DEF Rename, At, Goto, Holds, Put, RenameToTarget, TypeOK, Counts
<1>3. r.pc = "dirsync" /\ r.ses = s /\ r.handle = Invalid /\ s \in 0 .. MaxSessions
  BY <1>2, ObjectFacts DEF Objects, OwnInv, Own
<1> HIDE DEF r
<1>4. obj'[o] = r /\ \A q \in Writers : q = o
  BY <1>2, OneBecomes
<1>5. /\ Temp(o) \in Names /\ Temp(o) # Target /\ Target \in Names
      /\ dir[Temp(o)] = Ino(o) /\ Ino(o) \in Inodes
  BY <1>1, <1>2, TempApart
<1>6. \A n \in Names : dir'[n] = IF n = Temp(o) THEN NoFile ELSE IF n = Target THEN Ino(o) ELSE dir[n]
  BY <1>2, <1>5 DEF TypeOK, FSTypeOK
<1>7. data[Ino(o)].by = s /\ data[Ino(o)].len = ses[s].want
  BY <1>1, <1>2 DEF Stands, Complete
<1>8. /\ ses'[s].temp = ses[s].temp /\ ses'[s].want = ses[s].want
      /\ ses'[s].rank = count.puts + 1 /\ count.puts + 1 # NotPut
  BY <1>2, <1>3 DEF TypeOK, Pasts, Counts, NotPut
<1>9. PICK c : c = data[Ino(o)]
  OBVIOUS
<1>10. dir'[Target] = Ino(o) /\ data'[dir'[Target]] = c
  BY <1>2, <1>5, <1>6, <1>9
<1>11. Whole(c)'
  BY <1>3, <1>7, <1>8, <1>9 DEF Whole, Inodes
<1>12. Stands(o)'
  BY <1>1, <1>3, <1>4, <1>8, <1>2, <1>10, <1>11 DEF Stands, Temp, Holds
<1>13. LinkInv'
  <2>1. \A n \in Names : dir'[n] <= count'.sessions
    <3>1. NoFile <= count.sessions
      BY DEF TypeOK, Counts, NoFile
    <3> QED
      BY <1>1, <1>2, <1>5, <1>6, <3>1 DEF LinkInv
  <2>2. \A n, m \in Names : dir'[n] = dir'[m] /\ dir'[n] # NoFile => n = m
    BY <1>1, <1>5, <1>6 DEF LinkInv
  <2>3. data'[dir'[Target]].by \in 0 .. count'.sessions
    BY <1>1, <1>2, <1>7, <1>9, <1>10 DEF Stands, TypeOK, Counts
  <2> QED
    BY <2>1, <2>2, <2>3 DEF LinkInv
<1>14. FallbackWhole'
  BY <1>10, <1>11 DEF FallbackWhole
<1> QED
  BY <1>4, <1>12, <1>13, <1>14 DEF StandInv

\* A copy truncates the target, and it is its writer's content from there on.
LEMMA CopyBeginsFalls ==
  ASSUME OneWriter, TypeOK, OwnInv, FallInv, NEW o \in Writers, CopyBegins(o)
  PROVE  FallInv'
<1> DEFINE s == obj[o].ses
           i == dir[Target]
           r == [obj[o] EXCEPT !.pc = "copy", !.into = i]
<1> SUFFICES LinkInv' /\ StandInv' /\ FallbackWhole'
  BY DEF FallInv
<1>1. LinkInv /\ Stands(o)
  BY DEF FallInv, StandInv, CopyBegins, At
<1>2. /\ Become(o, r) /\ obj[o].pc = "replace" /\ Exists(Target) /\ dir' = dir
      /\ data' = [data EXCEPT ![i] = [by |-> s, len |-> 0]]
      /\ ses' = [ses EXCEPT ![s].rank = count.puts + 1]
      /\ count'.sessions = count.sessions
  BY DEF CopyBegins, At, Put, SetContents, SetData, TypeOK, Counts
<1>3. r.pc = "copy" /\ r.ses = s /\ r.handle = Invalid /\ r.into = i /\ s \in 0 .. MaxSessions
  BY <1>2, ObjectFacts DEF Objects, OwnInv, Own
<1> HIDE DEF r
<1>4. obj'[o] = r /\ \A q \in Writers : q = o
  BY <1>2, OneBecomes
<1>5. dir'[Target] = i /\ data'[i].by = s
  BY <1>2 DEF TypeOK, FSTypeOK, Names, Exists
<1>6. /\ ses'[s].temp = ses[s].temp
      /\ ses'[s].rank = count.puts + 1 /\ count.puts + 1 # NotPut
  BY <1>2, <1>3 DEF TypeOK, Pasts, Counts, NotPut
<1>7. Stands(o)'
  BY <1>1, <1>2, <1>3, <1>4, <1>5, <1>6 DEF Stands, Temp, Holds, Last, Exists
<1>8. LinkInv'
  <2>1. data'[dir'[Target]].by \in 0 .. count'.sessions
    BY <1>1, <1>2, <1>5 DEF Stands, TypeOK, Counts
  <2> QED
    BY <1>1, <1>2, <2>1 DEF LinkInv
<1>9. FallbackWhole'
  BY <1>3, <1>4, <1>5 DEF FallbackWhole, At
<1> QED
  BY <1>4, <1>7, <1>8, <1>9 DEF StandInv

\* It ends with the whole of it.
LEMMA CopyEndsFalls ==
  ASSUME OneWriter, TypeOK, OwnInv, FallInv, NEW o \in Writers, CopyEnds(o)
  PROVE  FallInv'
<1> DEFINE s == obj[o].ses
           i == obj[o].into
           r == [obj[o] EXCEPT !.pc = "remove", !.into = NoFile]
<1> SUFFICES LinkInv' /\ StandInv' /\ FallbackWhole'
  BY DEF FallInv
<1>1. LinkInv /\ Stands(o)
  BY DEF FallInv, StandInv, CopyEnds, At
<1>2. obj[o].pc = "copy" /\ i = dir[Target] /\ Last(s) /\ ses[s].rank # NotPut
  BY <1>1 DEF CopyEnds, At, Stands
<1>3. /\ Become(o, r) /\ dir' = dir /\ ses' = ses /\ count' = count
      /\ data' = [data EXCEPT ![i] = [by |-> s, len |-> ses[s].want]]
  BY <1>2 DEF CopyEnds, SetContents, SetData, Last
<1>4. r.pc = "remove" /\ r.ses = s /\ r.handle = Invalid /\ s \in 0 .. MaxSessions
  BY <1>2, ObjectFacts DEF Objects, OwnInv, Own
<1> HIDE DEF r
<1>5. obj'[o] = r /\ \A q \in Writers : q = o
  BY <1>3, OneBecomes
<1>6. PICK c : c = [by |-> s, len |-> ses[s].want]
  OBVIOUS
<1>7. dir'[Target] = i /\ data'[i] = c
  BY <1>2, <1>3, <1>6 DEF TypeOK, FSTypeOK, Names, Last, Exists
<1>8. Whole(c)'
  BY <1>2, <1>3, <1>4, <1>6 DEF Whole, Inodes
<1>9. Stands(o)'
  BY <1>1, <1>2, <1>3, <1>4, <1>5, <1>7, <1>8 DEF Stands, Temp, Holds
<1>10. LinkInv'
  <2>1. data'[dir'[Target]].by \in 0 .. count'.sessions
    BY <1>1, <1>3, <1>6, <1>7 DEF Stands, TypeOK, Counts
  <2> QED
    BY <1>1, <1>3, <2>1 DEF LinkInv
<1>11. FallbackWhole'
  BY <1>7, <1>8 DEF FallbackWhole
<1> QED
  BY <1>5, <1>9, <1>10, <1>11 DEF StandInv

\* A name other than the target's goes.
LEMMA UnlinkLinks ==
  ASSUME TypeOK, LinkInv, NEW t \in Names, t # Target, data' = data,
         count'.sessions = count.sessions, dir' = [dir EXCEPT ![t] = NoFile]
  PROVE  LinkInv' /\ dir'[Target] = dir[Target]
<1>1. \A n \in Names : dir'[n] = IF n = t THEN NoFile ELSE dir[n]
  BY DEF TypeOK, FSTypeOK
<1>2. NoFile <= count.sessions /\ Target \in Names
  BY DEF TypeOK, Counts, NoFile, Names
<1>3. \A n \in Names : dir'[n] <= count'.sessions
  BY <1>1, <1>2 DEF LinkInv
<1>4. \A n, m \in Names : dir'[n] = dir'[m] /\ dir'[n] # NoFile => n = m
  BY <1>1 DEF LinkInv
<1> QED
  BY <1>1, <1>2, <1>3, <1>4 DEF LinkInv, Exists

\* The copied temp is removed: the target stays as the copy left it.
LEMMA RemoveTempFalls ==
  ASSUME OneWriter, TypeOK, OwnInv, FallInv, NEW o \in Writers, RemoveTemp(o)
  PROVE  FallInv'
<1> DEFINE s == obj[o].ses
           r == [obj[o] EXCEPT !.pc = "dirsync", !.st = NewFile]
<1> SUFFICES LinkInv' /\ StandInv' /\ FallbackWhole'
  BY DEF FallInv
<1>1. LinkInv /\ Stands(o) /\ FallbackWhole
  BY DEF FallInv, StandInv, RemoveTemp, At
<1>2. /\ Become(o, r) /\ obj[o].pc = "remove" /\ data' = data /\ ses' = ses /\ count' = count
      /\ dir' = [dir EXCEPT ![Temp(o)] = NoFile] \/ dir' = dir
  BY DEF RemoveTemp, At, Goto, Unlink, SetDir, fsVars
<1>3. r.pc = "dirsync" /\ r.ses = s /\ r.handle = Invalid
  BY <1>2, ObjectFacts DEF Objects, OwnInv, Own
<1> HIDE DEF r
<1>4. obj'[o] = r /\ \A q \in Writers : q = o
  BY <1>2, OneBecomes
<1>5. LinkInv' /\ dir'[Target] = dir[Target]
  <2>1. Temp(o) \in Names /\ Temp(o) # Target
    BY <1>1, ObjectFacts, TargetAssumption DEF Stands
  <2>2. CASE dir' = dir
    BY <1>1, <1>2, <2>2 DEF LinkInv, Exists
  <2> QED
    BY <1>1, <1>2, <2>1, <2>2, UnlinkLinks
<1>6. FallbackWhole'
  <2>1. count.sessions \in Nat
    BY DEF TypeOK, Counts
  <2> QED
    BY <1>1, <1>2, <1>3, <1>4, <1>5, <2>1, TargetStays
<1>7. Stands(o)'
  BY <1>1, <1>2, <1>3, <1>4, <1>5 DEF Stands, Temp, Holds, Last, Exists, Whole
<1> QED
  BY <1>4, <1>5, <1>6, <1>7 DEF StandInv

\* Who is destroyed leaves the target alone.
LEMMA DestroyFalls ==
  ASSUME OneWriter, TypeOK, FallInv, NEW o \in Writers, Destroy(o)
  PROVE  FallInv'
<1> SUFFICES LinkInv' /\ StandInv' /\ FallbackWhole'
  BY DEF FallInv
<1>1. LinkInv /\ Stands(o) /\ FallbackWhole
  BY DEF FallInv, StandInv, Destroy, At
<1>2. /\ Become(o, NoObject) /\ obj[o].pc = "idle" /\ data' = data /\ ses' = ses /\ count' = count
      /\ dir' = [dir EXCEPT ![Temp(o)] = NoFile] \/ dir' = dir
  BY DEF Destroy, At, Discard, RemoveQuietly, Unlink, SetDir, fsVars
<1>3. obj'[o] = NoObject /\ \A q \in Writers : q = o
  BY <1>2, OneBecomes
<1>4. LinkInv' /\ dir'[Target] = dir[Target]
  <2>1. Temp(o) \in Names /\ Temp(o) # Target
    BY <1>1, ObjectFacts, TargetAssumption DEF Stands
  <2>2. CASE dir' = dir
    BY <1>1, <1>2, <2>2 DEF LinkInv, Exists
  <2> QED
    BY <1>1, <1>2, <2>1, <2>2, UnlinkLinks
<1>5. FallbackWhole'
  <2>1. count.sessions \in Nat /\ NoObject.pc = "none"
    BY DEF TypeOK, Counts, NoObject
  <2> QED
    BY <1>1, <1>2, <1>3, <1>4, <2>1, TargetStays
<1> QED
  BY <1>3, <1>4, <1>5 DEF StandInv, NoObject

\* A new session takes a file that is not the target's, and has written nothing to that.
LEMMA ConstructFalls ==
  ASSUME OneWriter, TypeOK, OwnInv, FallInv, NEW o \in Writers, Construct(o)
  PROVE  FallInv'
<1> PICK s : s = count.sessions + 1
  OBVIOUS
<1> PICK t : t = TempName(Home[o])
  OBVIOUS
<1> PICK i : i = IF Exists(t) THEN dir[t] ELSE s
  OBVIOUS
<1> PICK r : r = [NoObject EXCEPT !.pc = "idle", !.ses = s, !.handle = s]
  OBVIOUS
<1>0. count'.sessions = s
  BY DEF Construct, TypeOK, Counts
<1> SUFFICES LinkInv' /\ StandInv' /\ FallbackWhole'
  BY DEF FallInv
<1>1. LinkInv /\ FallbackWhole /\ obj[o].pc = "none"
  BY DEF FallInv, Construct, At
<1>2. /\ Become(o, r) /\ s \in Sessions /\ t \in Temps
      /\ dir' = IF Exists(t) THEN dir ELSE [dir EXCEPT ![t] = s]
      /\ data' = [data EXCEPT ![i] = [by |-> s, len |-> 0]]
      /\ ses' = [ses EXCEPT ![s] = [@ EXCEPT !.temp = t, !.want = 0, !.ino = i]]
  BY DEF Construct, OpenTemp, OpenTrunc, SetDir, SetData
<1>3. r.pc = "idle" /\ r.ses = s /\ r.handle = s
  BY DEF NoObject
<1>4. obj'[o] = r /\ \A q \in Writers : q = o
  BY <1>2, OneBecomes
<1>5. /\ s \in Nat /\ s >= 1 /\ s \in Inodes /\ s # NoFile /\ s # Invalid /\ count.sessions \in Nat
      /\ t \in Names /\ Target \in Names /\ t # Target
  BY <1>2, SessionsAssumption, TargetAssumption
     DEF Sessions, Inodes, NoFile, Invalid, TypeOK, Counts, Names
<1>6. /\ ses'[s].temp = t /\ ses'[s].ino = i
      /\ \A u \in 0 .. count.sessions : ses'[u] = ses[u]
  BY <1>2, <1>5 DEF TypeOK, Pasts, Sessions, Inodes
<1>7. \A n \in Names : dir'[n] = IF n = t THEN i ELSE dir[n]
  BY <1>2 DEF TypeOK, FSTypeOK
<1>8. i \in Inodes /\ i <= s /\ i # NoFile
  <2>1. CASE Exists(t)
    <3>1. i = dir[t] /\ dir[t] \in Inodes /\ dir[t] # NoFile
      BY <1>5, <2>1 DEF Exists, TypeOK, FSTypeOK
    <3>2. dir[t] <= count.sessions
      BY <1>1, <1>5 DEF LinkInv
    <3>3. dir[t] \in Int
      BY <3>1, SessionsAssumption DEF Inodes, NoFile
    <3> QED
      BY <1>5, <3>1, <3>2, <3>3
  <2>2. CASE ~ Exists(t)
    BY <1>5, <2>2
  <2> QED
    BY <2>1, <2>2
<1>9. \A n \in Names : n # t => dir[n] # i
  <2> SUFFICES ASSUME NEW n \in Names, n # t, dir[n] = i PROVE FALSE
    OBVIOUS
  <2>1. CASE Exists(t)
    BY <1>1, <1>5, <1>8, <2>1 DEF LinkInv
  <2>2. CASE ~ Exists(t)
    BY <1>1, <1>5, <2>2 DEF LinkInv
  <2> QED
    BY <2>1, <2>2
<1>10. data'[i] = [by |-> s, len |-> 0] /\ \A j \in Inodes \ {i} : data'[j] = data[j]
  BY <1>2, <1>8 DEF TypeOK, FSTypeOK
<1>11. dir'[Target] = dir[Target] /\ (Exists(Target) => data'[dir[Target]] = data[dir[Target]])
  <2>1. dir'[Target] = dir[Target] /\ dir[Target] # i
    BY <1>5, <1>7, <1>9
  <2>2. Exists(Target) => dir[Target] \in Inodes
    BY <1>5 DEF Exists, TypeOK, FSTypeOK
  <2> QED
    BY <1>10, <2>1, <2>2
<1>12. FallbackWhole'
  BY <1>1, <1>3, <1>4, <1>5, <1>6, <1>11, TargetStays
<1>13. LinkInv'
  <2>1. \A n \in Names : dir'[n] <= count'.sessions
    <3>1. \A n \in Names : dir[n] <= s
      <4> SUFFICES ASSUME NEW n \in Names PROVE dir[n] <= s
        OBVIOUS
      <4>1. dir[n] \in Int
        BY SessionsAssumption DEF TypeOK, FSTypeOK, Inodes, NoFile
      <4>2. dir[n] <= count.sessions
        BY <1>1 DEF LinkInv
      <4> QED
        BY <1>5, <4>1, <4>2
    <3> QED
      BY <1>0, <1>7, <1>8, <3>1
  <2>2. \A n, m \in Names : dir'[n] = dir'[m] /\ dir'[n] # NoFile => n = m
    BY <1>1, <1>7, <1>9 DEF LinkInv
  <2>3. Exists(Target)' => data'[dir'[Target]].by \in 0 .. count'.sessions
    BY <1>0, <1>1, <1>5, <1>11 DEF LinkInv, Exists
  <2> QED
    BY <2>1, <2>2, <2>3 DEF LinkInv
<1>14. ~ Last(s)'
  <2> SUFFICES ASSUME Exists(Target), data[dir[Target]].by = s PROVE FALSE
    BY <1>11 DEF Last, Exists
  <2> QED
    BY <1>1, <1>5 DEF LinkInv
<1>15. Stands(o)'
  <2>1. Temp(o)' = t /\ Ino(o)' = i /\ obj'[o].ses = s
    BY <1>3, <1>4, <1>6 DEF Temp, Ino
  <2>2. dir'[t] = i /\ data'[i].by = s /\ t \in Temps
    BY <1>2, <1>5, <1>7, <1>10
  <2>3. ses'[s].result = "none"
    <3>1. ses[s].result = "none"
      BY <1>2, <1>5 DEF OwnInv
    <3>2. s \in 0 .. MaxSessions
      BY <1>2 DEF Sessions
    <3> QED
      BY <1>2, <3>1, <3>2 DEF TypeOK, Pasts
  <2> QED
    BY <1>0, <1>3, <1>4, <1>5, <1>14, <2>1, <2>2, <2>3 DEF Stands, Untold
<1> QED
  BY <1>4, <1>12, <1>13, <1>15 DEF StandInv

\* A killed writer leaves the target as it is: its copy, if it was at one, is abandoned.
LEMMA KillFalls ==
  ASSUME OneWriter, TypeOK, FallInv, NEW p \in Processes, Kill(p)
  PROVE  FallInv'
<1> SUFFICES LinkInv' /\ StandInv' /\ FallbackWhole'
  BY DEF FallInv
<1>1. LinkInv /\ StandInv /\ FallbackWhole
  BY DEF FallInv
<1>2. dir' = dir /\ data' = data /\ ses' = ses /\ count'.sessions = count.sessions
  BY DEF Kill, Die, fsVars, TypeOK, Counts
<1>3. \A q \in Writers : obj'[q] = NoObject \/ obj'[q] = obj[q]
  BY DEF Kill, Die
<1>4. NoObject.pc = "none"
  BY DEF NoObject
<1>5. StandInv'
  <2> SUFFICES ASSUME NEW q \in Writers, obj'[q].pc # "none" PROVE Stands(q)'
    BY DEF StandInv
  <2>1. obj'[q] = obj[q] /\ Stands(q)
    BY <1>1, <1>3, <1>4 DEF StandInv
  <2> QED
    BY <1>2, <2>1 DEF Stands, Temp, Ino, Holds, Last, Exists, Whole, Complete
<1>6. FallbackWhole'
  <2> SUFFICES ASSUME Exists(Target), NEW c, c = data[dir[Target]]
               PROVE  \/ Whole(c)
                      \/ \E q \in Writers : At(q, "copy")' /\ obj'[q].ses = c.by
                      \/ ses[c.by].result \in {"direct_write_failed", "fsync_temp_failed"}
                      \/ Abandoned(c.by)'
    BY <1>2 DEF FallbackWhole, Exists, Whole
  <2>1. CASE \E q \in Writers : At(q, "copy") /\ obj[q].ses = c.by
    <3>1. PICK q \in Writers : At(q, "copy") /\ obj[q].ses = c.by
      BY <2>1
    <3>2. ses[c.by].result \in Untold
      BY <1>1, <3>1 DEF StandInv, Stands, At
    <3>3. CASE obj'[q] = obj[q]
      BY <3>1, <3>3 DEF At
    <3>4. CASE obj'[q] = NoObject
      <4>1. \A x \in Writers : At(x, "none")'
        BY <1>4, <3>4 DEF OneWriter, At
      <4> QED
        BY <1>2, <3>2, <4>1 DEF Untold, Abandoned
    <3> QED
      BY <1>3, <3>3, <3>4
  <2>2. CASE Abandoned(c.by)
    BY <1>2, <1>3, <1>4, <2>2 DEF Abandoned, At
  <2> QED
    BY <1>1, <2>1, <2>2 DEF FallbackWhole
<1> QED
  BY <1>1, <1>2, <1>5, <1>6 DEF LinkInv, Exists

\* Steps of the world, and of a writer that is not there.
LEMMA OthersFall ==
  ASSUME FallInv,
         \/ UNCHANGED vars
         \/ \E o \in Writers : ConstructFails(o)
         \/ \E mode \in {"user", "ro"} : UserChmod(mode),
         TypeOK
  PROVE  FallInv'
<1>1. /\ dir' = dir /\ data' = data /\ obj' = obj /\ ses' = ses
      /\ count'.sessions = count.sessions
  BY DEF vars, fsVars, writerVars, ConstructFails, UserChmod, SetAttributes, TypeOK, Counts
<1>2. \A o \in Writers : Stands(o) => Stands(o)'
  BY <1>1 DEF Stands, Temp, Ino, Holds, Last, Exists, Whole, Complete
<1>3. LinkInv => LinkInv'
  BY <1>1 DEF LinkInv, Exists
<1>4. FallbackWhole => FallbackWhole'
  BY <1>1 DEF FallbackWhole, Exists, Whole, At, Abandoned
<1> QED
  BY <1>1, <1>2, <1>3, <1>4 DEF FallInv, StandInv

\* The steps together.
LEMMA FallStep ==
  ASSUME "crash" \notin Faults, OneWriter, TypeOK, TypeOK', OwnInv, FallInv, [Next]_vars
  PROVE  FallInv'
<1>1. ASSUME NEW o \in Writers, WriterStep(o) PROVE FallInv'
  <2>1. CASE \E to \in Writers : MoveConstruct(o, to) \/ MoveAssign(o, to)
    BY <2>1 DEF OneWriter, MoveConstruct, MoveAssign, At
  <2>2. CASE CommitStep(o)
    BY <2>2, QuietStepsFall, RenameFalls, CopyBeginsFalls, CopyEndsFalls, RemoveTempFalls
       DEF CommitStep
  <2>3. CASE \E k \in 1 .. MaxLen : BeginWrite(o, k) \/ WriteSome(o, k)
    BY <2>3, BeginWriteFalls, WriteSomeFalls
  <2> QED
    BY <1>1, <2>1, <2>2, <2>3, QuietStepsFall, ConstructFalls, DestroyFalls, OthersFall DEF WriterStep
<1>2. ~ Crash
  BY DEF Crash, MayFail
<1> QED
  BY <1>1, <1>2, KillFalls, OthersFall DEF Next

\* In the beginning the target, if there is one, is somebody else's.
LEMMA FallInit == Init => FallInv
<1> SUFFICES ASSUME Init PROVE FallInv
  OBVIOUS
<1>1. \A n \in Names : dir[n] = NoFile \/ (n = Target /\ dir[n] = 0)
  BY TargetAssumption DEF Init, FSInit, Names
<1>2. Exists(Target) => dir[Target] = 0 /\ data[0] = [by |-> 0, len |-> 1]
  BY <1>1, SessionsAssumption DEF Exists, Names, Init, FSInit, Inodes
<1>3. count.sessions = 0 /\ ses[0].rank = 0 /\ ses[0].want = 1
  BY SessionsAssumption DEF Init
<1>4. LinkInv
  BY <1>1, <1>2, <1>3 DEF LinkInv, NoFile
<1>5. FallbackWhole
  BY <1>2, <1>3, SessionsAssumption DEF FallbackWhole, Whole, Inodes, NotPut
<1>6. StandInv
  BY DEF StandInv, Init, NoObject
<1> QED
  BY <1>4, <1>5, <1>6 DEF FallInv

(* With one writer object, whatever number of sessions it serves, whatever *)
(* fails in them and whenever its process is killed, the fallback leaves   *)
(* the target whole, but for a copy that was killed or that the caller was *)
(* told of, as long as the power does not fail.  (Two objects that copy at *)
(* the same time may mix their contents.)                                  *)
THEOREM FallbackAlwaysWhole ==
  ASSUME "crash" \notin Faults, \A o, q \in Writers : o = q
  PROVE  Spec => []FallbackWhole
<1>1. Init => TypeOK /\ OwnInv /\ FallInv
  BY TypeInit, OwnInit, FallInit
<1>2. TypeOK /\ OwnInv /\ FallInv /\ [Next]_vars => (TypeOK /\ OwnInv /\ FallInv)'
  BY TypeStep, OwnStep, FallStep DEF OneWriter
<1>3. FallInv => FallbackWhole
  BY DEF FallInv, FallbackWhole
<1> QED
  BY <1>1, <1>2, <1>3, PTL DEF Spec
=============================================================================
