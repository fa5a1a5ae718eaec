----------------------- MODULE AtomicFileWriterProofs -----------------------
(***************************************************************************)
(* Proofs about AtomicFileWriter for any number of writers, processes,     *)
(* sessions, errors, deaths and changes by the target's owner.             *)
(*                                                                         *)
(* The argument for TargetWhole: a temp that an object still works on is   *)
(* linked under its own name only, and no directory that a crash may leave *)
(* links the target to it (DirInv, TempInv); between the flush and the     *)
(* rename its content is complete and is the only one the disk can show    *)
(* (Phase).  So writing a temp never disturbs the target, and what the     *)
(* rename puts there is whole.                                             *)
(***************************************************************************)
EXTENDS AtomicFileWriter, TLAPS

\* The object still works on its temp: it is open, or closed and on its way
\* to the rename.
Holds(o) == obj[o].handle # Invalid \/ obj[o].pc \in {"attributes", "chmod", "chown", "replace"}

\* Sessions not yet begun have no past, and no object belongs to one.
FreshInv ==
  /\ \A s \in Sessions : s > count.sessions => ses[s].rank = NotPut
  /\ \A o \in Writers : obj[o].ses <= count.sessions

\* In every directory on the disk the names link to different files, and no
\* temp of the current one is the target of any of them.
DirInv ==
  /\ dir \in dirDisk
  /\ \A d \in dirDisk, n \in Names : d[n] <= count.sessions
  /\ \A d \in dirDisk, n, m \in Names : d[n] = d[m] /\ d[n] # NoFile => n = m
  /\ \A d \in dirDisk, t \in Temps : dir[t] # NoFile => dir[t] # d[Target]

\* What an object knows of its temp, and that it shares it with no other.
KnowsTemp(o) ==
  /\ obj[o].ses \in Sessions /\ obj[o].pc # "none"
  /\ Temp(o) \in Temps
  /\ Temp(o)[1] = Home[o] /\ Temp(o)[2] < counter[Home[o]]
  /\ dir[Temp(o)] = Ino(o)
  /\ data[Ino(o)].by = obj[o].ses
  /\ ses[obj[o].ses].rank = NotPut

TempInv ==
  /\ \A o \in Writers : Holds(o) => KnowsTemp(o)
  /\ \A o, q \in Writers : Holds(o) /\ Holds(q) /\ o # q =>
       Temp(o) # Temp(q) /\ obj[o].ses # obj[q].ses

\* Where the code is tells whether the temp is open and what it contains.
Phase(o) ==
  /\ obj[o].pc \in {"attributes", "chmod", "chown", "replace"} => obj[o].handle = Invalid
  /\ obj[o].pc = "write" => obj[o].handle # Invalid
  /\ obj[o].pc \in {"fsync", "attributes", "chmod", "chown", "replace"} /\ Holds(o) => Complete(o)
  /\ obj[o].pc \notin {"copy", "remove"}
  /\ obj[o].pc \in {"attributes", "chmod", "chown", "replace"} => dataDisk[Ino(o)] = {data[Ino(o)]}

PhaseInv == \A o \in Writers : Phase(o)

DiskInv ==
  /\ lost = {}
  /\ \A i \in Inodes : data[i] \in dataDisk[i]

WholeInv ==
  \A d \in dirDisk : d[Target] # NoFile => \A c \in dataDisk[d[Target]] : Whole(c)

Rest == FreshInv /\ DirInv /\ TempInv /\ PhaseInv /\ DiskInv /\ WholeInv

\* A fallback copy ends all that; without one every step keeps it.
IInv == TypeOK /\ (~ copied => Rest)

-----------------------------------------------------------------------------
(* The file system's operations keep the types of its variables, for every *)
(* directory and every inode.                                              *)

\* Opening a file for writing (open_temp).
LEMMA OpenTruncType ==
  ASSUME FSTypeOK, NEW name \in Names, NEW i \in Inodes, NEW by \in Inodes, OpenTrunc(name, i, by)
  PROVE  FSTypeOK'
<1>1. [by |-> by, len |-> 0] \in Contents
  BY DEF Contents
<1>2. dir' \in [Names -> Inodes \cup {NoFile}] /\ dirDisk' = dirDisk \cup {dir'}
  BY DEF OpenTrunc, SetDir, FSTypeOK
<1>3. (IF Exists(name) THEN dir[name] ELSE i) \in Inodes
  BY DEF Exists, FSTypeOK
<1>4. data' \in [Inodes -> Contents] /\ dataDisk' \in [Inodes -> SUBSET Contents]
  BY <1>1, <1>3 DEF OpenTrunc, SetData, FSTypeOK
<1> QED
  BY <1>2, <1>4 DEF OpenTrunc, FSTypeOK

\* Writing to a file (atomic_file_writer_write, copy_file).
LEMMA SetContentsType ==
  ASSUME FSTypeOK, NEW i \in Inodes \cup {NoFile}, NEW c \in Contents, SetContents(i, c)
  PROVE  FSTypeOK'
BY DEF SetContents, SetData, FSTypeOK

\* Flushing a file, or failing to (atomic_file_writer_fsync).
LEMMA FsyncType ==
  ASSUME FSTypeOK, NEW i \in Inodes, NEW drops, Fsync(i) \/ FsyncError(i, drops)
  PROVE  FSTypeOK'
BY DEF Fsync, FsyncError, FSTypeOK

\* chmod and chown (preserve_attributes).
LEMMA SetAttributesType ==
  ASSUME FSTypeOK, NEW i \in Inodes, NEW a \in Attributes, SetAttributes(i, a)
  PROVE  FSTypeOK'
BY DEF SetAttributes, FSTypeOK

\* The rename over the target (atomic_replace).
LEMMA RenameType ==
  ASSUME FSTypeOK, NEW from \in Names, NEW through, RenameToTarget(from, through)
  PROVE  FSTypeOK'
<1>1. dir' \in [Names -> Inodes \cup {NoFile}]
  BY DEF RenameToTarget, FSTypeOK, Names
<1> QED
  BY <1>1 DEF RenameToTarget, FSTypeOK

\* Removing a name (remove_quietly).
LEMMA UnlinkType ==
  ASSUME FSTypeOK, NEW name \in Names, Unlink(name)
  PROVE  FSTypeOK'
BY DEF Unlink, SetDir, FSTypeOK

\* Flushing the directory (fsync_parent_dir).
LEMMA FsyncDirType == FSTypeOK /\ FsyncDir => FSTypeOK'
BY DEF FsyncDir, FSTypeOK

\* A power failure.
LEMMA FSCrashType == FSTypeOK /\ FSCrash => FSTypeOK'
<1> SUFFICES ASSUME FSTypeOK, FSCrash PROVE FSTypeOK'
  OBVIOUS
<1>1. dir' \in [Names -> Inodes \cup {NoFile}] /\ dirDisk' = {dir'}
  BY DEF FSCrash, FSTypeOK
<1>2. data' \in [Inodes -> Contents] /\ attr' \in [Inodes -> Attributes]
  <2>1. CASE dir'[Target] = NoFile
    BY <2>1 DEF FSCrash, FSTypeOK
  <2>2. CASE dir'[Target] # NoFile
    <3>1. dir'[Target] \in Inodes
      BY <1>1, <2>2 DEF Names
    <3>2. PICK c \in dataDisk[dir'[Target]], a \in attrDisk[dir'[Target]] :
            /\ data' = [data EXCEPT ![dir'[Target]] = c]
            /\ attr' = [attr EXCEPT ![dir'[Target]] = a]
      BY <2>2 DEF FSCrash
    <3>3. c \in Contents /\ a \in Attributes
      BY <3>1 DEF FSTypeOK
    <3> QED
      BY <3>2, <3>3 DEF FSTypeOK
  <2> QED
    BY <2>1, <2>2
<1> QED
  BY <1>1, <1>2 DEF FSCrash, FSTypeOK

\* Nothing happened to the files.
LEMMA SameFilesType == FSTypeOK /\ UNCHANGED fsVars => FSTypeOK'
BY DEF FSTypeOK, fsVars
-----------------------------------------------------------------------------
(* Type correctness.                                                       *)

\* The fields of a typed object, one by one.
LEMMA ObjectFacts ==
  ASSUME TypeOK, NEW o \in Writers
  PROVE  /\ obj[o] \in Objects
         /\ obj[o].ses \in 0 .. MaxSessions
         /\ ses[obj[o].ses] \in Pasts
         /\ Temp(o) \in Names /\ Ino(o) \in Inodes
         /\ data[Ino(o)] \in Contents /\ attr[Ino(o)] \in Attributes
BY DEF TypeOK, FSTypeOK, Objects, Pasts, Temp, Ino

\* What open() gives a new file, and what nothing was copied to.
LEMMA NewFileType == NewFile \in Attributes
BY DEF NewFile, Attributes

\* Giving one object a typed record keeps the objects typed.
LEMMA BecomeType ==
  ASSUME TypeOK, NEW o \in Writers, NEW r \in Objects, Become(o, r)
  PROVE  obj' \in [Writers -> Objects]
BY DEF TypeOK, Become

\* Moving one object's code to another place keeps the objects typed.
LEMMA GotoType ==
  ASSUME TypeOK, NEW o \in Writers, NEW pc \in PCs, Goto(o, pc)
  PROVE  obj' \in [Writers -> Objects]
<1>1. [obj[o] EXCEPT !.pc = pc, !.st = NewFile] \in Objects
  BY ObjectFacts, NewFileType DEF Objects
<1> QED
  BY <1>1, BecomeType DEF Goto

\* Leaving commit() by an exception keeps the types.
LEMMA ThrowType ==
  ASSUME TypeOK, NEW o \in Writers, NEW leaf \in CommitErrors, Throw(o, leaf)
  PROVE  obj' \in [Writers -> Objects] /\ ses' \in [0 .. MaxSessions -> Pasts]
BY GotoType DEF Throw, PCs, TypeOK, Pasts, Results

\* Counting one more replacement keeps the types.
LEMMA PutType ==
  ASSUME TypeOK, NEW s \in 0 .. MaxSessions, Put(s)
  PROVE  ses' \in [0 .. MaxSessions -> Pasts] /\ count' \in Counts
<1>1. count.puts + 1 \in Nat
  BY DEF TypeOK, Counts
<1> QED
  BY <1>1 DEF TypeOK, Put, Pasts, Counts

\* Moving the members from one object to another keeps the types.
LEMMA MoveType ==
  ASSUME TypeOK, NEW from \in Writers, NEW to \in Writers, MoveMembers(from, to)
  PROVE  obj' \in [Writers -> Objects]
<1>1. 0 \in 0 .. MaxSessions
  BY SessionsAssumption
<1>2. MovedFrom(obj[from]) \in Objects
  BY <1>1, ObjectFacts DEF MovedFrom, Objects, NoSession
<1> QED
  BY <1>2 DEF TypeOK, MoveMembers

\* Storage without an object is a typed record.
LEMMA NoObjectType == NoObject \in Objects
BY NewFileType, SessionsAssumption, WritersAssumption DEF NoObject, Objects, PCs, NoSession

\* Construct preserves the types.
LEMMA ConstructType ==
  ASSUME TypeOK, NEW o \in Writers, Construct(o)
  PROVE  TypeOK'
<1>1. FSTypeOK'
  <2>1. count.sessions + 1 \in Inodes /\ TempName(Home[o]) \in Names
    BY DEF Construct, Sessions, Inodes, Names
  <2> QED
    BY <2>1, OpenTruncType DEF Construct, TypeOK, OpenTemp
<1>2. obj' \in [Writers -> Objects]
  <2>1. [NoObject EXCEPT !.pc = "idle", !.ses = count.sessions + 1, !.handle = count.sessions + 1] \in Objects
    <3>1. count.sessions + 1 \in Sessions /\ count.sessions + 1 \in 0 .. MaxSessions
      BY DEF Construct, Sessions
    <3> QED
      BY <3>1, NoObjectType DEF Objects, PCs, NoObject
  <2> QED
    BY <2>1, BecomeType DEF TypeOK, Construct
<1>3. ses' \in [0 .. MaxSessions -> Pasts]
  <2>1. (IF Exists(TempName(Home[o])) THEN dir[TempName(Home[o])] ELSE count.sessions + 1) \in Inodes
    BY DEF Construct, TypeOK, FSTypeOK, Exists, Names, Sessions, Inodes, OpenTemp
  <2>2. count.sessions + 1 \in 0 .. MaxSessions /\ TempName(Home[o]) \in Names
    BY DEF Construct, Sessions, Names
  <2> QED
    BY ZenonT(40), <2>1, <2>2 DEF TypeOK, Construct, Pasts
<1>4. counter' \in [Processes -> Nat] /\ fds' \subseteq Sessions /\ count' \in Counts /\ copied' \in BOOLEAN
  <2>1. count.sessions + 1 \in 0 .. MaxSessions
    BY DEF Construct, Sessions
  <2>2. Home[o] \in Processes
    BY WritersAssumption
  <2>3. counter' \in [Processes -> Nat]
    BY <2>2 DEF TypeOK, Construct, Drawn
  <2>4. count' \in Counts
    BY <2>1 DEF TypeOK, Construct, Counts
  <2> QED
    BY <2>3, <2>4 DEF TypeOK, Construct, OpenTemp
<1> QED
  BY <1>1, <1>2, <1>3, <1>4 DEF TypeOK

\* ConstructFails preserves the types.
LEMMA ConstructFailsType ==
  ASSUME TypeOK, NEW o \in Writers, ConstructFails(o)
  PROVE  TypeOK'
<1>1. FSTypeOK'
  BY SameFilesType DEF TypeOK, ConstructFails
<1>2. obj' \in [Writers -> Objects]
  BY DEF TypeOK, ConstructFails
<1>3. ses' \in [0 .. MaxSessions -> Pasts]
  BY DEF TypeOK, ConstructFails
<1>4. counter' \in [Processes -> Nat] /\ fds' \subseteq Sessions /\ count' \in Counts /\ copied' \in BOOLEAN
  BY WritersAssumption DEF TypeOK, ConstructFails, Drawn
<1> QED
  BY <1>1, <1>2, <1>3, <1>4 DEF TypeOK

\* BeginWrite preserves the types.
LEMMA BeginWriteType ==
  ASSUME TypeOK, NEW o \in Writers, NEW k \in 1 .. MaxLen, BeginWrite(o, k)
  PROVE  TypeOK'
<1>1. FSTypeOK'
  BY SameFilesType DEF TypeOK, BeginWrite
<1>2. obj' \in [Writers -> Objects]
  <2>1. k \in 0 .. MaxLen
    BY WritersAssumption
  <2>2. [obj[o] EXCEPT !.pc = "write", !.left = k] \in Objects
    BY <2>1, ObjectFacts DEF Objects, PCs
  <2> QED
    BY <2>2, BecomeType DEF TypeOK, BeginWrite, BeginWrite
<1>3. ses' \in [0 .. MaxSessions -> Pasts]
  <2>1. ses[obj[o].ses].want + k \in Nat
    BY ObjectFacts, WritersAssumption DEF Pasts
  <2> QED
    BY <2>1, ObjectFacts DEF TypeOK, BeginWrite, Pasts
<1>4. counter' \in [Processes -> Nat] /\ fds' \subseteq Sessions /\ count' \in Counts /\ copied' \in BOOLEAN
  BY DEF TypeOK, BeginWrite
<1> QED
  BY <1>1, <1>2, <1>3, <1>4 DEF TypeOK

\* WriteSome preserves the types.
LEMMA WriteSomeType ==
  ASSUME TypeOK, NEW o \in Writers, NEW m \in 1 .. MaxLen, WriteSome(o, m)
  PROVE  TypeOK'
<1>1. FSTypeOK'
  <2>1. [data[Ino(o)] EXCEPT !.len = @ + m] \in Contents
    BY ObjectFacts, WritersAssumption DEF Contents
  <2> QED
    BY <2>1, ObjectFacts, SetContentsType DEF WriteSome, TypeOK
<1>2. obj' \in [Writers -> Objects]
  <2>1. obj[o].left - m \in 0 .. MaxLen
    <3>1. obj[o].left \in 0 .. MaxLen /\ m <= obj[o].left
      BY ObjectFacts DEF Objects, WriteSome
    <3> QED
      BY <3>1, WritersAssumption
  <2>2. [obj[o] EXCEPT !.left = @ - m, !.pc = IF m = obj[o].left THEN "idle" ELSE @] \in Objects
    BY <2>1, ObjectFacts DEF Objects, PCs
  <2> QED
    BY <2>2, BecomeType DEF TypeOK, WriteSome, WriteSome
<1>3. ses' \in [0 .. MaxSessions -> Pasts]
  BY DEF TypeOK, WriteSome
<1>4. counter' \in [Processes -> Nat] /\ fds' \subseteq Sessions /\ count' \in Counts /\ copied' \in BOOLEAN
  BY DEF TypeOK, WriteSome
<1> QED
  BY <1>1, <1>2, <1>3, <1>4 DEF TypeOK

\* WriteFails preserves the types.
LEMMA WriteFailsType ==
  ASSUME TypeOK, NEW o \in Writers, WriteFails(o)
  PROVE  TypeOK'
<1>1. FSTypeOK'
  BY SameFilesType DEF TypeOK, WriteFails
<1>2. obj' \in [Writers -> Objects]
  <2>1. 0 \in 0 .. MaxLen
    BY WritersAssumption
  <2>2. [obj[o] EXCEPT !.pc = "idle", !.left = 0] \in Objects
    BY <2>1, ObjectFacts DEF Objects, PCs
  <2> QED
    BY <2>2, BecomeType DEF TypeOK, WriteFails, WriteFails
<1>3. ses' \in [0 .. MaxSessions -> Pasts]
  BY DEF TypeOK, WriteFails
<1>4. counter' \in [Processes -> Nat] /\ fds' \subseteq Sessions /\ count' \in Counts /\ copied' \in BOOLEAN
  BY DEF TypeOK, WriteFails
<1> QED
  BY <1>1, <1>2, <1>3, <1>4 DEF TypeOK

\* BeginCommit preserves the types.
LEMMA BeginCommitType ==
  ASSUME TypeOK, NEW o \in Writers, BeginCommit(o)
  PROVE  TypeOK'
<1>1. FSTypeOK'
  BY SameFilesType DEF TypeOK, BeginCommit
<1>2. obj' \in [Writers -> Objects]
  BY GotoType DEF BeginCommit, PCs
<1>3. ses' \in [0 .. MaxSessions -> Pasts]
  BY DEF TypeOK, BeginCommit
<1>4. counter' \in [Processes -> Nat] /\ fds' \subseteq Sessions /\ count' \in Counts /\ copied' \in BOOLEAN
  BY DEF TypeOK, BeginCommit
<1> QED
  BY <1>1, <1>2, <1>3, <1>4 DEF TypeOK

\* SyncTemp preserves the types.
LEMMA SyncTempType ==
  ASSUME TypeOK, NEW o \in Writers, SyncTemp(o)
  PROVE  TypeOK'
<1>1. FSTypeOK'
  BY FsyncType, ObjectFacts DEF TypeOK, SyncTemp, Close
<1>2. obj' \in [Writers -> Objects]
  <2>1. [obj[o] EXCEPT !.pc = "attributes", !.handle = Invalid] \in Objects
    BY ObjectFacts DEF Objects, PCs
  <2> QED
    BY <2>1, BecomeType DEF TypeOK, SyncTemp
<1>3. ses' \in [0 .. MaxSessions -> Pasts]
  BY DEF TypeOK, SyncTemp, Close
<1>4. counter' \in [Processes -> Nat] /\ fds' \subseteq Sessions /\ count' \in Counts /\ copied' \in BOOLEAN
  BY DEF TypeOK, SyncTemp, Close
<1> QED
  BY <1>1, <1>2, <1>3, <1>4 DEF TypeOK

\* SyncTempFails preserves the types.
LEMMA SyncTempFailsType ==
  ASSUME TypeOK, NEW o \in Writers, SyncTempFails(o)
  PROVE  TypeOK'
<1>1. FSTypeOK'
  BY FsyncType, SameFilesType, ObjectFacts DEF TypeOK, SyncTempFails
<1>2. obj' \in [Writers -> Objects]
  BY ThrowType DEF SyncTempFails, CommitErrors
<1>3. ses' \in [0 .. MaxSessions -> Pasts]
  BY ThrowType DEF SyncTempFails, CommitErrors
<1>4. counter' \in [Processes -> Nat] /\ fds' \subseteq Sessions /\ count' \in Counts /\ copied' \in BOOLEAN
  BY DEF TypeOK, SyncTempFails
<1> QED
  BY <1>1, <1>2, <1>3, <1>4 DEF TypeOK

\* The three steps of preserve_attributes touch the attributes of the temp and
\* the place in the code, and nothing else.
LEMMA CopyAttributesSteps ==
  ASSUME TypeOK, NEW o \in Writers, CopyAttributes(o)
  PROVE  /\ \E r \in Objects :
              /\ Become(o, r)
              /\ r.pc \in {"chmod", "chown", "replace"}
              /\ r.ses = obj[o].ses /\ r.handle = obj[o].handle
              /\ r.committed = obj[o].committed /\ r.fallback = obj[o].fallback
         /\ obj[o].pc \in {"attributes", "chmod", "chown"}
         /\ UNCHANGED fsVars \/ \E a \in Attributes : SetAttributes(Ino(o), a)
         /\ UNCHANGED <<counter, fds, ses, count, copied>>
<1>0. obj[o] \in Objects /\ attr[Ino(o)] \in Attributes
  BY ObjectFacts
<1> DEFINE there == [obj[o] EXCEPT !.pc = "replace", !.st = NewFile]
           onward == [obj[o] EXCEPT !.pc = "chown"]
<1>1. /\ there \in Objects /\ there.pc = "replace" /\ there.ses = obj[o].ses
      /\ there.handle = obj[o].handle /\ there.committed = obj[o].committed
      /\ there.fallback = obj[o].fallback
  BY <1>0, NewFileType DEF Objects, PCs
<1>2. /\ onward \in Objects /\ onward.pc = "chown" /\ onward.ses = obj[o].ses
      /\ onward.handle = obj[o].handle /\ onward.committed = obj[o].committed
      /\ onward.fallback = obj[o].fallback
  BY <1>0 DEF Objects, PCs
<1>3. CASE StatTarget(o)
  <2> DEFINE found == [obj[o] EXCEPT !.pc = "chmod", !.st = attr[dir[Target]]]
  <2>1. ASSUME Exists(Target)
        PROVE  /\ found \in Objects /\ found.pc = "chmod" /\ found.ses = obj[o].ses
               /\ found.handle = obj[o].handle /\ found.committed = obj[o].committed
               /\ found.fallback = obj[o].fallback
    <3>1. attr[dir[Target]] \in Attributes
      BY <2>1 DEF TypeOK, FSTypeOK, Exists, Names
    <3> QED
      BY <1>0, <3>1 DEF Objects, PCs
  <2> HIDE DEF there
  <2>2. IF Exists(Target) THEN Become(o, found) ELSE Become(o, there)
    BY <1>3 DEF StatTarget, Goto, there
  <2> HIDE DEF found
  <2> QED
    BY <1>1, <1>3, <2>1, <2>2 DEF StatTarget, At
<1>4. CASE ChmodTemp(o)
  <2>1. [attr[Ino(o)] EXCEPT !.mode = obj[o].st.mode] \in Attributes
    BY <1>0 DEF Objects, Attributes
  <2>2. Become(o, onward) \/ Become(o, there)
    BY <1>4 DEF ChmodTemp, Goto
  <2> HIDE DEF there, onward
  <2> QED
    BY <1>1, <1>2, <1>4, <2>1, <2>2 DEF ChmodTemp, At
<1>5. CASE ChownTemp(o)
  <2>1. [attr[Ino(o)] EXCEPT !.owner = obj[o].st.owner] \in Attributes
    BY <1>0 DEF Objects, Attributes
  <2>2. Become(o, there)
    BY <1>5 DEF ChownTemp, Goto
  <2> HIDE DEF there
  <2> QED
    BY <1>1, <1>5, <2>1, <2>2 DEF ChownTemp, At
<1> QED
  BY <1>3, <1>4, <1>5 DEF CopyAttributes

\* CopyAttributes preserves the types.
LEMMA CopyAttributesType ==
  ASSUME TypeOK, NEW o \in Writers, CopyAttributes(o)
  PROVE  TypeOK'
<1>1. FSTypeOK'
  BY CopyAttributesSteps, SameFilesType, ObjectFacts, SetAttributesType DEF TypeOK
<1>2. obj' \in [Writers -> Objects]
  BY CopyAttributesSteps, BecomeType
<1>3. UNCHANGED <<counter, fds, ses, count, copied>>
  BY CopyAttributesSteps
<1> QED
  BY <1>1, <1>2, <1>3 DEF TypeOK

\* CopyAttributesFails preserves the types.
LEMMA CopyAttributesFailsType ==
  ASSUME TypeOK, NEW o \in Writers, CopyAttributesFails(o)
  PROVE  TypeOK'
<1>1. FSTypeOK'
  BY SameFilesType DEF TypeOK, CopyAttributesFails
<1>2. obj' \in [Writers -> Objects]
  BY ThrowType DEF CopyAttributesFails, CommitErrors
<1>3. ses' \in [0 .. MaxSessions -> Pasts]
  BY ThrowType DEF CopyAttributesFails, CommitErrors
<1>4. counter' \in [Processes -> Nat] /\ fds' \subseteq Sessions /\ count' \in Counts /\ copied' \in BOOLEAN
  BY DEF TypeOK, CopyAttributesFails
<1> QED
  BY <1>1, <1>2, <1>3, <1>4 DEF TypeOK

\* Rename preserves the types.
LEMMA RenameType_ ==
  ASSUME TypeOK, NEW o \in Writers, Rename(o)
  PROVE  TypeOK'
<1>1. FSTypeOK'
  BY RenameType, ObjectFacts DEF TypeOK, Rename
<1>2. obj' \in [Writers -> Objects]
  BY GotoType DEF Rename, PCs
<1>3. ses' \in [0 .. MaxSessions -> Pasts]
  BY PutType, ObjectFacts DEF Rename
<1>4. counter' \in [Processes -> Nat] /\ fds' \subseteq Sessions /\ count' \in Counts /\ copied' \in BOOLEAN
  BY PutType, ObjectFacts DEF TypeOK, Rename
<1> QED
  BY <1>1, <1>2, <1>3, <1>4 DEF TypeOK

\* RenameFails preserves the types.
LEMMA RenameFailsType ==
  ASSUME TypeOK, NEW o \in Writers, RenameFails(o)
  PROVE  TypeOK'
<1>1. FSTypeOK'
  BY SameFilesType DEF TypeOK, RenameFails
<1>2. obj' \in [Writers -> Objects]
  BY ThrowType DEF RenameFails, CommitErrors
<1>3. ses' \in [0 .. MaxSessions -> Pasts]
  BY ThrowType DEF RenameFails, CommitErrors
<1>4. counter' \in [Processes -> Nat] /\ fds' \subseteq Sessions /\ count' \in Counts /\ copied' \in BOOLEAN
  BY DEF TypeOK, RenameFails
<1> QED
  BY <1>1, <1>2, <1>3, <1>4 DEF TypeOK

\* RenameCrossesFilesystems preserves the types.
LEMMA RenameCrossesFilesystemsType ==
  ASSUME TypeOK, NEW o \in Writers, RenameCrossesFilesystems(o)
  PROVE  TypeOK'
<1>1. FSTypeOK'
  BY SameFilesType DEF TypeOK, RenameCrossesFilesystems
<1>2. obj' \in [Writers -> Objects]
  BY ThrowType DEF RenameCrossesFilesystems, CommitErrors
<1>3. ses' \in [0 .. MaxSessions -> Pasts]
  BY ThrowType DEF RenameCrossesFilesystems, CommitErrors
<1>4. counter' \in [Processes -> Nat] /\ fds' \subseteq Sessions /\ count' \in Counts /\ copied' \in BOOLEAN
  BY DEF TypeOK, RenameCrossesFilesystems
<1> QED
  BY <1>1, <1>2, <1>3, <1>4 DEF TypeOK

\* CopyBegins preserves the types.
LEMMA CopyBeginsType ==
  ASSUME TypeOK, NEW o \in Writers, CopyBegins(o)
  PROVE  TypeOK'
<1>1. FSTypeOK'
  <2>1. dir[Target] \in Inodes /\ [by |-> obj[o].ses, len |-> 0] \in Contents
    BY ObjectFacts DEF TypeOK, FSTypeOK, CopyBegins, Exists, Names, Contents, Inodes
  <2> QED
    BY <2>1, SetContentsType DEF TypeOK, CopyBegins
<1>2. obj' \in [Writers -> Objects]
  <2>1. [obj[o] EXCEPT !.pc = "copy", !.into = dir[Target]] \in Objects
    BY ZenonT(40), ObjectFacts DEF Objects, PCs, TypeOK, FSTypeOK, Names
  <2> QED
    BY <2>1, BecomeType DEF TypeOK, CopyBegins, CopyBegins
<1>3. ses' \in [0 .. MaxSessions -> Pasts]
  BY PutType, ObjectFacts DEF CopyBegins
<1>4. counter' \in [Processes -> Nat] /\ fds' \subseteq Sessions /\ count' \in Counts /\ copied' \in BOOLEAN
  BY PutType, ObjectFacts DEF TypeOK, CopyBegins
<1> QED
  BY <1>1, <1>2, <1>3, <1>4 DEF TypeOK

\* CopyEnds preserves the types.
LEMMA CopyEndsType ==
  ASSUME TypeOK, NEW o \in Writers, CopyEnds(o)
  PROVE  TypeOK'
<1>1. FSTypeOK'
  <2>1. obj[o].into \in Inodes \cup {NoFile}
    BY ObjectFacts DEF Objects
  <2>2. /\ [by |-> obj[o].ses, len |-> ses[obj[o].ses].want] \in Contents
        /\ [by |-> NoFile, len |-> 0] \in Contents
    BY ObjectFacts DEF Contents, Pasts, Inodes
  <2> QED
    BY <2>1, <2>2, SetContentsType DEF TypeOK, CopyEnds
<1>2. obj' \in [Writers -> Objects]
  <2>1. [obj[o] EXCEPT !.pc = "remove", !.into = NoFile] \in Objects
    BY ObjectFacts DEF Objects, PCs
  <2> QED
    BY <2>1, BecomeType DEF TypeOK, CopyEnds, CopyEnds
<1>3. ses' \in [0 .. MaxSessions -> Pasts]
  BY DEF TypeOK, CopyEnds
<1>4. counter' \in [Processes -> Nat] /\ fds' \subseteq Sessions /\ count' \in Counts /\ copied' \in BOOLEAN
  BY DEF TypeOK, CopyEnds
<1> QED
  BY <1>1, <1>2, <1>3, <1>4 DEF TypeOK

\* CopyFails preserves the types.
LEMMA CopyFailsType ==
  ASSUME TypeOK, NEW o \in Writers, CopyFails(o)
  PROVE  TypeOK'
<1>1. FSTypeOK'
  BY SameFilesType DEF TypeOK, CopyFails
<1>2. obj' \in [Writers -> Objects]
  <2>1. [obj[o] EXCEPT !.pc = "idle", !.into = NoFile] \in Objects
    BY ObjectFacts DEF Objects, PCs
  <2> QED
    BY <2>1, BecomeType DEF TypeOK, CopyFails, CopyFails
<1>3. ses' \in [0 .. MaxSessions -> Pasts]
  BY ZenonT(40) DEF TypeOK, CopyFails, Pasts, Results, CommitErrors
<1>4. counter' \in [Processes -> Nat] /\ fds' \subseteq Sessions /\ count' \in Counts /\ copied' \in BOOLEAN
  BY DEF TypeOK, CopyFails
<1> QED
  BY <1>1, <1>2, <1>3, <1>4 DEF TypeOK

\* RemoveTemp preserves the types.
LEMMA RemoveTempType ==
  ASSUME TypeOK, NEW o \in Writers, RemoveTemp(o)
  PROVE  TypeOK'
<1>1. FSTypeOK'
  BY SameFilesType, UnlinkType, ObjectFacts DEF TypeOK, RemoveTemp
<1>2. obj' \in [Writers -> Objects]
  BY GotoType DEF RemoveTemp, PCs
<1>3. ses' \in [0 .. MaxSessions -> Pasts]
  BY DEF TypeOK, RemoveTemp
<1>4. counter' \in [Processes -> Nat] /\ fds' \subseteq Sessions /\ count' \in Counts /\ copied' \in BOOLEAN
  BY DEF TypeOK, RemoveTemp
<1> QED
  BY <1>1, <1>2, <1>3, <1>4 DEF TypeOK

\* SyncDir preserves the types.
LEMMA SyncDirType ==
  ASSUME TypeOK, NEW o \in Writers, SyncDir(o)
  PROVE  TypeOK'
<1>1. FSTypeOK'
  BY SameFilesType, FsyncDirType DEF TypeOK, SyncDir
<1>2. obj' \in [Writers -> Objects]
  <2>1. [obj[o] EXCEPT !.pc = "idle", !.committed = TRUE] \in Objects
    BY ObjectFacts DEF Objects, PCs
  <2> QED
    BY <2>1, BecomeType DEF TypeOK, SyncDir, SyncDir
<1>3. ses' \in [0 .. MaxSessions -> Pasts]
  BY DEF TypeOK, SyncDir, Pasts, Results
<1>4. counter' \in [Processes -> Nat] /\ fds' \subseteq Sessions /\ count' \in Counts /\ copied' \in BOOLEAN
  BY DEF TypeOK, SyncDir
<1> QED
  BY <1>1, <1>2, <1>3, <1>4 DEF TypeOK

\* SyncDirFails preserves the types.
LEMMA SyncDirFailsType ==
  ASSUME TypeOK, NEW o \in Writers, SyncDirFails(o)
  PROVE  TypeOK'
<1>1. FSTypeOK'
  BY SameFilesType DEF TypeOK, SyncDirFails
<1>2. obj' \in [Writers -> Objects]
  BY ThrowType DEF SyncDirFails, CommitErrors
<1>3. ses' \in [0 .. MaxSessions -> Pasts]
  BY ThrowType DEF SyncDirFails, CommitErrors
<1>4. counter' \in [Processes -> Nat] /\ fds' \subseteq Sessions /\ count' \in Counts /\ copied' \in BOOLEAN
  BY DEF TypeOK, SyncDirFails
<1> QED
  BY <1>1, <1>2, <1>3, <1>4 DEF TypeOK

\* Destroy preserves the types.
LEMMA DestroyType ==
  ASSUME TypeOK, NEW o \in Writers, Destroy(o)
  PROVE  TypeOK'
<1>1. FSTypeOK'
  BY SameFilesType, UnlinkType, ObjectFacts DEF TypeOK, Destroy, Discard, Close, RemoveQuietly
<1>2. obj' \in [Writers -> Objects]
  BY NoObjectType, BecomeType DEF Destroy
<1>3. ses' \in [0 .. MaxSessions -> Pasts]
  BY DEF TypeOK, Destroy
<1>4. counter' \in [Processes -> Nat] /\ fds' \subseteq Sessions /\ count' \in Counts /\ copied' \in BOOLEAN
  BY DEF TypeOK, Destroy, Discard, Close, RemoveQuietly
<1> QED
  BY <1>1, <1>2, <1>3, <1>4 DEF TypeOK

\* MoveConstruct preserves the types.
LEMMA MoveConstructType ==
  ASSUME TypeOK, NEW from \in Writers, NEW to \in Writers, MoveConstruct(from, to)
  PROVE  TypeOK'
<1>1. FSTypeOK'
  BY SameFilesType DEF TypeOK, MoveConstruct
<1>2. obj' \in [Writers -> Objects]
  BY MoveType DEF MoveConstruct
<1>3. ses' \in [0 .. MaxSessions -> Pasts]
  BY DEF TypeOK, MoveConstruct, MoveMembers
<1>4. counter' \in [Processes -> Nat] /\ fds' \subseteq Sessions /\ count' \in Counts /\ copied' \in BOOLEAN
  BY DEF TypeOK, MoveConstruct, MoveMembers
<1> QED
  BY <1>1, <1>2, <1>3, <1>4 DEF TypeOK

\* MoveAssign preserves the types.
LEMMA MoveAssignType ==
  ASSUME TypeOK, NEW from \in Writers, NEW to \in Writers, MoveAssign(from, to)
  PROVE  TypeOK'
<1>1. FSTypeOK'
  BY SameFilesType, UnlinkType, ObjectFacts DEF TypeOK, MoveAssign, Discard, Close, RemoveQuietly
<1>2. obj' \in [Writers -> Objects]
  BY MoveType DEF MoveAssign
<1>3. ses' \in [0 .. MaxSessions -> Pasts]
  BY DEF TypeOK, MoveAssign, MoveMembers
<1>4. counter' \in [Processes -> Nat] /\ fds' \subseteq Sessions /\ count' \in Counts /\ copied' \in BOOLEAN
  BY DEF TypeOK, MoveAssign, MoveMembers, Discard, Close, RemoveQuietly
<1> QED
  BY <1>1, <1>2, <1>3, <1>4 DEF TypeOK

\* SetFallback preserves the types.
LEMMA SetFallbackType ==
  ASSUME TypeOK, NEW o \in Writers, NEW enabled \in BOOLEAN, SetFallback(o, enabled)
  PROVE  TypeOK'
<1>1. FSTypeOK'
  BY SameFilesType DEF TypeOK, SetFallback
<1>2. obj' \in [Writers -> Objects]
  <2>1. [obj[o] EXCEPT !.fallback = enabled] \in Objects
    BY ObjectFacts DEF Objects, PCs
  <2> QED
    BY <2>1, BecomeType DEF TypeOK, SetFallback, SetFallback
<1>3. ses' \in [0 .. MaxSessions -> Pasts]
  BY DEF TypeOK, SetFallback
<1>4. counter' \in [Processes -> Nat] /\ fds' \subseteq Sessions /\ count' \in Counts /\ copied' \in BOOLEAN
  BY DEF TypeOK, SetFallback
<1> QED
  BY <1>1, <1>2, <1>3, <1>4 DEF TypeOK

\* Kill preserves the types.
LEMMA KillType ==
  ASSUME TypeOK, NEW p \in Processes, Kill(p)
  PROVE  TypeOK'
<1>1. FSTypeOK'
  BY SameFilesType DEF TypeOK, Kill
<1>2. obj' \in [Writers -> Objects]
  BY NoObjectType DEF TypeOK, Kill, Die
<1>3. ses' \in [0 .. MaxSessions -> Pasts]
  BY DEF TypeOK, Kill, Die
<1>4. counter' \in [Processes -> Nat] /\ fds' \subseteq Sessions /\ copied' \in BOOLEAN
  BY DEF TypeOK, Kill, Die
<1>5. count \in Counts /\ count' = [count EXCEPT !.deaths = @ + 1]
  BY DEF TypeOK, Kill, Die
<1>6. count' \in Counts
  BY <1>5 DEF Counts
<1> QED
  BY <1>1, <1>2, <1>3, <1>4, <1>6 DEF TypeOK

\* Crash preserves the types.
LEMMA CrashType ==
  ASSUME TypeOK, Crash
  PROVE  TypeOK'
<1>1. FSTypeOK'
  BY FSCrashType DEF TypeOK, Crash
<1>2. obj' \in [Writers -> Objects]
  BY NoObjectType DEF TypeOK, Crash, Die
<1>3. ses' \in [0 .. MaxSessions -> Pasts]
  BY DEF TypeOK, Crash, Die
<1>4. counter' \in [Processes -> Nat] /\ fds' \subseteq Sessions /\ count' \in Counts /\ copied' \in BOOLEAN
  BY DEF TypeOK, Crash, Die, Counts
<1> QED
  BY <1>1, <1>2, <1>3, <1>4 DEF TypeOK

\* UserChmod preserves the types.
LEMMA UserChmodType ==
  ASSUME TypeOK, NEW mode \in {"user", "ro"}, UserChmod(mode)
  PROVE  TypeOK'
<1>1. FSTypeOK'
  <2>1. dir[Target] \in Inodes /\ attr[dir[Target]] \in Attributes
    BY DEF TypeOK, FSTypeOK, UserChmod, Exists, Names
  <2>2. [attr[dir[Target]] EXCEPT !.mode = mode] \in Attributes
    BY <2>1 DEF Attributes
  <2> QED
    BY <2>1, <2>2, SetAttributesType DEF TypeOK, UserChmod
<1>2. obj' \in [Writers -> Objects]
  BY DEF TypeOK, UserChmod
<1>3. ses' \in [0 .. MaxSessions -> Pasts]
  BY DEF TypeOK, UserChmod
<1>4. counter' \in [Processes -> Nat] /\ fds' \subseteq Sessions /\ count' \in Counts /\ copied' \in BOOLEAN
  BY DEF TypeOK, UserChmod, Counts
<1> QED
  BY <1>1, <1>2, <1>3, <1>4 DEF TypeOK

(* Every step keeps the types.                                             *)
LEMMA TypeStep == TypeOK /\ [Next]_vars => TypeOK'
<1>1. TypeOK /\ UNCHANGED vars => TypeOK'
  BY SameFilesType DEF TypeOK, vars, writerVars
<1>2. ASSUME TypeOK, NEW o \in Writers, WriterStep(o) PROVE TypeOK'
  BY <1>2, ConstructType, ConstructFailsType, BeginWriteType, WriteSomeType, WriteFailsType,
     BeginCommitType, SyncTempType, SyncTempFailsType, CopyAttributesType,
     CopyAttributesFailsType, RenameType_, RenameFailsType, RenameCrossesFilesystemsType,
     CopyBeginsType, CopyEndsType, CopyFailsType, RemoveTempType, SyncDirType,
     SyncDirFailsType, DestroyType, MoveConstructType, MoveAssignType, SetFallbackType
     DEF WriterStep, CommitStep
<1> QED
  BY <1>1, <1>2, KillType, CrashType, UserChmodType DEF Next

\* The initial states are typed.
LEMMA TypeInit == Init => TypeOK
<1> SUFFICES ASSUME Init PROVE TypeOK
  OBVIOUS
<1>1. FSTypeOK
  <2>1. dir \in [Names -> Inodes \cup {NoFile}] /\ dirDisk = {dir}
    BY SessionsAssumption DEF Init, FSInit, Inodes
  <2>2. data \in [Inodes -> Contents] /\ dataDisk \in [Inodes -> SUBSET Contents]
    BY DEF Init, FSInit, Contents
  <2>3. attr \in [Inodes -> Attributes] /\ attrDisk \in [Inodes -> SUBSET Attributes]
    BY DEF Init, FSInit, Attributes, OldFile, NewFile
  <2> QED
    BY <2>1, <2>2, <2>3 DEF Init, FSInit, FSTypeOK
<1>2. ses \in [0 .. MaxSessions -> Pasts]
  BY SessionsAssumption DEF Init, Pasts, Names, Inodes, Results
<1>3. count \in Counts
  BY SessionsAssumption DEF Init, Counts
<1> QED
  BY <1>1, <1>2, <1>3, NoObjectType DEF Init, TypeOK

(* The variables stay in their types: object fields, descriptors, the      *)
(* directory and what the disk may show of it.                             *)
THEOREM TypeCorrect == Spec => []TypeOK
BY TypeInit, TypeStep, PTL DEF Spec

-----------------------------------------------------------------------------
(* TargetWhole.                                                            *)

\* The sessions' temps, contents asked for and ranks are as before.
SamePasts ==
  \A s \in 0 .. MaxSessions :
    /\ ses'[s].temp = ses[s].temp /\ ses'[s].ino = ses[s].ino
    /\ ses'[s].want = ses[s].want /\ ses'[s].rank = ses[s].rank

\* Only the object that takes a step is changed by Become.
LEMMA OneObject ==
  ASSUME TypeOK, NEW o \in Writers, NEW r, Become(o, r)
  PROVE  obj'[o] = r /\ \A q \in Writers \ {o} : obj'[q] = obj[q]
BY DEF TypeOK, Become

\* An exception changes nothing of a session but its result.
LEMMA ThrowKeepsPasts ==
  ASSUME TypeOK, NEW o \in Writers, NEW leaf, Throw(o, leaf)
  PROVE  SamePasts
BY DEF TypeOK, Throw, SamePasts, Pasts

\* A whole content stays whole when the session that wrote it keeps its
\* rank and length.
LEMMA WholeStays ==
  ASSUME TypeOK, NEW c, Whole(c),
         \A s \in Inodes : ses[s].rank # NotPut =>
           ses'[s].rank # NotPut /\ ses'[s].want = ses[s].want
  PROVE  Whole(c)'
BY DEF Whole

\* The calm steps: nothing new appears in the directory, in a file or on
\* the disk, no object takes up a temp, and the past does not change.
LEMMA Calm ==
  ASSUME TypeOK, TypeOK', Rest, SamePasts,
         dir' = dir, dir \in dirDisk', dirDisk' \subseteq dirDisk,
         data' = data, lost' = lost,
         \A i \in Inodes : data[i] \in dataDisk'[i] /\ dataDisk'[i] \subseteq dataDisk[i],
         count'.sessions = count.sessions,
         \A p \in Processes : counter'[p] >= counter[p],
         \A q \in Writers : obj'[q].ses = obj[q].ses,
         \A q \in Writers : Holds(q)' => Holds(q) /\ obj'[q].pc # "none",
         \A q \in Writers : obj'[q] = obj[q] \/ Phase(q)'
  PROVE  Rest'
<1>1. \A q \in Writers : obj[q].ses \in 0 .. MaxSessions
  BY ObjectFacts
<1>2. \A q \in Writers : Temp(q)' = Temp(q) /\ Ino(q)' = Ino(q) /\ Complete(q)' = Complete(q)
  BY <1>1 DEF Temp, Ino, Complete, SamePasts
<1>3. FreshInv'
  BY DEF Rest, FreshInv, SamePasts, Sessions
<1>4. DirInv'
  BY DEF Rest, DirInv
<1>5. ASSUME NEW q \in Writers, Holds(q)' PROVE KnowsTemp(q)'
  <2>1. KnowsTemp(q) /\ obj'[q].pc # "none"
    BY <1>5 DEF Rest, TempInv
  <2>2. Home[q] \in Processes /\ counter[Home[q]] \in Nat /\ counter'[Home[q]] \in Nat
    BY WritersAssumption DEF TypeOK
  <2>3. Temp(q)[2] \in Nat
    BY <2>1 DEF KnowsTemp, Temps
  <2>4. Temp(q)'[2] < counter'[Home[q]]
    BY <1>2, <2>1, <2>2, <2>3 DEF KnowsTemp
  <2> QED
    BY <1>1, <1>2, <2>1, <2>4 DEF KnowsTemp, SamePasts
<1>6. TempInv'
  BY <1>2, <1>5 DEF Rest, TempInv
<1>7. PhaseInv'
  <2> SUFFICES ASSUME NEW q \in Writers, obj'[q] = obj[q] PROVE Phase(q)'
    BY DEF PhaseInv
  <2>1. Phase(q) /\ Ino(q) \in Inodes
    BY ObjectFacts DEF Rest, PhaseInv
  <2>2. data[Ino(q)] \in dataDisk'[Ino(q)] /\ dataDisk'[Ino(q)] \subseteq dataDisk[Ino(q)]
    BY <2>1
  <2> QED
    BY <1>2, <2>1, <2>2 DEF Phase, Holds
<1>8. DiskInv'
  BY DEF Rest, DiskInv
<1>9. WholeInv'
  <2> SUFFICES ASSUME NEW d \in dirDisk', d[Target] # NoFile, NEW c \in dataDisk'[d[Target]]
               PROVE  Whole(c)'
    BY DEF WholeInv
  <2>1. d[Target] \in Inodes
    BY DEF TypeOK, FSTypeOK, Names
  <2>2. Whole(c)
    BY <2>1 DEF Rest, WholeInv
  <2> QED
    BY <2>2, WholeStays DEF SamePasts, Inodes
<1> QED
  BY <1>3, <1>4, <1>6, <1>7, <1>8, <1>9 DEF Rest

\* A calm step of one object that leaves the files alone and only moves to
\* another place in its code.
LEMMA CalmObject ==
  ASSUME TypeOK, TypeOK', Rest, SamePasts, NEW o \in Writers, NEW r,
         Become(o, r), r.ses = obj[o].ses, r.handle = obj[o].handle,
         r.pc # "none", r.pc \in {"attributes", "chmod", "chown", "replace"} => obj[o].pc = r.pc,
         dir' = dir, dirDisk' = dirDisk, data' = data, dataDisk' = dataDisk, lost' = lost,
         count'.sessions = count.sessions, counter' = counter,
         Phase(o)'
  PROVE  Rest'
<1>1. obj'[o] = r /\ \A q \in Writers \ {o} : obj'[q] = obj[q]
  BY OneObject
<1>2. \A i \in Inodes : data[i] \in dataDisk'[i] /\ dataDisk'[i] \subseteq dataDisk[i]
  BY DEF Rest, DiskInv
<1>3. \A q \in Writers : Holds(q)' => Holds(q) /\ obj'[q].pc # "none"
  BY <1>1 DEF Holds, Rest, TempInv, KnowsTemp
<1>4. \A p \in Processes : counter'[p] >= counter[p]
  BY DEF TypeOK
<1>5. dir \in dirDisk' /\ dirDisk' \subseteq dirDisk
  BY DEF Rest, DirInv
<1>6. \A q \in Writers : obj'[q].ses = obj[q].ses
  BY <1>1
<1>7. \A q \in Writers : obj'[q] = obj[q] \/ Phase(q)'
  BY <1>1
<1> QED
  BY <1>2, <1>3, <1>4, <1>5, <1>6, <1>7, Calm

\* Every throw of commit() before or after the rename.
LEMMA CalmThrow ==
  ASSUME TypeOK, TypeOK', Rest, NEW o \in Writers, NEW leaf \in CommitErrors, Throw(o, leaf),
         dir' = dir, dirDisk' = dirDisk, data' = data, dataDisk' = dataDisk, lost' = lost,
         count' = count, counter' = counter
  PROVE  Rest'
<1>1. SamePasts
  BY ThrowKeepsPasts
<1>2. Become(o, [obj[o] EXCEPT !.pc = "idle", !.st = NewFile])
  BY DEF Throw, Goto
<1>3. [obj[o] EXCEPT !.pc = "idle", !.st = NewFile].ses = obj[o].ses /\ [obj[o] EXCEPT !.pc = "idle", !.st = NewFile].handle = obj[o].handle /\ [obj[o] EXCEPT !.pc = "idle", !.st = NewFile].pc = "idle"
  BY ObjectFacts DEF Objects
<1>4. Phase(o)'
  BY <1>2, <1>3, OneObject DEF Phase
<1> QED
  BY <1>1, <1>2, <1>3, <1>4, CalmObject

\* CopyAttributesFails preserves the rest of the invariant.
LEMMA CopyAttributesFailsRest ==
  ASSUME TypeOK, TypeOK', Rest, NEW o \in Writers, CopyAttributesFails(o)
  PROVE  Rest'
BY CalmThrow DEF CopyAttributesFails, CommitErrors, fsVars, SetAttributes

\* RenameFails preserves the rest of the invariant.
LEMMA RenameFailsRest ==
  ASSUME TypeOK, TypeOK', Rest, NEW o \in Writers, RenameFails(o)
  PROVE  Rest'
BY CalmThrow DEF RenameFails, CommitErrors, fsVars

\* RenameCrossesFilesystems preserves the rest of the invariant.
LEMMA RenameCrossesFilesystemsRest ==
  ASSUME TypeOK, TypeOK', Rest, NEW o \in Writers, RenameCrossesFilesystems(o)
  PROVE  Rest'
BY CalmThrow DEF RenameCrossesFilesystems, CommitErrors, fsVars

\* SyncDirFails preserves the rest of the invariant.
LEMMA SyncDirFailsRest ==
  ASSUME TypeOK, TypeOK', Rest, NEW o \in Writers, SyncDirFails(o)
  PROVE  Rest'
BY CalmThrow DEF SyncDirFails, CommitErrors, fsVars

\* SyncTempFails preserves the rest of the invariant.
LEMMA SyncTempFailsRest ==
  ASSUME "fsync_drops" \notin Faults,
         TypeOK, TypeOK', Rest, NEW o \in Writers, SyncTempFails(o)
  PROVE  Rest'
BY CalmThrow DEF SyncTempFails, CommitErrors, fsVars, FsyncError, MayFail

\* WriteFails preserves the rest of the invariant.
LEMMA WriteFailsRest ==
  ASSUME TypeOK, TypeOK', Rest, NEW o \in Writers, WriteFails(o)
  PROVE  Rest'
<1> DEFINE r == [obj[o] EXCEPT !.pc = "idle", !.left = 0]
<1>1. Become(o, r) /\ r.ses = obj[o].ses /\ r.handle = obj[o].handle /\ r.pc = "idle"
  BY ObjectFacts DEF WriteFails, Objects
<1>2. obj'[o] = r
  BY <1>1, OneObject
<1>3. Phase(o)'
  BY <1>1, <1>2, ObjectFacts DEF Phase
<1> QED
  BY <1>1, <1>3, CalmObject DEF WriteFails, SamePasts, fsVars

\* BeginCommit preserves the rest of the invariant.
LEMMA BeginCommitRest ==
  ASSUME TypeOK, TypeOK', Rest, NEW o \in Writers, BeginCommit(o)
  PROVE  Rest'
<1> DEFINE r == [obj[o] EXCEPT !.pc = "fsync", !.st = NewFile]
<1>1. Become(o, r) /\ r.ses = obj[o].ses /\ r.handle = obj[o].handle /\ r.pc = "fsync"
  BY ObjectFacts DEF BeginCommit, Objects, Goto
<1>2. obj'[o] = r
  BY <1>1, OneObject
<1>3. Phase(o)'
  BY <1>1, <1>2, ObjectFacts DEF Phase, BeginCommit, Complete, Ino, fsVars
<1> QED
  BY <1>1, <1>3, CalmObject DEF BeginCommit, SamePasts, fsVars

\* SetFallback preserves the rest of the invariant.
LEMMA SetFallbackRest ==
  ASSUME TypeOK, TypeOK', Rest, NEW o \in Writers, NEW enabled \in BOOLEAN, SetFallback(o, enabled)
  PROVE  Rest'
<1> DEFINE r == [obj[o] EXCEPT !.fallback = enabled]
<1>1. Become(o, r) /\ r.ses = obj[o].ses /\ r.handle = obj[o].handle /\ r.pc = "idle"
  BY ObjectFacts DEF SetFallback, Objects, At
<1>2. obj'[o] = r
  BY <1>1, OneObject
<1>3. Phase(o)'
  BY <1>1, <1>2, ObjectFacts DEF Phase
<1> QED
  BY <1>1, <1>3, CalmObject DEF SetFallback, SamePasts, fsVars

\* ConstructFails preserves the rest of the invariant.
LEMMA ConstructFailsRest ==
  ASSUME TypeOK, TypeOK', Rest, NEW o \in Writers, ConstructFails(o)
  PROVE  Rest'
<1>1. \A p \in Processes : counter'[p] >= counter[p]
  BY WritersAssumption DEF TypeOK, ConstructFails, Drawn
<1>2. \A q \in Writers : obj'[q] = obj[q]
  BY DEF ConstructFails
<1>3. \A q \in Writers : Holds(q)' => Holds(q) /\ obj'[q].pc # "none"
  BY <1>2 DEF Holds, Rest, TempInv, KnowsTemp
<1>4. dir \in dirDisk /\ \A i \in Inodes : data[i] \in dataDisk[i]
  BY DEF Rest, DirInv, DiskInv
<1> QED
  BY <1>1, <1>2, <1>3, <1>4, Calm DEF ConstructFails, fsVars, SamePasts

\* UserChmod preserves the rest of the invariant.
LEMMA UserChmodRest ==
  ASSUME TypeOK, TypeOK', Rest, NEW mode, UserChmod(mode)
  PROVE  Rest'
<1>1. \A p \in Processes : counter'[p] >= counter[p]
  BY DEF TypeOK, UserChmod
<1>2. \A q \in Writers : obj'[q] = obj[q]
  BY DEF UserChmod
<1>3. \A q \in Writers : Holds(q)' => Holds(q) /\ obj'[q].pc # "none"
  BY <1>2 DEF Holds, Rest, TempInv, KnowsTemp
<1>4. dir \in dirDisk /\ \A i \in Inodes : data[i] \in dataDisk[i]
  BY DEF Rest, DirInv, DiskInv
<1>5. count'.sessions = count.sessions
  BY DEF UserChmod, TypeOK, Counts
<1> QED
  BY <1>1, <1>2, <1>3, <1>4, <1>5, Calm DEF UserChmod, SetAttributes, SamePasts

\* SyncTemp preserves the rest of the invariant.
LEMMA SyncTempRest ==
  ASSUME TypeOK, TypeOK', Rest, NEW o \in Writers, SyncTemp(o)
  PROVE  Rest'
<1> DEFINE r == [obj[o] EXCEPT !.pc = "attributes", !.handle = Invalid]
<1>1. Become(o, r) /\ r.ses = obj[o].ses /\ r.handle = Invalid /\ r.pc = "attributes"
  BY ObjectFacts DEF SyncTemp, Objects
<1>2. obj'[o] = r /\ \A q \in Writers \ {o} : obj'[q] = obj[q]
  BY <1>1, OneObject
<1>3. Ino(o) \in Inodes /\ obj[o].ses \in 0 .. MaxSessions
  BY ObjectFacts
<1>4. /\ dir' = dir /\ dirDisk' = dirDisk /\ data' = data /\ lost' = lost
      /\ dataDisk' = [dataDisk EXCEPT ![Ino(o)] = {data[Ino(o)]}]
      /\ ses' = ses /\ counter' = counter /\ count' = count
  BY DEF SyncTemp, Fsync, Rest, DiskInv
<1>5. \A i \in Inodes : data[i] \in dataDisk'[i] /\ dataDisk'[i] \subseteq dataDisk[i]
  BY <1>3, <1>4 DEF TypeOK, FSTypeOK, Rest, DiskInv
<1>6. Holds(o) /\ Complete(o)
  BY DEF SyncTemp, At, Holds, Rest, PhaseInv, Phase
<1>7. Phase(o)'
  <2>1. Ino(o)' = Ino(o) /\ Complete(o)'
    BY <1>1, <1>2, <1>3, <1>4, <1>6 DEF Ino, Complete
  <2>2. dataDisk'[Ino(o)] = {data[Ino(o)]}
    BY <1>3, <1>4 DEF TypeOK, FSTypeOK
  <2> QED
    BY <1>1, <1>2, <1>4, <2>1, <2>2 DEF Phase
<1>8. \A q \in Writers : Holds(q)' => Holds(q) /\ obj'[q].pc # "none"
  <2>1. Holds(o) /\ obj'[o].pc # "none"
    BY <1>1, <1>2, <1>6
  <2>2. \A q \in Writers \ {o} : Holds(q)' => Holds(q) /\ obj'[q].pc # "none"
    BY <1>2 DEF Holds, Rest, TempInv, KnowsTemp
  <2> QED
    BY <2>1, <2>2
<1>9. \A p \in Processes : counter'[p] >= counter[p]
  BY <1>4 DEF TypeOK
<1>10. /\ dir \in dirDisk' /\ dirDisk' \subseteq dirDisk
       /\ \A q \in Writers : obj'[q].ses = obj[q].ses
       /\ \A q \in Writers : obj'[q] = obj[q] \/ Phase(q)'
       /\ SamePasts
  BY <1>1, <1>2, <1>4, <1>7 DEF Rest, DirInv, SamePasts
<1> QED
  BY <1>4, <1>5, <1>8, <1>9, <1>10, Calm

\* CopyAttributes preserves the rest of the invariant.
LEMMA CopyAttributesRest ==
  ASSUME TypeOK, TypeOK', Rest, NEW o \in Writers, CopyAttributes(o)
  PROVE  Rest'
<1>1. PICK r \in Objects :
        /\ Become(o, r) /\ r.pc \in {"chmod", "chown", "replace"}
        /\ r.ses = obj[o].ses /\ r.handle = obj[o].handle
  BY CopyAttributesSteps
<1>2. obj'[o] = r /\ \A q \in Writers \ {o} : obj'[q] = obj[q]
  BY <1>1, OneObject
<1>3. /\ dir' = dir /\ dirDisk' = dirDisk /\ data' = data /\ lost' = lost /\ dataDisk' = dataDisk
      /\ ses' = ses /\ counter' = counter /\ count' = count
  BY CopyAttributesSteps DEF SetAttributes, fsVars
<1>4. Phase(o) /\ obj[o].pc \in {"attributes", "chmod", "chown"}
  BY CopyAttributesSteps DEF Rest, PhaseInv
<1>5. Ino(o)' = Ino(o) /\ Complete(o)' = Complete(o)
  BY <1>1, <1>2, <1>3, ObjectFacts DEF Ino, Complete
<1>6. Phase(o)'
  BY <1>1, <1>2, <1>3, <1>4, <1>5 DEF Phase, Holds
<1>7. \A i \in Inodes : data[i] \in dataDisk'[i] /\ dataDisk'[i] \subseteq dataDisk[i]
  BY <1>3 DEF Rest, DiskInv
<1>8. \A q \in Writers : Holds(q)' => Holds(q) /\ obj'[q].pc # "none"
  <2>1. Holds(o) /\ obj'[o].pc # "none"
    BY <1>1, <1>2, <1>4 DEF Holds
  <2>2. \A q \in Writers \ {o} : Holds(q)' => Holds(q) /\ obj'[q].pc # "none"
    BY <1>2 DEF Holds, Rest, TempInv, KnowsTemp
  <2> QED
    BY <2>1, <2>2
<1>9. \A p \in Processes : counter'[p] >= counter[p]
  BY <1>3 DEF TypeOK
<1>10. /\ dir \in dirDisk' /\ dirDisk' \subseteq dirDisk
       /\ \A q \in Writers : obj'[q].ses = obj[q].ses
       /\ \A q \in Writers : obj'[q] = obj[q] \/ Phase(q)'
       /\ SamePasts
  BY <1>1, <1>2, <1>3, <1>6 DEF Rest, DirInv, SamePasts
<1> QED
  BY <1>3, <1>7, <1>8, <1>9, <1>10, Calm

\* SyncDir preserves the rest of the invariant.
LEMMA SyncDirRest ==
  ASSUME TypeOK, TypeOK', Rest, NEW o \in Writers, SyncDir(o)
  PROVE  Rest'
<1> DEFINE r == [obj[o] EXCEPT !.pc = "idle", !.committed = TRUE]
<1>1. Become(o, r) /\ r.ses = obj[o].ses /\ r.handle = obj[o].handle /\ r.pc = "idle"
  BY ObjectFacts DEF SyncDir, Objects
<1>2. obj'[o] = r /\ \A q \in Writers \ {o} : obj'[q] = obj[q]
  BY <1>1, OneObject
<1>3. /\ dir' = dir /\ dir \in dirDisk' /\ dirDisk' \subseteq dirDisk
      /\ data' = data /\ lost' = lost /\ dataDisk' = dataDisk
      /\ counter' = counter /\ count' = count
  BY DEF SyncDir, FsyncDir, fsVars, Rest, DirInv
<1>4. SamePasts
  BY DEF SyncDir, SamePasts, TypeOK, Pasts
<1>5. \A i \in Inodes : data[i] \in dataDisk'[i] /\ dataDisk'[i] \subseteq dataDisk[i]
  BY <1>3 DEF Rest, DiskInv
<1>6. \A q \in Writers : Holds(q)' => Holds(q) /\ obj'[q].pc # "none"
  BY ZenonT(40), <1>1, <1>2 DEF Holds, Rest, TempInv, KnowsTemp
<1>7. \A p \in Processes : counter'[p] >= counter[p]
  BY <1>3 DEF TypeOK
<1>8. /\ \A q \in Writers : obj'[q].ses = obj[q].ses
      /\ \A q \in Writers : obj'[q] = obj[q] \/ Phase(q)'
  BY <1>1, <1>2 DEF Phase
<1> QED
  BY <1>3, <1>4, <1>5, <1>6, <1>7, <1>8, Calm

\* Changes of the directory.  A temp's name goes ...
LEMMA DirUnlink ==
  ASSUME TypeOK, DirInv, NEW t \in Temps, Unlink(t), count'.sessions = count.sessions
  PROVE  DirInv'
<1>1. /\ dirDisk' = dirDisk \cup {dir'} /\ dir' \in [Names -> Inodes \cup {NoFile}]
      /\ dir' = [dir EXCEPT ![t] = NoFile] /\ t \in Names /\ Target \in Names
  BY DEF Unlink, SetDir, TypeOK, FSTypeOK, Names
<1>2. \A n \in Names : dir'[n] = (IF n = t THEN NoFile ELSE dir[n])
  BY <1>1 DEF TypeOK, FSTypeOK
<1>3. dir'[Target] = dir[Target]
  BY <1>1, <1>2, TargetAssumption
<1>4. \A n \in Names : dir'[n] <= count.sessions
  BY <1>1, <1>2 DEF DirInv, NoFile, TypeOK, Counts
<1>5. \A n, m \in Names : dir'[n] = dir'[m] /\ dir'[n] # NoFile => n = m
  BY <1>2 DEF DirInv
<1>6. \A d \in dirDisk, u \in Temps : dir'[u] # NoFile => dir'[u] # d[Target]
  BY <1>2 DEF DirInv, Names
<1>7. \A u \in Temps : dir'[u] # NoFile => dir'[u] # dir'[Target]
  BY <1>2, <1>3 DEF DirInv, Names
<1>8. \A d \in dirDisk, n \in Names : d[n] <= count'.sessions
  BY DEF DirInv
<1>9. \A d \in dirDisk, n, m \in Names : d[n] = d[m] /\ d[n] # NoFile => n = m
  BY DEF DirInv
<1> QED
  BY <1>1, <1>4, <1>5, <1>6, <1>7, <1>8, <1>9 DEF DirInv

\* ... or takes the target's place ...
LEMMA DirRename ==
  ASSUME TypeOK, DirInv, NEW t \in Temps, NEW through, RenameToTarget(t, through), Exists(t),
         count'.sessions = count.sessions
  PROVE  DirInv'
<1>1. /\ dirDisk' \subseteq dirDisk \cup {dir'} /\ dir' \in dirDisk'
      /\ dir' = [dir EXCEPT ![Target] = dir[t], ![t] = NoFile] /\ t \in Names /\ Target \in Names
  BY DEF RenameToTarget, TypeOK, FSTypeOK, Names
<1>2. t # Target
  BY TargetAssumption
<1>3. \A n \in Names : dir'[n] = (IF n = t THEN NoFile ELSE IF n = Target THEN dir[t] ELSE dir[n])
  BY <1>1, <1>2 DEF TypeOK, FSTypeOK
<1>4. \A n \in Names : dir'[n] <= count.sessions
  <2>1. (\A n \in Names : dir[n] <= count.sessions) /\ count.sessions \in Nat
    BY DEF DirInv, TypeOK, Counts
  <2>2. NoFile <= count.sessions
    BY <2>1 DEF NoFile
  <2>3. t \in Names
    BY <1>1
  <2> QED
    BY <1>3, <2>1, <2>2, <2>3
<1>5. \A n, m \in Names : dir'[n] = dir'[m] /\ dir'[n] # NoFile => n = m
  BY <1>1, <1>3 DEF DirInv
<1>6. \A d \in dirDisk, u \in Temps : dir'[u] # NoFile => dir'[u] # d[Target]
  BY <1>3, TargetAssumption DEF DirInv, Names
<1>7. \A u \in Temps : dir'[u] # NoFile => dir'[u] # dir'[Target]
  <2> SUFFICES ASSUME NEW u \in Temps, dir'[u] # NoFile PROVE dir'[u] # dir'[Target]
    OBVIOUS
  <2>1. u # Target /\ u \in Names
    BY TargetAssumption DEF Names
  <2> QED
    BY <1>1, <1>5, <2>1
<1>8. \A d \in dirDisk, n \in Names : d[n] <= count'.sessions
  BY DEF DirInv
<1>9. \A d \in dirDisk, n, m \in Names : d[n] = d[m] /\ d[n] # NoFile => n = m
  BY DEF DirInv
<1> QED
  BY ZenonT(40), <1>1, <1>4, <1>5, <1>6, <1>7, <1>8, <1>9 DEF DirInv

\* ... or appears.
LEMMA DirOpen ==
  ASSUME TypeOK, DirInv, NEW t \in Temps, NEW s \in Sessions, s = count.sessions + 1,
         OpenTrunc(t, s, s), count'.sessions = s
  PROVE  DirInv'
<1>0. count.sessions \in Nat /\ dir \in dirDisk /\ t \in Names /\ Target \in Names /\ t # Target
  BY TargetAssumption DEF TypeOK, Counts, DirInv, Names
<1>1. CASE Exists(t)
  <2>1. dir' = dir /\ dirDisk' = dirDisk
    BY <1>0, <1>1 DEF OpenTrunc, SetDir
  <2>2. \A d \in dirDisk, n \in Names : d[n] <= count'.sessions
    <3>1. \A d \in dirDisk, n \in Names : d[n] \in Int
      BY DEF TypeOK, FSTypeOK, Inodes, NoFile
    <3> QED
      BY <1>0, <3>1 DEF DirInv
  <2> QED
    BY <2>1, <2>2 DEF DirInv
<1>2. CASE ~ Exists(t)
  <2>1. /\ dirDisk' = dirDisk \cup {dir'} /\ dir' = [dir EXCEPT ![t] = s]
    BY <1>2 DEF OpenTrunc, SetDir
  <2>2. \A n \in Names : dir'[n] = (IF n = t THEN s ELSE dir[n])
    BY <2>1 DEF TypeOK, FSTypeOK
  <2>3. \A d \in dirDisk, n \in Names : d[n] \in Int /\ d[n] < s
    <3>1. \A d \in dirDisk, n \in Names : d[n] \in Int
      BY DEF TypeOK, FSTypeOK, Inodes, NoFile
    <3> QED
      BY <1>0, <3>1 DEF DirInv
  <2>4. \A n \in Names : dir'[n] <= s
    BY <1>0, <2>2, <2>3
  <2>5. \A d \in dirDisk, n \in Names : d[n] <= s
    BY <1>0, <2>3
  <2>6. \A n, m \in Names : dir'[n] = dir'[m] /\ dir'[n] # NoFile => n = m
    <3>1. \A n \in Names : dir[n] # s
      BY <1>0, <2>3
    <3> QED
      BY <1>0, <2>2, <3>1 DEF DirInv
  <2>7. \A d \in dirDisk, u \in Temps : dir'[u] # NoFile => dir'[u] # d[Target]
    <3>1. \A d \in dirDisk : d[Target] # s
      BY <1>0, <2>3
    <3> QED
      BY <2>2, <3>1 DEF DirInv, Names
  <2>8. \A u \in Temps : dir'[u] # NoFile => dir'[u] # dir'[Target]
    BY <1>0, <2>2, <2>7
  <2>9. \A d \in dirDisk, n, m \in Names : d[n] = d[m] /\ d[n] # NoFile => n = m
    BY DEF DirInv
  <2>10. /\ dir' \in dirDisk' /\ \A d \in dirDisk' : d \in dirDisk \/ d = dir'
    BY <2>1
  <2> QED
    BY <2>4, <2>5, <2>6, <2>7, <2>8, <2>9, <2>10 DEF DirInv
<1> QED
  BY <1>1, <1>2

\* A file that the target is not linked to may change: the target stays whole.
LEMMA WholeApart ==
  ASSUME TypeOK, WholeInv, NEW i \in Inodes,
         \A d \in dirDisk : d[Target] # i,
         \A d \in dirDisk' : d \in dirDisk \/ d[Target] = dir[Target],
         dir \in dirDisk,
         \A j \in Inodes \ {i} : dataDisk'[j] = dataDisk[j],
         \A s \in Inodes : ses[s].rank # NotPut =>
           ses'[s].rank # NotPut /\ ses'[s].want = ses[s].want
  PROVE  WholeInv'
<1> SUFFICES ASSUME NEW d \in dirDisk', d[Target] # NoFile, NEW c \in dataDisk'[d[Target]]
             PROVE  Whole(c)'
  BY DEF WholeInv
<1>1. PICK e \in dirDisk : e[Target] = d[Target]
  OBVIOUS
<1>2. d[Target] \in Inodes \ {i}
  BY <1>1 DEF TypeOK, FSTypeOK, Names
<1>3. Whole(c)
  BY <1>1, <1>2 DEF WholeInv
<1> QED
  BY <1>3, WholeStays

\* What TempInv and Phase say of an object depends on its members, on its
\* session and on its own temp only.
LEMMA HolderKept ==
  ASSUME TypeOK, Rest, NEW q \in Writers, NEW p \in Writers,
         obj'[p].ses = obj[q].ses, Holds(q), Home[p] = Home[q],
         obj'[p].pc # "none",
         ses'[obj[q].ses] = ses[obj[q].ses],
         counter'[Home[q]] >= counter[Home[q]], counter'[Home[q]] \in Nat,
         dir'[Temp(q)] = dir[Temp(q)], data'[Ino(q)] = data[Ino(q)]
  PROVE  KnowsTemp(p)' /\ Temp(p)' = Temp(q) /\ Ino(p)' = Ino(q)
<1>1. KnowsTemp(q)
  BY DEF Rest, TempInv
<1>2. Temp(p)' = Temp(q) /\ Ino(p)' = Ino(q)
  BY DEF Temp, Ino
<1>3. Temp(q)[2] \in Nat /\ counter[Home[q]] \in Nat
  BY <1>1, WritersAssumption DEF KnowsTemp, Temps, TypeOK
<1>4. Temp(q)[2] < counter'[Home[q]]
  BY <1>1, <1>3 DEF KnowsTemp
<1> QED
  BY <1>1, <1>2, <1>4 DEF KnowsTemp

\* A step of one object keeps what the others' place in commit() says of their temps.
LEMMA PhaseKept ==
  ASSUME TypeOK, NEW q \in Writers, obj'[q] = obj[q], Phase(q),
         ses'[obj[q].ses] = ses[obj[q].ses],
         Holds(q) => data'[Ino(q)] = data[Ino(q)] /\ dataDisk'[Ino(q)] = dataDisk[Ino(q)]
  PROVE  Phase(q)'
BY DEF Phase, Holds, Complete, Ino

\* Two objects' temps are different files.
LEMMA FilesDiffer ==
  ASSUME TypeOK, Rest, NEW o \in Writers, NEW q \in Writers, Holds(o), Holds(q), o # q
  PROVE  Temp(o) # Temp(q) /\ Ino(o) # Ino(q) /\ obj[o].ses # obj[q].ses
<1>1. Temp(o) \in Names /\ Temp(q) \in Names /\ dir \in dirDisk
  BY ObjectFacts DEF Rest, DirInv
<1>2. dir[Temp(o)] = Ino(o) /\ dir[Temp(q)] = Ino(q) /\ Temp(o) # Temp(q) /\ obj[o].ses # obj[q].ses
  BY DEF Rest, TempInv, KnowsTemp
<1>3. Ino(o) # NoFile
  BY ObjectFacts DEF Inodes, NoFile
<1> QED
  BY <1>1, <1>2, <1>3 DEF Rest, DirInv

\* The target is never linked to a temp somebody works on.
LEMMA TargetApart ==
  ASSUME TypeOK, Rest, NEW o \in Writers, Holds(o)
  PROVE  \A d \in dirDisk : d[Target] # Ino(o)
<1>1. Temp(o) \in Temps /\ dir[Temp(o)] = Ino(o) /\ Ino(o) # NoFile
  BY ObjectFacts DEF Rest, TempInv, KnowsTemp, Inodes, NoFile
<1> QED
  BY <1>1 DEF Rest, DirInv

\* BeginWrite preserves the rest of the invariant.
LEMMA BeginWriteRest ==
  ASSUME TypeOK, TypeOK', Rest, NEW o \in Writers, NEW k \in 1 .. MaxLen, BeginWrite(o, k)
  PROVE  Rest'
<1> DEFINE r == [obj[o] EXCEPT !.pc = "write", !.left = k]
           s == obj[o].ses
<1>1. Become(o, r) /\ r.ses = s /\ r.handle = obj[o].handle /\ r.pc = "write" /\ r.handle # Invalid
  BY ObjectFacts DEF BeginWrite, Objects, Uncommitted
<1>2. obj'[o] = r /\ \A q \in Writers \ {o} : obj'[q] = obj[q]
  BY <1>1, OneObject
<1>3. /\ dir' = dir /\ dirDisk' = dirDisk /\ data' = data /\ lost' = lost /\ dataDisk' = dataDisk
      /\ counter' = counter /\ count' = count
      /\ ses' = [ses EXCEPT ![s].want = @ + k]
  BY DEF BeginWrite, fsVars
<1>4. Holds(o) /\ KnowsTemp(o)
  BY <1>1 DEF Holds, Rest, TempInv
<1>5. \A x \in 0 .. MaxSessions : /\ x # s => ses'[x] = ses[x]
                                  /\ ses'[x].rank = ses[x].rank /\ ses'[x].temp = ses[x].temp
                                  /\ ses'[x].ino = ses[x].ino
  BY <1>3 DEF TypeOK, Pasts
<1>6. \A q \in Writers : Temp(q)' = Temp(q) /\ Ino(q)' = Ino(q) /\ obj'[q].ses = obj[q].ses
  BY <1>1, <1>2, <1>5, ObjectFacts DEF Temp, Ino
<1>7. \A q \in Writers : Holds(q)' => Holds(q) /\ obj'[q].pc # "none"
  <2>1. \A q \in Writers \ {o} : Holds(q)' => Holds(q) /\ obj'[q].pc # "none"
    BY <1>2 DEF Holds, Rest, TempInv, KnowsTemp
  <2> QED
    BY <1>1, <1>2, <1>4, <2>1
<1>8. \A q \in Writers : Holds(q)' => KnowsTemp(q)'
  BY <1>3, <1>5, <1>6, <1>7, ObjectFacts DEF KnowsTemp, Rest, TempInv
<1>9. TempInv'
  BY <1>6, <1>7, <1>8 DEF Rest, TempInv
<1>10. PhaseInv'
  <2>1. Phase(o)'
    BY <1>1, <1>2 DEF Phase
  <2>2. ASSUME NEW q \in Writers, q # o PROVE Phase(q)'
    <3>1. CASE obj[q].ses = s
      <4>1. ~ Holds(q)
        BY <1>4, <2>2, <3>1, FilesDiffer
      <4> QED
        BY <1>2, <2>2, <4>1 DEF Rest, PhaseInv, Phase, Holds
    <3>2. CASE obj[q].ses # s
      BY <1>2, <1>3, <1>5, <2>2, <3>2, PhaseKept, ObjectFacts DEF Rest, PhaseInv
    <3> QED
      BY <3>1, <3>2
  <2> QED
    BY <2>1, <2>2 DEF PhaseInv
<1>11. WholeInv'
  <2>1. ses[s].rank = NotPut
    BY <1>4 DEF KnowsTemp
  <2>2. \A x \in Inodes : ses[x].rank # NotPut => ses'[x].rank # NotPut /\ ses'[x].want = ses[x].want
    BY <1>5, <2>1 DEF Inodes
  <2> QED
    BY <1>3, <1>4, <2>2, TargetApart, WholeApart, ObjectFacts DEF Rest, DirInv
<1>12. FreshInv' /\ DirInv' /\ DiskInv'
  BY <1>3, <1>5, <1>6 DEF Rest, FreshInv, DirInv, DiskInv, Sessions
<1> QED
  BY <1>9, <1>10, <1>11, <1>12 DEF Rest

\* WriteSome preserves the rest of the invariant.
LEMMA WriteSomeRest ==
  ASSUME TypeOK, TypeOK', Rest, NEW o \in Writers, NEW m \in 1 .. MaxLen, WriteSome(o, m)
  PROVE  Rest'
<1> DEFINE r == [obj[o] EXCEPT !.left = @ - m, !.pc = IF m = obj[o].left THEN "idle" ELSE @]
           i == Ino(o)
           c == [data[i] EXCEPT !.len = @ + m]
<1>1. /\ Become(o, r) /\ r.ses = obj[o].ses /\ r.handle = obj[o].handle /\ r.handle # Invalid
      /\ r.pc \in {"idle", "write"}
  <2>1. obj[o].pc = "write" /\ Phase(o)
    BY DEF WriteSome, At, Rest, PhaseInv
  <2> QED
    BY <2>1, ObjectFacts DEF WriteSome, Objects, Phase
<1>2. obj'[o] = r /\ \A q \in Writers \ {o} : obj'[q] = obj[q]
  BY <1>1, OneObject
<1>3. i \in Inodes
  BY ObjectFacts
<1>4. /\ dir' = dir /\ dirDisk' = dirDisk /\ lost' = lost
      /\ data' = [data EXCEPT ![i] = c]
      /\ dataDisk' = [dataDisk EXCEPT ![i] = @ \cup {c}]
      /\ counter' = counter /\ count' = count /\ ses' = ses
  BY DEF WriteSome, SetContents, SetData
<1>5. Holds(o) /\ KnowsTemp(o)
  BY <1>1 DEF Holds, Rest, TempInv
<1>6. c.by = data[i].by
  BY ObjectFacts DEF Contents
<1>7. /\ \A j \in Inodes \ {i} : data'[j] = data[j] /\ dataDisk'[j] = dataDisk[j]
      /\ data'[i] = c /\ dataDisk'[i] = dataDisk[i] \cup {c}
  BY <1>3, <1>4 DEF TypeOK, FSTypeOK
<1>8. \A q \in Writers : Temp(q)' = Temp(q) /\ Ino(q)' = Ino(q) /\ obj'[q].ses = obj[q].ses
  BY <1>1, <1>2, <1>4 DEF Temp, Ino
<1>9. \A q \in Writers : Holds(q)' => Holds(q) /\ obj'[q].pc # "none"
  <2>1. \A q \in Writers \ {o} : Holds(q)' => Holds(q) /\ obj'[q].pc # "none"
    BY <1>2 DEF Holds, Rest, TempInv, KnowsTemp
  <2> QED
    BY <1>1, <1>2, <1>5, <2>1
<1>10. \A q \in Writers : data'[Ino(q)].by = data[Ino(q)].by
  BY <1>6, <1>7, ObjectFacts
<1>11. TempInv'
  BY <1>4, <1>8, <1>9, <1>10 DEF Rest, TempInv, KnowsTemp
<1>12. PhaseInv'
  <2>1. Phase(o)'
    BY <1>1, <1>2 DEF Phase
  <2>2. ASSUME NEW q \in Writers, q # o PROVE Phase(q)'
    <3>1. Holds(q) => Ino(q) \in Inodes \ {i}
      BY <1>5, <2>2, FilesDiffer, ObjectFacts
    <3> QED
      BY <1>2, <1>4, <1>7, <2>2, <3>1, PhaseKept DEF Rest, PhaseInv
  <2> QED
    BY <2>1, <2>2 DEF PhaseInv
<1>13. WholeInv'
  BY <1>3, <1>4, <1>5, <1>7, TargetApart, WholeApart DEF Rest, DirInv
<1>14. FreshInv' /\ DirInv' /\ DiskInv'
  <2>1. DiskInv'
    BY <1>4, <1>7 DEF Rest, DiskInv
  <2> QED
    BY <1>4, <1>8, <2>1 DEF Rest, FreshInv, DirInv
<1> QED
  BY <1>11, <1>12, <1>13, <1>14 DEF Rest

\* Rename preserves the rest of the invariant.
LEMMA RenameRest ==
  ASSUME TypeOK, TypeOK', Rest, NEW o \in Writers, Rename(o)
  PROVE  Rest'
<1> DEFINE r == [obj[o] EXCEPT !.pc = "dirsync", !.st = NewFile]
           s == obj[o].ses
           i == Ino(o)
<1>1. /\ Become(o, r) /\ r.ses = s /\ r.handle = Invalid /\ r.pc = "dirsync"
      /\ obj[o].pc = "replace" /\ Phase(o)
  <2>1. obj[o].pc = "replace" /\ Phase(o)
    BY DEF Rename, At, Rest, PhaseInv
  <2> QED
    BY <2>1, ObjectFacts DEF Rename, Objects, Goto, Phase
<1>2. obj'[o] = r /\ \A q \in Writers \ {o} : obj'[q] = obj[q]
  BY <1>1, OneObject
<1>3. Holds(o) /\ KnowsTemp(o) /\ i \in Inodes /\ s \in 0 .. MaxSessions
  BY <1>1, ObjectFacts DEF Holds, Rest, TempInv
<1>4. /\ data' = data /\ lost' = lost /\ dataDisk' = dataDisk /\ counter' = counter
      /\ ses' = [ses EXCEPT ![s].rank = count.puts + 1]
      /\ count'.sessions = count.sessions
      /\ count.puts + 1 \in Nat
  BY DEF Rename, RenameToTarget, Put, TypeOK, Counts
<1>5. \A x \in 0 .. MaxSessions :
        /\ x # s => ses'[x] = ses[x]
        /\ ses'[x].want = ses[x].want /\ ses'[x].temp = ses[x].temp /\ ses'[x].ino = ses[x].ino
  BY <1>4 DEF TypeOK, Pasts
<1>6. ses'[s].rank # NotPut
  BY <1>3, <1>4 DEF TypeOK, Pasts, NotPut
<1>7. Exists(Temp(o)) /\ Temp(o) \in Temps /\ RenameToTarget(Temp(o), ~ Posix)
  BY <1>3 DEF KnowsTemp, Exists, Rename, Inodes, NoFile
<1>8. DirInv'
  BY <1>4, <1>7, DirRename DEF Rest
<1>9. /\ \A n \in Names \ {Target, Temp(o)} : dir'[n] = dir[n]
      /\ dir'[Target] = i
      /\ \A d \in dirDisk' : d \in dirDisk \/ d = dir'
  <2>1. Target # Temp(o) /\ Target \in Names /\ Temp(o) \in Names
    BY <1>7, TargetAssumption DEF Names
  <2> QED
    BY <1>3, <1>7, <2>1 DEF RenameToTarget, KnowsTemp, TypeOK, FSTypeOK
<1>10. \A q \in Writers \ {o} : Holds(q)' => Holds(q) /\ obj'[q].pc # "none"
  BY <1>2 DEF Holds, Rest, TempInv, KnowsTemp
<1>11. ~ Holds(o)'
  BY <1>1, <1>2 DEF Holds
<1>12. ASSUME NEW q \in Writers, Holds(q)'
       PROVE  KnowsTemp(q)' /\ Temp(q)' = Temp(q) /\ Holds(q) /\ q # o
  <2>1. Holds(q) /\ q # o /\ obj'[q].pc # "none" /\ KnowsTemp(q)
    BY <1>10, <1>11, <1>12 DEF Rest, TempInv
  <2>2. Temp(q) \in Names \ {Target, Temp(o)} /\ obj[q].ses # s
    BY <1>3, <2>1, FilesDiffer, TargetAssumption DEF KnowsTemp, Names
  <2>3. ses'[obj[q].ses] = ses[obj[q].ses]
    BY <1>5, <2>2, ObjectFacts
  <2>4. counter'[Home[q]] >= counter[Home[q]] /\ counter'[Home[q]] \in Nat
    BY <1>4, WritersAssumption DEF TypeOK
  <2> QED
    BY <1>2, <1>4, <1>9, <2>1, <2>2, <2>3, <2>4, HolderKept
<1>13. TempInv'
  BY <1>2, <1>12 DEF Rest, TempInv
<1>14. PhaseInv'
  <2>1. Phase(o)'
    BY <1>1, <1>2 DEF Phase
  <2>2. ASSUME NEW q \in Writers, q # o PROVE Phase(q)'
    <3>1. CASE Holds(q)
      BY <1>2, <1>3, <1>4, <1>5, <2>2, <3>1, FilesDiffer, PhaseKept, ObjectFacts DEF Rest, PhaseInv
    <3>2. CASE ~ Holds(q)
      BY <1>2, <2>2, <3>2 DEF Rest, PhaseInv, Phase, Holds
    <3> QED
      BY <3>1, <3>2
  <2> QED
    BY <2>1, <2>2 DEF PhaseInv
<1>15. WholeInv'
  <2>1. \A x \in Inodes : ses[x].rank # NotPut => ses'[x].rank # NotPut /\ ses'[x].want = ses[x].want
    BY <1>5, <1>6 DEF Inodes
  <2>2. \A c \in {data[i]} : Whole(c)'
    <3>1. data[i].by = s /\ data[i].len = ses[s].want
      BY <1>1, <1>3 DEF KnowsTemp, Phase, Complete
    <3> QED
      BY <1>3, <1>4, <1>5, <1>6, <3>1 DEF Whole, Inodes
  <2>3. dataDisk'[i] = {data[i]}
    BY <1>1, <1>4 DEF Phase
  <2>4. ASSUME NEW d \in dirDisk, d[Target] # NoFile, NEW c \in dataDisk'[d[Target]]
        PROVE  Whole(c)'
    BY <1>4, <2>1, <2>4, WholeStays DEF Rest, WholeInv
  <2>5. \A c \in dataDisk'[dir'[Target]] : Whole(c)'
    BY <1>9, <2>2, <2>3
  <2> QED
    BY <1>9, <2>4, <2>5 DEF WholeInv
<1>16. FreshInv'
  <2>1. \A q \in Writers : obj'[q].ses = obj[q].ses
    BY <1>1, <1>2
  <2>2. s <= count.sessions
    BY DEF Rest, FreshInv
  <2>3. \A x \in Sessions : x > count.sessions => x # s /\ x \in 0 .. MaxSessions
    BY <1>3, <2>2 DEF Sessions, TypeOK, Counts
  <2> QED
    BY <1>4, <1>5, <2>1, <2>3 DEF Rest, FreshInv
<1>17. DiskInv'
  BY <1>4 DEF Rest, DiskInv
<1> QED
  BY <1>8, <1>13, <1>14, <1>15, <1>16, <1>17 DEF Rest

\* Discarding an object's temp leaves all that is said of the others.
LEMMA Discarding ==
  ASSUME TypeOK, TypeOK', Rest, NEW o \in Writers, Discard(o),
         ses' = ses, counter' = counter, count' = count,
         \A q \in Writers : obj'[q].ses <= count.sessions,
         \A q \in Writers : Holds(q)' =>
           \E p \in Writers \ {o} : /\ obj'[q].ses = obj[p].ses /\ Holds(p)
                                    /\ Home[p] = Home[q] /\ obj'[q].pc # "none",
         \A q, u, p \in Writers :
           Holds(q)' /\ Holds(u)' /\ q # u /\ Holds(p) /\ obj'[q].ses = obj[p].ses
           => obj'[u].ses # obj[p].ses,
         \A q \in Writers : Phase(q)' \/ (q # o /\ obj'[q] = obj[q])
  PROVE  Rest'
<1>1. data' = data /\ dataDisk' = dataDisk /\ lost' = lost
  BY DEF Discard, Unlink, fsVars, Close, RemoveQuietly
<1>2. DirInv' /\ (\A n \in Names \ {Temp(o)} : dir'[n] = dir[n])
      /\ (\A d \in dirDisk' : d \in dirDisk \/ d[Target] = dir[Target])
      /\ (dir' # dir => Holds(o))
  <2>1. CASE UNCHANGED fsVars
    BY <2>1 DEF Rest, DirInv, fsVars
  <2>2. CASE Uncommitted(obj[o]) /\ Unlink(Temp(o))
    <3>1. Holds(o)
      BY <2>2 DEF Uncommitted, Holds
    <3>2. Temp(o) \in Temps /\ Temp(o) \in Names
      BY <3>1 DEF Rest, TempInv, KnowsTemp, Names
    <3>3. DirInv'
      BY <2>2, <3>2, DirUnlink DEF Rest
    <3>4. /\ \A n \in Names \ {Temp(o)} : dir'[n] = dir[n]
          /\ dirDisk' = dirDisk \cup {dir'}
      BY <2>2, <3>2 DEF Unlink, SetDir, TypeOK, FSTypeOK
    <3>5. dir'[Target] = dir[Target]
      BY <3>2, <3>4, TargetAssumption DEF Names
    <3> QED
      BY <3>1, <3>3, <3>4, <3>5
  <2> QED
    BY <2>1, <2>2 DEF Discard, Close, RemoveQuietly
<1>3. ASSUME NEW q \in Writers, Holds(q)'
      PROVE  /\ KnowsTemp(q)'
             /\ \E p \in Writers \ {o} : /\ Holds(p) /\ obj'[q].ses = obj[p].ses
                                         /\ Temp(q)' = Temp(p)
  <2>1. PICK p \in Writers \ {o} : /\ obj'[q].ses = obj[p].ses /\ Holds(p)
                                   /\ Home[p] = Home[q] /\ obj'[q].pc # "none"
    BY <1>3
  <2>2. Temp(p) \in Names /\ Home[p] \in Processes
    BY ObjectFacts, WritersAssumption
  <2>3. dir'[Temp(p)] = dir[Temp(p)]
    BY <1>2, <2>1, <2>2, FilesDiffer
  <2>4. counter'[Home[p]] >= counter[Home[p]] /\ counter'[Home[p]] \in Nat
    BY <2>2 DEF TypeOK
  <2> QED
    BY <1>1, <2>1, <2>3, <2>4, HolderKept
<1>4. TempInv'
  <2> SUFFICES ASSUME NEW q \in Writers, NEW u \in Writers, Holds(q)', Holds(u)', q # u
               PROVE  Temp(q)' # Temp(u)' /\ obj'[q].ses # obj'[u].ses
    BY <1>3 DEF TempInv
  <2>1. PICK p \in Writers \ {o} : Holds(p) /\ obj'[q].ses = obj[p].ses /\ Temp(q)' = Temp(p)
    BY <1>3
  <2>2. PICK v \in Writers \ {o} : Holds(v) /\ obj'[u].ses = obj[v].ses /\ Temp(u)' = Temp(v)
    BY <1>3
  <2>3. obj'[u].ses # obj[p].ses
    BY <2>1
  <2> QED
    BY <2>1, <2>2, <2>3, FilesDiffer
<1>5. PhaseInv'
  BY <1>1, PhaseKept DEF Rest, PhaseInv
<1>6. WholeInv'
  <2> SUFFICES ASSUME NEW d \in dirDisk', d[Target] # NoFile, NEW c \in dataDisk'[d[Target]]
               PROVE  Whole(c)'
    BY DEF WholeInv
  <2>1. Whole(c)
    BY <1>1, <1>2 DEF Rest, WholeInv, DirInv
  <2> QED
    BY <2>1, WholeStays
<1>7. FreshInv' /\ DiskInv'
  BY <1>1 DEF Rest, FreshInv, DiskInv
<1> QED
  BY <1>2, <1>4, <1>5, <1>6, <1>7 DEF Rest

\* Destroy preserves the rest of the invariant.
LEMMA DestroyRest ==
  ASSUME TypeOK, TypeOK', Rest, NEW o \in Writers, Destroy(o)
  PROVE  Rest'
<1>1. obj'[o] = NoObject /\ \A q \in Writers \ {o} : obj'[q] = obj[q]
  BY OneObject DEF Destroy
<1>2. ~ Holds(o)' /\ Phase(o)' /\ obj'[o].ses = 0
  BY <1>1 DEF Holds, Phase, NoObject, NoSession
<1>3. \A q \in Writers : obj'[q].ses <= count.sessions
  BY SMTT(30), <1>1, <1>2 DEF Rest, FreshInv, TypeOK, Counts
<1>4. \A q \in Writers : Holds(q)' => /\ q # o /\ Holds(q) /\ obj'[q].pc # "none" /\ obj'[q] = obj[q]
  BY <1>1, <1>2 DEF Holds, Rest, TempInv, KnowsTemp
<1>5. \A q, u, p \in Writers :
        Holds(q)' /\ Holds(u)' /\ q # u /\ Holds(p) /\ obj'[q].ses = obj[p].ses
        => obj'[u].ses # obj[p].ses
  BY <1>4, FilesDiffer
<1>6. \A q \in Writers : Phase(q)' \/ (q # o /\ obj'[q] = obj[q])
  BY <1>1, <1>2
<1> QED
  BY <1>3, <1>4, <1>5, <1>6, Discarding DEF Destroy

\* Moving hands the temp over; what the destination held is discarded.
LEMMA MoveRest ==
  ASSUME TypeOK, TypeOK', Rest, NEW from \in Writers, NEW to \in Writers, from # to,
         Home[from] = Home[to], obj[from].pc = "idle", MoveMembers(from, to), Discard(to)
  PROVE  Rest'
<1>1. /\ obj'[to] = obj[from] /\ obj'[from] = MovedFrom(obj[from])
      /\ \A q \in Writers \ {from, to} : obj'[q] = obj[q]
  BY DEF MoveMembers, TypeOK
<1>2. /\ obj'[from].handle = Invalid /\ obj'[from].pc = "idle" /\ obj'[from].ses = 0
  BY <1>1, ObjectFacts DEF MovedFrom, Objects, NoSession
<1>3. Phase(to)' /\ Phase(from)' /\ ~ Holds(from)'
  BY <1>1, <1>2 DEF Phase, Holds
<1>4. \A q \in Writers : obj'[q].ses <= count.sessions
  <2>1. 0 <= count.sessions
    BY DEF TypeOK, Counts
  <2>2. \A q \in Writers : obj[q].ses <= count.sessions
    BY DEF Rest, FreshInv
  <2> QED
    BY <1>1, <1>2, <2>1, <2>2
<1>5. Holds(to)' => Holds(from) /\ obj'[to].ses = obj[from].ses /\ obj'[to].pc # "none"
  BY <1>1 DEF Holds
<1>6. \A q \in Writers \ {from, to} :
        Holds(q)' => Holds(q) /\ obj'[q].ses = obj[q].ses /\ obj'[q].pc # "none"
  BY <1>1 DEF Holds, Rest, TempInv, KnowsTemp
<1> DEFINE Was(q) == IF q = to THEN from ELSE q
<1>7. ASSUME NEW q \in Writers, Holds(q)'
      PROVE  /\ Was(q) \in Writers \ {to} /\ Holds(Was(q)) /\ obj'[q].ses = obj[Was(q)].ses
             /\ Home[Was(q)] = Home[q] /\ obj'[q].pc # "none"
  BY <1>3, <1>5, <1>6, <1>7
<1>8. \A q \in Writers : Holds(q)' => q # from
  BY <1>3
<1>9. ASSUME NEW q \in Writers, NEW u \in Writers, NEW p \in Writers,
             Holds(q)', Holds(u)', q # u, Holds(p), obj'[q].ses = obj[p].ses
      PROVE  obj'[u].ses # obj[p].ses
  <2>1. Was(q) # Was(u)
    BY <1>8, <1>9
  <2> QED
    BY <1>7, <1>9, <2>1, FilesDiffer
<1>10. \A q \in Writers : Phase(q)' \/ (q # to /\ obj'[q] = obj[q])
  BY <1>1, <1>3
<1>11. ses' = ses /\ counter' = counter /\ count' = count
  BY DEF MoveMembers
<1>12. \A q \in Writers : Holds(q)' =>
         \E p \in Writers \ {to} : /\ obj'[q].ses = obj[p].ses /\ Holds(p)
                                   /\ Home[p] = Home[q] /\ obj'[q].pc # "none"
  BY <1>7
<1> QED
  BY <1>4, <1>9, <1>10, <1>11, <1>12, Discarding

\* MoveConstruct preserves the rest of the invariant.
LEMMA MoveConstructRest ==
  ASSUME TypeOK, TypeOK', Rest, NEW from \in Writers, NEW to \in Writers, MoveConstruct(from, to)
  PROVE  Rest'
<1>1. from # to /\ obj[from].pc = "idle" /\ Home[from] = Home[to] /\ MoveMembers(from, to)
  BY DEF MoveConstruct, At
<1>2. ~ Holds(to)
  BY DEF MoveConstruct, At, Rest, TempInv, KnowsTemp
<1>3. Discard(to)
  BY <1>2 DEF MoveConstruct, Discard, Uncommitted, Holds
<1> QED
  BY <1>1, <1>3, MoveRest

\* MoveAssign preserves the rest of the invariant.
LEMMA MoveAssignRest ==
  ASSUME TypeOK, TypeOK', Rest, NEW from \in Writers, NEW to \in Writers, MoveAssign(from, to)
  PROVE  Rest'
BY MoveRest DEF MoveAssign, At

\* Construct preserves the rest of the invariant.
LEMMA ConstructRest ==
  ASSUME TypeOK, TypeOK', Rest, NEW o \in Writers, Construct(o)
  PROVE  Rest'
<1> DEFINE p == Home[o]
           s == count.sessions + 1
           name == TempName(p)
           i == IF Exists(name) THEN dir[name] ELSE s
           r == [NoObject EXCEPT !.pc = "idle", !.ses = s, !.handle = s]
<1>1. /\ p \in Processes /\ counter[p] \in Nat /\ counter' = [counter EXCEPT ![p] = @ + 1]
      /\ name \in Temps /\ name[1] = p /\ name[2] = counter[p]
      /\ s \in Sessions /\ s \in Inodes /\ count.sessions \in Nat /\ s \in 0 .. MaxSessions
      /\ count'.sessions = s /\ OpenTrunc(name, s, s)
  BY WritersAssumption DEF Construct, TypeOK, Counts, Drawn, TempName, Sessions, Inodes, OpenTemp
<1>2. obj'[o] = r /\ \A q \in Writers \ {o} : obj'[q] = obj[q]
  BY OneObject DEF Construct
<1>3. r.pc = "idle" /\ r.ses = s /\ r.handle = s /\ s # Invalid
  BY <1>1 DEF NoObject, Invalid, Sessions
<1>4. name \in Names /\ Target \in Names /\ name # Target
  BY <1>1, TargetAssumption DEF Names
<1>5. i \in Inodes
  BY <1>1, <1>4 DEF Exists, TypeOK, FSTypeOK
<1>6. /\ lost' = lost
      /\ data'[i] = [by |-> s, len |-> 0] /\ data'[i] \in dataDisk'[i]
      /\ \A j \in Inodes \ {i} : data'[j] = data[j] /\ dataDisk'[j] = dataDisk[j]
  BY <1>1, <1>5 DEF OpenTrunc, SetData, TypeOK, FSTypeOK
<1>7. /\ dir'[name] = i
      /\ \A n \in Names \ {name} : dir'[n] = dir[n]
      /\ \A d \in dirDisk' : d \in dirDisk \/ d[Target] = dir[Target]
  <2>1. dir' = (IF Exists(name) THEN dir ELSE [dir EXCEPT ![name] = s]) /\ dirDisk' = dirDisk \cup {dir'}
    BY <1>1 DEF OpenTrunc, SetDir
  <2>2. dir'[name] = i /\ \A n \in Names \ {name} : dir'[n] = dir[n]
    BY <1>4, <2>1 DEF Exists, TypeOK, FSTypeOK
  <2> QED
    BY <1>4, <2>1, <2>2
<1>8. DirInv'
  BY <1>1, DirOpen DEF Rest
<1>9. /\ \A x \in 0 .. MaxSessions : x # s => ses'[x] = ses[x]
      /\ ses'[s].temp = name /\ ses'[s].ino = i /\ ses'[s].rank = NotPut
  <2>1. ses[s].rank = NotPut
    BY <1>1 DEF Rest, FreshInv
  <2> QED
    BY <1>1, <2>1 DEF Construct, TypeOK, Pasts
<1>10. \A d \in dirDisk : d[Target] # i
  <2>1. \A d \in dirDisk : d[Target] \in Int /\ d[Target] <= count.sessions
    BY <1>4 DEF Rest, DirInv, TypeOK, FSTypeOK, Inodes, NoFile
  <2>2. \A d \in dirDisk : d[Target] # s
    BY <1>1, <2>1
  <2> QED
    BY <1>1, <2>2 DEF Rest, DirInv, Exists
<1>11. ASSUME NEW q \in Writers, q # o, Holds(q)
       PROVE  Temp(q) # name /\ Ino(q) # i /\ obj[q].ses # s
  <2>1. KnowsTemp(q) /\ dir \in dirDisk /\ Temp(q) \in Names /\ Ino(q) \in Inodes
    BY <1>11, ObjectFacts DEF Rest, TempInv, DirInv
  <2>2. Temp(q) # name
    <3>1. CASE Home[q] = p
      BY <1>1, <2>1, <3>1 DEF KnowsTemp, Temps
    <3>2. CASE Home[q] # p
      BY <1>1, <2>1, <3>2 DEF KnowsTemp
    <3> QED
      BY <3>1, <3>2
  <2>3. Ino(q) # i
    <3>1. CASE Exists(name)
      BY <1>4, <2>1, <2>2, <3>1 DEF KnowsTemp, Rest, DirInv, Exists
    <3>2. CASE ~ Exists(name)
      <4>1. Ino(q) <= count.sessions /\ Ino(q) \in Int
        BY <2>1 DEF KnowsTemp, Rest, DirInv, Inodes
      <4> QED
        BY <1>1, <3>2, <4>1
    <3> QED
      BY <3>1, <3>2
  <2>4. obj[q].ses # s
    <3>1. obj[q].ses <= count.sessions /\ obj[q].ses \in Int
      BY ObjectFacts DEF Rest, FreshInv
    <3> QED
      BY <1>1, <3>1
  <2> QED
    BY <2>2, <2>3, <2>4
<1>12. Temp(o)' = name /\ Ino(o)' = i /\ KnowsTemp(o)'
  <2>1. Temp(o)' = name /\ Ino(o)' = i
    BY <1>2, <1>3, <1>9 DEF Temp, Ino
  <2>2. counter[p] < counter'[p]
    BY <1>1 DEF TypeOK
  <2> QED
    BY <1>1, <1>2, <1>3, <1>6, <1>7, <1>9, <2>1, <2>2 DEF KnowsTemp
<1>13. ASSUME NEW q \in Writers, q # o, Holds(q)'
       PROVE  Holds(q) /\ KnowsTemp(q)' /\ Temp(q)' = Temp(q)
  <2>1. Holds(q) /\ obj'[q] = obj[q] /\ obj'[q].pc # "none"
    BY <1>2, <1>13 DEF Holds, Rest, TempInv, KnowsTemp
  <2>2. ses'[obj[q].ses] = ses[obj[q].ses]
    BY <1>9, <1>11, <1>13, <2>1, ObjectFacts
  <2>3. dir'[Temp(q)] = dir[Temp(q)] /\ data'[Ino(q)] = data[Ino(q)]
    BY <1>6, <1>7, <1>11, <1>13, <2>1, ObjectFacts
  <2>4. counter'[Home[q]] >= counter[Home[q]] /\ counter'[Home[q]] \in Nat
    BY <1>1, WritersAssumption DEF TypeOK
  <2> QED
    BY <2>1, <2>2, <2>3, <2>4, HolderKept
<1>14. TempInv'
  <2>1. \A q \in Writers : Holds(q)' => KnowsTemp(q)'
    BY <1>12, <1>13
  <2>2. ASSUME NEW q \in Writers, NEW u \in Writers, Holds(q)', Holds(u)', q # u
        PROVE  Temp(q)' # Temp(u)' /\ obj'[q].ses # obj'[u].ses
    <3>1. CASE q # o /\ u # o
      BY <1>2, <1>13, <2>2, <3>1, FilesDiffer
    <3>2. CASE q = o
      <4>1. u # o /\ Holds(u) /\ Temp(u)' = Temp(u)
        BY <1>13, <2>2, <3>2
      <4>2. Temp(u) # name /\ obj[u].ses # s
        BY <1>11, <4>1
      <4> QED
        BY <1>2, <1>3, <1>12, <3>2, <4>1, <4>2
    <3>3. CASE u = o
      <4>1. q # o /\ Holds(q) /\ Temp(q)' = Temp(q)
        BY <1>13, <2>2, <3>3
      <4>2. Temp(q) # name /\ obj[q].ses # s
        BY <1>11, <4>1
      <4> QED
        BY <1>2, <1>3, <1>12, <3>3, <4>1, <4>2
    <3> QED
      BY <3>1, <3>2, <3>3
  <2> QED
    BY <2>1, <2>2 DEF TempInv
<1>15. PhaseInv'
  <2>1. Phase(o)'
    BY <1>2, <1>3 DEF Phase
  <2>2. ASSUME NEW q \in Writers, q # o PROVE Phase(q)'
    <3>1. CASE Holds(q)
      BY <1>2, <1>6, <1>9, <1>11, <2>2, <3>1, PhaseKept, ObjectFacts DEF Rest, PhaseInv
    <3>2. CASE ~ Holds(q)
      BY <1>2, <2>2, <3>2 DEF Rest, PhaseInv, Phase, Holds
    <3> QED
      BY <3>1, <3>2
  <2> QED
    BY <2>1, <2>2 DEF PhaseInv
<1>16. WholeInv'
  <2>1. \A x \in Inodes : ses[x].rank # NotPut => ses'[x].rank # NotPut /\ ses'[x].want = ses[x].want
    BY <1>1, <1>9 DEF Rest, FreshInv, Inodes
  <2> QED
    BY <1>5, <1>6, <1>7, <1>10, <2>1, WholeApart DEF Rest, DirInv
<1>17. FreshInv'
  <2>1. \A x \in Sessions : x > s => ses'[x].rank = NotPut
    BY <1>1, <1>9 DEF Rest, FreshInv, Sessions
  <2>2. \A q \in Writers : obj'[q].ses <= s
    <3>1. \A q \in Writers : obj[q].ses \in Int /\ obj[q].ses <= count.sessions
      BY ObjectFacts DEF Rest, FreshInv
    <3>2. obj'[o].ses <= s
      BY <1>1, <1>2, <1>3
    <3>3. \A q \in Writers \ {o} : obj'[q].ses <= s
      <4>1. \A x \in Int : x <= count.sessions => x <= s
        BY <1>1
      <4> QED
        BY <1>2, <3>1, <4>1
    <3> QED
      BY <3>2, <3>3
  <2> QED
    BY <1>1, <2>1, <2>2 DEF FreshInv
<1>18. DiskInv'
  BY <1>6 DEF Rest, DiskInv
<1> QED
  BY <1>8, <1>14, <1>15, <1>16, <1>17, <1>18 DEF Rest

\* CopyFails preserves the rest of the invariant.
LEMMA CopyFailsRest ==
  ASSUME TypeOK, TypeOK', Rest, NEW o \in Writers, CopyFails(o)
  PROVE  Rest'
<1> DEFINE r == [obj[o] EXCEPT !.pc = "idle", !.into = NoFile]
<1>1. Become(o, r) /\ r.ses = obj[o].ses /\ r.handle = obj[o].handle /\ r.pc = "idle"
  BY ObjectFacts DEF CopyFails, Objects
<1>2. obj'[o] = r
  BY <1>1, OneObject
<1>3. Phase(o)'
  BY <1>1, <1>2 DEF Phase
<1>4. SamePasts
  BY DEF CopyFails, SamePasts, TypeOK, Pasts
<1> QED
  BY <1>1, <1>3, <1>4, CalmObject DEF CopyFails, fsVars

\* Without a fallback copy no object is in one.
LEMMA NoCopy ==
  ASSUME Rest, NEW o \in Writers
  PROVE  ~ CopyEnds(o) /\ ~ RemoveTemp(o)
BY DEF Rest, PhaseInv, Phase, CopyEnds, RemoveTemp, At

\* Kill preserves the rest of the invariant.
LEMMA KillRest ==
  ASSUME TypeOK, TypeOK', Rest, NEW p \in Processes, Kill(p)
  PROVE  Rest'
<1>1. /\ dir' = dir /\ dirDisk' = dirDisk /\ data' = data /\ dataDisk' = dataDisk /\ lost' = lost
      /\ ses' = ses /\ count'.sessions = count.sessions
      /\ \A q \in Writers : obj'[q] = IF Home[q] = p THEN NoObject ELSE obj[q]
      /\ \A x \in Processes : counter'[x] = IF x = p THEN 0 ELSE counter[x]
  BY DEF Kill, Die, fsVars, TypeOK, Counts
<1>2. NoObject.ses = 0 /\ NoObject.handle = Invalid /\ NoObject.pc = "none"
  BY DEF NoObject, NoSession
<1>3. \A q \in Writers : Home[q] = p => ~ Holds(q)' /\ Phase(q)' /\ obj'[q].ses = 0
  BY <1>1, <1>2 DEF Holds, Phase
<1>4. ASSUME NEW q \in Writers, Holds(q)'
      PROVE  Holds(q) /\ KnowsTemp(q)' /\ Temp(q)' = Temp(q) /\ obj'[q] = obj[q]
  <2>1. Home[q] # p /\ obj'[q] = obj[q]
    BY <1>1, <1>3, <1>4
  <2>2. Holds(q) /\ obj'[q].pc # "none"
    BY <1>4, <2>1 DEF Holds, Rest, TempInv, KnowsTemp
  <2>3. counter'[Home[q]] >= counter[Home[q]] /\ counter'[Home[q]] \in Nat
    BY <1>1, <2>1, WritersAssumption DEF TypeOK
  <2> QED
    BY <1>1, <2>1, <2>2, <2>3, HolderKept
<1>5. TempInv'
  BY <1>4, FilesDiffer DEF TempInv
<1>6. PhaseInv'
  BY <1>1, <1>3, PhaseKept DEF Rest, PhaseInv
<1>7. FreshInv'
  <2>1. 0 <= count.sessions
    BY DEF TypeOK, Counts
  <2>2. \A q \in Writers : obj'[q].ses <= count.sessions
    BY <1>1, <1>3, <2>1 DEF Rest, FreshInv
  <2> QED
    BY <1>1, <2>2 DEF Rest, FreshInv
<1>8. DirInv' /\ DiskInv'
  BY <1>1 DEF Rest, DirInv, DiskInv
<1>9. WholeInv'
  BY <1>1 DEF Rest, WholeInv, Whole
<1> QED
  BY <1>5, <1>6, <1>7, <1>8, <1>9 DEF Rest

\* Crash preserves the rest of the invariant.
LEMMA CrashRest ==
  ASSUME TypeOK, TypeOK', Rest, Crash
  PROVE  Rest'
<1>1. /\ dir' \in dirDisk /\ dirDisk' = {dir'} /\ lost' = {}
      /\ dataDisk' = [j \in Inodes |-> {data'[j]}]
      /\ ses' = ses /\ count'.sessions = count.sessions
      /\ \A q \in Writers : obj'[q] = NoObject
  BY WritersAssumption DEF Crash, FSCrash, Die, TypeOK, Counts
<1>2. \A q \in Writers : ~ Holds(q)' /\ Phase(q)' /\ obj'[q].ses = 0
  BY <1>1 DEF Holds, Phase, NoObject, NoSession
<1>3. TempInv' /\ PhaseInv'
  BY <1>2 DEF TempInv, PhaseInv
<1>4. FreshInv'
  BY <1>1, <1>2 DEF Rest, FreshInv, TypeOK, Counts
<1>5. DirInv'
  <2>1. \A n, m \in Names : dir'[n] = dir'[m] /\ dir'[n] # NoFile => n = m
    BY <1>1 DEF Rest, DirInv
  <2>2. \A t \in Temps : dir'[t] # NoFile => dir'[t] # dir'[Target]
    BY <2>1, TargetAssumption DEF Names
  <2> QED
    BY <1>1, <2>1, <2>2 DEF Rest, DirInv
<1>6. DiskInv'
  BY <1>1 DEF DiskInv
<1>7. WholeInv'
  <2> SUFFICES ASSUME dir'[Target] # NoFile PROVE \A c \in dataDisk'[dir'[Target]] : Whole(c)'
    BY <1>1 DEF WholeInv
  <2> DEFINE j == dir'[Target]
  <2>1. j \in Inodes
    BY DEF TypeOK, FSTypeOK, Names
  <2>2. data'[j] \in dataDisk[j]
    BY <2>1 DEF Crash, FSCrash, TypeOK, FSTypeOK
  <2>3. Whole(data'[j])
    BY <1>1, <2>2 DEF Rest, WholeInv
  <2>4. dataDisk'[j] = {data'[j]}
    BY <1>1, <2>1
  <2> QED
    BY <1>1, <2>3, <2>4 DEF Whole
<1> QED
  BY <1>3, <1>4, <1>5, <1>6, <1>7 DEF Rest

\* The initial states satisfy the rest of the invariant.
LEMMA RestInit ==
  ASSUME Init, TypeOK PROVE Rest
<1>1. \A o \in Writers : ~ Holds(o) /\ Phase(o) /\ obj[o].ses = 0
  BY DEF Init, Holds, Phase, NoObject, NoSession
<1>2. TempInv /\ PhaseInv
  BY <1>1 DEF TempInv, PhaseInv
<1>3. FreshInv
  <2>1. count.sessions = 0
    BY DEF Init
  <2>2. \A s \in Sessions : ses[s].rank = NotPut
    BY DEF Init, Sessions
  <2> QED
    BY <1>1, <2>1, <2>2 DEF FreshInv
<1>4. \A n \in Names : n # Target => dir[n] = NoFile
  BY DEF Init, FSInit
<1>5. dir[Target] \in {0, NoFile} /\ dirDisk = {dir}
  BY DEF Init, FSInit, Names
<1>6. DirInv
  <2>1. \A n \in Names : dir[n] <= count.sessions
    BY <1>4, <1>5 DEF Init, NoFile
  <2>2. \A t \in Temps : dir[t] = NoFile
    BY <1>4, TargetAssumption DEF Names
  <2> QED
    BY <1>4, <1>5, <2>1, <2>2 DEF DirInv
<1>7. DiskInv
  BY DEF Init, FSInit, DiskInv
<1>8. WholeInv
  <2> SUFFICES ASSUME dir[Target] # NoFile PROVE \A c \in dataDisk[dir[Target]] : Whole(c)
    BY <1>5 DEF WholeInv
  <2>1. dir[Target] = 0 /\ 0 \in Inodes
    BY <1>5, SessionsAssumption DEF Inodes
  <2>2. dataDisk[0] = {[by |-> 0, len |-> 1]}
    BY <2>1 DEF Init, FSInit
  <2>3. ses[0].rank = 0 /\ ses[0].want = 1
    BY <2>1 DEF Init, Inodes
  <2> QED
    BY <2>1, <2>2, <2>3 DEF Whole, NotPut
<1> QED
  BY <1>2, <1>3, <1>6, <1>7, <1>8 DEF Rest

\* A copy, once started, is remembered.
LEMMA CopiedStays == TypeOK /\ [Next]_vars /\ copied => copied'
BY ZenonT(40) DEF TypeOK, Next, WriterStep, CommitStep, vars, writerVars, Construct, ConstructFails,
       BeginWrite, WriteSome, WriteFails, BeginCommit, SyncTemp, SyncTempFails, CopyAttributes,
       StatTarget, ChmodTemp, ChownTemp, CopyAttributesFails, Rename, RenameFails, RenameCrossesFilesystems, CopyBegins, CopyEnds,
       CopyFails, RemoveTemp, SyncDir, SyncDirFails, Destroy, MoveConstruct, MoveAssign,
       MoveMembers, SetFallback, Kill, Crash, Die, UserChmod

\* Every step of a writer object preserves the rest of the invariant.
LEMMA WriterRest ==
  ASSUME "fsync_drops" \notin Faults, TypeOK, TypeOK', Rest,
         NEW o \in Writers, WriterStep(o), ~ copied'
  PROVE  Rest'
<1>1. ASSUME NEW k \in 1 .. MaxLen, BeginWrite(o, k) \/ WriteSome(o, k) PROVE Rest'
  BY <1>1, BeginWriteRest, WriteSomeRest
<1>2. ASSUME CommitStep(o) PROVE Rest'
  <2>1. ~ CopyBegins(o)
    BY DEF CopyBegins
  <2> QED
    BY <1>2, <2>1, NoCopy, SyncTempRest, SyncTempFailsRest, CopyAttributesRest,
       CopyAttributesFailsRest, RenameRest, RenameFailsRest, RenameCrossesFilesystemsRest,
       CopyFailsRest, SyncDirRest, SyncDirFailsRest DEF CommitStep
<1>3. ASSUME NEW to \in Writers, MoveConstruct(o, to) \/ MoveAssign(o, to) PROVE Rest'
  BY <1>3, MoveConstructRest, MoveAssignRest
<1>4. ASSUME NEW enabled \in BOOLEAN, SetFallback(o, enabled) PROVE Rest'
  BY <1>4, SetFallbackRest
<1> QED
  BY <1>1, <1>2, <1>3, <1>4, ConstructRest, ConstructFailsRest, WriteFailsRest, BeginCommitRest,
     DestroyRest DEF WriterStep

\* IInv is inductive.
LEMMA InvariantStep ==
  ASSUME "fsync_drops" \notin Faults
  PROVE  IInv /\ [Next]_vars => IInv'
<1> SUFFICES ASSUME IInv, [Next]_vars PROVE IInv'
  OBVIOUS
<1>1. TypeOK /\ TypeOK'
  BY TypeStep DEF IInv
<1>2. ASSUME ~ copied' PROVE Rest'
  <2>1. Rest
    BY <1>1, <1>2, CopiedStays DEF IInv
  <2>2. CASE UNCHANGED vars
    BY <2>1, <2>2 DEF vars, fsVars, writerVars, Rest, FreshInv, DirInv, TempInv, PhaseInv, DiskInv,
         WholeInv, Holds, KnowsTemp, Phase, Temp, Ino, Complete, Whole
  <2>3. CASE \E o \in Writers : WriterStep(o)
    BY <1>1, <1>2, <2>1, <2>3, WriterRest
  <2>4. CASE \E p \in Processes : Kill(p)
    BY <1>1, <2>1, <2>4, KillRest
  <2>5. CASE Crash
    BY <1>1, <2>1, <2>5, CrashRest
  <2>6. CASE \E mode \in {"user", "ro"} : UserChmod(mode)
    BY <1>1, <2>1, <2>6, UserChmodRest
  <2> QED
    BY <2>2, <2>3, <2>4, <2>5, <2>6 DEF Next
<1> QED
  BY <1>1, <1>2 DEF IInv

(* No reader and no crash ever finds a torn target, for any number of      *)
(* writers and processes, whatever fails and whoever dies: as long as no   *)
(* fallback copy was asked for, and an fsync that fails does not drop the  *)
(* dirty pages it could not write.                                         *)
THEOREM TargetAlwaysWhole ==
  ASSUME "fsync_drops" \notin Faults
  PROVE  Spec => []TargetWhole
<1>1. Init => IInv
  BY TypeInit, RestInit DEF IInv
<1>2. IInv /\ [Next]_vars => IInv'
  BY InvariantStep
<1>3. IInv => TargetWhole
  BY DEF IInv, Rest, WholeInv, TargetWhole, TargetContents
<1> QED
  BY <1>1, <1>2, <1>3, PTL DEF Spec
=============================================================================
