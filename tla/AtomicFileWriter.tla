-------------------------- MODULE AtomicFileWriter --------------------------
(***************************************************************************)
(* collab::atomic_file_writer: any number of writer objects, in several    *)
(* processes, replacing one target file.  One action is one system call    *)
(* the code makes (or a call and the bookkeeping that follows it in the    *)
(* same object), so that other writers, a kill or a power failure fall     *)
(* between any two of them.                                                *)
(*                                                                         *)
(* A session is one temp file: opened by a constructor, carried along by   *)
(* moves, ended by the commit or the destructor.  Sessions only exist to   *)
(* speak about the past: the program's own state is "obj" and "counter".   *)
(***************************************************************************)
EXTENDS FileSystem, FiniteSets

CONSTANTS
  Writers,      \* storage for writer objects
  Home,         \* the process each writer lives in
  Posix,        \* TRUE: detail/atomic_file_writer.posix.hpp, FALSE: windows.hpp
  Faults,       \* what the system may do to the calls
  Client,       \* what the caller may do
  MaxLen,       \* bound: bytes written in a session
  MaxDeaths,    \* bound: kills and power failures
  MaxChmods     \* bound: attribute changes by the target's owner

ASSUME WritersAssumption ==
  /\ Home \in [Writers -> Processes]
  /\ Posix \in BOOLEAN
  /\ MaxLen \in Nat /\ MaxDeaths \in Nat /\ MaxChmods \in Nat

AllFaults == {"open", "write", "fsync", "fsync_drops", "chmod", "chown_eperm", "chown",
              "rename", "exdev", "copy_open", "copy", "remove", "dirsync", "dirsync_einval",
              "kill", "crash"}
AllClient == {"move", "retry", "fallback"}

ASSUME EnvironmentAssumption == Faults \subseteq AllFaults /\ Client \subseteq AllClient

Sessions == 1 .. MaxSessions
Invalid  == -1        \* atomic_file_writer_invalid_handle
NoSession == 0        \* what a moved-from object's paths stand for
NotPut   == -1

\* The leaves of errors::atomic_file_write that commit() throws.
CommitErrors == {"fsync_temp_failed", "permission_copy_failed", "cross_filesystem",
                 "rename_failed", "direct_write_failed", "fsync_parent_dir_failed"}

VARIABLES
  obj,       \* the objects: where their code is, handle_, committed_, fallback_, temp_,
             \* and what the calls keep between steps: bytes left, stat, copied inode
  counter,   \* per process: the static counter of make_temp_path
  fds,       \* open descriptors, one per session at most
  ses,       \* per session: temp name, inode, bytes asked for, place in the
             \* order of replacements, and what commit() last told the caller
  count,     \* sessions, replacements, deaths and attribute changes so far
  copied     \* a fallback copy has been started

writerVars == <<obj, counter, fds, ses, count, copied>>
vars == <<fsVars, writerVars>>

NoObject == [pc |-> "none", ses |-> NoSession, handle |-> Invalid, committed |-> FALSE,
             fallback |-> FALSE, left |-> 0, st |-> NewFile, into |-> NoFile]

PCs == {"none", "idle", "write", "fsync", "attributes", "chmod", "chown", "replace", "copy",
        "remove", "dirsync"}
CommitPCs == PCs \ {"none", "idle", "write"}

Objects == [pc : PCs, ses : 0 .. MaxSessions, handle : Sessions \cup {Invalid},
            committed : BOOLEAN, fallback : BOOLEAN, left : 0 .. MaxLen, st : Attributes,
            into : Inodes \cup {NoFile}]

Results == {"none", "ok"} \cup CommitErrors

Pasts == [temp : Names, ino : Inodes, want : Nat, rank : Nat \cup {NotPut}, result : Results]

Counts == [sessions : 0 .. MaxSessions, puts : Nat, deaths : Nat, chmods : Nat]

TypeOK ==
  /\ FSTypeOK
  /\ obj \in [Writers -> Objects]
  /\ counter \in [Processes -> Nat]
  /\ fds \subseteq Sessions
  /\ ses \in [0 .. MaxSessions -> Pasts]
  /\ count \in Counts
  /\ copied \in BOOLEAN

Init ==
  /\ FSInit
  /\ obj = [o \in Writers |-> NoObject]
  /\ counter = [p \in Processes |-> 0]
  /\ fds = {}
  /\ ses = [s \in 0 .. MaxSessions |->
             [temp |-> Target, ino |-> 0, want |-> 1,
              rank |-> IF s = 0 THEN 0 ELSE NotPut, result |-> "none"]]
  /\ count = [sessions |-> 0, puts |-> 0, deaths |-> 0, chmods |-> 0]
  /\ copied = FALSE

-----------------------------------------------------------------------------
(* Shorthands.                                                             *)

Temp(o) == ses[obj[o].ses].temp
Ino(o)  == ses[obj[o].ses].ino
At(o, pc) == obj[o].pc = pc
Become(o, r) == obj' = [obj EXCEPT ![o] = r]

\* On to another call of the system; what stat returned to the last is out of scope.
Goto(o, pc) == Become(o, [obj[o] EXCEPT !.pc = pc, !.st = NewFile])

MayFail(f) == f \in Faults

ReadOnly == Exists(Target) /\ attr[dir[Target]].mode = "ro"

\* commit() leaves by an exception: no member was assigned since the last step.
Throw(o, leaf) ==
  /\ Goto(o, "idle")
  /\ ses' = [ses EXCEPT ![obj[o].ses].result = leaf]

Uncommitted(r) == ~ r.committed /\ r.handle # Invalid

\* close(handle_), which has no effect on the invalid handle.
Close(o) == fds' = fds \ {obj[o].handle}

\* An error of the removal is not looked at.
RemoveQuietly(o) ==
  \/ Unlink(Temp(o))
  \/ MayFail("remove") /\ UNCHANGED fsVars

-----------------------------------------------------------------------------
(* The constructor.  On a read-only target it throws before it has changed *)
(* anything; otherwise it draws a name and opens the temp.                 *)


\* Bug: the name is made of the target and the counter alone.
TempNameWithoutPid(p) == <<CHOOSE q \in Processes : TRUE, counter[p]>>

TempName(p) == <<p, counter[p]>>

Drawn(p) == counter' = [counter EXCEPT ![p] = @ + 1]

\* open_temp: created, or emptied if a file of that name was left behind.
OpenTemp(name, s) == OpenTrunc(name, s, s) /\ fds' = fds \cup {s}

Construct(o) ==
  LET p == Home[o]
      s == count.sessions + 1
      name == TempName(p)
  IN  /\ At(o, "none")
      /\ s \in Sessions
      /\ name \in Temps
      /\ ~ ReadOnly
      /\ Drawn(p)
      /\ OpenTemp(name, s)
      /\ Become(o, [NoObject EXCEPT !.pc = "idle", !.ses = s, !.handle = s])
      /\ ses' = [ses EXCEPT ![s] = [@ EXCEPT !.temp = name, !.want = 0,
                                      !.ino = IF Exists(name) THEN dir[name] ELSE s]]
      /\ count' = [count EXCEPT !.sessions = s]
      /\ UNCHANGED copied

(* create_temp_failed: the name is used up, the object never exists.       *)
ConstructFails(o) ==
  /\ At(o, "none") /\ MayFail("open") /\ ~ ReadOnly
  /\ TempName(Home[o]) \in Temps
  /\ Drawn(Home[o])
  /\ UNCHANGED <<fsVars, obj, fds, ses, count, copied>>

-----------------------------------------------------------------------------
(* write(): a loop of short writes.  A caller that got write_failed has a  *)
(* temp with fewer bytes than it asked for and does not commit it.         *)

Complete(o) == data[Ino(o)].len = ses[obj[o].ses].want

BeginWrite(o, k) ==
  LET s == obj[o].ses IN
  /\ At(o, "idle") /\ Uncommitted(obj[o]) /\ Complete(o)
  /\ ses[s].want + k <= MaxLen
  /\ Become(o, [obj[o] EXCEPT !.pc = "write", !.left = k])
  /\ ses' = [ses EXCEPT ![s].want = @ + k]
  /\ UNCHANGED <<fsVars, counter, fds, count, copied>>

WriteSome(o, m) ==
  LET c == data[Ino(o)] IN
  /\ At(o, "write") /\ m <= obj[o].left
  /\ SetContents(Ino(o), [c EXCEPT !.len = @ + m])
  /\ Become(o, [obj[o] EXCEPT !.left = @ - m, !.pc = IF m = obj[o].left THEN "idle" ELSE @])
  /\ UNCHANGED <<counter, fds, ses, count, copied>>

WriteFails(o) ==
  /\ At(o, "write") /\ MayFail("write")
  /\ Become(o, [obj[o] EXCEPT !.pc = "idle", !.left = 0])
  /\ UNCHANGED <<fsVars, counter, fds, ses, count, copied>>

-----------------------------------------------------------------------------
(* commit(), call by call.                                                 *)

BeginCommit(o) ==
  /\ At(o, "idle") /\ ~ obj[o].committed /\ Complete(o)
  /\ ses[obj[o].ses].result = "none" \/ "retry" \in Client
  /\ Goto(o, "fsync")
  /\ UNCHANGED <<fsVars, counter, fds, ses, count, copied>>


\* Bug: the temp is closed and not flushed.
SyncTempUnflushed(o) ==
  /\ At(o, "fsync") /\ obj[o].handle # Invalid
  /\ fds' = fds \ {obj[o].handle}
  /\ Become(o, [obj[o] EXCEPT !.pc = "attributes", !.handle = Invalid])
  /\ UNCHANGED <<fsVars, counter, ses, count, copied>>

\* Bug: 0 taken for the invalid handle.
SyncTempZeroHandle(o) ==
  /\ At(o, "fsync") /\ obj[o].handle # Invalid
  /\ Fsync(Ino(o))
  /\ fds' = fds \ {obj[o].handle}
  /\ Become(o, [obj[o] EXCEPT !.pc = "attributes", !.handle = 0])
  /\ UNCHANGED <<counter, ses, count, copied>>

\* Bug: the handle that was closed is kept.
SyncTempKeepsHandle(o) ==
  /\ At(o, "fsync") /\ obj[o].handle # Invalid
  /\ Fsync(Ino(o))
  /\ Close(o)
  /\ Goto(o, "attributes")
  /\ UNCHANGED <<counter, ses, count, copied>>

\* fsync(handle_), then close(handle_) and handle_ = invalid.
SyncTemp(o) ==
  /\ At(o, "fsync") /\ obj[o].handle # Invalid
  /\ Fsync(Ino(o))
  /\ Close(o)
  /\ Become(o, [obj[o] EXCEPT !.pc = "attributes", !.handle = Invalid])
  /\ UNCHANGED <<counter, ses, count, copied>>

SyncTempFails(o) ==
  /\ At(o, "fsync")
  /\ \/ obj[o].handle = Invalid /\ UNCHANGED fsVars    \* a retry: EBADF
     \/ /\ obj[o].handle # Invalid /\ MayFail("fsync")
        /\ FsyncError(Ino(o), MayFail("fsync_drops"))
  /\ Throw(o, "fsync_temp_failed")
  /\ UNCHANGED <<counter, fds, count, copied>>


\* stat(target): without a target there is nothing to copy.
StatTarget(o) ==
  /\ At(o, "attributes")
  /\ IF Exists(Target) THEN Become(o, [obj[o] EXCEPT !.pc = "chmod", !.st = attr[dir[Target]]])
                       ELSE Goto(o, "replace")
  /\ UNCHANGED <<fsVars, counter, fds, ses, count, copied>>

\* Bug: the mode of the target is forgotten.
ChmodTempSkipped(o) ==
  /\ At(o, "chmod")
  /\ IF Posix THEN Become(o, [obj[o] EXCEPT !.pc = "chown"]) ELSE Goto(o, "replace")
  /\ UNCHANGED <<fsVars, counter, fds, ses, count, copied>>

\* chmod(temp).  On Windows one attribute word is copied, and the owner is not in it.
ChmodTemp(o) ==
  /\ At(o, "chmod")
  /\ SetAttributes(Ino(o), [attr[Ino(o)] EXCEPT !.mode = obj[o].st.mode])
  /\ IF Posix THEN Become(o, [obj[o] EXCEPT !.pc = "chown"]) ELSE Goto(o, "replace")
  /\ UNCHANGED <<counter, fds, ses, count, copied>>

\* chown(temp), whose EPERM is ignored.
ChownTemp(o) ==
  /\ At(o, "chown")
  /\ \/ SetAttributes(Ino(o), [attr[Ino(o)] EXCEPT !.owner = obj[o].st.owner])
     \/ MayFail("chown_eperm") /\ UNCHANGED fsVars
  /\ Goto(o, "replace")
  /\ UNCHANGED <<counter, fds, ses, count, copied>>

CopyAttributes(o) == StatTarget(o) \/ ChmodTemp(o) \/ ChownTemp(o)

CopyAttributesFails(o) ==
  /\ \/ At(o, "chmod") /\ MayFail("chmod")
     \/ At(o, "chown") /\ MayFail("chown")
  /\ Throw(o, "permission_copy_failed")
  /\ UNCHANGED <<fsVars, counter, fds, count, copied>>

\* The session's content is now the latest the target was given.
Put(s) == /\ ses' = [ses EXCEPT ![s].rank = count.puts + 1]
          /\ count' = [count EXCEPT !.puts = @ + 1]

WindowsRefuses == ~ Posix /\ ReadOnly


\* Bug: MOVEFILE_WRITE_THROUGH left out.
RenameUnflushed(o) ==
  /\ At(o, "replace") /\ ~ WindowsRefuses
  /\ RenameToTarget(Temp(o), FALSE)
  /\ Put(obj[o].ses)
  /\ Goto(o, "dirsync")
  /\ UNCHANGED <<counter, fds, copied>>

Rename(o) ==
  /\ At(o, "replace") /\ ~ WindowsRefuses
  /\ RenameToTarget(Temp(o), ~ Posix)
  /\ Put(obj[o].ses)
  /\ Goto(o, "dirsync")
  /\ UNCHANGED <<counter, fds, copied>>

RenameFails(o) ==
  /\ At(o, "replace") /\ (MayFail("rename") \/ WindowsRefuses)
  /\ Throw(o, "rename_failed")
  /\ UNCHANGED <<fsVars, counter, fds, count, copied>>

RenameCrossesFilesystems(o) ==
  /\ At(o, "replace") /\ MayFail("exdev") /\ Exists(Target) /\ ~ obj[o].fallback
  /\ Throw(o, "cross_filesystem")
  /\ UNCHANGED <<fsVars, counter, fds, count, copied>>

(* The opted-in fallback: copy_file truncates the target and writes into   *)
(* it, then the temp is removed; an error of the removal is not looked at. *)
CopyBegins(o) ==
  LET i == dir[Target] IN
  /\ At(o, "replace") /\ MayFail("exdev") /\ Exists(Target) /\ obj[o].fallback
  /\ SetContents(i, [by |-> obj[o].ses, len |-> 0])
  /\ Put(obj[o].ses)
  /\ Become(o, [obj[o] EXCEPT !.pc = "copy", !.into = i])
  /\ copied' = TRUE
  /\ UNCHANGED <<counter, fds>>

CopyEnds(o) ==
  LET s == obj[o].ses
      i == obj[o].into
      all == [by |-> s, len |-> ses[s].want]
      mix == [by |-> NoFile, len |-> 0]              \* two copies ran over each other
  IN  /\ At(o, "copy")
      /\ SetContents(i, IF data[i].by = s THEN all ELSE mix)
      /\ Become(o, [obj[o] EXCEPT !.pc = "remove", !.into = NoFile])
      /\ UNCHANGED <<counter, fds, ses, count, copied>>


\* Bug: the error code of copy_file is not looked at.
CopyFailsQuietly(o) ==
  /\ \/ /\ At(o, "replace") /\ MayFail("exdev") /\ MayFail("copy_open")
        /\ Exists(Target) /\ obj[o].fallback
     \/ At(o, "copy") /\ MayFail("copy")
  /\ Become(o, [obj[o] EXCEPT !.pc = "remove", !.into = NoFile])
  /\ UNCHANGED <<fsVars, counter, fds, ses, count, copied>>

CopyFails(o) ==
  /\ \/ /\ At(o, "replace") /\ MayFail("exdev") /\ MayFail("copy_open")
        /\ Exists(Target) /\ obj[o].fallback
     \/ At(o, "copy") /\ MayFail("copy")
  /\ Become(o, [obj[o] EXCEPT !.pc = "idle", !.into = NoFile])
  /\ ses' = [ses EXCEPT ![obj[o].ses].result = "direct_write_failed"]
  /\ UNCHANGED <<fsVars, counter, fds, count, copied>>

RemoveTemp(o) ==
  /\ At(o, "remove")
  /\ \/ Unlink(Temp(o))
     \/ MayFail("remove") /\ UNCHANGED fsVars
  /\ Goto(o, "dirsync")
  /\ UNCHANGED <<counter, fds, ses, count, copied>>


\* Bug: commit() returns without the flush of the directory.
SyncDirSkipped(o) ==
  /\ At(o, "dirsync")
  /\ Become(o, [obj[o] EXCEPT !.pc = "idle", !.committed = TRUE])
  /\ ses' = [ses EXCEPT ![obj[o].ses].result = "ok"]
  /\ UNCHANGED <<fsVars, counter, fds, count, copied>>

\* fsync of the parent directory; EINVAL counts as done.  Nothing to do on Windows.
SyncDir(o) ==
  LET s == obj[o].ses IN
  /\ At(o, "dirsync")
  /\ \/ Posix /\ FsyncDir
     \/ Posix /\ MayFail("dirsync_einval") /\ UNCHANGED fsVars
     \/ ~ Posix /\ UNCHANGED fsVars
  /\ Become(o, [obj[o] EXCEPT !.pc = "idle", !.committed = TRUE])
  /\ ses' = [ses EXCEPT ![s].result = "ok"]
  /\ UNCHANGED <<counter, fds, count, copied>>

SyncDirFails(o) ==
  /\ At(o, "dirsync") /\ Posix /\ MayFail("dirsync")
  /\ Throw(o, "fsync_parent_dir_failed")
  /\ UNCHANGED <<fsVars, counter, fds, count, copied>>

-----------------------------------------------------------------------------
(* The rest of the object's life.                                          *)


\* Bug: the wrong path is removed.
DiscardTarget(o) ==
  IF Uncommitted(obj[o]) THEN fds' = fds \ {obj[o].handle} /\ Unlink(Target)
                         ELSE UNCHANGED <<fsVars, fds>>

\* Bug: the temp is closed and left in the directory.
DiscardKeepsTemp(o) ==
  /\ fds' = IF Uncommitted(obj[o]) THEN fds \ {obj[o].handle} ELSE fds
  /\ UNCHANGED fsVars

\* What ~atomic_file_writer does with the members of o: close, remove_quietly.
Discard(o) ==
  IF Uncommitted(obj[o])
  THEN Close(o) /\ RemoveQuietly(o)
  ELSE UNCHANGED <<fsVars, fds>>

Destroy(o) ==
  /\ At(o, "idle")
  /\ Discard(o)
  /\ Become(o, NoObject)
  /\ UNCHANGED <<counter, ses, count, copied>>


\* Bug: the source of a move still holds the handle.
MovedFromKeepsHandle(r) == [r EXCEPT !.ses = NoSession, !.committed = TRUE]

MovedFrom(r) == [r EXCEPT !.ses = NoSession, !.handle = Invalid, !.committed = TRUE]

MoveMembers(from, to) ==
  /\ obj' = [obj EXCEPT ![to] = obj[from], ![from] = MovedFrom(obj[from])]
  /\ UNCHANGED <<counter, ses, count, copied>>

MoveConstruct(from, to) ==
  /\ "move" \in Client /\ Home[from] = Home[to]
  /\ At(from, "idle") /\ At(to, "none")
  /\ MoveMembers(from, to)
  /\ UNCHANGED <<fsVars, fds>>

MoveAssign(from, to) ==
  /\ "move" \in Client /\ Home[from] = Home[to] /\ from # to
  /\ At(from, "idle") /\ At(to, "idle")
  /\ Discard(to)
  /\ MoveMembers(from, to)

SetFallback(o, enabled) ==
  /\ At(o, "idle") /\ "fallback" \in Client /\ obj[o].fallback # enabled
  /\ Become(o, [obj[o] EXCEPT !.fallback = enabled])
  /\ UNCHANGED <<fsVars, counter, fds, ses, count, copied>>

-----------------------------------------------------------------------------
(* The world around: processes die without running destructors, the power  *)
(* fails, the target's owner changes its mode.  A process started later    *)
(* gets the pid of a dead one, the worst case for the temp names.          *)

Die(ps) ==
  LET dead == {o \in Writers : Home[o] \in ps} IN
  /\ count.deaths < MaxDeaths
  /\ count' = [count EXCEPT !.deaths = @ + 1]
  /\ fds' = fds \ {obj[o].handle : o \in dead}
  /\ obj' = [o \in Writers |-> IF o \in dead THEN NoObject ELSE obj[o]]
  /\ counter' = [p \in Processes |-> IF p \in ps THEN 0 ELSE counter[p]]
  /\ UNCHANGED <<ses, copied>>

Kill(p) == MayFail("kill") /\ Die({p}) /\ UNCHANGED fsVars

Crash == MayFail("crash") /\ Die(Processes) /\ FSCrash

UserChmod(mode) ==
  /\ Exists(Target) /\ count.chmods < MaxChmods
  /\ attr[dir[Target]].mode # mode
  /\ SetAttributes(dir[Target], [attr[dir[Target]] EXCEPT !.mode = mode])
  /\ count' = [count EXCEPT !.chmods = @ + 1]
  /\ UNCHANGED <<obj, counter, fds, ses, copied>>

-----------------------------------------------------------------------------
CommitStep(o) ==
  \/ SyncTemp(o) \/ SyncTempFails(o)
  \/ CopyAttributes(o) \/ CopyAttributesFails(o)
  \/ Rename(o) \/ RenameFails(o) \/ RenameCrossesFilesystems(o)
  \/ CopyBegins(o) \/ CopyEnds(o) \/ CopyFails(o) \/ RemoveTemp(o)
  \/ SyncDir(o) \/ SyncDirFails(o)

WriterStep(o) ==
  \/ Construct(o) \/ ConstructFails(o)
  \/ \E k \in 1 .. MaxLen : BeginWrite(o, k) \/ WriteSome(o, k)
  \/ WriteFails(o)
  \/ BeginCommit(o) \/ CommitStep(o)
  \/ Destroy(o)
  \/ \E enabled \in BOOLEAN : SetFallback(o, enabled)
  \/ \E to \in Writers : MoveConstruct(o, to) \/ MoveAssign(o, to)

Next ==
  \/ \E o \in Writers : WriterStep(o)
  \/ \E p \in Processes : Kill(p)
  \/ Crash
  \/ \E mode \in {"user", "ro"} : UserChmod(mode)

Spec == Init /\ [][Next]_vars

-----------------------------------------------------------------------------
\* A content that some commit() had in full when it replaced the target.
Whole(c) == c.by \in Inodes /\ ses[c.by].rank # NotPut /\ c.len = ses[c.by].want

(* The target is never torn: whatever is read from it, now or after a      *)
(* power failure in the middle of any number of concurrent commits, is the *)
(* complete content of one of them (or the file found at the start), as    *)
(* long as no fallback copy has waived that (the contract at the top of    *)
(* atomic_file_writer.hpp; commit()).                                      *)
TargetWhole == ~ copied => \A c \in TargetContents : Whole(c)

(* "If commit() returned, the data is on the platter": after any power     *)
(* failure the target holds the whole of what an acknowledged commit put   *)
(* there or of what a later one did.                                       *)
OnPlatter ==
  \A s \in Sessions : ses[s].result = "ok" =>
    \A d \in dirDisk : /\ d[Target] # NoFile
                       /\ \A c \in dataDisk[d[Target]] :
                              Whole(c) /\ ses[c.by].rank >= ses[s].rank

(* The same while every commit has replaced the target by a rename.        *)
Durable == ~ copied => OnPlatter

(* Every open descriptor belongs to exactly one object that will close it, *)
(* and no object holds a descriptor already closed, through every sequence *)
(* of moves, failed commits and destructions.                              *)
HandlesOwned ==
  /\ \A s \in fds : \E o \in Writers : obj[o].handle = s
  /\ \A o \in Writers : obj[o].handle # Invalid => obj[o].handle \in fds
  /\ \A o, q \in Writers : obj[o].handle = obj[q].handle /\ o # q => obj[o].handle = Invalid

(* "If the writer is destroyed without commit(), the temp is discarded":   *)
(* while no process has died, a temp in the directory has an object that   *)
(* will still rename or remove it.                                         *)
TempsOwned ==
  count.deaths = 0 =>
    \A t \in Temps : Exists(t) => \E o \in Writers : ~ At(o, "none") /\ Temp(o) = t

(* Overwriting preserves the mode: a target that had one given by its      *)
(* owner never shows the mode open() gave the temp, whichever writers      *)
(* overlap (preserve_attributes before the rename).                        *)
ModeKept ==
  [][Exists(Target) /\ attr[dir[Target]].mode # "default"
       => attr'[dir'[Target]].mode # "default"]_vars

\* A session that ended untold: nobody will finish it.  If it has touched the target,
\* its process was killed.
Abandoned(s) == ses[s].result = "none" /\ \A o \in Writers : At(o, "none") \/ obj[o].ses # s

(* The fallback gives up atomicity, which a kill in the middle of the copy *)
(* may show, and nothing else: the target is whole, or a copy is on its    *)
(* way into it or was killed there, or the caller whose copy failed was    *)
(* told, and is told nothing better when it tries again.  For writers that *)
(* do not overlap, as two copies at once may mix, and without power        *)
(* failures, as the copy is not flushed (atomic_replace, copy_file).       *)
FallbackWhole ==
  Exists(Target) =>
    LET c == data[dir[Target]] IN
      \/ Whole(c)
      \/ \E o \in Writers : At(o, "copy") /\ obj[o].ses = c.by
      \/ ses[c.by].result \in {"direct_write_failed", "fsync_temp_failed"}
      \/ Abandoned(c.by)

(* The versions of the register: a torn content is none of them.           *)
Torn == NotPut - 1
VersionOf(i) == {IF Whole(c) THEN ses[c.by].rank ELSE Torn : c \in dataDisk[i]}
LiveVersion == IF ~ Exists(Target) THEN 0
               ELSE IF Whole(data[dir[Target]]) THEN ses[data[dir[Target]].by].rank ELSE Torn
DiskVersions == UNION {IF d[Target] = NoFile THEN {0} ELSE VersionOf(d[Target]) : d \in dirDisk}

(* The writers, the directory and the disk implement the register: every   *)
(* interleaving of commits, kills and power failures is one of indivisible *)
(* replacements.                                                           *)
Register == INSTANCE AtomicFile WITH
  live <- LiveVersion, disk <- DiskVersions, newest <- count.puts,
  acked <- {ses[s].rank : s \in {r \in Sessions : ses[r].result = "ok"}}

ImplementsRegister == Register!RegisterSpec
=============================================================================
