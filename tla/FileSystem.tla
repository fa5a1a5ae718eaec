----------------------------- MODULE FileSystem -----------------------------
(***************************************************************************)
(* The part of the operating system that collab::atomic_file_writer calls: *)
(* one directory holding the target and its sibling temp files, the inodes *)
(* those names link to, and what a power failure may leave of both.        *)
(*                                                                         *)
(* For everything the program can see there is a second variable with what *)
(* may be found on the disk after a crash.  It is a SET of outcomes: an    *)
(* operation adds its result to the set, a flush leaves only the current   *)
(* state in it.  Nothing is assumed to reach the disk without a flush, and *)
(* nothing is assumed not to: that is all POSIX promises.                  *)
(***************************************************************************)
EXTENDS Integers

CONSTANTS
  Target,       \* the name that is replaced
  Processes,    \* process ids, distinct while the processes live
  MaxSessions   \* bound: temp files opened in a behaviour

ASSUME SessionsAssumption == MaxSessions \in Nat \ {0}

Temps  == Processes \X (0 .. MaxSessions - 1)   \* <<pid, n>> is "<target>.<pid>.<n>.tmp"

ASSUME TargetAssumption == Target \notin Temps

Names  == Temps \cup {Target}
Inodes == 0 .. MaxSessions                      \* inode 0 is the file found at the start
NoFile == -1                                    \* the name is not in the directory

\* The bytes of a file, abstracted to who wrote them and how many there are.
Contents == [by : Inodes \cup {NoFile}, len : Nat]
\* "default" is what open() gives a new file, "user" and "ro" (no write bit)
\* are the choices of the target's owner.
Attributes == [mode : {"default", "user", "ro"}, owner : {"self", "other"}]

VARIABLES
  dir,       \* the directory: a name's inode or NoFile
  dirDisk,   \* the directories a crash may leave
  data,      \* an inode's bytes
  dataDisk,  \* the bytes a crash may leave in it
  lost,      \* inodes whose dirty pages a failed fsync has dropped
  attr,      \* an inode's mode and owner
  attrDisk   \* the attributes a crash may leave on it

fsVars == <<dir, dirDisk, data, dataDisk, lost, attr, attrDisk>>

NewFile == [mode |-> "default", owner |-> "self"]
OldFile == [mode |-> "user", owner |-> "other"]

FSTypeOK ==
  /\ dir \in [Names -> Inodes \cup {NoFile}]
  /\ dirDisk \subseteq [Names -> Inodes \cup {NoFile}]
  /\ data \in [Inodes -> Contents]
  /\ dataDisk \in [Inodes -> SUBSET Contents]
  /\ lost \subseteq Inodes
  /\ attr \in [Inodes -> Attributes]
  /\ attrDisk \in [Inodes -> SUBSET Attributes]

(* At the start the directory is empty or holds a file of another owner,   *)
(* all of it on the disk.                                                  *)
FSInit ==
  /\ dir \in {[n \in Names |-> IF n = Target THEN i ELSE NoFile] : i \in {0, NoFile}}
  /\ dirDisk = {dir}
  /\ data = [i \in Inodes |-> [by |-> i, len |-> IF i = 0 THEN 1 ELSE 0]]
  /\ dataDisk = [i \in Inodes |-> {data[i]}]
  /\ lost = {}
  /\ attr = [i \in Inodes |-> IF i = 0 THEN OldFile ELSE NewFile]
  /\ attrDisk = [i \in Inodes |-> {attr[i]}]

Exists(name) == dir[name] # NoFile

SetDir(d) == dir' = d /\ dirDisk' = dirDisk \cup {d}

SetData(i, c) == /\ data' = [data EXCEPT ![i] = c]
                 /\ dataDisk' = [dataDisk EXCEPT ![i] = @ \cup {c}]

(* open(name, O_WRONLY | O_CREAT | O_TRUNC): an existing file keeps its    *)
(* inode and its attributes and loses its bytes; otherwise inode i is new. *)
OpenTrunc(name, i, by) ==
  /\ SetDir(IF Exists(name) THEN dir ELSE [dir EXCEPT ![name] = i])
  /\ SetData(IF Exists(name) THEN dir[name] ELSE i, [by |-> by, len |-> 0])
  /\ UNCHANGED <<lost, attr, attrDisk>>

SetContents(i, c) == SetData(i, c) /\ UNCHANGED <<dir, dirDisk, lost, attr, attrDisk>>

(* fsync(fd): the bytes and the attributes are on the disk, unless an      *)
(* earlier fsync of the file failed and its dirty pages were dropped.      *)
Fsync(i) ==
  /\ dataDisk' = IF i \in lost THEN dataDisk ELSE [dataDisk EXCEPT ![i] = {data[i]}]
  /\ attrDisk' = [attrDisk EXCEPT ![i] = {attr[i]}]
  /\ UNCHANGED <<dir, dirDisk, data, lost, attr>>

FsyncError(i, drops) ==
  /\ lost' = IF drops THEN lost \cup {i} ELSE lost
  /\ UNCHANGED <<dir, dirDisk, data, dataDisk, attr, attrDisk>>

(* chmod and chown take effect at once and reach the disk some time later. *)
SetAttributes(i, a) ==
  /\ attr' = [attr EXCEPT ![i] = a]
  /\ attrDisk' = [attrDisk EXCEPT ![i] = @ \cup {a}]
  /\ UNCHANGED <<dir, dirDisk, data, dataDisk, lost>>

(* rename(from, Target); with through the directory is flushed as well     *)
(* (MOVEFILE_WRITE_THROUGH).                                               *)
RenameToTarget(from, through) ==
  /\ dir' = [dir EXCEPT ![Target] = dir[from], ![from] = NoFile]
  /\ dirDisk' = IF through THEN {dir'} ELSE dirDisk \cup {dir'}
  /\ UNCHANGED <<data, dataDisk, lost, attr, attrDisk>>

Unlink(name) == /\ SetDir([dir EXCEPT ![name] = NoFile])
                /\ UNCHANGED <<data, dataDisk, lost, attr, attrDisk>>

FsyncDir == dirDisk' = {dir} /\ UNCHANGED <<dir, data, dataDisk, lost, attr, attrDisk>>

(* A crash picks one outcome.  The bytes and attributes of the other       *)
(* inodes are left alone: the program never reads what a temp contains.    *)
FSCrash ==
  /\ dir' \in dirDisk
  /\ dirDisk' = {dir'}
  /\ LET i == dir'[Target] IN
       IF i = NoFile THEN UNCHANGED <<data, attr>>
       ELSE \E c \in dataDisk[i], a \in attrDisk[i] :
              /\ data' = [data EXCEPT ![i] = c]
              /\ attr' = [attr EXCEPT ![i] = a]
  /\ dataDisk' = [i \in Inodes |-> {data'[i]}]
  /\ attrDisk' = [i \in Inodes |-> {attr'[i]}]
  /\ lost' = {}

(* What a reader of the target may find now, or after a crash.             *)
TargetContents ==
  LET linked == {d[Target] : d \in dirDisk} \ {NoFile}
  IN  UNION {dataDisk[i] : i \in linked}
=============================================================================
