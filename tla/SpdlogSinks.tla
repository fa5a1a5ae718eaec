---------------------------- MODULE SpdlogSinks ----------------------------
(***************************************************************************)
(* The sinks of log_native.cpp and what they share: the counter logger     *)
(* names are drawn from and spdlog's registry of named loggers.  spdlog is *)
(* modelled from how the sinks use it.  The steps defined here are taken   *)
(* by the threads of module Log.                                           *)
(***************************************************************************)
EXTENDS Integers, Sequences

CONSTANTS
  Sinks,     \* sink objects
  KindOf,    \* the class of each
  NoId,      \* nullptr in place of an identifier
  NoName     \* the name of a sink that has drawn none

\* level, in the order of its enumerators.
Rank == [trace |-> 0, debug |-> 1, info |-> 2, warn |-> 3, error |-> 4, critical |-> 5,
         off |-> 6]

Level == DOMAIN Rank

\* to_spdlog_level(): the value of level_enum.
SpdlogLevel(l) ==
  CASE l = "trace" -> 0 [] l = "debug" -> 1 [] l = "info" -> 2 [] l = "warn" -> 3
    [] l = "error" -> 4 [] l = "critical" -> 5 [] l = "off" -> 6

\* The sink classes, and the prefix of the logger names each draws.
Prefix(kind) ==
  CASE kind \in {"stdout", "stdout_color"} -> "collab_stdout_"
    [] kind \in {"stderr", "stderr_color"} -> "collab_stderr_"
    [] kind = "file" -> "collab_file_"

Kinds == {"stdout", "stdout_color", "stderr", "stderr_color", "file",
          "custom",      \* a class of the application
          "chatty"}      \* one that logs, in write and when it is destroyed

Spdlog(s) == KindOf[s] \notin {"custom", "chatty"}

ASSUME KindsAssumption == KindOf \in [Sinks -> Kinds]

\* The names a sink may draw.
Drawable == {Prefix(kind) : kind \in Kinds \ {"custom", "chatty"}} \X Nat

ASSUME NameAssumption == NoName \notin Drawable

VARIABLES
  counter,   \* names drawn
  registry,  \* names of the loggers spdlog has registered
  name,      \* each sink's name_
  lines,     \* what each sink has written
  flushed    \* how many of them have left the process

sinkVars == <<counter, registry, name, lines, flushed>>

SinksInit ==
  /\ counter = 0
  /\ registry = {}
  /\ name = [s \in Sinks |-> NoName]
  /\ lines = [s \in Sinks |-> <<>>]
  /\ flushed = [s \in Sinks |-> 0]

\* Bug: the counter is not atomic, and an increment may be lost.
UniqueNameRacing(s) ==
  /\ counter' \in {counter, counter + 1}
  /\ name' = [name EXCEPT ![s] = <<Prefix(KindOf[s]), counter + 1>>]

\* unique_name(): an atomic increment, one counter for all prefixes.
UniqueName(s) ==
  /\ counter' = counter + 1
  /\ name' = [name EXCEPT ![s] = <<Prefix(KindOf[s]), counter'>>]

\* The spdlog factory called by make(): it refuses a name that is taken.
RegisterLogger(s) ==
  /\ name[s] \notin registry
  /\ registry' = registry \cup {name[s]}

CannotRegister(s) == KindOf[s] = "file" \/ name[s] \in registry

\* ~spdlog_sink_base(): spdlog::drop of the sink's own name.
DropLogger(s) == registry' = IF Spdlog(s) THEN registry \ {name[s]} ELSE registry

\* identifier::bundle_id().
BundleId(id) == <<id.tld, id.org_id, id.app_id>>

\* What precedes the message: emit_console(), file_sink::write(); a class of
\* the application is handed the identifier itself.
Attribution(s, id) ==
  CASE id = NoId -> <<>>
    [] id # NoId /\ ~ Spdlog(s) -> <<id>>
    [] id # NoId /\ KindOf[s] = "file" -> <<BundleId(id)>>
    [] OTHER -> <<id.app_name>>

\* Bug: the file sink is told to flush from level info on.
FlushesInfo(s, lvl) ==
  KindOf[s] = "file" => SpdlogLevel(lvl) >= SpdlogLevel("info") /\ lvl # "off"

\* A console sink flushes after every line; the file sink is told to flush from
\* level trace on, which spdlog takes to leave out level off.
Flushes(s, lvl) ==
  KindOf[s] = "file" => SpdlogLevel(lvl) >= SpdlogLevel("trace") /\ lvl # "off"

\* Write may throw in a class of the application, and in a file sink where it puts the
\* bundle ID together, before spdlog is called, which lets nothing out.
MayThrow(s, id) == ~ Spdlog(s) \/ (KindOf[s] = "file" /\ id # NoId)

Write(s, m, lvl, id) ==
  /\ lines' = [lines EXCEPT ![s] = Append(@, [msg |-> m, by |-> Attribution(s, id)])]
  /\ flushed' = IF Flushes(s, lvl) THEN [flushed EXCEPT ![s] = Len(lines'[s])] ELSE flushed
=============================================================================
