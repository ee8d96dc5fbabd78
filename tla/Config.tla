------------------------------- MODULE Config -------------------------------
(***************************************************************************)
(* How srv_async gets its configuration: defaults, then srv.config line by *)
(* line, then the command line, then the first use of the log file.        *)
(*                                                                         *)
(* A line or an option is a key and its value: what atoi() makes of it for *)
(* the three numbers, a name for the log file.  Lines that are comments,   *)
(* empty, or name no known key are all "other".                            *)
(***************************************************************************)
EXTENDS Integers, Sequences

CONSTANTS
    Files,      \* what srv.config may hold: sequences of lines, <<>> if there is none
    CmdLines,   \* command lines: sequences of options
    Unopenable, \* names of log files that fopen() cannot open for writing
    Unallocatable \* names of log files for which malloc() has no memory

Numbers == {"port", "num_workers", "log_level"}
Keys == Numbers \cup {"log_file"}
\* "NULL" is the null pointer, and not the name of a file here.
Settings == [key : Numbers, val : Int] \cup [key : {"log_file"}, val : STRING \ {"NULL"}]
ASSUME ConfigInputs ==
    /\ Files \subseteq Seq(Settings \cup [key : {"other"}])
    /\ CmdLines \subseteq Seq(Settings \cup [key : {"help", "unknown"}])

VARIABLES
    file, args, \* srv.config and argv
    at,         \* the next line or option
    pc,         \* where main() is
    conf,       \* SRV_CONFIG: the last value of each key
    desc,       \* log_file_desc
    help        \* SRV_CONFIG.help
configVars == <<file, args, at, pc, conf, desc, help>>

\* parse_range_value() accepts these.
Accepted(key) == CASE key = "port" -> 1..65535 [] key = "num_workers" -> 1..1000
                   [] key = "log_level" -> 0..2

\* The log_file_name is a null pointer at first, which print_srv_config() writes
\* as "stdout".
Default == [port |-> 8080, num_workers |-> 1, log_level |-> 0, log_file |-> "stdout"]

\* init_srv_config_default()
ConfigInit ==
    /\ file \in Files /\ args \in CmdLines
    /\ at = 1 /\ pc = "file"
    /\ conf = Default /\ desc = "stdout" /\ help = FALSE

\* A value is refused.
Refused(s) == IF s.key = "log_file" THEN s.val \in Unopenable \cup Unallocatable
              ELSE s.val \notin Accepted(s.key)

\* A wrong variant of Takes that keeps the old descriptor if fopen() fails.
KeepsDesc(s) ==
    /\ conf' = [conf EXCEPT ![s.key] = IF Refused(s) THEN @ ELSE s.val]
    /\ desc' = IF s.key = "log_file" /\ ~Refused(s) THEN s.val ELSE desc

\* parse_log_file_name(): without memory the name is a null pointer and the log
\* stays where it was; a file that cannot be opened keeps its name.
TakesLogFile(name) ==
    IF name \in Unallocatable THEN conf' = [conf EXCEPT !.log_file = "stdout"] /\ UNCHANGED desc
    ELSE /\ conf' = [conf EXCEPT !.log_file = name]
         /\ desc' = IF name \in Unopenable THEN "NULL" ELSE name

\* parse_range_value() and parse_log_file_name(), and what is stored of them.
Takes(s) ==
    IF s.key = "log_file" THEN TakesLogFile(s.val)
    ELSE /\ conf' = IF Refused(s) THEN conf ELSE [conf EXCEPT ![s.key] = s.val]
         /\ UNCHANGED desc

\* A wrong variant of ConfigLine that reads on after a failure.
ConfigLineGoesOn ==
    /\ pc = "file" /\ at <= Len(file)
    /\ at' = at + 1
    /\ IF file[at].key \in Keys THEN Takes(file[at]) ELSE UNCHANGED <<conf, desc>>
    /\ UNCHANGED <<file, args, pc, help>>

\* parse_srv_config_line().  A failure ends the reading of the file, but not
\* the start of the server: main() only prints HELP_MSG.
ConfigLine ==
    /\ pc = "file" /\ at <= Len(file)
    /\ IF file[at].key \notin Keys THEN at' = at + 1 /\ UNCHANGED <<pc, conf, desc>>
       ELSE /\ Takes(file[at])
            /\ IF Refused(file[at]) THEN pc' = "cmdline" /\ at' = 1 ELSE at' = at + 1 /\ UNCHANGED pc
    /\ UNCHANGED <<file, args, help>>

\* The end of the file, or there is none.
ConfigEnds ==
    /\ pc = "file" /\ at > Len(file) /\ pc' = "cmdline" /\ at' = 1
    /\ UNCHANGED <<file, args, conf, desc, help>>

\* One round of parse_srv_cmdline_opts(); here a failure ends the server.
CmdlineOpt ==
    /\ pc = "cmdline" /\ at <= Len(args)
    /\ IF args[at].key \in Keys THEN Takes(args[at]) ELSE UNCHANGED <<conf, desc>>
    /\ help' = (help \/ args[at].key \notin Keys)
    /\ IF args[at].key = "unknown" \/ (args[at].key \in Keys /\ Refused(args[at]))
       THEN pc' = "refused" /\ UNCHANGED at ELSE at' = at + 1 /\ UNCHANGED pc
    /\ UNCHANGED <<file, args>>

\* main() after both.  print_srv_config() writes to log_file_desc, and the
\* first fprintf() to NULL ends the process.
Starts ==
    /\ pc = "cmdline" /\ at > Len(args)
    /\ pc' = IF help THEN "help" ELSE IF desc = "NULL" THEN "crashed" ELSE "started"
    /\ UNCHANGED <<file, args, at, conf, desc, help>>

ConfigNext == ConfigLine \/ ConfigEnds \/ CmdlineOpt \/ Starts
ConfigSpec == ConfigInit /\ [][ConfigNext]_configVars

-----------------------------------------------------------------------------
\* The lines before the first that is refused, and the last value of a key among
\* some entries of a sequence.
Read == {k \in DOMAIN file : \A j \in 1..k : file[j].key \in Keys => ~Refused(file[j])}
LastOf(seq, entries, key, else) ==
    LET js == {j \in entries : seq[j].key = key}
    IN  IF js = {} THEN else ELSE seq[CHOOSE j \in js : \A k \in js : k <= j].val
FromFile(key) == LastOf(file, Read, key, Default[key])

\* The first line that is refused names a log file, one of some names.
BrokenBy(names) == \E k \in DOMAIN file :
    /\ k \notin Read /\ file[k].key = "log_file" /\ file[k].val \in names
    /\ \A j \in 1..k - 1 : j \in Read
LogFileBroken == BrokenBy(Unopenable \ Unallocatable)
NameLost == BrokenBy(Unallocatable)
NoLogInArgs == \A j \in DOMAIN args : args[j].key # "log_file"

(***************************************************************************)
(* A server that starts runs with what was said last: for every key, the   *)
(* last option of the command line, else the last line of srv.config       *)
(* before the first that is refused, else the default.  Of log_file this   *)
(* is where the log is written, and what the server reports as its log;    *)
(* only where memory for a name of srv.config ran out and the command line *)
(* has none, it reports "stdout" and writes to the file named before.      *)
(***************************************************************************)
LastWordCounts ==
    pc = "started" =>
        /\ \A key \in Numbers : conf[key] = LastOf(args, DOMAIN args, key, FromFile(key))
        /\ desc = LastOf(args, DOMAIN args, "log_file", FromFile("log_file"))
        /\ conf.log_file = IF NameLost /\ NoLogInArgs THEN "stdout" ELSE desc

(***************************************************************************)
(* The start ends in print_srv_config() exactly when srv.config is broken  *)
(* by a log file that cannot be opened and the command line names no other *)
(* (srv_config.c:56, srv_async.c:42).                                      *)
(***************************************************************************)
CrashesOnLogFileOnly ==
    pc \in {"started", "crashed"} =>
        (pc = "crashed" <=> NoLogInArgs /\ LogFileBroken)

(***************************************************************************)
(* A claim of the source that the code does not keep: port_num "should be  *)
(* from 1 to 65536 (max valid port)" (srv_config.c:17-18).                 *)
(***************************************************************************)
PortAsInHelp ==
    pc = "refused" /\ args[at].key = "port" => args[at].val \notin 1..65536

-----------------------------------------------------------------------------
(***************************************************************************)
(* The inductive invariant of the two properties: what the settings are    *)
(* before every line and every option.                                     *)
(***************************************************************************)
Named == \E j \in 1..at - 1 : args[j].key = "log_file"
Log == LastOf(args, 1..at - 1, "log_file", FromFile("log_file"))
LogAsNamed == conf.log_file # "NULL" /\ desc = conf.log_file

InFile ==
    /\ at \in 1..Len(file) + 1 /\ 1..at - 1 \subseteq Read
    /\ \A key \in Keys : conf[key] = LastOf(file, 1..at - 1, key, Default[key])
    /\ LogAsNamed

InCmdLine ==
    /\ \A key \in Numbers : conf[key] = LastOf(args, 1..at - 1, key, FromFile(key))
    /\ IF LogFileBroken /\ ~Named THEN desc = "NULL"
       ELSE /\ desc = Log /\ desc # "NULL"
            /\ conf.log_file = IF NameLost /\ ~Named THEN "stdout" ELSE desc

ConfigIInv ==
    /\ file \in Files /\ args \in CmdLines /\ DOMAIN conf = Keys
    /\ pc \in {"file", "cmdline", "started", "crashed", "help", "refused"}
    /\ pc = "file" => InFile
    /\ pc # "file" => at \in 1..Len(args) + 1
    /\ pc \in {"cmdline", "started", "crashed"} => InCmdLine
    /\ pc \in {"started", "crashed"} =>
         at = Len(args) + 1 /\ (pc = "crashed" <=> desc = "NULL")
=============================================================================
