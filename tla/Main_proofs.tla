----------------------------- MODULE Main_proofs -----------------------------
(***************************************************************************)
(* Proofs about main() of srv_async.                                       *)
(*                                                                         *)
(* Config, for every srv.config, every command line and whatever fopen()   *)
(* refuses: a server that starts runs with what was said last, and the one *)
(* way to crash is a log file that srv.config names.                       *)
(*                                                                         *)
(* Master, for any number of workers and wherever SIGINT comes: the master *)
(* leaves no worker behind.                                                *)
(***************************************************************************)
EXTENDS Master, Config, TLAPS

-----------------------------------------------------------------------------
(***************************************************************************)
(* Config: the last value of a key among the first entries of a sequence.  *)
(***************************************************************************)

\* With no entry it is what was there before.
LEMMA LastOfNone ==
    ASSUME NEW seq, NEW entries, NEW key, NEW else, \A j \in entries : seq[j].key # key
    PROVE  LastOf(seq, entries, key, else) = else
  BY DEF LastOf

\* One more entry replaces it exactly if it names the key.
LEMMA LastOfStep ==
    ASSUME NEW seq, NEW m \in Nat \ {0}, NEW key, NEW else
    PROVE  LastOf(seq, 1..m, key, else) =
             IF seq[m].key = key THEN seq[m].val ELSE LastOf(seq, 1..m - 1, key, else)
<1>1. CASE seq[m].key = key
  <2> DEFINE js == {j \in 1..m : seq[j].key = key}
  <2>1. m \in js /\ \A k \in js : k <= m
    BY <1>1
  <2>2. \A j \in js : (\A k \in js : k <= j) => j = m
    BY <2>1
  <2>3. (CHOOSE j \in js : \A k \in js : k <= j) = m
    BY <2>1, <2>2
  <2>4. LastOf(seq, 1..m, key, else) = seq[CHOOSE j \in js : \A k \in js : k <= j].val
    BY <2>1 DEF LastOf
  <2> QED BY <1>1, <2>3, <2>4
<1>2. CASE seq[m].key # key
  <2>1. 1..m = 1..m - 1 \cup {m}
    OBVIOUS
  <2> DEFINE naming(k) == {j \in 1..k : seq[j].key = key}
             last(js) == IF js = {} THEN else ELSE seq[CHOOSE j \in js : \A k \in js : k <= j].val
  <2>2. naming(m) = naming(m - 1)
    BY <1>2, <2>1
  <2>3. /\ LastOf(seq, 1..m, key, else) = last(naming(m))
        /\ LastOf(seq, 1..m - 1, key, else) = last(naming(m - 1))
    BY Zenon DEF LastOf
  <2> HIDE DEF naming, last
  <2>4. LastOf(seq, 1..m, key, else) = LastOf(seq, 1..m - 1, key, else)
    BY <2>2, <2>3
  <2> QED BY <1>2, <2>4
<1> QED
  BY <1>1, <1>2

\* What a line of srv.config is.
LEMMA LineFacts ==
    ASSUME file \in Files, NEW k \in 1..Len(file)
    PROVE  /\ file[k] \in Settings \cup [key : {"other"}]
           /\ Len(file) \in Nat /\ DOMAIN file = 1..Len(file)
  BY ConfigInputs

\* What an option is.
LEMMA OptionFacts ==
    ASSUME args \in CmdLines, NEW k \in 1..Len(args)
    PROVE  args[k] \in Settings \cup [key : {"help", "unknown"}]
  BY ConfigInputs

\* The lines and the options are sequences.
LEMMA FileLength == file \in Files => Len(file) \in Nat /\ DOMAIN file = 1..Len(file)
<1> SUFFICES ASSUME file \in Files PROVE Len(file) \in Nat /\ DOMAIN file = 1..Len(file)
  OBVIOUS
<1>1. \E S : file \in Seq(S)
  BY ConfigInputs
<1> QED
  BY <1>1

LEMMA Lengths ==
    ASSUME file \in Files, args \in CmdLines
    PROVE  /\ Len(file) \in Nat /\ DOMAIN file = 1..Len(file)
           /\ Len(args) \in Nat /\ DOMAIN args = 1..Len(args)
<1>1. \E S : args \in Seq(S)
  BY ConfigInputs
<1> QED
  BY <1>1, FileLength

\* A setting has a number or the name of a file.
LEMMA SettingFacts ==
    ASSUME NEW s \in Settings \cup [key : {"other"}] \cup [key : {"help", "unknown"}],
           s.key \in Keys
    PROVE  /\ s \in Settings
           /\ s.key = "log_file" => s.val # "NULL"
           /\ s.key # "log_file" => s.key \in Numbers
  BY DEF Settings, Keys, Numbers

\* What a setting changes.
LEMMA TakesFacts ==
    ASSUME NEW s \in Settings, DOMAIN conf = Keys, Takes(s)
    PROVE  /\ DOMAIN conf' = Keys
           /\ \A key \in Numbers :
                conf'[key] = IF s.key = key /\ ~Refused(s) THEN s.val ELSE conf[key]
           /\ s.key = "log_file" =>
                IF s.val \in Unallocatable THEN conf'.log_file = "stdout" /\ desc' = desc
                ELSE /\ conf'.log_file = s.val
                     /\ desc' = IF Refused(s) THEN "NULL" ELSE s.val
           /\ s.key # "log_file" => conf'.log_file = conf.log_file /\ desc' = desc
<1>1. s.key \in Keys /\ (s.key # "log_file" => s.key \in Numbers)
  BY DEF Settings, Keys, Numbers
<1>2. CASE s.key = "log_file"
  <2>1. CASE s.val \in Unallocatable
    <3>1. conf' = [conf EXCEPT !.log_file = "stdout"] /\ desc' = desc
      BY <1>2, <2>1 DEF Takes, TakesLogFile
    <3> QED BY <1>2, <2>1, <3>1 DEF Keys, Numbers
  <2>2. CASE s.val \notin Unallocatable
    <3>1. /\ conf' = [conf EXCEPT !.log_file = s.val]
          /\ desc' = IF Refused(s) THEN "NULL" ELSE s.val
      BY <1>2, <2>2 DEF Takes, TakesLogFile, Refused
    <3> QED BY <1>2, <2>2, <3>1 DEF Keys, Numbers
  <2> QED BY <2>1, <2>2
<1>3. CASE s.key # "log_file" /\ Refused(s)
  BY <1>3 DEF Takes
<1>4. CASE s.key # "log_file" /\ ~Refused(s)
  <2>1. conf' = [conf EXCEPT ![s.key] = s.val] /\ desc' = desc
    BY <1>4 DEF Takes
  <2> QED BY <1>1, <1>4, <2>1 DEF Keys, Numbers
<1> QED
  BY <1>2, <1>3, <1>4

-----------------------------------------------------------------------------
(***************************************************************************)
(* Config: every step keeps the inductive invariant.                       *)
(***************************************************************************)

LEMMA InitConfigIInv == ConfigInit => ConfigIInv
<1> SUFFICES ASSUME ConfigInit PROVE ConfigIInv
  OBVIOUS
<1>1. file \in Files /\ args \in CmdLines /\ at = 1 /\ pc = "file" /\ conf = Default
      /\ desc = "stdout"
  BY DEF ConfigInit
<1>2. DOMAIN conf = Keys /\ LogAsNamed
  BY <1>1 DEF Default, Keys, Numbers, LogAsNamed
<1>3. \A key \in Keys : conf[key] = LastOf(file, 1..at - 1, key, Default[key])
  BY <1>1, LastOfNone
<1>4. InFile
  BY <1>1, <1>2, <1>3, Lengths DEF InFile
<1> QED
  BY <1>1, <1>2, <1>4 DEF ConfigIInv

\* What srv.config says is settled where its reading ends.
LEMMA ReadFacts ==
    ASSUME file \in Files, NEW m \in 0..Len(file), 1..m \subseteq Read,
           m < Len(file) => m + 1 \notin Read
    PROVE  Read = 1..m
<1>1. Len(file) \in Nat /\ DOMAIN file = 1..Len(file)
  BY FileLength
<1>2. ASSUME NEW k \in Read PROVE k \in 1..m
  <2>1. k \in 1..Len(file) /\ \A j \in 1..k : file[j].key \in Keys => ~Refused(file[j])
    BY <1>1 DEF Read
  <2>2. CASE k > m
    <3>1. m + 1 \in 1..k /\ m + 1 \in 1..Len(file) /\ m < Len(file)
      BY <1>1, <2>1, <2>2
    <3>2. \A j \in 1..m + 1 : j \in 1..k
      BY <2>1, <3>1
    <3>3. m + 1 \in Read
      BY <1>1, <2>1, <3>1, <3>2 DEF Read
    <3> QED BY <3>1, <3>3
  <2> QED BY <2>1, <2>2
<1> QED
  BY <1>2

\* A line that is not refused is read.
LEMMA ReadStep ==
    ASSUME file \in Files, NEW m \in 1..Len(file), 1..m - 1 \subseteq Read
    PROVE  m \in Read <=> (file[m].key \in Keys => ~Refused(file[m]))
<1>1. Len(file) \in Nat /\ DOMAIN file = 1..Len(file)
  BY FileLength
<1>2. \A j \in 1..m - 1 : file[j].key \in Keys => ~Refused(file[j])
  <2> SUFFICES ASSUME NEW j \in 1..m - 1 PROVE file[j].key \in Keys => ~Refused(file[j])
    OBVIOUS
  <2>1. j \in Read /\ j \in 1..j
    OBVIOUS
  <2> QED BY <2>1 DEF Read
<1>3. 1..m = 1..m - 1 \cup {m} /\ m \in DOMAIN file
  BY <1>1
<1> QED
  BY <1>2, <1>3 DEF Read

\* What the properties say of the input does not change.
LEMMA SameInput ==
    ASSUME UNCHANGED <<file, args>>
    PROVE  /\ Read' = Read /\ LogFileBroken' = LogFileBroken /\ NameLost' = NameLost
           /\ \A key : FromFile(key)' = FromFile(key)
           /\ \A s : Refused(s)' = Refused(s)
  BY DEF Read, LogFileBroken, NameLost, BrokenBy, FromFile, Refused, LastOf

\* The file is broken by a log file if the line that ends the reading names it.
LEMMA BrokenFacts ==
    ASSUME file \in Files, NEW m \in 0..Len(file), Read = 1..m, NEW names
    PROVE  BrokenBy(names) <=> /\ m < Len(file) /\ file[m + 1].key = "log_file"
                               /\ file[m + 1].val \in names
<1>1. Len(file) \in Nat /\ DOMAIN file = 1..Len(file)
  BY FileLength
<1>2. ASSUME m < Len(file), file[m + 1].key = "log_file", file[m + 1].val \in names
      PROVE  BrokenBy(names)
  BY <1>1, <1>2 DEF BrokenBy
<1>3. ASSUME BrokenBy(names)
      PROVE  m < Len(file) /\ file[m + 1].key = "log_file" /\ file[m + 1].val \in names
  <2>1. PICK k \in DOMAIN file :
          /\ k \notin Read /\ file[k].key = "log_file" /\ file[k].val \in names
          /\ \A j \in 1..k - 1 : j \in Read
    BY <1>3 DEF BrokenBy
  <2>2. k > m
    BY <1>1, <2>1
  <2>3. k = m + 1
    <3>1. CASE k > m + 1
      <4>1. m + 1 \in 1..k - 1
        BY <1>1, <2>1, <3>1
      <4> QED BY <2>1, <4>1
    <3> QED BY <1>1, <2>1, <2>2, <3>1
  <2> QED BY <1>1, <2>1, <2>3
<1> QED
  BY <1>2, <1>3

\* The command line begins with what srv.config left.
LEMMA CmdLineBegins ==
    ASSUME file \in Files, NEW m \in 0..Len(file), Read = 1..m,
           UNCHANGED <<file, args>>, at' = 1,
           \A key \in Numbers : conf'[key] = LastOf(file, 1..m, key, Default[key]),
           IF LogFileBroken THEN desc' = "NULL"
           ELSE /\ desc' = LastOf(file, 1..m, "log_file", Default["log_file"])
                /\ desc' # "NULL"
                /\ conf'.log_file = IF NameLost THEN "stdout" ELSE desc'
    PROVE  InCmdLine'
<1>1. \A key, else : LastOf(args, 1..0, key, else) = else
  BY LastOfNone
<1>2. at' - 1 = 0 /\ ~Named'
  BY DEF Named
<1>3. \A key \in Keys : FromFile(key) = LastOf(file, 1..m, key, Default[key])
  BY DEF FromFile
<1>4. \A key \in Keys : LastOf(args, 1..at - 1, key, FromFile(key))' = FromFile(key)
  BY <1>1, <1>2, SameInput
<1>5. Numbers \subseteq Keys /\ "log_file" \in Keys
  BY DEF Keys
<1>6. \A key \in Numbers : conf'[key] = LastOf(args, 1..at - 1, key, FromFile(key))'
  BY <1>3, <1>4, <1>5
<1>7. LogFileBroken' = LogFileBroken /\ NameLost' = NameLost
  BY SameInput
<1>8. CASE LogFileBroken
  <2>1. desc' = "NULL"
    BY <1>8
  <2> QED BY <1>2, <1>6, <1>7, <1>8, <2>1 DEF InCmdLine
<1>9. CASE ~LogFileBroken
  <2>1. desc' = Log' /\ desc' # "NULL" /\ conf'.log_file = IF NameLost THEN "stdout" ELSE desc'
    BY <1>3, <1>4, <1>5, <1>9 DEF Log
  <2> QED BY <1>2, <1>6, <1>7, <1>9, <2>1 DEF InCmdLine
<1> QED
  BY <1>8, <1>9

\* The lines of srv.config.
LEMMA LineKeeps == ConfigIInv /\ ConfigLine => ConfigIInv'
<1> SUFFICES ASSUME ConfigIInv, ConfigLine PROVE ConfigIInv'
  OBVIOUS
<1>1. /\ file \in Files /\ args \in CmdLines /\ DOMAIN conf = Keys /\ pc = "file"
      /\ UNCHANGED <<file, args>> /\ at <= Len(file) /\ InFile
  BY DEF ConfigIInv, ConfigLine
<1>2. Len(file) \in Nat /\ at \in 1..Len(file) /\ 1..at - 1 \subseteq Read /\ Len(args) \in Nat
  BY <1>1, Lengths DEF InFile
<1>3. /\ \A key \in Keys : conf[key] = LastOf(file, 1..at - 1, key, Default[key])
      /\ LogAsNamed
  BY <1>1 DEF InFile
<1>4. \A key : LastOf(file, 1..at, key, Default[key]) =
                 IF file[at].key = key THEN file[at].val
                 ELSE LastOf(file, 1..at - 1, key, Default[key])
  BY <1>2, LastOfStep
<1>5. file[at] \in Settings \cup [key : {"other"}]
  BY <1>1, <1>2, LineFacts
<1>6. at \in Read <=> (file[at].key \in Keys => ~Refused(file[at]))
  BY <1>1, <1>2, ReadStep
<1>7. ASSUME at' = at + 1, pc' = "file", DOMAIN conf' = Keys, at \in Read, LogAsNamed',
             \A key \in Keys : conf'[key] = LastOf(file, 1..at, key, Default[key])
      PROVE  ConfigIInv'
  <2>1. at' - 1 = at /\ at' \in 1..Len(file)' + 1 /\ 1..at = 1..at - 1 \cup {at}
    BY <1>1, <1>2, <1>7
  <2>2. (1..at - 1)' \subseteq Read'
    BY <1>1, <1>2, <1>7, <2>1, SameInput
  <2>3. \A key \in Keys : conf'[key] = LastOf(file, 1..at - 1, key, Default[key])'
    BY <1>1, <1>7, <2>1
  <2>4. InFile'
    BY <1>7, <2>1, <2>2, <2>3 DEF InFile
  <2> QED BY <1>1, <1>7, <2>4 DEF ConfigIInv
<1>8. CASE file[at].key \notin Keys
  <2>1. at' = at + 1 /\ pc' = "file" /\ conf' = conf /\ desc' = desc
    BY <1>1, <1>8 DEF ConfigLine
  <2>2. \A key \in Keys : conf'[key] = LastOf(file, 1..at, key, Default[key])
    BY <1>3, <1>4, <1>8, <2>1
  <2> QED BY <1>1, <1>3, <1>6, <1>7, <1>8, <2>1, <2>2 DEF LogAsNamed
<1>9. CASE file[at].key \in Keys
  <2>1. file[at] \in Settings /\ Takes(file[at])
    BY <1>1, <1>5, <1>9, SettingFacts DEF ConfigLine
  <2>2. /\ DOMAIN conf' = Keys
        /\ \A key \in Numbers : conf'[key] = IF file[at].key = key /\ ~Refused(file[at])
                                             THEN file[at].val ELSE conf[key]
        /\ file[at].key = "log_file" =>
             IF file[at].val \in Unallocatable THEN conf'.log_file = "stdout" /\ desc' = desc
             ELSE /\ conf'.log_file = file[at].val /\ file[at].val # "NULL"
                  /\ desc' = IF Refused(file[at]) THEN "NULL" ELSE file[at].val
        /\ file[at].key # "log_file" => conf'.log_file = conf.log_file /\ desc' = desc
    BY <1>1, <1>5, <1>9, <2>1, TakesFacts, SettingFacts
  <2>3. CASE ~Refused(file[at])
    <3>1. at' = at + 1 /\ pc' = "file"
      BY <1>1, <1>9, <2>3 DEF ConfigLine
    <3>2. \A key \in Numbers : conf'[key] = LastOf(file, 1..at, key, Default[key])
      BY <1>3, <1>4, <2>2, <2>3 DEF Keys
    <3>3. file[at].key = "log_file" => file[at].val \notin Unallocatable
      BY <2>3 DEF Refused
    <3>4. conf'["log_file"] = LastOf(file, 1..at, "log_file", Default["log_file"])
      BY <1>3, <1>4, <2>2, <2>3, <3>3 DEF Keys
    <3>5. LogAsNamed'
      BY <1>3, <2>2, <2>3, <3>3 DEF LogAsNamed
    <3>6. \A key \in Keys : conf'[key] = LastOf(file, 1..at, key, Default[key])
      BY <3>2, <3>4 DEF Keys
    <3> QED BY <1>6, <1>7, <2>2, <2>3, <3>1, <3>5, <3>6
  <2>4. CASE Refused(file[at])
    <3>1. at' = 1 /\ pc' = "cmdline"
      BY <1>1, <1>9, <2>4 DEF ConfigLine
    <3>2. at \notin Read /\ at - 1 \in 0..Len(file) /\ at - 1 + 1 = at
      BY <1>2, <1>6, <1>9, <2>4
    <3>3. Read = 1..at - 1
      BY <1>1, <1>2, <3>2, ReadFacts
    <3>4. \A names : BrokenBy(names) <=> file[at].key = "log_file" /\ file[at].val \in names
      BY <1>1, <1>2, <3>2, <3>3, BrokenFacts
    <3>5. /\ LogFileBroken <=> file[at].key = "log_file" /\ file[at].val \notin Unallocatable
          /\ NameLost <=> file[at].key = "log_file" /\ file[at].val \in Unallocatable
      BY <2>4, <3>4 DEF LogFileBroken, NameLost, Refused
    <3>6. \A key \in Numbers : conf'[key] = LastOf(file, 1..at - 1, key, Default[key])
      BY <1>3, <2>2, <2>4 DEF Keys
    <3>7. IF LogFileBroken THEN desc' = "NULL"
          ELSE /\ desc' = LastOf(file, 1..at - 1, "log_file", Default["log_file"])
               /\ desc' # "NULL"
               /\ conf'.log_file = IF NameLost THEN "stdout" ELSE desc'
      BY <1>3, <2>2, <2>4, <3>5 DEF Keys, LogAsNamed
    <3>8. InCmdLine'
      BY <1>1, <3>1, <3>2, <3>3, <3>6, <3>7, CmdLineBegins
    <3> QED BY <1>1, <1>2, <2>2, <3>1, <3>8 DEF ConfigIInv
  <2> QED BY <2>3, <2>4
<1> QED
  BY <1>8, <1>9

\* The end of srv.config.
LEMMA EndKeeps == ConfigIInv /\ ConfigEnds => ConfigIInv'
<1> SUFFICES ASSUME ConfigIInv, ConfigEnds PROVE ConfigIInv'
  OBVIOUS
<1>1. /\ file \in Files /\ args \in CmdLines /\ DOMAIN conf = Keys
      /\ UNCHANGED <<file, args, conf, desc>> /\ at > Len(file) /\ InFile
      /\ at' = 1 /\ pc' = "cmdline"
  BY DEF ConfigIInv, ConfigEnds
<1>2. Len(file) \in Nat /\ Len(args) \in Nat /\ at - 1 = Len(file)
  BY <1>1, Lengths DEF InFile
<1>3. /\ 1..Len(file) \subseteq Read /\ LogAsNamed
      /\ \A key \in Keys : conf[key] = LastOf(file, 1..Len(file), key, Default[key])
  BY <1>1, <1>2 DEF InFile
<1>4. Len(file) \in 0..Len(file) /\ Read = 1..Len(file)
  BY <1>1, <1>2, <1>3, ReadFacts
<1>5. ~LogFileBroken /\ ~NameLost
  <2>1. \A names : ~BrokenBy(names)
    BY <1>1, <1>2, <1>4, BrokenFacts
  <2> QED BY <2>1 DEF LogFileBroken, NameLost
<1>6. \A key \in Numbers : conf'[key] = LastOf(file, 1..Len(file), key, Default[key])
  BY <1>1, <1>3 DEF Keys
<1>7. /\ desc' = LastOf(file, 1..Len(file), "log_file", Default["log_file"])
      /\ desc' # "NULL" /\ conf'.log_file = desc'
  BY <1>1, <1>3 DEF Keys, LogAsNamed
<1>8. InCmdLine'
  BY <1>1, <1>4, <1>5, <1>6, <1>7, CmdLineBegins
<1> QED
  BY <1>1, <1>2, <1>8 DEF ConfigIInv

\* The options.
LEMMA OptionKeeps == ConfigIInv /\ CmdlineOpt => ConfigIInv'
<1> SUFFICES ASSUME ConfigIInv, CmdlineOpt PROVE ConfigIInv'
  OBVIOUS
<1>1. /\ file \in Files /\ args \in CmdLines /\ DOMAIN conf = Keys /\ pc = "cmdline"
      /\ UNCHANGED <<file, args>> /\ at <= Len(args) /\ at \in 1..Len(args) + 1 /\ InCmdLine
  BY DEF ConfigIInv, CmdlineOpt
<1>2. Len(args) \in Nat /\ at \in 1..Len(args)
  BY <1>1, Lengths
<1>3. args[at] \in Settings \cup [key : {"help", "unknown"}]
  BY <1>1, <1>2, OptionFacts
<1>4. args[at].key \in Keys => Takes(args[at]) /\ args[at] \in Settings
  BY <1>3, SettingFacts DEF CmdlineOpt
<1>5. DOMAIN conf' = Keys
  <2>1. CASE args[at].key \in Keys
    BY <1>1, <1>4, <2>1, TakesFacts
  <2>2. CASE args[at].key \notin Keys
    BY <1>1, <2>2 DEF CmdlineOpt
  <2> QED BY <2>1, <2>2
<1>6. CASE args[at].key = "unknown" \/ (args[at].key \in Keys /\ Refused(args[at]))
  <2>1. pc' = "refused" /\ at' = at
    BY <1>6 DEF CmdlineOpt
  <2> QED BY <1>1, <1>2, <1>5, <2>1 DEF ConfigIInv
<1>7. CASE args[at].key # "unknown" /\ (args[at].key \in Keys => ~Refused(args[at]))
  <2>1. pc' = "cmdline" /\ at' = at + 1 /\ at' - 1 = at /\ at' \in 1..Len(args) + 1
    BY <1>1, <1>2, <1>7 DEF CmdlineOpt
  <2>2. \A key, else : LastOf(args, 1..at, key, else) =
                         IF args[at].key = key THEN args[at].val
                         ELSE LastOf(args, 1..at - 1, key, else)
    BY <1>2, LastOfStep
  <2>3. \A key : LastOf(args, 1..at - 1, key, FromFile(key))'
                    = LastOf(args, 1..at, key, FromFile(key))
    BY <1>1, <2>1, SameInput
  <2>4. Named' <=> Named \/ args[at].key = "log_file"
    <3>1. 1..at = 1..at - 1 \cup {at}
      BY <1>2
    <3>2. Named' <=> \E j \in 1..at : args[j].key = "log_file"
      BY <1>1, <2>1 DEF Named
    <3> QED BY <3>1, <3>2 DEF Named
  <2>5. LogFileBroken' = LogFileBroken /\ NameLost' = NameLost
    BY <1>1, SameInput
  <2>6. InCmdLine'
    <3>1. CASE args[at].key \notin Keys
      <4>1. conf' = conf /\ desc' = desc
        BY <3>1 DEF CmdlineOpt
      <4>2. \A key \in Keys : LastOf(args, 1..at - 1, key, FromFile(key))'
                                = LastOf(args, 1..at - 1, key, FromFile(key))
        BY <2>2, <2>3, <3>1
      <4>3. \A key \in Numbers : conf'[key] = LastOf(args, 1..at - 1, key, FromFile(key))'
        BY <1>1, <4>1, <4>2 DEF InCmdLine, Keys
      <4>4. Named' <=> Named
        BY <2>4, <3>1 DEF Keys
      <4>5. Log' = Log
        BY <4>2 DEF Keys, Log
      <4> QED BY <1>1, <2>5, <4>1, <4>3, <4>4, <4>5 DEF InCmdLine
    <3>2. CASE args[at].key \in Keys
      <4>1. /\ \A key \in Numbers :
                 conf'[key] = IF args[at].key = key THEN args[at].val ELSE conf[key]
            /\ args[at].key = "log_file" => /\ conf'.log_file = args[at].val
                                            /\ desc' = args[at].val /\ args[at].val # "NULL"
            /\ args[at].key # "log_file" => conf'.log_file = conf.log_file /\ desc' = desc
        BY <1>1, <1>3, <1>4, <1>7, <3>2, TakesFacts, SettingFacts DEF Refused
      <4>2. \A key \in Numbers : conf'[key] = LastOf(args, 1..at - 1, key, FromFile(key))'
        BY <1>1, <2>2, <2>3, <4>1 DEF InCmdLine
      <4>3. CASE args[at].key = "log_file"
        <5>1. Named' /\ desc' # "NULL" /\ conf'.log_file = desc'
          BY <2>4, <4>1, <4>3
        <5>2. desc' = Log'
          BY <2>2, <2>3, <4>1, <4>3 DEF Log
        <5> QED BY <4>2, <5>1, <5>2 DEF InCmdLine
      <4>4. CASE args[at].key # "log_file"
        <5>1. /\ Named' <=> Named
              /\ conf'.log_file = conf.log_file /\ desc' = desc
          BY <2>4, <4>1, <4>4
        <5>2. Log' = Log
          BY <2>2, <2>3, <4>4 DEF Log
        <5> QED BY <1>1, <2>5, <4>2, <5>1, <5>2 DEF InCmdLine
      <4> QED BY <4>3, <4>4
    <3> QED BY <3>1, <3>2
  <2> QED BY <1>1, <1>5, <2>1, <2>6 DEF ConfigIInv
<1> QED
  BY <1>6, <1>7

\* The settings are the same where the input, the position and conf are.
LEMMA SameSettings ==
    ASSUME UNCHANGED <<file, args, at, conf, desc>>
    PROVE  (InFile' <=> InFile) /\ (InCmdLine' <=> InCmdLine)
  BY DEF InFile, InCmdLine, Named, Log, LogAsNamed, FromFile, LogFileBroken, NameLost, BrokenBy,
         Read, LastOf, Refused

\* Every step.
LEMMA NextConfigIInv == ConfigIInv /\ [ConfigNext]_configVars => ConfigIInv'
<1> SUFFICES ASSUME ConfigIInv, [ConfigNext]_configVars PROVE ConfigIInv'
  OBVIOUS
<1>1. CASE Starts
  <2>1. /\ pc = "cmdline" /\ at \in 1..Len(args) + 1 /\ at > Len(args) /\ InCmdLine
        /\ file \in Files /\ args \in CmdLines /\ DOMAIN conf = Keys
        /\ UNCHANGED <<file, args, at, conf, desc>>
        /\ pc' \in {"help", "crashed", "started"} /\ (pc' = "crashed" => desc = "NULL")
        /\ (pc' = "started" => desc # "NULL")
    BY <1>1 DEF ConfigIInv, Starts
  <2>2. at = Len(args) + 1
    BY <2>1, Lengths
  <2>3. InCmdLine'
    BY <2>1, SameSettings
  <2> QED BY <2>1, <2>2, <2>3 DEF ConfigIInv
<1>2. CASE UNCHANGED configVars
  <2>1. UNCHANGED <<file, args, at, pc, conf, desc>>
    BY <1>2 DEF configVars
  <2>2. (InFile' <=> InFile) /\ (InCmdLine' <=> InCmdLine)
    BY <2>1, SameSettings
  <2> QED BY <2>1, <2>2 DEF ConfigIInv
<1> QED
  BY <1>1, <1>2, LineKeeps, EndKeeps, OptionKeeps DEF ConfigNext

\* The settings before every line and every option are those of the lines and
\* the options read so far.
THEOREM ConfigInvariance == ConfigSpec => []ConfigIInv
<1>1. ConfigInit => ConfigIInv
  BY InitConfigIInv
<1>2. ConfigIInv /\ [ConfigNext]_configVars => ConfigIInv'
  BY NextConfigIInv
<1> QED
  BY <1>1, <1>2, PTL DEF ConfigSpec

\* A server that starts runs with the last word on every key, writes its log to
\* that file, and reports it as its log unless memory for its name ran out.
THEOREM LastWord == ConfigSpec => []LastWordCounts
<1>1. ConfigIInv => LastWordCounts
  <2> SUFFICES ASSUME ConfigIInv, pc = "started" PROVE
        /\ \A key \in Numbers : conf[key] = LastOf(args, DOMAIN args, key, FromFile(key))
        /\ desc = LastOf(args, DOMAIN args, "log_file", FromFile("log_file"))
        /\ conf.log_file = IF NameLost /\ NoLogInArgs THEN "stdout" ELSE desc
    BY DEF LastWordCounts
  <2>1. at = Len(args) + 1 /\ desc # "NULL" /\ InCmdLine
    BY DEF ConfigIInv
  <2>2. DOMAIN args = 1..at - 1
    BY <2>1, Lengths DEF ConfigIInv
  <2>3. desc = Log /\ conf.log_file = IF NameLost /\ ~Named THEN "stdout" ELSE desc
    BY <2>1 DEF InCmdLine
  <2>5. NoLogInArgs <=> ~Named
    BY <2>2 DEF NoLogInArgs, Named
  <2>4. \A key \in Numbers : conf[key] = LastOf(args, 1..at - 1, key, FromFile(key))
    BY <2>1 DEF InCmdLine
  <2> QED BY <2>2, <2>3, <2>4, <2>5 DEF Log
<1> QED
  BY <1>1, ConfigInvariance, PTL

\* The start ends in print_srv_config() exactly when srv.config ends at a log
\* file that cannot be opened and the command line names no other.
THEOREM CrashExplained == ConfigSpec => []CrashesOnLogFileOnly
<1>1. ConfigIInv => CrashesOnLogFileOnly
  <2> SUFFICES ASSUME ConfigIInv, pc \in {"started", "crashed"} PROVE
        pc = "crashed" <=> NoLogInArgs /\ LogFileBroken
    BY DEF CrashesOnLogFileOnly
  <2>1. at = Len(args) + 1 /\ (pc = "crashed" <=> desc = "NULL") /\ InCmdLine
    BY DEF ConfigIInv
  <2>2. DOMAIN args = 1..at - 1
    BY <2>1, Lengths DEF ConfigIInv
  <2>3. NoLogInArgs <=> ~Named
    BY <2>2 DEF NoLogInArgs, Named
  <2>4. desc = "NULL" <=> LogFileBroken /\ ~Named
    BY <2>1 DEF InCmdLine
  <2> QED BY <2>1, <2>3, <2>4
<1> QED
  BY <1>1, ConfigInvariance, PTL

-----------------------------------------------------------------------------
(***************************************************************************)
(* Master.                                                                 *)
(***************************************************************************)

\* There are no workers before the fork loop.
NotStarted == main \in {"start", "socket"} => i = 0

\* The inductive invariant.
IInv == MasterTypeOK /\ NoOrphans /\ NotStarted

\* Nothing is forked at the start.
LEMMA InitIInv == Init => IInv
<1> SUFFICES ASSUME Init PROVE IInv
  OBVIOUS
<1>1. handler \in BOOLEAN /\ pending \in BOOLEAN
  BY Zenon DEF Init
<1>2. MasterTypeOK
  BY <1>1, MasterBounds DEF Init, MasterTypeOK, States
<1>3. NoOrphans /\ NotStarted
  BY DEF Init, NoOrphans, NotStarted
<1> QED
  BY <1>2, <1>3 DEF IInv

\* The type invariant and the bound on the workers.
LEMMA NextTypeOK == IInv /\ [Next]_vars => MasterTypeOK'
<1> SUFFICES ASSUME IInv, [Next]_vars PROVE MasterTypeOK'
  OBVIOUS
<1> USE MasterBounds DEF IInv, MasterTypeOK, States
<1>1. CASE InstallHandler \/ CreateSocket \/ ForkDone \/ MainEnds \/ HandlerEnds
  BY <1>1 DEF InstallHandler, CreateSocket, ForkDone, MainEnds, HandlerEnds
<1>2. CASE Fork
  <2>1. i \in Nat /\ i < NumWorkers /\ i' = i + 1 /\ i + 1 \in Worker
    BY <1>2 DEF Fork, Worker
  <2>2. /\ state' \in [Worker -> {"none", "early", "serving", "zombie", "reaped"}]
        /\ wlog' \in [Worker -> {"file", "stdout"}]
    BY <1>2, <2>1 DEF Fork
  <2>3. \A w \in Worker : w > i' => state'[w] = "none"
    BY <1>2, <2>1 DEF Fork, Worker
  <2> QED BY <1>2, <2>1, <2>2, <2>3 DEF Fork
<1>3. CASE \E w \in Worker : MainReaps(w) \/ HandlerReaps(w)
  BY <1>3 DEF MainReaps, HandlerReaps, WaitReturns
<1>4. CASE \E w \in Worker : WorkerStep(w)
  BY <1>4 DEF WorkerStep, WorkerReady, WorkerFails, Alive
<1>5. CASE Sigint
  <2>1. /\ ints' \in 0..MaxInts /\ i' = i /\ log' = log
        /\ main' \in {"start", "socket", "fork", "wait", "done"}
    <3>1. ints < MaxInts /\ ints' = ints + 1 /\ i' = i /\ log' = log
      BY <1>5, Zenon DEF Sigint
    <3>2. main' = main \/ main' = "done"
      BY <1>5, Zenon DEF Sigint, SigintMaster
    <3> QED BY <3>1, <3>2
  <2>2. handler' \in BOOLEAN /\ pending' \in BOOLEAN
    BY <1>5, Zenon DEF Sigint, SigintMaster
  <2>3. /\ state' \in [Worker -> {"none", "early", "serving", "zombie", "reaped"}]
        /\ wlog' \in [Worker -> {"file", "stdout"}]
        /\ \A w \in Worker : state[w] = "none" => state'[w] = "none"
    BY <1>5 DEF Sigint, SigintWorkers
  <2> QED BY <2>1, <2>3, <2>2
<1>6. CASE UNCHANGED vars
  BY <1>6 DEF vars
<1> QED
  BY <1>1, <1>2, <1>3, <1>4, <1>5, <1>6 DEF Next, MasterStep, Gone

\* The two other parts.
LEMMA NextIInv == IInv /\ [Next]_vars => IInv'
<1> SUFFICES ASSUME IInv, [Next]_vars PROVE IInv'
  OBVIOUS
<1>1. MasterTypeOK'
  BY NextTypeOK
<1>2. /\ main = "done" => \A w \in Worker : state[w] \in {"none", "reaped"}
      /\ main \in {"start", "socket"} => \A w \in Worker : state[w] = "none"
  BY MasterBounds DEF IInv, MasterTypeOK, States, Alive, NoOrphans, NotStarted, Worker
<1>3. NoOrphans' /\ NotStarted'
  <2> USE <1>2 DEF NoOrphans, Alive, NotStarted, IInv
  <2>1. CASE InstallHandler \/ CreateSocket \/ ForkDone
    BY <2>1 DEF InstallHandler, CreateSocket, ForkDone, InMain
  <2>2. CASE Fork
    BY <2>2 DEF Fork, InMain
  <2>3. CASE MainEnds
    BY <2>3 DEF MainEnds, InMain, WaitEnds
  <2>4. CASE HandlerEnds
    BY <2>4 DEF HandlerEnds
  <2>5. CASE \E w \in Worker : MainReaps(w) \/ HandlerReaps(w)
    BY <2>5 DEF MainReaps, HandlerReaps, WaitReturns, InMain
  <2>6. CASE \E w \in Worker : WorkerStep(w)
    BY <2>6 DEF WorkerStep, WorkerReady, WorkerFails
  <2>7. CASE Sigint
    <3>1. /\ i' = i /\ (main' = main \/ (main = "start" /\ main' = "done"))
          /\ main # "done"
          /\ \A w \in Worker : state[w] = "none" => state'[w] = "none"
      BY <2>7 DEF Sigint, SigintMaster, SigintWorkers
    <3> QED BY <3>1
  <2>8. CASE UNCHANGED vars
    BY <2>8 DEF vars
  <2> QED
    BY <2>1, <2>2, <2>3, <2>4, <2>5, <2>6, <2>7, <2>8 DEF Next, MasterStep, Gone
<1> QED
  BY <1>1, <1>3 DEF IInv

\* main() of the master returns only when every worker it forked has ended and
\* was waited for, whatever SIGINT interrupts.
THEOREM MasterWaits == Spec => []NoOrphans
<1>1. IInv => NoOrphans
  BY DEF IInv
<1> QED
  BY <1>1, InitIInv, NextIInv, PTL DEF Spec

\* Every variable keeps its type, and no worker is numbered above those that
\* the fork loop has started, whatever SIGINT interrupts.
THEOREM MasterTypes == Spec => []MasterTypeOK
<1>1. IInv => MasterTypeOK
  BY DEF IInv
<1> QED
  BY <1>1, InitIInv, NextIInv, PTL DEF Spec
==============================================================================
