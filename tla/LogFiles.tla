------------------------------ MODULE LogFiles ------------------------------
(***************************************************************************)
(* BaseLog: one log, its current file, and the files it is renamed to when *)
(* it is full or the day is over; processes that are started one after the *)
(* other write the same log.                                               *)
(*                                                                         *)
(* A line is called by its number.  The directories exist and the files    *)
(* can be opened (a rename that fails is followed by truncation all the    *)
(* same).  The day is read once in an operation, where the code reads it   *)
(* up to four times.                                                       *)
(***************************************************************************)
EXTENDS Integers, FiniteSets, SequencesExt

CONSTANTS
  MainLog,      \* what the first process calls its log
  LogNames,     \* path and name of the logs given to the constructor, change_path and change_log_file
  LinesPerFile, \* _MAX_LOGLINE
  LastLine, LastDay, MaxOpenings  \* bounds

ASSUME LogBounds == MainLog \in LogNames /\ LinesPerFile \in Nat /\ LastLine \in Nat /\ LastDay \in Nat \ {0}

VARIABLES
  base,      \* the BaseLog of the process that runs
  disk,      \* what is in the files
  today,     \* the day and the month
  lastLine,  \* history: the last line that was written
  begun,     \* history: the days that a name was made for
  again      \* history: a process was started on a day that another one had made a name for

logFileVars == <<base, disk, today, lastLine, begun, again>>

\* get_log_name: the current file's has no date, which 0 stands for.
CurrentFile(name) == [name |-> name, day |-> 0, number |-> 0]

\* Mutant of FileAfter: the files of a day are not counted.
FileAfterUncounted(b) == [name |-> b.name, day |-> today, number |-> 0]

\* What the file that is opened now will be renamed to.
FileAfter(b) == [name |-> b.name, day |-> today, number |-> b.files]

\* init_trace_file: a file that is full or from another day is renamed and a new one begun;
\* otherwise it goes on behind what is there.
InitTraceFile(b, files) ==
  LET current == CurrentFile(b.name)
      begin   == b.count > LinesPerFile \/ b.day # today
      renamed == IF begin /\ current \in DOMAIN files THEN {b.renameTo} ELSE {}
      kept    == IF begin THEN DOMAIN files \ {current} ELSE DOMAIN files
  IN  [log   |-> [b EXCEPT !.renameTo = FileAfter(b), !.files = @ + 1, !.count = 0],
       files |-> [f \in kept \cup renamed \cup {current} |->
                    IF f \in renamed THEN files[current] ELSE IF f \in kept THEN files[f] ELSE <<>>]]

\* BaseLog::BaseLog
Constructed(name, files) ==
  InitTraceFile([name |-> name, day |-> today, count |-> 0, files |-> 0,
                 renameTo |-> CurrentFile(name)], files)

LogFilesInit ==
  /\ today = 1 /\ lastLine = 0 /\ begun = {1} /\ again = FALSE
  /\ base = Constructed(MainLog, <<>>).log /\ disk = Constructed(MainLog, <<>>).files

-----------------------------------------------------------------------------
\* (Bound: MaxOpenings.)
Opened(opened) ==
  /\ base.files < MaxOpenings
  /\ base' = opened.log /\ disk' = opened.files
  /\ begun' = begun \cup {today}

\* A line goes to the end of the current file.  (Bound: LastLine.)
LineWritten(b, files) ==
  /\ lastLine < LastLine
  /\ lastLine' = lastLine + 1
  /\ base' = b
  /\ disk' = [files EXCEPT ![CurrentFile(b.name)] = Append(@, lastLine + 1)]

\* write_log, which counts the line, but not the first one of a new file.
WriteLine ==
  LET counted == [base EXCEPT !.count = @ + 1]
      opened  == InitTraceFile(counted, disk)
  IN  /\ IF counted.count > LinesPerFile \/ base.day # today
         THEN /\ base.files < MaxOpenings
              /\ LineWritten([opened.log EXCEPT !.day = today], opened.files)
              /\ begun' = begun \cup {today}
         ELSE LineWritten(counted, disk) /\ UNCHANGED begun
      /\ UNCHANGED <<today, again>>

\* SingleLogStream::dump_trace of a fatal line, which does not go through write_log.
WriteFatal == LineWritten(base, disk) /\ UNCHANGED <<today, begun, again>>

\* change_path, change_log_file: day_ stays what it was.
ChangeLog(name) ==
  /\ Opened(InitTraceFile([base EXCEPT !.name = name], disk))
  /\ UNCHANGED <<today, lastLine, again>>

\* The process ends, and another one is started.
Restart(name) ==
  /\ Opened(Constructed(name, disk))
  /\ again' = (again \/ today \in begun)
  /\ UNCHANGED <<today, lastLine>>

\* (Bound: LastDay.)
Midnight ==
  /\ today < LastDay /\ today' = today + 1
  /\ UNCHANGED <<base, disk, lastLine, begun, again>>

LogFilesNext ==
  \/ WriteLine \/ WriteFatal \/ Midnight
  \/ \E name \in LogNames : ChangeLog(name) \/ Restart(name)

LogFilesSpec == LogFilesInit /\ [][LogFilesNext]_logFileVars

-----------------------------------------------------------------------------
LogFilesTypeOK ==
  /\ base.name \in LogNames /\ base.day \in 1 .. LastDay /\ base.files \in 1 .. MaxOpenings
  /\ CurrentFile(base.name) \in DOMAIN disk
  /\ \A f \in DOMAIN disk : f.name \in LogNames /\ disk[f] \in Seq(1 .. LastLine)

\* Every line that was written is in one file, once, and a file has its lines in the order in
\* which they were written: no renaming runs over a file that is there.  The numbers start
\* from 0 in every process, so that holds as long as none is started on a day that another
\* one has made a name for.
LogLinesSurvive ==
  ~again =>
    /\ \A line \in 1 .. lastLine :
         Cardinality({f \in DOMAIN disk : \E i \in DOMAIN disk[f] : disk[f][i] = line}) = 1
    /\ \A f \in DOMAIN disk : \A i, j \in DOMAIN disk[f] : i < j => disk[f][i] < disk[f][j]
=============================================================================
