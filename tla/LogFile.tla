------------------------------ MODULE LogFile ------------------------------
(* The log file of logging.go as the servers of one user use it: every        *)
(* process opens it, writes one line, and closes it before it answers its     *)
(* first request (server.New).  A file that is too long for the next line is  *)
(* renamed away, which Windows refuses while anybody has it open.             *)
EXTENDS Integers, Sequences

CONSTANTS Servers,              \* processes
          Keep,                 \* LogFileRetention
          MaxLines,             \* lines that fit in a file
          MaxLog, MaxLogFaults  \* bounds: lines ever written, files that cannot be opened again

ASSUME LogBounds == {Keep, MaxLines} \subseteq Nat \ {0} /\ {MaxLog, MaxLogFaults} \subseteq Nat

VARIABLES files,                \* server.log and its backups: lines, oldest first
          proc,                 \* process -> where it is, and the fields of its RotatingFile
          readers,              \* tools that read server.log
          written,              \* lines written so far, numbered
          faults, together      \* failures so far; two processes have rotated at a time

logVars == <<files, proc, readers, written, faults, together>>
NoLog == <<-1>>                 \* no such file

LogInit ==
  /\ files = [i \in 0..Keep |-> NoLog]
  /\ proc = [p \in Servers |-> [at |-> "off", open |-> FALSE, size |-> 0, i |-> 0]]
  /\ readers = 0 /\ written = 0 /\ faults = 0 /\ together = FALSE

Held == readers > 0 \/ \E p \in Servers : proc[p].open
Opened == IF files[0] = NoLog THEN [files EXCEPT ![0] = <<>>] ELSE files
Rotating(p) == proc[p].at \in {"remove", "rename", "reopen"}

-----------------------------------------------------------------------------
(* Init: the file as it is, or a new one.                                     *)
\* Mutant: the file is emptied.
TruncatedFile(p) ==
  /\ proc[p].at = "off" /\ written < MaxLog
  /\ files' = [files EXCEPT ![0] = <<>>]
  /\ proc' = [proc EXCEPT ![p] = [at |-> "opened", open |-> TRUE, size |-> 0, i |-> 0]]
  /\ UNCHANGED <<readers, written, faults, together>>
NewRotatingFile(p) ==
  /\ proc[p].at = "off" /\ written < MaxLog
  /\ files' = Opened
  /\ proc' = [proc EXCEPT ![p] = [at |-> "opened", open |-> TRUE, size |-> Len(Opened[0]), i |-> 0]]
  /\ UNCHANGED <<readers, written, faults, together>>

(* Write, called by the handlers for the one line, under the file's mutex.    *)
AppendLine == files' = [files EXCEPT ![0] = Opened[0] \o <<written + 1>>] /\ written' = written + 1
WriteFits(p) ==
  /\ proc[p].at = "opened" /\ proc[p].size + 1 <= MaxLines
  /\ AppendLine /\ proc' = [proc EXCEPT ![p].at = "logged", ![p].size = @ + 1]
  /\ UNCHANGED <<readers, faults, together>>

(* rotate: the file closed, the backups moved up one by one, the file opened  *)
(* anew.  The error of no step is looked at; without a file nothing is        *)
(* written.                                                                   *)
BeginRotate(p) ==
  /\ proc[p].at = "opened" /\ proc[p].size + 1 > MaxLines
  /\ proc' = [proc EXCEPT ![p].at = "remove", ![p].open = FALSE, ![p].i = Keep]
  /\ together' = (together \/ \E q \in Servers \ {p} : Rotating(q))
  /\ UNCHANGED <<files, readers, written, faults>>

RemoveBackup(p) ==
  /\ proc[p].at = "remove"
  /\ files' = [files EXCEPT ![proc[p].i] = NoLog]
  /\ proc' = [proc EXCEPT ![p].at = "rename"]
  /\ UNCHANGED <<readers, written, faults, together>>

RenameBackup(p) ==
  LET i == proc[p].i IN
  /\ proc[p].at = "rename"
  /\ files' = IF files[i - 1] = NoLog \/ (i = 1 /\ Held) THEN files
              ELSE [files EXCEPT ![i] = files[i - 1], ![i - 1] = NoLog]
  /\ proc' = [proc EXCEPT ![p].i = i - 1, ![p].at = IF i = 1 THEN "reopen" ELSE "remove"]
  /\ UNCHANGED <<readers, written, faults, together>>

Reopen(p) ==
  /\ proc[p].at = "reopen" /\ AppendLine
  /\ proc' = [proc EXCEPT ![p] = [at |-> "logged", open |-> TRUE, size |-> 1, i |-> 0]]
  /\ UNCHANGED <<readers, faults, together>>

ReopenFails(p) ==
  /\ proc[p].at = "reopen" /\ faults < MaxLogFaults /\ faults' = faults + 1
  /\ proc' = [proc EXCEPT ![p].at = "logged"]
  /\ UNCHANGED <<files, readers, written, together>>

(* New returns, and its deferred Close with it, without a line when the level  *)
(* is above info.  The process may be started again later.                    *)
CloseLog(p) ==
  /\ proc[p].at \in {"opened", "logged"}
  /\ proc' = [proc EXCEPT ![p] = [at |-> "off", open |-> FALSE, size |-> 0, i |-> 0]]
  /\ UNCHANGED <<files, readers, written, faults, together>>

(* ReadLogs has the file open while it reads.                                 *)
ReadLogs == readers = 0 /\ files[0] # NoLog /\ readers' = 1 /\ UNCHANGED <<files, proc, written, faults, together>>
ReadEnds == readers = 1 /\ readers' = 0 /\ UNCHANGED <<files, proc, written, faults, together>>

LogNext ==
  \/ \E p \in Servers : \/ NewRotatingFile(p) \/ WriteFits(p) \/ BeginRotate(p) \/ RemoveBackup(p) \/ RenameBackup(p)
                        \/ Reopen(p) \/ ReopenFails(p) \/ CloseLog(p)
  \/ ReadLogs \/ ReadEnds
LogSpec == LogInit /\ [][LogNext]_logVars

-----------------------------------------------------------------------------
(* As long as no two processes rotate at a time, the lines of a file follow   *)
(* each other, a backup's are older than those of the files before it, and a  *)
(* line that is no longer kept is older than every line that is, and than one *)
(* full file of lines, whoever reads, starts or fails to open the file.       *)
HasLine(i, l) == files[i] # NoLog /\ \E n \in 1..Len(files[i]) : files[i][n] = l
IsKept(l) == \E i \in 0..Keep : HasLine(i, l)

Following == \A i \in 0..Keep : files[i] # NoLog =>
  \A n \in 1..Len(files[i]) : files[i][n] \in 1..written /\ files[i][n] = files[i][1] + n - 1
OlderBehind == \A i, j \in 0..Keep : i < j => \A a, b \in 1..written : HasLine(i, a) /\ HasLine(j, b) => b < a
OldestGone == \A l \in 1..written : IsKept(l) \/ (l + MaxLines <= written /\ \A k \in 1..written : IsKept(k) => l < k)
LatestKept == ~together => Following /\ OlderBehind /\ OldestGone
=============================================================================
