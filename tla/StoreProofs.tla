----------------------------- MODULE StoreProofs -----------------------------
(***************************************************************************)
(* Proofs about what is kept and looked for: the log file, for any number  *)
(* of servers, backups and lines; the fact store, for any finite number of *)
(* keys and scopes and any times to live; and the search of the screen,    *)
(* for any screen, window, scrolls and templates.                          *)
(***************************************************************************)
EXTENDS LogFile, Memory, ScreenSearch, FiniteSetTheorems, TLAPS

-----------------------------------------------------------------------------
(* The log file                                                              *)

LogStates == [at : {"off", "opened", "logged", "remove", "rename", "reopen"}, open : BOOLEAN, size : Nat, i : 0..Keep]
LogTypes ==
  /\ files \in [0..Keep -> Seq(Nat) \cup {NoLog}]
  /\ proc \in [Servers -> LogStates]
  /\ readers \in Nat /\ written \in Nat /\ faults \in Nat /\ together \in BOOLEAN

\* A process has the file open between opening and closing it, and counts backups from the last.
FieldsFollow == \A p \in Servers :
  /\ proc[p].at = "opened" => proc[p].open
  /\ proc[p].at = "off" \/ Rotating(p) => ~proc[p].open
  /\ proc[p].at \in {"remove", "rename"} => proc[p].i > 0

\* A file somebody has open is there, with the lines its opener has counted.
OpenHasFile ==
  /\ readers > 0 => files[0] # NoLog
  /\ \A p \in Servers : proc[p].open => files[0] # NoLog /\ proc[p].size <= Len(files[0])

OneRotates == \A p, q \in Servers : Rotating(p) /\ Rotating(q) => p = q

\* A rotation moves a backup to where none is, and has a full file still to move.
RoomAhead == \A p \in Servers :
  /\ proc[p].at = "remove" => proc[p].i = Keep \/ files[proc[p].i] = NoLog
  /\ proc[p].at = "rename" => files[proc[p].i] = NoLog
  /\ proc[p].at \in {"remove", "rename"} => files[0] # NoLog /\ Len(files[0]) >= MaxLines

LogInv ==
  /\ LogTypes /\ FieldsFollow /\ OpenHasFile
  /\ ~together => OneRotates /\ RoomAhead /\ Following /\ OlderBehind /\ OldestGone

LEMMA NoLogIsNone == NoLog \notin Seq(Nat) /\ <<>> # NoLog /\ <<>> \in Seq(Nat)
<1>1. ASSUME NEW s \in Seq(Nat), s = NoLog PROVE FALSE
  <2>1. Len(s) = 1 /\ s[1] = -1
    BY <1>1 DEF NoLog
  <2>2. QED
    BY <2>1
<1>2. <<>> # NoLog
  BY DEF NoLog
<1>3. QED
  BY <1>1, <1>2

LEMMA LogInitInv == LogInit => LogInv
<1> SUFFICES ASSUME LogInit PROVE LogInv
  OBVIOUS
<1>1. Keep \in Nat \ {0}
  BY LogBounds DEF LogBounds
<1>2. LogTypes
  <2>1. [i \in 0..Keep |-> NoLog] \in [0..Keep -> Seq(Nat) \cup {NoLog}]
    OBVIOUS
  <2>2. [p \in Servers |-> [at |-> "off", open |-> FALSE, size |-> 0, i |-> 0]] \in [Servers -> LogStates]
    BY <1>1 DEF LogStates
  <2>3. QED
    BY <2>1, <2>2 DEF LogInit, LogTypes
<1>3. FieldsFollow /\ OpenHasFile /\ OneRotates /\ RoomAhead
  BY DEF LogInit, FieldsFollow, OpenHasFile, OneRotates, RoomAhead, Rotating
<1>4. Following /\ OlderBehind /\ OldestGone
  BY DEF LogInit, Following, OlderBehind, OldestGone
<1>5. QED
  BY <1>2, <1>3, <1>4 DEF LogInv

\* The lines of a file are numbers of lines written.
LEMMA LinesWritten ==
  ASSUME LogTypes, Following, NEW i \in 0..Keep, NEW l, HasLine(i, l)
  PROVE  l \in 1..written
BY DEF LogTypes, Following, HasLine

\* A file that is not empty ends with the line last written.
LEMMA EndsWithLatest ==
  ASSUME LogTypes, Following, OlderBehind, OldestGone, files[0] # NoLog, files[0] # <<>>
  PROVE  Len(files[0]) \in Nat \ {0} /\ files[0][Len(files[0])] = written /\ files[0][1] = written + 1 - Len(files[0])
<1>1. Keep \in Nat /\ MaxLines \in Nat \ {0} /\ written \in Nat
  BY LogBounds DEF LogBounds, LogTypes
<1>2. files[0] \in Seq(Nat) /\ Len(files[0]) \in Nat \ {0}
  BY <1>1 DEF LogTypes
<1>3. \A n \in 1..Len(files[0]) : files[0][n] \in 1..written /\ files[0][n] = files[0][1] + n - 1
  BY <1>1 DEF Following
<1>4. files[0][1] \in 1..written /\ HasLine(0, files[0][1])
  BY <1>2, <1>3 DEF HasLine
<1>5. written \in 1..written
  BY <1>1, <1>4
<1>6. IsKept(written)
  BY <1>1, <1>5 DEF OldestGone
<1>7. PICK i \in 0..Keep : HasLine(i, written)
  BY <1>6 DEF IsKept
<1>8. i = 0
  <2>1. i > 0 => written < files[0][1]
    BY <1>1, <1>4, <1>5, <1>7 DEF OlderBehind
  <2>2. QED
    BY <2>1, <1>1, <1>4
<1>9. PICK n \in 1..Len(files[0]) : files[0][n] = written
  BY <1>7, <1>8 DEF HasLine
<1>10. files[0][Len(files[0])] \in 1..written /\ files[0][Len(files[0])] = files[0][1] + Len(files[0]) - 1
       /\ files[0][n] = files[0][1] + n - 1
  BY <1>2, <1>3
<1>11. n = Len(files[0])
  BY <1>1, <1>2, <1>4, <1>9, <1>10
<1>12. QED
  BY <1>1, <1>2, <1>4, <1>9, <1>10, <1>11

\* The next line, at the end of the file.
LEMMA AppendKeepsTypes ==
  ASSUME LogTypes, AppendLine
  PROVE  /\ files' \in [0..Keep -> Seq(Nat) \cup {NoLog}] /\ written' \in Nat /\ written' = written + 1
         /\ files'[0] # NoLog /\ files'[0] # <<>> /\ files'[0] \in Seq(Nat)
         /\ files[0] # NoLog => Len(files'[0]) = Len(files[0]) + 1
         /\ Len(files'[0]) \in Nat \ {0}
         /\ \A i \in 1..Keep : files'[i] = files[i]
<1>1. Keep \in Nat /\ 0 \in 0..Keep /\ written \in Nat
  BY LogBounds DEF LogBounds, LogTypes
<1>2. Opened \in [0..Keep -> Seq(Nat) \cup {NoLog}] /\ Opened[0] \in Seq(Nat) /\ (files[0] # NoLog => Opened[0] = files[0])
  BY <1>1, NoLogIsNone DEF Opened, LogTypes
<1>3. Opened[0] \o <<written + 1>> \in Seq(Nat) /\ Len(Opened[0] \o <<written + 1>>) = Len(Opened[0]) + 1
  BY <1>1, <1>2
<1>4. files' = [files EXCEPT ![0] = Opened[0] \o <<written + 1>>] /\ written' = written + 1
  BY DEF AppendLine
<1>5. files' \in [0..Keep -> Seq(Nat) \cup {NoLog}] /\ files'[0] = Opened[0] \o <<written + 1>>
      /\ \A i \in 1..Keep : files'[i] = files[i]
  BY <1>1, <1>3, <1>4 DEF LogTypes
<1>6. Len(Opened[0]) \in Nat
  BY <1>2
<1>7. files'[0] # <<>> /\ Len(files'[0]) \in Nat \ {0}
  BY <1>3, <1>5, <1>6
<1>8. QED
  <2>1. files[0] # NoLog => Len(files'[0]) = Len(files[0]) + 1
    BY <1>2, <1>3, <1>5
  <2>2. files'[0] \in Seq(Nat) /\ files'[0] # NoLog
    BY <1>3, <1>5, NoLogIsNone
  <2>3. QED
    BY <1>1, <1>4, <1>5, <1>7, <2>1, <2>2

\* One line more at the end: it follows the latest, and nothing else changes.
LEMMA AppendKeepsLines ==
  ASSUME LogTypes, Following, OlderBehind, OldestGone, AppendLine
  PROVE  Following' /\ OlderBehind' /\ OldestGone'
<1>1. Keep \in Nat /\ 0 \in 0..Keep /\ MaxLines \in Nat \ {0} /\ written \in Nat /\ written' = written + 1
  BY LogBounds DEF LogBounds, LogTypes, AppendLine
<1>2. /\ files' \in [0..Keep -> Seq(Nat) \cup {NoLog}] /\ files'[0] # NoLog /\ files'[0] \in Seq(Nat)
      /\ Len(files'[0]) \in Nat \ {0} /\ \A i \in 1..Keep : files'[i] = files[i]
  BY AppendKeepsTypes
<1> DEFINE old == IF files[0] = NoLog THEN <<>> ELSE files[0]
<1>3. files' = [files EXCEPT ![0] = Opened[0] \o <<written + 1>>]
  BY DEF AppendLine
<1>4. Opened[0] = old
  BY <1>1 DEF Opened, LogTypes
<1>5. files'[0] = old \o <<written + 1>>
  BY <1>1, <1>3, <1>4 DEF LogTypes
<1>6. old \in Seq(Nat) /\ Len(old) \in Nat
  BY <1>1, NoLogIsNone DEF LogTypes
<1>7. /\ Len(files'[0]) = Len(old) + 1 /\ files'[0][Len(old) + 1] = written + 1
      /\ \A n \in 1..Len(old) : files'[0][n] = old[n]
  BY <1>1, <1>5, <1>6
<1>8. old # <<>> => Len(old) > 0 /\ files[0] # NoLog /\ old = files[0] /\ old[1] = written + 1 - Len(old)
                    /\ \A n \in 1..Len(old) : old[n] \in 1..written /\ old[n] = old[1] + n - 1
  <2>1. old # <<>> => files[0] # NoLog /\ files[0] # <<>> /\ old = files[0]
    OBVIOUS
  <2>2. files[0] # NoLog => \A n \in 1..Len(files[0]) : files[0][n] \in 1..written /\ files[0][n] = files[0][1] + n - 1
    BY <1>1 DEF Following
  <2>3. files[0] # NoLog /\ files[0] # <<>> => Len(files[0]) \in Nat \ {0} /\ files[0][1] = written + 1 - Len(files[0])
    BY EndsWithLatest
  <2>4. QED
    BY <2>1, <2>2, <2>3
<1>9. old = <<>> => Len(old) = 0
  OBVIOUS
<1> HIDE DEF old
<1>10. \A n \in 1..Len(files'[0]) : files'[0][n] \in 1..written' /\ files'[0][n] = files'[0][1] + n - 1
  <2>1. CASE old = <<>>
    BY <1>1, <1>7, <1>9, <2>1
  <2>2. CASE old # <<>>
    <3>1. files'[0][1] = written + 1 - Len(old) /\ Len(old) > 0
      BY <1>6, <1>7, <1>8, <2>2
    <3>2. ASSUME NEW n \in 1..Len(old) PROVE files'[0][n] \in 1..written' /\ files'[0][n] = files'[0][1] + n - 1
      BY <1>1, <1>6, <1>7, <1>8, <2>2, <3>1, <3>2
    <3>3. files'[0][Len(old) + 1] \in 1..written' /\ files'[0][Len(old) + 1] = files'[0][1] + Len(old)
      BY <1>1, <1>6, <1>7, <3>1
    <3>4. QED
      BY <1>6, <1>7, <3>2, <3>3
  <2>3. QED
    BY <2>1, <2>2
<1>11. Following'
  <2> SUFFICES ASSUME NEW i \in 0..Keep, (files[i] # NoLog)', NEW n \in 1..Len(files'[i])
               PROVE  files'[i][n] \in 1..written' /\ files'[i][n] = files'[i][1] + n - 1
    BY DEF Following
  <2>1. CASE i = 0
    BY <1>10, <2>1
  <2>2. CASE i # 0
    <3>1. files'[i] = files[i] /\ files[i] # NoLog
      BY <1>1, <1>2, <2>2
    <3>2. files[i][n] \in 1..written /\ files[i][n] = files[i][1] + n - 1
      BY <3>1 DEF Following
    <3>3. QED
      BY <1>1, <3>1, <3>2
  <2>3. QED
    BY <2>1, <2>2
<1>12. ASSUME NEW i \in 0..Keep, NEW l
       PROVE  HasLine(i, l)' <=> HasLine(i, l) \/ (i = 0 /\ l = written + 1)
  <2>1. CASE i # 0
    BY <1>1, <1>2, <2>1, SMTT(40) DEF HasLine
  <2>2. CASE i = 0
    <3>1. HasLine(0, l)' <=> \E n \in 1..Len(old) + 1 : files'[0][n] = l
      BY <1>2, <1>7 DEF HasLine
    <3>2. HasLine(0, l)' <=> (\E n \in 1..Len(old) : old[n] = l) \/ l = written + 1
      BY <3>1, <1>6, <1>7, SMTT(40)
    <3>3. HasLine(0, l) <=> \E n \in 1..Len(old) : old[n] = l
      BY DEF HasLine, old
    <3>4. QED
      BY <3>2, <3>3, <2>2
  <2>3. QED
    BY <2>1, <2>2
<1>13. OlderBehind'
  <2> SUFFICES ASSUME NEW i \in 0..Keep, NEW j \in 0..Keep, i < j, NEW a \in 1..written + 1, NEW b \in 1..written + 1,
                      HasLine(i, a)', HasLine(j, b)'
               PROVE  b < a
    BY <1>1 DEF OlderBehind
  <2>1. j # 0
    BY <1>1
  <2>2. HasLine(j, b) /\ b \in 1..written
    BY <2>1, <1>12, LinesWritten
  <2>3. CASE HasLine(i, a)
    <3>1. a \in 1..written
      BY <2>3, LinesWritten
    <3>2. QED
      BY <2>2, <2>3, <3>1 DEF OlderBehind
  <2>4. CASE a = written + 1
    BY <1>1, <2>2, <2>4
  <2>5. QED
    BY <2>3, <2>4, <1>12
<1>14. ASSUME NEW l PROVE IsKept(l)' <=> IsKept(l) \/ l = written + 1
  BY <1>1, <1>12 DEF IsKept
<1>15. OldestGone'
  <2> SUFFICES ASSUME NEW l \in 1..written + 1, ~IsKept(l)'
               PROVE  l + MaxLines <= written + 1 /\ \A k \in 1..written + 1 : IsKept(k)' => l < k
    BY <1>1 DEF OldestGone
  <2>1. ~IsKept(l) /\ l \in 1..written
    BY <1>1, <1>14
  <2>2. l + MaxLines <= written /\ \A k \in 1..written : IsKept(k) => l < k
    BY <2>1 DEF OldestGone
  <2>3. ASSUME NEW k \in 1..written + 1, IsKept(k)' PROVE l < k
    BY <1>1, <1>14, <2>1, <2>2, <2>3
  <2>4. QED
    BY <1>1, <2>1, <2>2, <2>3
<1>16. QED
  BY <1>11, <1>13, <1>15

\* A new file, empty, and the one that was there as it was.
LEMMA OpenKeepsLines ==
  ASSUME LogTypes, Following, OlderBehind, OldestGone, files' = Opened, written' = written
  PROVE  Following' /\ OlderBehind' /\ OldestGone'
<1>1. Keep \in Nat /\ 0 \in 0..Keep
  BY LogBounds DEF LogBounds
<1>2. CASE files[0] # NoLog
  BY <1>2 DEF Opened, Following, OlderBehind, OldestGone, IsKept, HasLine
<1>3. CASE files[0] = NoLog
  <2>1. files' = [files EXCEPT ![0] = <<>>]
    BY <1>3 DEF Opened
  <2>2. files'[0] = <<>> /\ \A i \in 1..Keep : files'[i] = files[i]
    BY <2>1, <1>1 DEF LogTypes
  <2>3. ASSUME NEW i \in 0..Keep, NEW l PROVE HasLine(i, l)' <=> HasLine(i, l)
    BY <1>1, <1>3, <2>2 DEF HasLine
  <2>4. Following'
    BY <1>1, <2>2 DEF Following
  <2>5. \A l : IsKept(l)' <=> IsKept(l)
    BY <2>3 DEF IsKept
  <2>6. OldestGone'
    BY <2>5 DEF OldestGone
  <2>7. OlderBehind'
    BY <2>3 DEF OlderBehind
  <2>8. QED
    BY <2>4, <2>6, <2>7
<1>4. QED
  BY <1>2, <1>3

\* The file or backup before a free place moves there: every line stays, in the same order.
LEMMA MoveKeepsLines ==
  ASSUME LogTypes, Following, OlderBehind, OldestGone, NEW k \in 1..Keep, files[k] = NoLog, files[k - 1] # NoLog,
         files' = [files EXCEPT ![k] = files[k - 1], ![k - 1] = NoLog], written' = written
  PROVE  Following' /\ OlderBehind' /\ OldestGone'
<1>1. Keep \in Nat /\ k - 1 \in 0..Keep /\ k \in 0..Keep /\ k - 1 # k
  BY LogBounds DEF LogBounds
<1>2. files'[k] = files[k - 1] /\ files'[k - 1] = NoLog /\ \A i \in (0..Keep) \ {k - 1, k} : files'[i] = files[i]
  BY <1>1 DEF LogTypes
<1>3. ASSUME NEW l PROVE /\ HasLine(k, l)' <=> HasLine(k - 1, l)
                         /\ ~HasLine(k - 1, l)' /\ ~HasLine(k, l)
                         /\ \A i \in (0..Keep) \ {k - 1, k} : HasLine(i, l)' <=> HasLine(i, l)
  BY <1>1, <1>2 DEF HasLine
<1>4. Following'
  <2> SUFFICES ASSUME NEW i \in 0..Keep, files'[i] # NoLog, NEW n \in 1..Len(files'[i])
               PROVE  files'[i][n] \in 1..written /\ files'[i][n] = files'[i][1] + n - 1
    BY DEF Following
  <2>1. CASE i = k
    <3>1. \A m \in 1..Len(files[k - 1]) : files[k - 1][m] \in 1..written /\ files[k - 1][m] = files[k - 1][1] + m - 1
      BY <1>1 DEF Following
    <3>2. QED
      BY <1>2, <2>1, <3>1
  <2>2. CASE i \in (0..Keep) \ {k - 1, k}
    <3>1. files'[i] = files[i]
      BY <1>2, <2>2
    <3>2. QED
      BY <3>1 DEF Following
  <2>3. QED
    BY <1>2, <2>1, <2>2
<1>5. ASSUME NEW l PROVE IsKept(l)' <=> IsKept(l)
  <2>1. IsKept(l)' => IsKept(l)
    BY <1>1, <1>3 DEF IsKept
  <2>2. IsKept(l) => IsKept(l)'
    BY <1>1, <1>3 DEF IsKept
  <2>3. QED
    BY <2>1, <2>2
<1>6. OldestGone'
  BY <1>5 DEF OldestGone
<1>7. OlderBehind'
  <2> SUFFICES ASSUME NEW i \in 0..Keep, NEW j \in 0..Keep, i < j, NEW a \in 1..written, NEW b \in 1..written,
                      HasLine(i, a)', HasLine(j, b)'
               PROVE  b < a
    BY DEF OlderBehind
  <2> DEFINE was(n) == IF n = k THEN k - 1 ELSE n
  <2>1. i # k - 1 /\ j # k - 1
    BY <1>3
  <2>2. HasLine(was(i), a) /\ HasLine(was(j), b)
    BY <1>3, <2>1
  <2>3. was(i) \in 0..Keep /\ was(j) \in 0..Keep /\ was(i) < was(j)
    BY <1>1, <2>1
  <2> HIDE DEF was
  <2>4. QED
    BY <2>2, <2>3 DEF OlderBehind
<1>8. QED
  BY <1>4, <1>6, <1>7

\* The last backup goes: its lines are older than all others, of which there is a full file.
LEMMA DropKeepsLines ==
  ASSUME LogTypes, Following, OlderBehind, OldestGone, files[0] # NoLog, Len(files[0]) >= MaxLines,
         files' = [files EXCEPT ![Keep] = NoLog], written' = written
  PROVE  Following' /\ OlderBehind' /\ OldestGone'
<1>1. Keep \in Nat /\ Keep > 0 /\ 0 \in 0..Keep /\ Keep \in 0..Keep /\ MaxLines \in Nat /\ MaxLines > 0 /\ written \in Nat
  BY LogBounds DEF LogBounds, LogTypes
<1>2. files'[Keep] = NoLog /\ \A i \in (0..Keep) \ {Keep} : files'[i] = files[i]
  BY <1>1 DEF LogTypes
<1>3. ASSUME NEW l PROVE ~HasLine(Keep, l)' /\ \A i \in (0..Keep) \ {Keep} : HasLine(i, l)' <=> HasLine(i, l)
  BY <1>2 DEF HasLine
<1>4. Following'
  BY <1>2 DEF Following
<1>5. OlderBehind'
  BY <1>3 DEF OlderBehind
<1>6. files[0] \in Seq(Nat) /\ Len(files[0]) \in Nat
  BY <1>1 DEF LogTypes
<1>7. files[0] # <<>>
  BY <1>1, <1>6
<1>8. files[0][1] = written + 1 - Len(files[0]) /\ HasLine(0, files[0][1]) /\ files[0][1] \in 1..written
  <2>1. files[0][1] = written + 1 - Len(files[0])
    BY <1>7, EndsWithLatest
  <2>2. 1 \in 1..Len(files[0])
    BY <1>1, <1>6
  <2>3. HasLine(0, files[0][1])
    BY <2>2 DEF HasLine
  <2>4. QED
    BY <1>1, <2>1, <2>3, LinesWritten
<1>9. PICK first \in 1..written : HasLine(0, first) /\ first <= written + 1 - MaxLines
  <2>1. written + 1 - Len(files[0]) <= written + 1 - MaxLines
    BY <1>1, <1>6
  <2>2. QED
    BY <1>8, <2>1
<1>10. OldestGone'
  <2> SUFFICES ASSUME NEW l \in 1..written, ~IsKept(l)'
               PROVE  l + MaxLines <= written /\ \A m \in 1..written : IsKept(m)' => l < m
    BY DEF OldestGone
  <2>1. ASSUME NEW m, IsKept(m)' PROVE \E i \in 0..Keep : i < Keep /\ HasLine(i, m)
    <3>1. PICK i \in 0..Keep : HasLine(i, m)'
      BY <2>1 DEF IsKept
    <3>2. i # Keep
      BY <1>3, <3>1
    <3>3. HasLine(i, m)
      BY <1>3, <3>1, <3>2
    <3>4. i < Keep
      BY <1>1, <3>2
    <3>5. QED
      BY <3>3, <3>4
  <2>2. \A m : IsKept(m)' => IsKept(m)
    BY <2>1 DEF IsKept
  <2>3. CASE ~IsKept(l)
    BY <2>2, <2>3 DEF OldestGone
  <2>4. CASE IsKept(l)
    <3>1. HasLine(Keep, l)
      BY <1>3, <2>4 DEF IsKept
    <3>2. \A m \in 1..written : IsKept(m)' => l < m
      BY <1>1, <2>1, <3>1 DEF OlderBehind
    <3>3. l < first
      BY <1>1, <1>9, <3>1 DEF OlderBehind
    <3>4. l + MaxLines <= written
      BY <1>1, <1>9, <3>3
    <3>5. QED
      BY <3>2, <3>4
  <2>5. QED
    BY <2>3, <2>4
<1>11. QED
  BY <1>4, <1>5, <1>10

LEMMA SameLines ==
  ASSUME Following, OlderBehind, OldestGone, files' = files, written' = written
  PROVE  Following' /\ OlderBehind' /\ OldestGone'
<1>1. \A i \in 0..Keep : \A l : HasLine(i, l)' <=> HasLine(i, l)
  BY DEF HasLine
<1>2. \A l : IsKept(l)' <=> IsKept(l)
  BY <1>1 DEF IsKept
<1>3. Following'
  BY DEF Following
<1>4. OlderBehind'
  BY <1>1 DEF OlderBehind
<1>5. OldestGone'
  BY <1>2 DEF OldestGone
<1>6. QED
  BY <1>3, <1>4, <1>5

LEMMA LogInvHolds == LogInv /\ [LogNext]_logVars => LogInv'
<1> SUFFICES ASSUME LogInv, [LogNext]_logVars PROVE LogInv'
  OBVIOUS
<1>1. Keep \in Nat /\ Keep > 0 /\ 0 \in 0..Keep /\ Keep \in 0..Keep /\ MaxLines \in Nat
  BY LogBounds DEF LogBounds
<1>2. LogTypes /\ FieldsFollow /\ OpenHasFile
  BY DEF LogInv
<1>3. files \in [0..Keep -> Seq(Nat) \cup {NoLog}] /\ proc \in [Servers -> LogStates] /\ files[0] \in Seq(Nat) \cup {NoLog}
  BY <1>1, <1>2 DEF LogTypes
<1>4. ~together => OneRotates /\ RoomAhead /\ Following /\ OlderBehind /\ OldestGone
  BY DEF LogInv
<1>5. ASSUME NEW p \in Servers, NewRotatingFile(p) PROVE LogInv'
  <2> DEFINE new == [at |-> "opened", open |-> TRUE, size |-> Len(Opened[0]), i |-> 0]
  <2>1. Opened \in [0..Keep -> Seq(Nat) \cup {NoLog}] /\ Opened[0] \in Seq(Nat) /\ Opened[0] # NoLog
        /\ (files[0] # NoLog => Opened = files) /\ \A i \in 1..Keep : Opened[i] = files[i]
    BY <1>1, <1>3, NoLogIsNone DEF Opened
  <2>2. new \in LogStates /\ Len(Opened[0]) \in Nat
    BY <1>1, <2>1 DEF LogStates
  <2>3. /\ files' = Opened /\ proc' = [proc EXCEPT ![p] = new] /\ UNCHANGED <<readers, written, faults, together>>
    BY <1>5 DEF NewRotatingFile
  <2>4. proc'[p] = new /\ \A q \in Servers \ {p} : proc'[q] = proc[q]
    BY <1>3, <2>3
  <2>5. proc'[p].at = "opened" /\ proc'[p].open /\ proc'[p].size = Len(Opened[0])
    BY <2>4
  <2> HIDE DEF new
  <2>6. LogTypes'
    BY <1>2, <2>1, <2>2, <2>3 DEF LogTypes
  <2>7. FieldsFollow'
    BY <1>2, <2>4, <2>5 DEF FieldsFollow, Rotating
  <2>8. OpenHasFile'
    <3>1. \A q \in Servers \ {p} : proc'[q].open => files' = files /\ files[0] # NoLog /\ proc'[q].size <= Len(files[0])
      BY <1>2, <2>1, <2>3, <2>4 DEF OpenHasFile
    <3>2. proc'[p].size <= Len(files'[0])
      BY <2>2, <2>3, <2>5
    <3>3. readers' > 0 => files'[0] # NoLog
      BY <2>1, <2>3
    <3>4. QED
      BY <2>1, <2>3, <3>1, <3>2, <3>3 DEF OpenHasFile
  <2>9. ASSUME ~together PROVE OneRotates' /\ RoomAhead' /\ Following' /\ OlderBehind' /\ OldestGone'
    <3>1. OneRotates'
      BY <1>4, <2>4, <2>5, <2>9 DEF OneRotates, Rotating
    <3>2. RoomAhead'
      <4> SUFFICES ASSUME NEW q \in Servers, proc'[q].at \in {"remove", "rename"}
                   PROVE  /\ proc'[q].at = "remove" => proc'[q].i = Keep \/ files'[proc'[q].i] = NoLog
                          /\ proc'[q].at = "rename" => files'[proc'[q].i] = NoLog
                          /\ files'[0] # NoLog /\ Len(files'[0]) >= MaxLines
        BY DEF RoomAhead
      <4>1. q # p
        BY <2>5
      <4>2. proc'[q] = proc[q]
        BY <4>1, <2>4
      <4>3. files[0] # NoLog
        BY <1>4, <2>9, <4>2 DEF RoomAhead
      <4>4. files' = files
        BY <2>1, <2>3, <4>3
      <4>5. QED
        BY <1>4, <2>9, <4>2, <4>4 DEF RoomAhead
    <3>3. QED
      BY <1>2, <1>4, <2>3, <2>9, <3>1, <3>2, OpenKeepsLines
  <2>10. QED
    BY <2>3, <2>6, <2>7, <2>8, <2>9 DEF LogInv
<1>6. ASSUME NEW p \in Servers, NEW new \in LogStates, AppendLine, proc' = [proc EXCEPT ![p] = new],
             new.at = "logged", new.open, new.size = 1 \/ (new.size = proc[p].size + 1 /\ proc[p].open),
             UNCHANGED <<readers, faults, together>>
      PROVE  LogInv'
  <2>1. proc'[p] = new /\ \A q \in Servers \ {p} : proc'[q] = proc[q]
    BY <1>3, <1>6
  <2>2. /\ files' \in [0..Keep -> Seq(Nat) \cup {NoLog}] /\ written' \in Nat
        /\ files'[0] # NoLog /\ files'[0] \in Seq(Nat)
        /\ files[0] # NoLog => Len(files'[0]) = Len(files[0]) + 1
        /\ Len(files'[0]) \in Nat \ {0}
        /\ \A i \in 1..Keep : files'[i] = files[i]
    BY <1>2, <1>6, AppendKeepsTypes
  <2>3. files[0] # NoLog => Len(files[0]) \in Nat
    BY <1>3
  <2>4. LogTypes'
    BY <1>2, <1>6, <2>2 DEF LogTypes
  <2>5. FieldsFollow'
    BY <1>2, <1>6, <2>1 DEF FieldsFollow, Rotating
  <2>6. OpenHasFile'
    <3>1. new.size \in Nat /\ proc[p].size \in Nat
      BY <1>3 DEF LogStates
    <3>2. new.size <= Len(files'[0])
      <4>1. CASE new.size = 1
        BY <2>2, <4>1
      <4>2. CASE new.size = proc[p].size + 1 /\ proc[p].open
        <5>1. files[0] # NoLog /\ proc[p].size <= Len(files[0])
          BY <1>2, <4>2 DEF OpenHasFile
        <5>2. QED
          BY <2>2, <2>3, <3>1, <4>2, <5>1
      <4>3. QED
        BY <1>6, <4>1, <4>2
    <3>3. ASSUME NEW q \in Servers \ {p}, proc'[q].open PROVE proc'[q].size <= Len(files'[0])
      <4>1. proc'[q] = proc[q] /\ files[0] # NoLog /\ proc[q].size <= Len(files[0]) /\ proc[q].size \in Nat
        BY <1>2, <1>3, <2>1, <3>3 DEF OpenHasFile, LogStates
      <4>2. QED
        BY <2>2, <2>3, <4>1
    <3>4. QED
      BY <2>1, <2>2, <3>2, <3>3 DEF OpenHasFile
  <2>7. ASSUME ~together PROVE OneRotates' /\ RoomAhead' /\ Following' /\ OlderBehind' /\ OldestGone'
    <3>1. OneRotates'
      BY <1>4, <1>6, <2>1, <2>7 DEF OneRotates, Rotating
    <3>2. RoomAhead'
      <4> SUFFICES ASSUME NEW q \in Servers, proc'[q].at \in {"remove", "rename"}
                   PROVE  /\ proc'[q].at = "remove" => proc'[q].i = Keep \/ files'[proc'[q].i] = NoLog
                          /\ proc'[q].at = "rename" => files'[proc'[q].i] = NoLog
                          /\ Len(files'[0]) >= MaxLines
        BY <2>2 DEF RoomAhead
      <4>1. q # p
        BY <1>6, <2>1
      <4>2. proc'[q] = proc[q] /\ proc[q].i \in 1..Keep
        BY <1>1, <1>2, <1>3, <2>1, <4>1 DEF FieldsFollow, LogStates
      <4>3. files[0] # NoLog /\ Len(files[0]) >= MaxLines
        BY <1>4, <2>7, <4>2 DEF RoomAhead
      <4>4. Len(files'[0]) >= MaxLines
        BY <1>1, <2>2, <2>3, <4>3
      <4>5. files'[proc[q].i] = files[proc[q].i]
        BY <2>2, <4>2
      <4>6. QED
        BY <1>4, <2>7, <4>2, <4>4, <4>5 DEF RoomAhead
    <3>3. QED
      BY <1>2, <1>4, <1>6, <2>7, <3>1, <3>2, AppendKeepsLines
  <2>8. QED
    BY <1>6, <2>4, <2>5, <2>6, <2>7 DEF LogInv
<1>7. ASSUME NEW p \in Servers, WriteFits(p) PROVE LogInv'
  <2>1. proc[p] \in LogStates /\ proc[p].open
    BY <1>2, <1>3, <1>7 DEF WriteFits, FieldsFollow
  <2> DEFINE new == [at |-> "logged", open |-> proc[p].open, size |-> proc[p].size + 1, i |-> proc[p].i]
  <2>2. proc' = [proc EXCEPT ![p] = new]
    BY <1>3, <1>7, <2>1 DEF WriteFits, LogStates
  <2>3. new \in LogStates
    BY <2>1 DEF LogStates
  <2>4. QED
    BY <1>6, <1>7, <2>1, <2>2, <2>3 DEF WriteFits
<1>8. ASSUME NEW p \in Servers, Reopen(p) PROVE LogInv'
  <2>1. PICK new \in LogStates : new = [at |-> "logged", open |-> TRUE, size |-> 1, i |-> 0]
    BY <1>1 DEF LogStates
  <2>2. new.at = "logged" /\ new.open /\ new.size = 1 /\ proc' = [proc EXCEPT ![p] = new]
    BY <1>8, <2>1 DEF Reopen
  <2>3. AppendLine /\ UNCHANGED <<readers, faults, together>>
    BY <1>8 DEF Reopen
  <2>4. new.size = 1 \/ (new.size = proc[p].size + 1 /\ proc[p].open)
    BY <2>2
  <2>5. proc' = [proc EXCEPT ![p] = new] /\ new.at = "logged" /\ new.open
    BY <2>2
  <2>6. QED
    BY <1>6, <2>3, <2>4, <2>5
<1>9. ASSUME NEW p \in Servers, BeginRotate(p) PROVE LogInv'
  <2> DEFINE new == [at |-> "remove", open |-> FALSE, size |-> proc[p].size, i |-> Keep]
  <2>1. proc[p] \in LogStates /\ proc[p].size \in Nat /\ proc[p].open
    BY <1>2, <1>3, <1>9 DEF BeginRotate, FieldsFollow, LogStates
  <2>2. new \in LogStates
    BY <1>1, <2>1 DEF LogStates
  <2>3. proc' = [proc EXCEPT ![p] = new]
    BY <1>3, <1>9, <2>1, SMTT(40) DEF BeginRotate, LogStates
  <2>4. proc'[p] = new /\ \A q \in Servers \ {p} : proc'[q] = proc[q]
    BY <1>3, <2>3
  <2>5. proc'[p].at = "remove" /\ ~proc'[p].open /\ proc'[p].i = Keep
    BY <2>4
  <2> HIDE DEF new
  <2>6. UNCHANGED <<files, readers, written, faults>> /\ together' \in BOOLEAN
        /\ (~together' => ~together /\ \A q \in Servers \ {p} : ~Rotating(q))
    BY <1>2, <1>9 DEF BeginRotate, LogTypes
  <2>7. LogTypes'
    BY <1>2, <2>2, <2>3, <2>6 DEF LogTypes
  <2>8. FieldsFollow'
    BY <1>1, <1>2, <2>4, <2>5 DEF FieldsFollow, Rotating
  <2>9. OpenHasFile'
    BY <1>2, <2>4, <2>5, <2>6 DEF OpenHasFile
  <2>10. files[0] # NoLog /\ Len(files[0]) \in Nat /\ Len(files[0]) >= MaxLines
    <3>1. files[0] # NoLog /\ proc[p].size <= Len(files[0])
      BY <1>2, <2>1 DEF OpenHasFile
    <3>2. Len(files[0]) \in Nat
      BY <1>3, <3>1
    <3>3. proc[p].size + 1 > MaxLines
      BY <1>9 DEF BeginRotate
    <3>4. QED
      BY <1>1, <2>1, <3>1, <3>2, <3>3
  <2>11. ASSUME ~together' PROVE OneRotates' /\ RoomAhead' /\ Following' /\ OlderBehind' /\ OldestGone'
    <3>1. OneRotates'
      BY <2>4, <2>6, <2>11 DEF OneRotates, Rotating
    <3>2. RoomAhead'
      BY <2>4, <2>5, <2>6, <2>10, <2>11 DEF RoomAhead, Rotating
    <3>3. Following' /\ OlderBehind' /\ OldestGone'
      BY <1>4, <2>6, <2>11, SameLines
    <3>4. QED
      BY <3>1, <3>2, <3>3
  <2>12. QED
    BY <2>7, <2>8, <2>9, <2>11 DEF LogInv
<1>10. ASSUME NEW p \in Servers, RemoveBackup(p) PROVE LogInv'
  <2>1. proc[p] \in LogStates /\ proc[p].at = "remove" /\ proc[p].i \in 1..Keep
    BY <1>1, <1>2, <1>3, <1>10 DEF RemoveBackup, FieldsFollow, LogStates
  <2> DEFINE new == [at |-> "rename", open |-> proc[p].open, size |-> proc[p].size, i |-> proc[p].i]
  <2>2. new \in LogStates
    BY <2>1 DEF LogStates
  <2>3. proc' = [proc EXCEPT ![p] = new]
    <3>1. [proc[p] EXCEPT !.at = "rename"] = new
      BY <2>1 DEF LogStates
    <3>2. proc' = [proc EXCEPT ![p] = [proc[p] EXCEPT !.at = "rename"]]
      BY <1>10 DEF RemoveBackup
    <3>3. QED
      BY <3>1, <3>2
  <2>4. proc'[p] = new /\ \A q \in Servers \ {p} : proc'[q] = proc[q]
    BY <1>3, <2>3
  <2>5. proc'[p].at = "rename" /\ proc'[p].open = proc[p].open /\ proc'[p].i = proc[p].i /\ proc'[p].size = proc[p].size
    BY <2>4
  <2> HIDE DEF new
  <2>6. UNCHANGED <<readers, written, faults, together>> /\ files' = [files EXCEPT ![proc[p].i] = NoLog]
    BY <1>10 DEF RemoveBackup
  <2>7. files'[proc[p].i] = NoLog /\ files'[0] = files[0]
    BY <1>1, <1>3, <2>1, <2>6
  <2>8. LogTypes'
    BY <1>2, <1>3, <2>2, <2>3, <2>6 DEF LogTypes
  <2>9. FieldsFollow'
    BY <1>2, <2>1, <2>4, <2>5 DEF FieldsFollow, Rotating
  <2>10. OpenHasFile'
    BY <1>2, <2>4, <2>5, <2>6, <2>7 DEF OpenHasFile
  <2>11. ASSUME ~together PROVE OneRotates' /\ RoomAhead' /\ Following' /\ OlderBehind' /\ OldestGone'
    <3>1. files[0] # NoLog /\ Len(files[0]) >= MaxLines /\ (proc[p].i = Keep \/ files[proc[p].i] = NoLog)
      BY <1>4, <2>1, <2>11 DEF RoomAhead
    <3>2. \A q \in Servers \ {p} : ~Rotating(q)
      BY <1>4, <2>1, <2>11 DEF OneRotates, Rotating
    <3>3. OneRotates'
      BY <2>4, <3>2 DEF OneRotates, Rotating
    <3>4. RoomAhead'
      BY <2>4, <2>5, <2>7, <3>1, <3>2 DEF RoomAhead, Rotating
    <3>5. CASE proc[p].i = Keep
      BY <1>2, <1>4, <2>6, <2>11, <3>1, <3>3, <3>4, <3>5, DropKeepsLines
    <3>6. CASE files[proc[p].i] = NoLog
      <4>1. files' = files
        BY <1>3, <2>6, <3>6
      <4>2. Following' /\ OlderBehind' /\ OldestGone'
        BY <1>4, <2>6, <2>11, <4>1, SameLines
      <4>3. QED
        BY <3>3, <3>4, <4>2
    <3>7. QED
      BY <3>1, <3>5, <3>6
  <2>12. QED
    BY <2>6, <2>8, <2>9, <2>10, <2>11 DEF LogInv
<1>11. ASSUME NEW p \in Servers, RenameBackup(p) PROVE LogInv'
  <2>1. proc[p] \in LogStates /\ proc[p].at = "rename" /\ proc[p].i \in 1..Keep /\ proc[p].i - 1 \in 0..Keep
    BY <1>1, <1>2, <1>3, <1>11 DEF RenameBackup, FieldsFollow, LogStates
  <2>2. PICK k \in 1..Keep : k = proc[p].i
    BY <2>1
  <2>3. PICK next \in {"reopen", "remove"} : next = IF k = 1 THEN "reopen" ELSE "remove"
    OBVIOUS
  <2> DEFINE new == [at |-> next, open |-> proc[p].open, size |-> proc[p].size, i |-> k - 1]
  <2>4. new \in LogStates
    <3>1. next \in {"off", "opened", "logged", "remove", "rename", "reopen"}
      OBVIOUS
    <3>2. QED
      BY <2>1, <2>2, <3>1 DEF LogStates
  <2>5. proc' = [proc EXCEPT ![p] = new]
    BY <1>3, <1>11, <2>1, <2>2, <2>3 DEF RenameBackup, LogStates
  <2>6. proc'[p] = new /\ \A q \in Servers \ {p} : proc'[q] = proc[q]
    BY <1>3, <2>5
  <2>7. proc'[p].at = next /\ proc'[p].open = proc[p].open /\ proc'[p].i = k - 1 /\ proc'[p].size = proc[p].size
    BY <2>6
  <2> HIDE DEF new
  <2>8. /\ UNCHANGED <<readers, written, faults, together>>
        /\ files' = IF files[k - 1] = NoLog \/ (k = 1 /\ Held) THEN files
                    ELSE [files EXCEPT ![k] = files[k - 1], ![k - 1] = NoLog]
    BY <1>11, <2>2 DEF RenameBackup
  <2>9. files' \in [0..Keep -> Seq(Nat) \cup {NoLog}]
    BY <1>1, <1>3, <2>1, <2>2, <2>8
  <2>10. LogTypes'
    BY <1>2, <2>4, <2>5, <2>8, <2>9 DEF LogTypes
  <2>11. ~proc[p].open
    BY <1>2, <2>1 DEF FieldsFollow, Rotating
  <2>12. FieldsFollow'
    <3>1. next # "off" /\ next # "opened" /\ next # "rename" /\ (next = "remove" => k - 1 > 0)
      BY <2>2, <2>3
    <3>2. QED
      BY <1>2, <2>6, <2>7, <2>11, <3>1 DEF FieldsFollow, Rotating
  <2>13. k > 1 \/ Held => files'[0] = files[0]
    BY <1>1, <1>3, <2>1, <2>2, <2>8
  <2>14. OpenHasFile'
    <3>1. Held => files'[0] = files[0]
      BY <2>13
    <3>2. ASSUME readers' > 0 PROVE files'[0] # NoLog
      BY <1>2, <2>8, <3>1, <3>2 DEF OpenHasFile, Held
    <3>3. ASSUME NEW q \in Servers, proc'[q].open PROVE files'[0] # NoLog /\ proc'[q].size <= Len(files'[0])
      <4>1. q # p /\ proc'[q] = proc[q]
        BY <2>6, <2>7, <2>11, <3>3
      <4>2. Held
        BY <3>3, <4>1 DEF Held
      <4>3. QED
        BY <1>2, <3>1, <3>3, <4>1, <4>2 DEF OpenHasFile
    <3>4. QED
      BY <3>2, <3>3 DEF OpenHasFile
  <2>15. ASSUME ~together PROVE OneRotates' /\ RoomAhead' /\ Following' /\ OlderBehind' /\ OldestGone'
    <3>1. files[0] # NoLog /\ Len(files[0]) >= MaxLines /\ files[k] = NoLog
      BY <1>4, <2>1, <2>2, <2>15 DEF RoomAhead
    <3>2. \A q \in Servers \ {p} : ~Rotating(q)
      BY <1>4, <2>1, <2>15 DEF OneRotates, Rotating
    <3>3. OneRotates'
      BY <2>6, <3>2 DEF OneRotates, Rotating
    <3>4. k > 1 => files'[k - 1] = NoLog /\ files'[0] = files[0]
      BY <1>1, <1>3, <2>1, <2>2, <2>8
    <3>5. RoomAhead'
      <4>1. ASSUME next = "remove" PROVE files'[k - 1] = NoLog /\ files'[0] = files[0]
        BY <2>2, <2>3, <3>4, <4>1
      <4>2. next # "rename"
        BY <2>3
      <4>3. QED
        BY <2>6, <2>7, <3>1, <3>2, <4>1, <4>2 DEF RoomAhead, Rotating
    <3>6. CASE files' = files
      <4>1. Following' /\ OlderBehind' /\ OldestGone'
        BY <1>4, <2>8, <2>15, <3>6, SameLines
      <4>2. QED
        BY <3>3, <3>5, <4>1
    <3>7. CASE files[k - 1] # NoLog /\ files' = [files EXCEPT ![k] = files[k - 1], ![k - 1] = NoLog]
      <4>1. Following' /\ OlderBehind' /\ OldestGone'
        BY <1>2, <1>4, <2>8, <2>15, <3>1, <3>7, MoveKeepsLines
      <4>2. QED
        BY <3>3, <3>5, <4>1
    <3>8. QED
      BY <2>8, <3>6, <3>7
  <2>16. QED
    BY <2>8, <2>10, <2>12, <2>14, <2>15 DEF LogInv
<1>12. ASSUME NEW p \in Servers, NEW new \in LogStates, proc' = [proc EXCEPT ![p] = new], ~new.open \/ (new.open = proc[p].open /\ new.size = proc[p].size),
              new.at \in {"off", "logged"}, new.at = "off" => ~new.open,
              UNCHANGED <<files, readers, written, together>>, faults' \in Nat
       PROVE  LogInv'
  <2>1. proc'[p] = new /\ \A q \in Servers \ {p} : proc'[q] = proc[q]
    BY <1>3, <1>12
  <2>2. LogTypes'
    BY <1>2, <1>12 DEF LogTypes
  <2>3. FieldsFollow'
    BY <1>2, <1>12, <2>1 DEF FieldsFollow, Rotating
  <2>4. OpenHasFile'
    BY <1>2, <1>12, <2>1 DEF OpenHasFile
  <2>5. ASSUME ~together PROVE OneRotates' /\ RoomAhead' /\ Following' /\ OlderBehind' /\ OldestGone'
    <3>1. OneRotates'
      BY <1>4, <1>12, <2>1, <2>5 DEF OneRotates, Rotating
    <3>2. RoomAhead'
      BY <1>4, <1>12, <2>1, <2>5 DEF RoomAhead
    <3>3. Following' /\ OlderBehind' /\ OldestGone'
      BY <1>4, <1>12, <2>5, SameLines
    <3>4. QED
      BY <3>1, <3>2, <3>3
  <2>6. QED
    BY <1>12, <2>2, <2>3, <2>4, <2>5 DEF LogInv
<1>13. ASSUME NEW p \in Servers, ReopenFails(p) PROVE LogInv'
  <2>1. proc[p] \in LogStates /\ ~proc[p].open
    BY <1>2, <1>3, <1>13 DEF ReopenFails, FieldsFollow, Rotating
  <2> DEFINE new == [at |-> "logged", open |-> proc[p].open, size |-> proc[p].size, i |-> proc[p].i]
  <2>2. new \in LogStates
    BY <2>1 DEF LogStates
  <2>3. proc' = [proc EXCEPT ![p] = new]
    <3>1. [proc[p] EXCEPT !.at = "logged"] = new
      BY <2>1 DEF LogStates
    <3>2. proc' = [proc EXCEPT ![p] = [proc[p] EXCEPT !.at = "logged"]]
      BY <1>13 DEF ReopenFails
    <3>3. QED
      BY <3>1, <3>2
  <2>4. faults' \in Nat
    BY <1>2, <1>13 DEF ReopenFails, LogTypes
  <2>5. QED
    BY <1>12, <1>13, <2>1, <2>2, <2>3, <2>4 DEF ReopenFails
<1>14. ASSUME NEW p \in Servers, CloseLog(p) PROVE LogInv'
  <2>1. PICK new \in LogStates : new = [at |-> "off", open |-> FALSE, size |-> 0, i |-> 0]
    BY <1>1 DEF LogStates
  <2>2. new.at = "off" /\ ~new.open /\ proc' = [proc EXCEPT ![p] = new]
    BY <1>14, <2>1 DEF CloseLog
  <2>3. UNCHANGED <<files, readers, written, together>> /\ faults' \in Nat
    BY <1>2, <1>14 DEF CloseLog, LogTypes
  <2>4. ~new.open \/ (new.open = proc[p].open /\ new.size = proc[p].size)
    BY <2>2
  <2>5. new.at \in {"off", "logged"} /\ (new.at = "off" => ~new.open)
    BY <2>2
  <2>6. QED
    BY <1>12, <2>2, <2>3, <2>4, <2>5
<1>15. CASE ReadLogs \/ ReadEnds
  <2>1. UNCHANGED <<files, proc, written, faults, together>> /\ readers' \in {0, 1} /\ (readers' = 1 => files[0] # NoLog)
    BY <1>15 DEF ReadLogs, ReadEnds
  <2>2. LogTypes' /\ FieldsFollow' /\ OpenHasFile'
    BY <1>2, <2>1 DEF LogTypes, FieldsFollow, OpenHasFile, Rotating
  <2>3. ~together => OneRotates' /\ RoomAhead'
    BY <1>4, <2>1 DEF OneRotates, RoomAhead, Rotating
  <2>4. ~together => Following' /\ OlderBehind' /\ OldestGone'
    BY <1>4, <2>1, SameLines
  <2>5. QED
    BY <2>1, <2>2, <2>3, <2>4 DEF LogInv
<1>16. CASE UNCHANGED logVars
  <2>1. UNCHANGED <<files, proc, readers, written, faults, together>>
    BY <1>16 DEF logVars
  <2>2. LogTypes' /\ FieldsFollow' /\ OpenHasFile'
    BY <1>2, <2>1 DEF LogTypes, FieldsFollow, OpenHasFile, Rotating
  <2>3. ~together => OneRotates' /\ RoomAhead'
    BY <1>4, <2>1 DEF OneRotates, RoomAhead, Rotating
  <2>4. ~together => Following' /\ OlderBehind' /\ OldestGone'
    BY <1>4, <2>1, SameLines
  <2>5. QED
    BY <2>1, <2>2, <2>3, <2>4 DEF LogInv
<1>17. QED
  BY <1>5, <1>7, <1>8, <1>9, <1>10, <1>11, <1>13, <1>14, <1>15, <1>16 DEF LogNext

\* The variables of the log keep their types, for any number of servers, backups, lines and failures.
THEOREM LogTypeCorrect == LogSpec => []LogTypes
<1>1. LogInv => LogTypes
  BY DEF LogInv
<1>2. QED
  BY <1>1, LogInitInv, LogInvHolds, PTL DEF LogSpec

\* Until two processes rotate at a time, rotation loses the oldest lines only and keeps a full file
\* of the latest, whatever is open, read or failing meanwhile.
THEOREM LatestKeptHolds == LogSpec => []LatestKept
<1>1. LogInv => LatestKept
  BY DEF LogInv, LatestKept
<1>2. QED
  BY <1>1, LogInitInv, LogInvHolds, PTL DEF LogSpec

-----------------------------------------------------------------------------
(* Facts                                                                     *)

USE ScopesAssumption, TTLAssumption, ClockAssumption, TagsAssumption, ValuesAssumption
    DEF ScopesAssumption, TTLAssumption, ClockAssumption, TagsAssumption, ValuesAssumption

\* A row was first written before it was last written, and that in the past.
WrittenInOrder ==
  \A id \in Ids : facts[id] # NoFact => facts[id].created <= facts[id].updated /\ facts[id].updated <= hour
MemoryInv == MemoryTypeOK /\ WrittenInOrder

LEMMA FactsAreWritten ==
  ASSUME NEW f \in Fact
  PROVE  f # NoFact /\ f.value # "none" /\ f.created \in Int /\ f.updated \in Int /\ f.ttl \in Nat
<1>1. f.value \in Elements \cup Notes
  BY DEF Fact
<1>2. f.value # "none" /\ NoFact.value = "none"
  BY <1>1 DEF NoFact
<1>3. f.created \in 0..MaxHour /\ f.updated \in 0..MaxHour /\ f.ttl \in TTLs \cup {UITTL, 0}
  BY DEF Fact
<1>4. f.ttl \in Nat
  <2>1. TTLs \cup {UITTL, 0} \subseteq Nat
    OBVIOUS
  <2>2. QED
    BY <1>3, <2>1, Zenon
<1>5. QED
  BY <1>2, <1>3, <1>4

LEMMA UpsertIsFact ==
  ASSUME MemoryTypeOK, NEW old \in Fact \cup {NoFact}, NEW value \in Elements \cup Notes,
         NEW tags \in SUBSET Pieces, NEW ttl \in TTLs \cup {UITTL, 0}
  PROVE  /\ Upsert(old, value, tags, ttl) \in Fact
         /\ Upsert(old, value, tags, ttl).value = value
         /\ Upsert(old, value, tags, ttl).created = Created(old)
         /\ Upsert(old, value, tags, ttl).updated = hour
         /\ Upsert(old, value, tags, ttl).ttl = ttl
<1>1. Created(old) \in 0..MaxHour /\ hour \in 0..MaxHour
  BY DEF MemoryTypeOK, Created, Fact
<1> HIDE DEF Created
<1>2. QED
  BY <1>1 DEF Upsert, Fact

\* A write keeps the order of its row's times and touches no other row.
LEMMA WriteKeeps ==
  ASSUME MemoryInv, UNCHANGED hour,
         facts' \in [Ids -> Fact \cup {NoFact}],
         \A id \in Ids : \/ facts'[id] \in {facts[id], NoFact}
                         \/ facts'[id].created = Created(facts[id]) /\ facts'[id].updated = hour
  PROVE  WrittenInOrder'
<1> SUFFICES ASSUME NEW id \in Ids, facts'[id] # NoFact
             PROVE  facts'[id].created <= facts'[id].updated /\ facts'[id].updated <= hour'
  BY DEF WrittenInOrder
<1>1. hour \in Nat /\ facts[id] \in Fact \cup {NoFact}
  BY DEF MemoryInv, MemoryTypeOK
<1>2. facts[id] # NoFact => facts[id].created <= facts[id].updated /\ facts[id].updated <= hour
  BY DEF MemoryInv, WrittenInOrder
<1>3. CASE facts'[id] = facts[id]
  BY <1>2, <1>3
<1>4. CASE facts'[id].created = Created(facts[id]) /\ facts'[id].updated = hour
  BY <1>1, <1>2, <1>4, FactsAreWritten DEF Created
<1>5. QED
  BY <1>3, <1>4

LEMMA DetectionKeeps ==
  ASSUME MemoryInv, UNCHANGED hour, NEW K \in SUBSET Keys, NEW seen \in [K -> Elements], StoreDetection(seen)
  PROVE  facts' \in [Ids -> Fact \cup {NoFact}] /\ WrittenInOrder'
<1> DEFINE tags == UITags \X {"tight"}
<1>1. tags \in SUBSET Pieces
  BY DEF Pieces
<1> HIDE DEF tags
<1>2. ASSUME NEW id \in Ids
      PROVE  /\ facts'[id] = IF id[2] = UIScope /\ id[1] \in K
                             THEN Upsert(facts[id], seen[id[1]], tags, UITTL) ELSE facts[id]
             /\ facts[id] \in Fact \cup {NoFact}
  BY DEF StoreDetection, MemoryInv, MemoryTypeOK, tags
<1>3. ASSUME NEW id \in Ids, id[2] = UIScope, id[1] \in K
      PROVE  /\ facts'[id] \in Fact /\ facts'[id].created = Created(facts[id]) /\ facts'[id].updated = hour
  BY <1>1, <1>2, <1>3, UpsertIsFact DEF MemoryInv
<1>4. facts' \in [Ids -> Fact \cup {NoFact}]
  <2>1. \A id \in Ids : facts'[id] \in Fact \cup {NoFact}
    BY <1>2, <1>3
  <2>2. facts' = [id \in Ids |-> facts'[id]]
    BY DEF StoreDetection
  <2>3. QED
    BY <2>1, <2>2
<1>5. QED
  BY <1>2, <1>3, <1>4, WriteKeeps

LEMMA MemoryInitInv == MemoryInit => MemoryInv
BY DEF MemoryInit, MemoryInv, MemoryTypeOK, WrittenInOrder, Finding

LEMMA MemoryNextInv == MemoryInv /\ [MemoryNext]_memVars => MemoryInv'
<1> SUFFICES ASSUME MemoryInv, [MemoryNext]_memVars PROVE MemoryInv'
  OBVIOUS
<1>0. MemoryTypeOK
  BY DEF MemoryInv
<1>1. ASSUME NEW id \in Ids, NEW v \in Elements \cup Notes, NEW tags \in TagTexts, NEW ttl \in TTLs,
             MemorySet(id, v, tags, ttl)
      PROVE  MemoryInv'
  <2> DEFINE new == Upsert(facts[id], v, tags, ttl)
  <2>1. tags \in SUBSET Pieces /\ facts[id] \in Fact \cup {NoFact}
    BY <1>0 DEF Pieces, MemoryTypeOK
  <2>2. new \in Fact /\ new.created = Created(facts[id]) /\ new.updated = hour
    <3>1. ttl \in TTLs \cup {UITTL, 0}
      OBVIOUS
    <3>2. PICK old \in Fact \cup {NoFact} : old = facts[id]
      BY <2>1
    <3>3. Upsert(old, v, tags, ttl) \in Fact
      BY <1>0, <2>1, <3>1, UpsertIsFact
    <3>4. Upsert(old, v, tags, ttl).created = Created(old)
      BY <1>0, <2>1, <3>1, UpsertIsFact
    <3>5. Upsert(old, v, tags, ttl).updated = hour
      BY <1>0, <2>1, <3>1, UpsertIsFact
    <3>6. QED
      BY <3>2, <3>3, <3>4, <3>5
  <2>3. facts' = [facts EXCEPT ![id] = new] /\ UNCHANGED <<hour, finding>>
    BY <1>1 DEF MemorySet
  <2> HIDE DEF new
  <2>4. facts' \in [Ids -> Fact \cup {NoFact}]
    BY <1>0, <2>2, <2>3 DEF MemoryTypeOK
  <2>5. WrittenInOrder'
    BY <1>0, <2>2, <2>3, <2>4, WriteKeeps DEF MemoryTypeOK
  <2>6. QED
    BY <1>0, <2>3, <2>4, <2>5 DEF MemoryInv, MemoryTypeOK
<1>2. ASSUME NEW key \in Keys \cup {""}, NEW scope \in Scopes \cup {""}, NEW tags \in SUBSET FactTags,
             NEW typed \in BOOLEAN, MemoryForget(key, scope, typed, tags)
      PROVE  MemoryInv'
  <2>1. /\ facts' \in [Ids -> Fact \cup {NoFact}] /\ UNCHANGED <<hour, finding>>
        /\ \A id \in Ids : facts'[id] \in {facts[id], NoFact}
    BY <1>0, <1>2 DEF MemoryForget, MemoryTypeOK
  <2>2. QED
    BY <1>0, <2>1, WriteKeeps DEF MemoryInv, MemoryTypeOK
<1>3. ASSUME NEW seen \in UNION {[K -> Elements] : K \in SUBSET Keys}, MemoryStoreDetectionElements(seen)
      PROVE  MemoryInv'
  <2>1. PICK K \in SUBSET Keys : seen \in [K -> Elements]
    OBVIOUS
  <2>2. StoreDetection(seen) /\ UNCHANGED <<hour, finding>>
    BY <1>3 DEF MemoryStoreDetectionElements
  <2>3. QED
    BY <1>0, <2>1, <2>2, DetectionKeeps DEF MemoryInv, MemoryTypeOK
<1>4. ASSUME NEW p \in Finders, NEW key \in Keys, FindInMemory(p, key) PROVE MemoryInv'
  <2>1. UNCHANGED <<facts, hour>>
    BY <1>4 DEF FindInMemory
  <2> DEFINE e == MemoryToElement(key)
             new == IF e # "none" THEN [at |-> "memory", key |-> key, element |-> e] ELSE [at |-> "screen", key |-> key]
  <2>2. e \in Elements \cup {"none"}
    BY DEF MemoryToElement
  <2> HIDE DEF e
  <2>3. new \in Finding
    BY <2>2 DEF Finding
  <2>4. finding' = [finding EXCEPT ![p] = new]
    BY <1>4 DEF FindInMemory, e
  <2> HIDE DEF new
  <2>5. QED
    BY <1>0, <2>1, <2>3, <2>4 DEF MemoryInv, MemoryTypeOK, WrittenInOrder
<1>5. ASSUME NEW p \in Finders, finding[p].at = "screen" 
      PROVE  /\ finding[p].key \in Keys
             /\ \A s \in {"prior", "onnx", "none", "ocr"} :
                  [finding EXCEPT ![p].at = s] \in [Finders -> Finding]
  <2>1. finding[p] \in [at : {"screen"}, key : Keys]
    BY <1>0, <1>5 DEF MemoryTypeOK, Finding, Idle
  <2>2. ASSUME NEW s \in {"prior", "onnx", "none", "ocr"} PROVE [finding EXCEPT ![p].at = s] \in [Finders -> Finding]
    <3>1. [finding[p] EXCEPT !.at = s] \in [at : {"prior", "onnx", "ocr", "none"}, key : Keys]
      BY <2>1
    <3>2. [finding[p] EXCEPT !.at = s] \in Finding
      BY <3>1 DEF Finding
    <3>3. QED
      BY <1>0, <3>2 DEF MemoryTypeOK
  <2>3. QED
    BY <2>1, <2>2
<1>6. ASSUME NEW p \in Finders, NEW s \in {"prior", "onnx", "none"}, FindElsewhere(p, s) PROVE MemoryInv'
  BY <1>5, <1>6 DEF FindElsewhere, MemoryInv, MemoryTypeOK, WrittenInOrder
<1>7. ASSUME NEW p \in Finders, NEW element \in Elements, FindByOCR(p, element) PROVE MemoryInv'
  <2>1. finding[p].key \in Keys /\ finding' \in [Finders -> Finding] /\ UNCHANGED hour
    BY <1>5, <1>7 DEF FindByOCR
  <2>2. /\ [key \in {finding[p].key} |-> element] \in [{finding[p].key} -> Elements]
        /\ StoreDetection([key \in {finding[p].key} |-> element])
    BY <1>7 DEF FindByOCR
  <2>3. facts' \in [Ids -> Fact \cup {NoFact}] /\ WrittenInOrder'
    BY <2>1, <2>2, DetectionKeeps
  <2>4. QED
    BY <1>0, <2>1, <2>3 DEF MemoryInv, MemoryTypeOK
<1>8. CASE HourPasses
  BY <1>0, <1>8, FactsAreWritten DEF HourPasses, MemoryInv, MemoryTypeOK, WrittenInOrder
<1>9. CASE UNCHANGED memVars
  BY <1>9 DEF memVars, MemoryInv, MemoryTypeOK, WrittenInOrder
<1>10. QED
  BY <1>1, <1>2, <1>3, <1>4, <1>6, <1>7, <1>8, <1>9 DEF MemoryNext

\* Every variable of the fact store stays in its type.
THEOREM MemoryTypeCorrect == MemorySpec => []MemoryTypeOK
<1>1. MemoryInv => MemoryTypeOK
  BY DEF MemoryInv
<1>2. QED
  BY <1>1, MemoryInitInv, MemoryNextInv, PTL DEF MemorySpec

LEMMA StoreIsFinite == IsFiniteSet(Ids)
BY FS_Product, FinitelyMany DEF Ids, FinitelyMany

LEMMA AnswersInTime == MemoryInv => ServedInTime
<1> SUFFICES ASSUME MemoryInv, NEW id \in Ids, Live(id), facts[id].ttl > 0
             PROVE  hour - facts[id].updated <= facts[id].ttl
  BY DEF ServedInTime
<1>1. facts[id] \in Fact /\ hour \in Int
  BY DEF MemoryInv, MemoryTypeOK, Live
<1>2. facts[id].created <= facts[id].updated
  BY DEF MemoryInv, WrittenInOrder, Live
<1>3. hour - facts[id].created <= facts[id].ttl
  BY <1>1, FactsAreWritten DEF Live, Expired
<1>4. QED
  BY <1>1, <1>2, <1>3, FactsAreWritten

LEMMA FiltersNarrow == TagsNarrow
BY DEF TagsNarrow, Selected, Tagged

\* A choice of as many as the limit allows leaves something out only when it is full.
LEMMA LimitFull ==
  ASSUME NEW rows \in SUBSET Ids, NEW limit \in Nat, NEW top \in Best(rows, limit), NEW id \in rows \ top
  PROVE  /\ IsFiniteSet(rows) /\ IsFiniteSet(top) /\ top \subseteq rows
         /\ Cardinality(top) = limit /\ Cardinality(rows) > limit /\ Cardinality(rows) \in Nat
<1>1. IsFiniteSet(rows) /\ top \subseteq rows
  BY StoreIsFinite, FS_Subset DEF Best
<1>2. IsFiniteSet(top) /\ Cardinality(top) # Cardinality(rows)
  BY <1>1, FS_Subset
<1>3. Cardinality(rows) \in Nat
  BY <1>1, FS_CardinalityType
<1>4. QED
  BY <1>1, <1>2, <1>3 DEF Best

LEMMA ListsAnswer == MemoryInv => ListsNewest
<1> SUFFICES ASSUME MemoryInv, NEW scope \in Scopes \cup {""}, NEW limit \in Limits
             PROVE  ListsNewest!(scope, limit)
  BY DEF ListsNewest
<1> DEFINE rows == Selected(scope, {})
           Fresher(id) == {o \in rows \ {id} : facts[o].updated >= facts[id].updated}
<1>1. rows \subseteq Ids /\ \A id \in rows : facts[id] \in Fact
  BY DEF Selected, MemoryInv, MemoryTypeOK
<1>2. ASSUME NEW shown \in MemoryList(scope, {}, limit)
      PROVE  /\ \A id \in shown : MemoryGet(id) # "none"
             /\ \A id \in rows \ shown : Live(id) => Cardinality(Fresher(id)) >= limit
  <2>1. PICK top \in Newest(rows, limit) : shown = {id \in top : Live(id)}
    BY DEF MemoryList
  <2> HIDE DEF rows
  <2>2. top \in Best(rows, limit)
    BY <2>1 DEF Newest, Best
  <2>3. \A id \in shown : MemoryGet(id) # "none"
    BY <1>1, <2>1, FactsAreWritten DEF Newest, MemoryGet
  <2>4. ASSUME NEW id \in rows \ shown, Live(id) PROVE Cardinality(Fresher(id)) >= limit
    <3>1. id \in rows \ top
      BY <2>1, <2>4
    <3>2. /\ IsFiniteSet(rows) /\ top \subseteq rows /\ Cardinality(top) = limit
      BY <1>1, <2>2, <3>1, LimitFull
    <3>3. top \subseteq Fresher(id)
      BY <2>1, <3>1, <3>2 DEF Newest
    <3>4. IsFiniteSet(Fresher(id))
      BY <3>2, FS_Subset
    <3>5. Cardinality(top) <= Cardinality(Fresher(id))
      BY <3>3, <3>4, FS_Subset
    <3>6. Cardinality(Fresher(id)) \in Nat
      BY <3>4, FS_CardinalityType
    <3>7. QED
      BY <3>2, <3>5, <3>6
  <2>5. QED
    BY <2>3, <2>4
<1>3. ASSUME NEW v \in Elements \cup Notes, NEW shown \in MemorySearch(v, scope, limit),
             NEW id \in {m \in rows : facts[m].value = v} \ shown, Live(id)
      PROVE  Cardinality({m \in rows : facts[m].value = v}) > limit
  <2> DEFINE matches == {m \in rows : facts[m].value = v}
  <2>1. PICK top \in Best(matches, limit) : shown = {m \in top : Live(m)}
    BY DEF MemorySearch
  <2>2. id \in matches \ top /\ matches \subseteq Ids
    BY <1>1, <1>3, <2>1
  <2> HIDE DEF matches
  <2>3. Cardinality(matches) > limit
    BY <2>1, <2>2, LimitFull
  <2>4. QED
    BY <2>3 DEF matches
<1>4. QED
  BY <1>2, <1>3

\* A place OCR stores is alive when its row is new or within its hour.
LEMMA FindIsStored == MemoryInv => OCRRemembered
<1> SUFFICES ASSUME MemoryInv, NEW p \in Finders, NEW element \in Elements, FindByOCR(p, element),
                    LET id == <<finding[p].key, UIScope>>
                    IN  facts[id] = NoFact \/ hour - facts[id].created <= UITTL
             PROVE  MemoryToElement(finding[p].key)' = element
  BY DEF OCRRemembered
<1>1. PICK key \in Keys : key = finding[p].key /\ key = finding'[p].key
  <2>1. finding[p] \in Finding /\ finding[p].at = "screen"
    BY DEF FindByOCR, MemoryInv, MemoryTypeOK
  <2>2. finding[p] \in [at : {"screen"}, key : Keys]
    BY <2>1 DEF Finding, Idle
  <2>3. finding'[p].key = finding[p].key
    BY <2>2 DEF FindByOCR, MemoryInv, MemoryTypeOK
  <2>4. QED
    BY <2>2, <2>3
<1> DEFINE id == <<key, UIScope>>
           tags == UITags \X {"tight"}
           new == Upsert(facts[id], element, tags, UITTL)
<1>2. id \in Ids /\ hour' = hour /\ facts'[id] = new
  BY <1>1 DEF FindByOCR, Ids, StoreDetection
<1>3. tags \in SUBSET Pieces /\ facts[id] \in Fact \cup {NoFact} /\ hour \in Int
  BY <1>2 DEF Pieces, MemoryInv, MemoryTypeOK
<1> HIDE DEF tags
<1>4. /\ new \in Fact /\ new.value = element /\ new.created = Created(facts[id]) /\ new.ttl = UITTL
  BY <1>3, UpsertIsFact DEF MemoryInv
<1> HIDE DEF new
<1>5. facts'[id].value = element /\ facts'[id] # NoFact /\ ~(hour' - facts'[id].created > UITTL)
  BY <1>1, <1>2, <1>3, <1>4, FactsAreWritten DEF Created
<1> HIDE DEF id
<1>6. Live(id)'
  BY <1>2, <1>4, <1>5 DEF Live, Expired, id
<1>7. MemoryGet(id)' = element
  BY <1>5, <1>6 DEF MemoryGet, id
<1>8. MemoryToElement(key)' = element
  BY <1>7 DEF MemoryToElement, id
<1>9. QED
  BY <1>1, <1>8 DEF MemoryToElement

\* Memory answers what is in time and asked for, and what was found by reading the screen
\* need not be read again: in every behaviour, for every key, scope and limit.
THEOREM FactsServeHolds == MemorySpec => FactsServe
<1>1. MemoryInv => ListAnswers
  BY AnswersInTime, FiltersNarrow, ListsAnswer DEF ListAnswers
<1>2. MemoryInv /\ [MemoryNext]_memVars => [OCRRemembered]_memVars
  BY FindIsStored
<1>3. QED
  BY <1>1, <1>2, MemoryInitInv, MemoryNextInv, PTL DEF MemorySpec, FactsServe, OCRPaysOff

-----------------------------------------------------------------------------
(* The search of the screen                                                  *)

USE ScreenAssumption, ScrollAssumption, HitsAssumption
    DEF ScreenAssumption, ScrollAssumption, HitsAssumption

\* What is added to the place of a word is the edge of what was captured, until the
\* window moves; and the text is clicked where it was seen.
RightEdge ==
  CASE call.at = "rect" -> call.mode = "region" => call.offset = left
    [] call.at = "capture" -> call.offset = IF call.mode = "screen" THEN ScreenLeft ELSE left
    [] call.at = "fallback" -> call.mode = "window" /\ call.offset = ScreenLeft
    [] OTHER -> TRUE
TextSeen ==
  call.at \in {"click", "done"} /\ call.kind = "click" /\ (call.mode = "window" => left >= ScreenLeft)
    => call.target = TextX
SearchInv ==
  /\ SearchTypeOK
  /\ ~call.moved /\ call.mode # "small" => RightEdge /\ TextSeen

CallStates ==
  [at : {"idle", "rect", "capture", "fallback", "click", "done", "failed"}, kind : Kinds,
   mode : Modes, attempt : 0..MaxScrolls, polls : 0..MaxPolls, offset : Int, target : Int, moved : BOOLEAN]

LEMMA NoCallState == NoCall \in CallStates /\ NoCall.at = "idle"
BY DEF NoCall, CallStates, Kinds, Modes

LEMMA SearchInitInv == SearchInit => SearchInv
<1> SUFFICES ASSUME SearchInit PROVE SearchInv
  OBVIOUS
<1>1. QED
  BY NoCallState DEF SearchInit, SearchInv, SearchTypeOK, CallStates, RightEdge, TextSeen

\* The steps of a call leave window and templates alone.
LEMMA CallKeeps ==
  ASSUME SearchInv, UNCHANGED <<left, hits, seeking>>, call' \in CallStates,
         ~call'.moved /\ call'.mode # "small" => RightEdge' /\ TextSeen'
  PROVE  SearchInv'
BY DEF SearchInv, SearchTypeOK, CallStates

LEMMA SearchNextInv == SearchInv /\ [SearchNext]_searchVars => SearchInv'
<1> SUFFICES ASSUME SearchInv, [SearchNext]_searchVars PROVE SearchInv'
  OBVIOUS
<1>0. /\ left \in Int /\ call \in CallStates /\ SearchTypeOK
      /\ ~call.moved /\ call.mode # "small" => RightEdge /\ TextSeen
  BY DEF SearchInv, SearchTypeOK, CallStates
<1>1. ASSUME NEW kind \in Kinds, NEW mode \in Modes, Begin(kind, mode) PROVE SearchInv'
  <2>1. /\ call' = [NoCall EXCEPT !.at = "rect", !.kind = kind, !.mode = mode, !.offset = left]
        /\ UNCHANGED <<left, hits, seeking>>
    BY <1>1 DEF Begin
  <2>2. call' \in CallStates /\ call'.at = "rect" /\ call'.offset = left
    BY <1>0, <2>1, NoCallState DEF CallStates
  <2>3. RightEdge' /\ TextSeen'
    BY <2>1, <2>2 DEF RightEdge, TextSeen
  <2>4. QED
    BY <2>1, <2>2, <2>3, CallKeeps
<1>2. CASE SystemFind
  <2>1. call' = [call EXCEPT !.at = "done", !.target = TextX] /\ UNCHANGED <<left, hits, seeking>>
    BY <1>2 DEF SystemFind
  <2>2. TextX \in Int
    BY <1>0 DEF TextX
  <2>3. call' \in CallStates /\ call'.at = "done" /\ call'.target = TextX
    BY <1>0, <2>1, <2>2 DEF CallStates
  <2>4. RightEdge' /\ TextSeen'
    BY <2>1, <2>3 DEF RightEdge, TextSeen, TextX
  <2>5. QED
    BY <2>1, <2>3, <2>4, CallKeeps
<1>3. CASE ReadRect
  BY <1>0, <1>3, CallKeeps DEF ReadRect, CaptureOffset, CallStates, RightEdge, TextSeen, Modes
<1>4. CASE FallBack
  BY <1>0, <1>4, CallKeeps DEF FallBack, CallStates, RightEdge, TextSeen
<1>5. CASE Seen
  <2> DEFINE place == (TextX - Origin(call)) + call.offset
             next == IF call.kind = "click" THEN "click" ELSE "done"
  <2>1. /\ call.at \in {"capture", "fallback"} /\ ScreenLeft <= TextX /\ TextX < ScreenEnd
        /\ call' = [call EXCEPT !.at = next, !.target = place] /\ UNCHANGED <<left, hits, seeking>>
    BY <1>5 DEF Seen, Capturing, InView, Visible
  <2>2. TextX \in Int /\ ScreenEnd \in Int /\ TextX >= left /\ ScreenEnd > ScreenLeft /\ call.offset \in Int
    BY <1>0 DEF TextX, ScreenEnd, CallStates
  <2>3. left \div 1 = left /\ WinWidth \div 20 \in Int
    BY <1>0
  <2>4. Source(call) \in Modes
    BY <1>0, <2>1 DEF Source, CallStates, Modes
  <2>5. Origin(call) \in Int
    BY <1>0, <2>2, <2>3, <2>4 DEF Origin, OCRWindowOrigin, Clamp32, ProportionalRegion, Modes
  <2>6. ASSUME RightEdge, call.mode # "small", call.mode = "window" => left >= ScreenLeft
        PROVE  place = TextX
    <3>1. Origin(call) = call.offset
      <4>1. CASE Source(call) = "window"
        BY <1>0, <2>1, <2>2, <2>6, <4>1 DEF Source, Origin, OCRWindowOrigin, Clamp32, RightEdge
      <4>2. CASE Source(call) = "screen"
        BY <1>0, <2>1, <2>6, <4>2 DEF Source, Origin, RightEdge
      <4>3. CASE Source(call) = "region"
        BY <4>3 DEF Origin
      <4>4. CASE Source(call) = "small"
        BY <2>6, <4>4 DEF Source
      <4>5. QED
        BY <2>4, <4>1, <4>2, <4>3, <4>4 DEF Modes
    <3>2. QED
      BY <2>2, <3>1
  <2> HIDE DEF place, next
  <2>7. place \in Int /\ next \in {"click", "done"}
    BY <2>2, <2>5 DEF place, next
  <2>8. /\ call' \in CallStates /\ call'.at = next /\ call'.target = place
        /\ call'.mode = call.mode /\ call'.moved = call.moved
    BY <1>0, <2>1, <2>7 DEF CallStates
  <2>9. ~call'.moved /\ call'.mode # "small" => RightEdge' /\ TextSeen'
    BY <1>0, <2>1, <2>6, <2>7, <2>8 DEF RightEdge, TextSeen, TextX
  <2>10. QED
    BY <2>1, <2>8, <2>9, CallKeeps
<1>6. CASE NotSeen
  <2>1. /\ call.at \in {"capture", "fallback"} /\ UNCHANGED <<left, hits, seeking>>
        /\ LookAgain \/ GiveUp
    BY <1>6 DEF NotSeen, Capturing
  <2>2. /\ call' \in CallStates /\ call'.at \in {"rect", "failed"}
        /\ call'.mode = call.mode /\ call'.moved = call.moved /\ call'.offset = call.offset
        /\ call'.at = "rect" => call.at \in {"capture", "fallback"}
    <3>1. CASE GiveUp
      BY <1>0, <2>1, <3>1 DEF GiveUp, CallStates
    <3>2. CASE LookAgain
      <4>1. /\ call.attempt \in 0..MaxScrolls /\ call.polls \in 0..MaxPolls
            /\ call.polls + 1 < MaxPolls
        BY <1>0, <3>2 DEF LookAgain, CallStates
      <4>2. CASE MayScroll(call) /\ call' = [call EXCEPT !.at = "rect", !.attempt = @ + 1, !.polls = @ + 1]
        <5>1. call.attempt + 1 \in 0..MaxScrolls /\ call.polls + 1 \in 0..MaxPolls
          BY <4>1, <4>2 DEF MayScroll
        <5>2. QED
          BY <1>0, <2>1, <4>2, <5>1 DEF CallStates
      <4>3. CASE call' = [call EXCEPT !.at = "rect", !.polls = @ + 1]
        <5>1. call.polls + 1 \in 0..MaxPolls
          BY <4>1
        <5>2. QED
          BY <1>0, <2>1, <4>3, <5>1 DEF CallStates
      <4>4. QED
        BY <3>2, <4>2, <4>3 DEF LookAgain
    <3>3. QED
      BY <2>1, <3>1, <3>2
  <2>3. ~call'.moved /\ call'.mode # "small" => RightEdge' /\ TextSeen'
    BY <1>0, <2>1, <2>2 DEF RightEdge, TextSeen
  <2>4. QED
    BY <2>1, <2>2, <2>3, CallKeeps
<1>7. CASE OCRFails
  BY <1>0, <1>7, CallKeeps DEF OCRFails, CallStates, RightEdge, TextSeen
<1>8. CASE ClickIt
  <2>1. PICK s \in {"done", "failed"} : call' = [call EXCEPT !.at = s]
    BY <1>8 DEF ClickIt
  <2>2. call.at = "click" /\ UNCHANGED <<left, hits, seeking>>
    BY <1>8 DEF ClickIt
  <2>3. /\ call' \in CallStates /\ call'.at = s /\ call'.kind = call.kind /\ call'.target = call.target
        /\ call'.mode = call.mode /\ call'.moved = call.moved
    BY <1>0, <2>1 DEF CallStates
  <2>4. ~call'.moved /\ call'.mode # "small" => RightEdge' /\ TextSeen'
    BY <1>0, <2>2, <2>3 DEF RightEdge, TextSeen, TextX
  <2>5. QED
    BY <2>2, <2>3, <2>4, CallKeeps
<1>9. ASSUME NEW x \in Lefts, MoveWindow(x) PROVE SearchInv'
  BY <1>0, <1>9 DEF MoveWindow, SearchInv, SearchTypeOK, CallStates
<1>10. ASSUME NEW k \in TemplateKeys, TemplateStore(k) \/ TemplateForget(k) PROVE SearchInv'
  BY <1>0, <1>10 DEF TemplateStore, TemplateForget, SearchInv, SearchTypeOK, RightEdge, TextSeen, TextX
<1>11. ASSUME NEW p \in Seekers, NEW k \in TemplateKeys, TemplateFind(p, k) PROVE SearchInv'
  BY <1>0, <1>11 DEF TemplateFind, SearchInv, SearchTypeOK, RightEdge, TextSeen, TextX
<1>12. ASSUME NEW p \in Seekers, TemplateFound(p) \/ TemplateMissed(p) PROVE SearchInv'
  BY <1>0, <1>12 DEF TemplateFound, TemplateMissed, Counted, SearchInv, SearchTypeOK, RightEdge, TextSeen, TextX
<1>13. CASE UNCHANGED searchVars
  BY <1>0, <1>13 DEF searchVars, SearchInv, SearchTypeOK, RightEdge, TextSeen, TextX
<1>14. QED
  BY <1>1, <1>2, <1>3, <1>4, <1>5, <1>6, <1>7, <1>8, <1>9, <1>10, <1>11, <1>12, <1>13 DEF SearchNext, CallStep

\* Every variable of the search stays in its type.
THEOREM SearchTypeCorrect == SearchSpec => []SearchTypeOK
<1>1. SearchInv => SearchTypeOK
  BY DEF SearchInv
<1>2. QED
  BY <1>1, SearchInitInv, SearchNextInv, PTL DEF SearchSpec

\* FindTextAndClick clicks where the text is: on every screen, after any number of scrolls
\* and fallbacks, as long as the window stays where it was.
THEOREM ClicksTheTextHolds == SearchSpec => []ClicksTheText
<1>1. SearchInv => ClicksTheText
  BY DEF SearchInv, ClicksTheText, TextSeen
<1>2. QED
  BY <1>1, SearchInitInv, SearchNextInv, PTL DEF SearchSpec

\* No step but a new store brings a forgotten template back, at whatever moment a search
\* that had read it ends.
THEOREM ForgottenStaysHolds == SearchSpec => ForgottenStays
<1> DEFINE Stays == \A k \in TemplateKeys : hits[k] = 0 /\ hits'[k] > 0 => TemplateStore(k)
<1>1. SearchInv /\ [SearchNext]_searchVars => [Stays]_searchVars
  <2> SUFFICES ASSUME SearchInv, SearchNext, NEW k \in TemplateKeys, hits[k] = 0, hits'[k] > 0
               PROVE  TemplateStore(k)
    OBVIOUS
  <2>1. hits \in [TemplateKeys -> 0..MaxHits] /\ hits'[k] # hits[k]
    BY DEF SearchInv, SearchTypeOK
  <2>2. \/ \E t \in TemplateKeys : TemplateStore(t) \/ TemplateForget(t)
        \/ \E p \in Seekers : TemplateFound(p)
    BY <2>1 DEF SearchNext, Begin, SystemFind, FallBack, OCRFails, CallStep, ReadRect, Seen, NotSeen, ClickIt,
                MoveWindow, TemplateFind, TemplateMissed
  <2>3. ASSUME NEW t \in TemplateKeys, TemplateStore(t) PROVE t = k
    BY <2>1, <2>3 DEF TemplateStore
  <2>4. ASSUME NEW t \in TemplateKeys, TemplateForget(t) PROVE FALSE
    BY <2>1, <2>4 DEF TemplateForget
  <2>5. ASSUME NEW p \in Seekers, TemplateFound(p) PROVE FALSE
    BY <2>1, <2>5 DEF TemplateFound, Counted
  <2>6. QED
    BY <2>2, <2>3, <2>4, <2>5
<1>2. QED
  BY <1>1, SearchInitInv, SearchNextInv, PTL DEF SearchSpec, ForgottenStays
=============================================================================
