-------------------------------- MODULE Files --------------------------------
(* The file tools of filesystem.go and their handlers in server.go.  Calls of *)
(* several clients interleave: nothing is locked but the one variable that    *)
(* holds the working directory, and every path of a call reads it anew.       *)
EXTENDS Integers, Sequences, FiniteSets

CONSTANTS FileCallers, FileNames,
          FileRows,                 \* what a row of text may be
          Formats,                  \* name -> how files of that name are written
          ProcessDir,               \* the directory the process was started in
          FirstTree,                \* what is on disk before the first call
          FileRequests, MaxDepth, MaxFileCalls

ASSUME FileBounds ==
  /\ MaxDepth \in Nat /\ MaxFileCalls \in Nat
  /\ Formats \in [FileNames -> {"text", "docx", "xlsx", "pdf"}]
  /\ IsFiniteSet(FileNames) /\ ProcessDir \in Seq(FileNames)

VARIABLES tree,                     \* absolute path -> what is there
          workDir,                  \* workingDir
          fileCall,                 \* caller -> its call, as far as it has got
          overlapped,               \* callers whose call ran beside another's
          reader,                   \* a client that reads a file page by page
          fileCalls

fileVars == <<tree, workDir, fileCall, overlapped, reader, fileCalls>>

Paths == UNION {[1..n -> FileNames] : n \in 1..MaxDepth}
NoNode == [kind |-> "none"]
Dir == [kind |-> "dir"]
TextFile(rows) == [kind |-> "file", rows |-> rows, form |-> FALSE]
Nodes == {NoNode, Dir} \cup [kind : {"file"}, rows : Seq(FileRows), form : BOOLEAN]
Parent(p) == SubSeq(p, 1, Len(p) - 1)
Below(p) == {x \in Paths : Len(x) > Len(p) /\ SubSeq(x, 1, Len(p)) = p}
ASSUME FirstTreeAssumption ==
  /\ FirstTree \in [Paths -> Nodes]
  /\ \A p \in Paths : FirstTree[p] # NoNode => Parent(p) = <<>> \/ FirstTree[Parent(p)] = Dir
ASSUME FileRequestsAssumption == \A req \in FileRequests :
  /\ req.tool \in {"write", "copy", "move", "delete", "create", "chdir"}
  /\ req.src.path \in Seq(FileNames) /\ req.rows \in Seq(FileRows)
  /\ req.tool \in {"copy", "move"} => req.dst.path \in Seq(FileNames)

IsDir(p) == p = <<>> \/ (p \in Paths /\ tree[p] = Dir)
IsThere(p) == p = <<>> \/ (p \in Paths /\ tree[p] # NoNode)
IsFile(p) == IsThere(p) /\ ~IsDir(p)
NotFiles(p) == \A n \in 1..Len(p) : ~IsFile(SubSeq(p, 1, n))

NoFileCall == [at |-> "idle"]
Going(c) == fileCall[c].at \notin {"idle", "ok", "failed"}
FileEnds(c, how) == fileCall' = [fileCall EXCEPT ![c].at = how]
FileGoes(c, s) == fileCall' = [fileCall EXCEPT ![c].at = s]

-----------------------------------------------------------------------------
(* resolvePath: an absolute path is taken as it is.  A path longer than the   *)
(* system allows resolves, and no operation on it succeeds.                   *)
\* Mutant: relative to where the process was started.
ResolveFromStart(arg) == IF arg.abs THEN arg.path ELSE ProcessDir \o arg.path
ResolvePath(arg) == IF arg.abs THEN arg.path ELSE workDir \o arg.path
\* The checks before and after a call hand the path as it came to the system.
AsProcess(arg) == IF arg.abs THEN arg.path ELSE ProcessDir \o arg.path

(* os.MkdirAll: a file on the way is an error.                                *)
CanMkdirAll(p) == Len(p) <= MaxDepth /\ NotFiles(p)
MkdirAll(t, p) == [x \in Paths |-> IF Len(x) <= Len(p) /\ SubSeq(p, 1, Len(x)) = x THEN Dir ELSE t[x]]

(* What a write leaves in a file: text and Word replace what was there, a     *)
(* workbook's cells are overwritten one by one and the others stay, the       *)
(* fields of a form are filled and its text stays.                            *)
Written(p, rows, wasNew) ==
  LET old == IF IsFile(p) THEN tree[p] ELSE TextFile(<<>>)
      format == Formats[p[Len(p)]]
  IN CASE format = "xlsx" -> TextFile(rows \o SubSeq(old.rows, Len(rows) + 1, Len(old.rows)))
       [] format = "pdf" /\ ~wasNew /\ old.form -> old
       [] OTHER -> TextFile(rows)

-----------------------------------------------------------------------------
(* A request names its tool, its paths and, in pre and post, what is expected *)
(* before and after: nothing, a path to be there or gone, or a change.        *)
Expectation(e, arg) ==
  CASE e.kind = "there" -> IsThere(AsProcess(e.arg))
    [] e.kind = "gone" -> ~IsThere(AsProcess(e.arg))
    [] OTHER -> TRUE
FilePreCheck(req) ==
  IF req.pre.kind = "change" THEN IsThere(AsProcess(req.src)) ELSE Expectation(req.pre, req.src)

(* (Answered calls of others are forgotten: what they did may be undone.)     *)
FileBegin(c, req) ==
  /\ ~Going(c) /\ fileCalls < MaxFileCalls
  /\ fileCalls' = fileCalls + 1
  /\ fileCall' = [d \in FileCallers |->
       IF d = c THEN [at |-> IF ~FilePreCheck(req) THEN "failed"
                             ELSE IF req.tool = "chdir" THEN "chdir" ELSE "src",
                      req |-> req, p |-> <<>>, q |-> <<>>, fresh |-> FALSE, todo |-> <<>>, was |-> tree]
       ELSE IF Going(d) THEN fileCall[d] ELSE NoFileCall]
  /\ overlapped' = IF \E d \in FileCallers \ {c} : Going(d)
                   THEN overlapped \cup {c} \cup {d \in FileCallers : Going(d)} ELSE overlapped \ {c}
  /\ UNCHANGED <<tree, workDir, reader>>

(* copy_file and move_file resolve two paths, one after the other.            *)
ResolveSource(c) ==
  /\ fileCall[c].at = "src"
  /\ LET p == ResolvePath(fileCall[c].req.src) IN
       fileCall' = [fileCall EXCEPT ![c] = [@ EXCEPT !.p = p, !.q = p, !.todo = <<>>,
         !.at = IF fileCall[c].req.tool \in {"copy", "move"} THEN "dst" ELSE fileCall[c].req.tool]]
  /\ UNCHANGED <<tree, workDir, overlapped, reader, fileCalls>>
ResolveDestination(c) ==
  /\ fileCall[c].at = "dst"
  /\ LET q == ResolvePath(fileCall[c].req.dst) IN
       fileCall' = [fileCall EXCEPT ![c] = [@ EXCEPT !.q = q, !.at = fileCall[c].req.tool,
                                                     !.todo = <<<<fileCall[c].p, q>>>>]]
  /\ UNCHANGED <<tree, workDir, overlapped, reader, fileCalls>>

(* write_file looks, and then makes the directories and writes.               *)
WriteLook(c) ==
  /\ fileCall[c].at = "write"
  /\ LET there == IsThere(fileCall[c].p) IN
       IF there /\ ~fileCall[c].req.overwrite THEN FileEnds(c, "failed")
       ELSE fileCall' = [fileCall EXCEPT ![c] = [@ EXCEPT !.at = "put", !.fresh = ~there]]
  /\ UNCHANGED <<tree, workDir, overlapped, reader, fileCalls>>
WriteFile(c) ==
  /\ fileCall[c].at = "put"
  /\ LET p == fileCall[c].p IN
       IF CanMkdirAll(Parent(p)) /\ Len(p) <= MaxDepth /\ ~IsDir(p)
       THEN /\ tree' = [MkdirAll(tree, Parent(p)) EXCEPT ![p] = Written(p, fileCall[c].req.rows, fileCall[c].fresh)]
            /\ FileGoes(c, "verify")
       ELSE FileEnds(c, "failed") /\ UNCHANGED tree
  /\ UNCHANGED <<workDir, overlapped, reader, fileCalls>>

(* CopyFile and copyDir: one file or directory at a time, a directory before  *)
(* what ReadDir finds in it then.  The first error ends the call, and what is *)
(* copied stays.                                                              *)
Entries(t, s, d) ==
  LET found == {<<Append(s, n), Append(d, n)>> :
                  n \in {n \in FileNames : Append(s, n) \in Paths /\ t[Append(s, n)] # NoNode}}
  IN {order \in [1..Cardinality(found) -> found] : \A e \in found : \E n \in DOMAIN order : order[n] = e}
CopyOne(c) ==
  /\ fileCall[c].at = "copy"
  /\ LET s == fileCall[c].todo[1][1]
         d == fileCall[c].todo[1][2]
         rest == Tail(fileCall[c].todo)
         Goes(todo) == fileCall' = [fileCall EXCEPT ![c] =
                         [@ EXCEPT !.todo = todo, !.at = IF todo = <<>> THEN "verify" ELSE "copy"]]
     IN CASE IsDir(s) /\ CanMkdirAll(d) ->
               /\ tree' = MkdirAll(tree, d)
               /\ \E found \in Entries(MkdirAll(tree, d), s, d) : Goes(found \o rest)
          [] IsFile(s) /\ Len(d) <= MaxDepth /\ CanMkdirAll(Parent(d)) /\ ~IsDir(d) ->
               /\ tree' = [MkdirAll(tree, Parent(d)) EXCEPT ![d] = tree[s]]
               /\ Goes(rest)
          [] OTHER -> FileEnds(c, "failed") /\ UNCHANGED tree
  /\ UNCHANGED <<workDir, overlapped, reader, fileCalls>>

(* move_file makes the destination's directory first, also for a move that    *)
(* then fails.  A rename replaces a file, and no directory.                   *)
MoveFile(c) ==
  /\ fileCall[c].at = "move"
  /\ LET p == fileCall[c].p
         q == fileCall[c].q
         made == MkdirAll(tree, Parent(q))
         From(x) == p \o SubSeq(x, Len(q) + 1, Len(x))
         moved == [x \in Paths |->
           IF x = q \/ x \in Below(q) THEN IF From(x) \in Paths THEN made[From(x)] ELSE NoNode
           ELSE IF x = p \/ x \in Below(p) THEN NoNode ELSE made[x]]
         Fits(x) == Len(x) - Len(p) + Len(q) <= MaxDepth
         CanRename == /\ p # <<>> /\ IsThere(p)
                      /\ \A x \in {p} \cup Below(p) : IsThere(x) => Fits(x)
                      /\ IF IsDir(p) THEN ~IsThere(q) /\ q \notin Below(p) ELSE ~IsDir(q)
     IN IF ~CanMkdirAll(Parent(q)) THEN FileEnds(c, "failed") /\ UNCHANGED tree
        ELSE IF CanRename THEN tree' = moved /\ FileGoes(c, "verify")
        ELSE tree' = made /\ FileEnds(c, "failed")
  /\ UNCHANGED <<workDir, overlapped, reader, fileCalls>>

(* The recycle bin takes a directory with all that is in it, or refuses.      *)
DeleteFile(c) ==
  /\ fileCall[c].at = "delete"
  /\ LET p == fileCall[c].p IN
       \/ IsThere(p) /\ p # <<>> /\ FileGoes(c, "verify")
          /\ tree' = [x \in Paths |-> IF x = p \/ x \in Below(p) THEN NoNode ELSE tree[x]]
       \/ FileEnds(c, "failed") /\ UNCHANGED tree
  /\ UNCHANGED <<workDir, overlapped, reader, fileCalls>>
CreateDirectory(c) ==
  /\ fileCall[c].at = "create"
  /\ IF CanMkdirAll(fileCall[c].p)
     THEN tree' = MkdirAll(tree, fileCall[c].p) /\ FileGoes(c, "verify")
     ELSE FileEnds(c, "failed") /\ UNCHANGED tree
  /\ UNCHANGED <<workDir, overlapped, reader, fileCalls>>

(* set_working_directory takes a relative path from the process's directory.  *)
LookForDirectory(c) ==
  /\ fileCall[c].at = "chdir"
  /\ FileGoes(c, IF IsDir(AsProcess(fileCall[c].req.src)) THEN "chdir2" ELSE "failed")
  /\ UNCHANGED <<tree, workDir, overlapped, reader, fileCalls>>
SetWorkingDirectory(c) ==
  /\ fileCall[c].at = "chdir2"
  /\ workDir' = AsProcess(fileCall[c].req.src)
  /\ FileEnds(c, "ok")
  /\ UNCHANGED <<tree, overlapped, reader, fileCalls>>

(* A change is taken for granted: the path is there or it is gone.            *)
FilePostVerify(c) ==
  /\ fileCall[c].at = "verify"
  /\ FileEnds(c, IF Expectation(fileCall[c].req.post, fileCall[c].req.src) THEN "ok" ELSE "failed")
  /\ UNCHANGED <<tree, workDir, overlapped, reader, fileCalls>>

-----------------------------------------------------------------------------
(* read_file reads the whole file and answers one page of it: the row of that *)
(* number, and whether more follow.  A client asks for page after page.       *)
Truncated(rows, page) == page < Len(rows)
ReadPage(p) ==
  /\ IsFile(p) /\ tree[p].rows # <<>>
  /\ LET rows == tree[p].rows
         page == IF reader.more THEN reader.page + 1 ELSE 1
         shown == IF page > Len(rows) THEN Len(rows) ELSE page
     IN reader' = [path |-> p, page |-> shown, more |-> Truncated(rows, shown),
                   got |-> IF reader.more THEN Append(reader.got, rows[shown]) ELSE <<rows[shown]>>,
                   of |-> IF reader.more THEN reader.of \cup {rows} ELSE {rows}]
  /\ reader.more => reader.path = p
  /\ Len(reader'.got) <= MaxFileCalls
  /\ UNCHANGED <<tree, workDir, fileCall, overlapped, fileCalls>>

-----------------------------------------------------------------------------
FilesInit ==
  /\ tree = FirstTree /\ workDir = ProcessDir
  /\ fileCall = [c \in FileCallers |-> NoFileCall] /\ overlapped = {}
  /\ reader = [path |-> <<>>, page |-> 0, more |-> FALSE, got |-> <<>>, of |-> {}]
  /\ fileCalls = 0

FileStep(c) ==
  \/ ResolveSource(c) \/ ResolveDestination(c) \/ WriteLook(c) \/ WriteFile(c) \/ CopyOne(c)
  \/ MoveFile(c) \/ DeleteFile(c) \/ CreateDirectory(c) \/ LookForDirectory(c)
  \/ SetWorkingDirectory(c) \/ FilePostVerify(c)
FilesNext ==
  \/ \E c \in FileCallers, req \in FileRequests : FileBegin(c, req)
  \/ \E c \in FileCallers : FileStep(c)
  \/ \E p \in Paths : ReadPage(p)

-----------------------------------------------------------------------------
(* Whatever calls interleave, and however copies and moves end half way, what *)
(* is on disk stays a tree: each thing lies in a directory.                   *)
TreeStays == \A p \in Paths : IsThere(p) => IsDir(Parent(p))

(* A call that nothing else ran beside and that answers success has done what *)
(* it says, to the paths its arguments name in the working directory.         *)
NodeAt(t, p) == IF p = <<>> THEN Dir ELSE IF p \in Paths THEN t[p] ELSE NoNode
Onto(p, q) == {<<x, q \o SubSeq(x, Len(p) + 1, Len(x))>> : x \in {p} \cup Below(p)}
Did(call) ==
  LET req == call.req
      Named(arg) == IF arg.abs THEN arg.path ELSE workDir \o arg.path
      p == Named(req.src)
      q == IF req.tool \in {"copy", "move"} THEN Named(req.dst) ELSE p
      Was(x) == NodeAt(call.was, x)
      Is(x) == NodeAt(tree, x)
      Brought == \A xy \in Onto(p, q) : Was(xy[1]) # NoNode => Is(xy[2]) = Was(xy[1])
  IN CASE req.tool = "write" -> /\ Was(p) = NoNode => Is(p) = TextFile(req.rows)
                                /\ Was(p) # NoNode => req.overwrite
       [] req.tool = "copy" /\ q \notin Below(p) /\ p \notin Below(q) -> Brought
       [] req.tool = "move" /\ p # q -> Is(p) = NoNode /\ Brought
       [] req.tool = "delete" -> Is(p) = NoNode /\ Was(p) # NoNode
       [] req.tool = "create" -> Is(p) = Dir
       [] OTHER -> TRUE
SoloCallsDo ==
  (\A c \in FileCallers : ~Going(c)) =>
    \A c \in FileCallers : fileCall[c].at = "ok" /\ c \notin overlapped => Did(fileCall[c])

(* The pages of a file that is not written meanwhile add up to it.            *)
PagesAddUp == reader.got # <<>> /\ ~reader.more /\ Cardinality(reader.of) = 1 => reader.got \in reader.of

FileToolsDo == TreeStays /\ SoloCallsDo /\ PagesAddUp
=============================================================================
