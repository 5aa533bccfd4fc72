------------------------------- MODULE FolderOps -------------------------------
(***************************************************************************)
(* createFolder, createFile, deleteFile and deleteFolder of                *)
(* include/jsav/fs: clients that call them on one file system.  A step is  *)
(* one system call, and the clients' steps interleave.  createFolder calls *)
(* std::filesystem::create_directories, which is modelled as it is in      *)
(* libstdc++: look at the path, walk up to a folder that is there, make    *)
(* the missing ones from the top.                                          *)
(***************************************************************************)
EXTENDS Integers, Sequences, FiniteSets, SequencesExt

CONSTANTS
  Clients,
  Paths,        \* the paths of the tree below one folder, Top, that stays
  Top,
  Parent,       \* the path above each path
  Above,        \* all paths above each path, without Top
  Target,       \* what a symbolic link leads to
  Ops,          \* the operations the clients call
  CallPaths,    \* the paths they call them with
  Links,        \* bound: where a link may lie
  Specials,     \* bound: where a file may lie that is not a regular one
  MaxProtected, \* bound: paths that this process may not make or remove
  MaxCalls      \* bound: calls of one client

ASSUME TreeAssumption ==
  /\ Top \notin Paths /\ Target \in Paths
  /\ Parent \in [Paths -> Paths \cup {Top}]
  /\ Above = [p \in Paths |-> IF Parent[p] = Top THEN {}
                              ELSE {Parent[p]} \cup Above[Parent[p]]]
(* A path has finitely many components: what holds of a path whenever it   *)
(* holds of the one above holds of all of them.                            *)
ASSUME DepthAssumption ==
  \A S \in SUBSET Paths :
    (\A p \in Paths : Parent[p] \in S \cup {Top} => p \in S) => S = Paths
(* No path leads through a link: below a place where one may lie the tree  *)
(* goes no further.                                                        *)
ASSUME LinksAssumption == Links \subseteq Paths /\ \A p \in Paths : Parent[p] \notin Links
ASSUME CallsAssumption ==
  /\ Ops \subseteq {"createFolder", "createFolderNextToFile", "createFile",
                    "deleteFile", "deleteFolder"}
  /\ CallPaths \subseteq Paths /\ Specials \subseteq Paths
  /\ MaxCalls \in Nat /\ MaxProtected \in Nat

VARIABLES
  fs,           \* what lies at each path
  protected,    \* paths that this process may not make or remove
  pc, op, path, \* per client: the next system call, and the call it belongs to
  cur,          \* the path the innermost function looks at
  stack,        \* missing folders, or running deleteFolder calls, innermost last
  handle,       \* the file an ofstream writes to; Top when it is no longer linked
  result, calls,
  seen, before, disturbed    \* history: see Record

call    == <<pc, op, path, cur, stack>>
history == <<seen, before, disturbed>>
vars    == <<fs, protected, call, handle, result, calls, history>>
-----------------------------------------------------------------------------
(* A special file is a pipe, a socket or a device; a loop is a link that   *)
(* leads to itself, so that no question that follows it has an answer.     *)
Files == {"empty", "full"}
Linked == {"link", "loop"}
KindOf == Files \cup Linked \cup {"absent", "dir", "special"}

Under(p) == {q \in Paths : q = p \/ p \in Above[q]}
Children(p) == {q \in Paths : Parent[q] = p /\ fs[q] # "absent"}

(* fs::exists, is_directory and is_regular_file follow a link. *)
Resolve(p) == IF fs[p] = "link" THEN Target ELSE p
Kind(p) == fs[Resolve(p)]
Exists(p) == Kind(p) \notin {"absent", "loop"}

Folders(f) == {Top} \cup {p \in Paths : f[p] = "dir"}
IsTree(f) == \A p \in Paths : f[p] # "absent" => Parent[p] \in Folders(f)
ParentIsDir(p) == Parent[p] \in Folders(fs)

Goto(c, label) == pc' = [pc EXCEPT ![c] = label]

Return(c, how) ==
  /\ Goto(c, "idle")
  /\ result' = [result EXCEPT ![c] = how]
  /\ cur' = [cur EXCEPT ![c] = Top]
  /\ stack' = [stack EXCEPT ![c] = <<>>]
  /\ handle' = [handle EXCEPT ![c] = Top]

Succeed(c) == Return(c, "success")

(* An error of an inner call is the error of each call around it, and so   *)
(* is an exception where the function catches all of them.                 *)
Fail(c) == Return(c, "failure")

(* createFolder catches nothing; createFolderNextToFile, around it, does.  *)
Throw(c) == IF op[c] = "createFolder" THEN Return(c, "thrown") ELSE Fail(c)

Continue(c, label) ==
  /\ Goto(c, label)
  /\ UNCHANGED <<cur, stack, handle, result>>

Check(c, label, holds, next) ==
  /\ pc[c] = label
  /\ IF holds THEN Continue(c, next) ELSE Fail(c)
  /\ UNCHANGED fs
-----------------------------------------------------------------------------
FirstStep == [createFolder |-> "exists", createFolderNextToFile |-> "exists",
              createFile |-> "open_out", deleteFile |-> "exists_file",
              deleteFolder |-> "exists_folder"]

begin(c, o, p) ==
  /\ pc[c] = "idle" /\ calls[c] < MaxCalls
  /\ calls' = [calls EXCEPT ![c] = @ + 1]
  /\ op' = [op EXCEPT ![c] = o]
  /\ path' = [path EXCEPT ![c] = p]
  /\ cur' = [cur EXCEPT ![c] = p]
  /\ Goto(c, FirstStep[o])
  /\ UNCHANGED <<fs, stack, handle, result>>
-----------------------------------------------------------------------------
(* createFolder.  The success of its first question is a return of its own,*)
(* "there", and asks for no folder: whatever is there will do.             *)
exists(c) ==
  /\ pc[c] = "exists"
  /\ \/ Exists(path[c]) /\ Return(c, "there")
     \/ Kind(path[c]) = "loop" /\ Throw(c)
     \/ Kind(path[c]) = "absent" /\ Continue(c, "status")
  /\ UNCHANGED fs

(* Whatever is there now was not made by this call: not a success. *)
status(c) ==
  /\ pc[c] = "status"
  /\ \/ Kind(path[c]) # "absent" /\ Fail(c)
     \/ /\ Kind(path[c]) = "absent"
        /\ Goto(c, "walk")
        /\ stack' = [stack EXCEPT ![c] = <<path[c]>>]
        /\ UNCHANGED <<cur, handle, result>>
  /\ UNCHANGED fs

(* Mutant: create_directory for create_directories. *)
walkNoFurther(c) == pc[c] = "walk" /\ Continue(c, "mkdir") /\ UNCHANGED fs

walk(c) ==
  /\ pc[c] = "walk"
  /\ LET q == Parent[Last(stack[c])] IN
     \/ ParentIsDir(Last(stack[c])) /\ Continue(c, "mkdir")
     \/ /\ q # Top /\ fs[q] = "absent"
        /\ stack' = [stack EXCEPT ![c] = Append(@, q)]
        /\ Goto(c, "walk")
        /\ UNCHANGED <<cur, handle, result>>
     \/ q # Top /\ fs[q] \notin {"dir", "absent"} /\ Fail(c)
  /\ UNCHANGED fs

CanMake(q) == fs[q] = "absent" /\ ParentIsDir(q) /\ q \notin protected

(* Behind mkdir(q): the next missing folder, or the end.  The answer of    *)
(* create_directories is whether its last mkdir made the folder.           *)
MkdirDone(c, made) ==
  IF Len(stack[c]) = 1
  THEN IF made THEN Succeed(c) ELSE Fail(c)
  ELSE /\ stack' = [stack EXCEPT ![c] = Front(@)]
       /\ Goto(c, "mkdir")
       /\ UNCHANGED <<cur, handle, result>>

mkdir(c) ==
  /\ pc[c] = "mkdir"
  /\ LET q == Last(stack[c]) IN
     \/ CanMake(q) /\ fs' = [fs EXCEPT ![q] = "dir"] /\ MkdirDone(c, TRUE)
     \/ ~CanMake(q) /\ Kind(q) = "dir" /\ MkdirDone(c, FALSE) /\ UNCHANGED fs
     \/ ~CanMake(q) /\ Kind(q) # "dir" /\ Fail(c) /\ UNCHANGED fs
-----------------------------------------------------------------------------
(* createFile: what the stream reports behind is_open is not looked at.  A *)
(* special file may open, and takes what is written elsewhere.             *)
open_out(c) ==
  /\ pc[c] = "open_out"
  /\ LET q == Resolve(path[c])  opens == CanMake(q) \/ fs[q] \in Files IN
     \/ /\ opens
        /\ fs' = [fs EXCEPT ![q] = "empty"]
        /\ handle' = [handle EXCEPT ![c] = q]
        /\ Goto(c, "write")
        /\ UNCHANGED <<cur, stack, result>>
     \/ fs[q] = "special" /\ Continue(c, "write") /\ UNCHANGED fs
     \/ ~opens /\ Fail(c) /\ UNCHANGED fs

write(c) ==
  /\ pc[c] = "write"
  /\ \/ handle[c] # Top /\ fs' = [fs EXCEPT ![handle[c]] = "full"]
     \/ UNCHANGED fs      \* an error, a file no longer linked, or no content
  /\ Continue(c, "check_out")

check_out(c) ==
  /\ pc[c] = "check_out"
  /\ IF Exists(path[c]) THEN Succeed(c) ELSE Fail(c)
  /\ UNCHANGED fs
-----------------------------------------------------------------------------
(* fs::remove: a path that is not there is no error. *)
NothingThere(q) == fs[q] = "absent" /\ \A a \in Above[q] : fs[a] \in {"absent", "dir"}
CanRemove(q) == fs[q] # "absent" /\ q \notin protected /\ (fs[q] = "dir" => Children(q) = {})

(* Handles of a file that is removed go on without a path. *)
Unlinked(q, handles) == [c \in Clients |-> IF handles[c] = q THEN Top ELSE handles[c]]

(* Mutant: every removal is taken for that of an entry. *)
RemovedEntry(c, rest) ==
  /\ Goto(c, "entries")
  /\ stack' = [stack EXCEPT ![c] = rest]
  /\ UNCHANGED <<cur, result>>

(* Where a call ends that deleteFolder may have made: at the outermost one *)
(* the client gets its answer.                                             *)
Removed(c, rest) ==
  IF rest = <<>>
  THEN /\ Goto(c, "idle")
       /\ result' = [result EXCEPT ![c] = "success"]
       /\ cur' = [cur EXCEPT ![c] = Top]
       /\ stack' = [stack EXCEPT ![c] = <<>>]
  ELSE /\ Goto(c, "entries")
       /\ stack' = [stack EXCEPT ![c] = rest]
       /\ UNCHANGED <<cur, result>>

(* Mutant: the error code of remove is not looked at. *)
fs_removeUnchecked(c, q, rest) ==
  /\ Removed(c, rest)
  /\ IF CanRemove(q)
     THEN fs' = [fs EXCEPT ![q] = "absent"] /\ handle' = Unlinked(q, handle)
     ELSE UNCHANGED <<fs, handle>>

fs_remove(c, q, rest) ==
  \/ /\ CanRemove(q)
     /\ fs' = [fs EXCEPT ![q] = "absent"]
     /\ handle' = Unlinked(q, handle)
     /\ Removed(c, rest)
  \/ NothingThere(q) /\ Removed(c, rest) /\ UNCHANGED <<fs, handle>>
  \/ ~CanRemove(q) /\ ~NothingThere(q) /\ Fail(c) /\ UNCHANGED fs

(* deleteFile, called by a client or by deleteFolder for an entry. *)
exists_file(c) == Check(c, "exists_file", Exists(cur[c]), "is_file")
is_file(c) == Check(c, "is_file", Kind(cur[c]) \in Files, "remove_file")
remove_file(c) == pc[c] = "remove_file" /\ fs_remove(c, cur[c], stack[c])

(* deleteFolder.  A frame is a running call: its folder, and the entries   *)
(* that its directory_iterator has still to return.                        *)
exists_folder(c) == Check(c, "exists_folder", Exists(cur[c]), "is_folder")
is_folder(c) == Check(c, "is_folder", Kind(cur[c]) = "dir", "open_folder")

open_folder(c) ==
  /\ pc[c] = "open_folder"
  /\ IF Kind(cur[c]) = "dir"
     THEN /\ stack' = [stack EXCEPT ![c] =
                         Append(@, [folder |-> cur[c], left |-> Children(Resolve(cur[c]))])]
          /\ Goto(c, "entries")
          /\ UNCHANGED <<cur, handle, result>>
     ELSE Fail(c)
  /\ UNCHANGED fs

next_entry(c) ==
  /\ pc[c] = "entries"
  /\ LET frame == Last(stack[c]) IN
     \E q \in frame.left :
       /\ stack' = [stack EXCEPT ![c] =
                      Append(Front(@), [frame EXCEPT !.left = @ \ {q}])]
       /\ cur' = [cur EXCEPT ![c] = q]
  /\ Goto(c, "is_symlink")
  /\ UNCHANGED <<fs, handle, result>>

(* Mutant: links are taken for what they lead to. *)
is_symlinkFollowed(c) ==
  pc[c] = "is_symlink" /\ Continue(c, "is_directory") /\ UNCHANGED fs

is_symlink(c) ==
  /\ pc[c] = "is_symlink"
  /\ Continue(c, IF fs[cur[c]] \in Linked THEN "remove_link" ELSE "is_directory")
  /\ UNCHANGED fs

remove_link(c) == pc[c] = "remove_link" /\ fs_remove(c, cur[c], stack[c])

(* Mutant: a subfolder is removed, but not emptied before. *)
is_directoryFlat(c) ==
  /\ pc[c] = "is_directory"
  /\ Continue(c, IF Kind(cur[c]) = "dir" THEN "remove_file" ELSE "exists_file")
  /\ UNCHANGED fs

is_directory(c) ==
  /\ pc[c] = "is_directory"
  /\ Continue(c, IF Kind(cur[c]) = "dir" THEN "exists_folder" ELSE "exists_file")
  /\ UNCHANGED fs

(* Mutant: a folder that cannot be removed is listed again. *)
remove_folderRetried(c) ==
  /\ pc[c] = "entries" /\ Last(stack[c]).left = {}
  /\ IF CanRemove(Last(stack[c]).folder) \/ NothingThere(Last(stack[c]).folder)
     THEN fs_remove(c, Last(stack[c]).folder, Front(stack[c]))
     ELSE /\ Goto(c, "open_folder")
          /\ cur' = [cur EXCEPT ![c] = Last(stack[c]).folder]
          /\ stack' = [stack EXCEPT ![c] = Front(@)]
          /\ UNCHANGED <<fs, handle, result>>

remove_folder(c) ==
  /\ pc[c] = "entries" /\ Last(stack[c]).left = {}
  /\ fs_remove(c, Last(stack[c]).folder, Front(stack[c]))
-----------------------------------------------------------------------------
Nothing == [p \in Paths |-> "absent"]

Init ==
  /\ fs \in [Paths -> KindOf \ {"empty"}] /\ IsTree(fs) /\ fs[Target] # "link"
  /\ \A p \in Paths : (fs[p] \in Linked => p \in Links)
                       /\ (fs[p] = "special" => p \in Specials)
  /\ protected \in SUBSET Paths /\ Cardinality(protected) <= MaxProtected
  /\ pc = [c \in Clients |-> "idle"]
  /\ op = [c \in Clients |-> "none"]
  /\ path = [c \in Clients |-> Top]
  /\ cur = [c \in Clients |-> Top]
  /\ stack = [c \in Clients |-> <<>>]
  /\ handle = [c \in Clients |-> Top]
  /\ result = [c \in Clients |-> "none"]
  /\ calls = [c \in Clients |-> 0]
  /\ seen = [c \in Clients |-> {}]
  /\ before = [c \in Clients |-> Nothing]
  /\ disturbed = {}

Step(c) ==
  /\ \/ exists(c) \/ status(c) \/ walk(c) \/ mkdir(c)
     \/ open_out(c) \/ write(c) \/ check_out(c)
     \/ exists_file(c) \/ is_file(c) \/ remove_file(c)
     \/ exists_folder(c) \/ is_folder(c) \/ open_folder(c) \/ next_entry(c)
     \/ is_symlink(c) \/ remove_link(c) \/ is_directory(c) \/ remove_folder(c)
  /\ UNCHANGED <<op, path, calls>>

(* What lies at a path, and what a question that follows links finds. *)
Sight(f, p) == <<f[p], f[IF f[p] = "link" THEN Target ELSE p]>>

(* History of the latest call of each client: the sights of its path in    *)
(* the states of it, whether another client changed the file system        *)
(* meanwhile, and, if none did, the file system when it began.             *)
Record(c) ==
  /\ seen' = [d \in Clients |->
       CASE calls'[d] # calls[d] -> {Sight(fs', path'[d])}
         [] calls'[d] = calls[d] /\ pc[d] = "idle" -> seen[d]
         [] OTHER -> seen[d] \cup {Sight(fs', path[d])}]
  /\ disturbed' = IF fs' # fs THEN disturbed \cup (Clients \ {c})
                  ELSE IF calls'[c] # calls[c] THEN disturbed \ {c} ELSE disturbed
  /\ before' = [d \in Clients |->
       CASE d \in disturbed' -> Nothing
         [] calls'[d] # calls[d] -> fs
         [] OTHER -> before[d]]

Call(c) == (\E o \in Ops, p \in CallPaths : begin(c, o, p)) /\ Record(c) /\ UNCHANGED protected
Run(c) == Step(c) /\ Record(c) /\ UNCHANGED protected

Next == \E c \in Clients : Call(c) \/ Run(c)

(* A call that has begun runs on. *)
Spec == Init /\ [][Next]_vars /\ \A c \in Clients : WF_vars(Run(c))
=============================================================================
