------------------------------ MODULE FileReader ------------------------------
(***************************************************************************)
(* readFromFile of include/jsavCore/FileReader.hpp: threads of one process *)
(* that read one path, and an environment (every other process) that       *)
(* changes what the path names and what the files hold between the steps   *)
(* of a call.  A step is one system call.  A file is a sequence of blocks; *)
(* fs::file_size counts blocks, and the stream reads one at a time.        *)
(***************************************************************************)
EXTENDS Integers, Sequences

CONSTANTS
  Threads,
  Inodes,       \* the files the path may name
  Blocks,       \* what a block of a file may hold
  MaxBlocks,    \* bound: longest file
  MaxCalls,     \* bound: calls of one thread
  MaxChanges    \* bound: changes made by the environment

Absent == "absent"
Directory == "directory"
Free == "free"
ASSUME NamesAssumption ==
  /\ Absent \notin Inodes /\ Directory \notin Inodes
  /\ Free \notin Threads
ASSUME BoundsAssumption == MaxBlocks \in Nat /\ MaxCalls \in Nat /\ MaxChanges \in Nat

VARIABLES
  entry,        \* what the path names
  files,        \* what each file holds, whether or not the path names it
  readable,     \* the files this process may open
  mutex,        \* fileReadMutex: the thread that holds it, or Free
  pc,           \* the next system call of each thread; "idle" outside calls
  fileSize, handle, content,   \* locals of readFromFile
  result,       \* how the latest call of a thread ended
  calls, changes,
  disturbed     \* threads in whose running or latest call the environment acted

disk   == <<entry, files>>
locals == <<fileSize, handle, content>>
history == <<readable, calls, changes, disturbed>>
vars   == <<disk, mutex, pc, locals, result, history>>
-----------------------------------------------------------------------------
Contents == UNION {[1 .. n -> Blocks] : n \in 0 .. MaxBlocks}

(* What a descriptor reads; a directory can be opened, but not read. *)
Held(h) == IF h \in Inodes THEN files[h] ELSE <<>>

Returned(s) == [kind |-> "content", data |-> s]
Failed(why) == [kind |-> why, data |-> <<>>]

(* Mutant: the mutex is unlocked by hand, at the return statement. *)
LeaveUnlockingOnReturn(t, how) ==
  /\ result' = [result EXCEPT ![t] = how]
  /\ pc' = [pc EXCEPT ![t] = "idle"]
  /\ mutex' = IF how.kind = "content" THEN Free ELSE mutex

(* The call returns or throws; either way the scoped lock is released. *)
Leave(t, how) ==
  /\ result' = [result EXCEPT ![t] = how]
  /\ pc' = [pc EXCEPT ![t] = "idle"]
  /\ mutex' = Free

Continue(t, label) ==
  /\ pc' = [pc EXCEPT ![t] = label]
  /\ UNCHANGED <<mutex, result>>
-----------------------------------------------------------------------------
readFromFile(t) ==
  /\ pc[t] = "idle" /\ calls[t] < MaxCalls
  /\ calls' = [calls EXCEPT ![t] = @ + 1]
  /\ disturbed' = disturbed \ {t}
  /\ Continue(t, "lock")
  /\ UNCHANGED <<disk, locals, readable, changes>>

scoped_lock(t) ==
  /\ pc[t] = "lock" /\ mutex = Free
  /\ mutex' = t
  /\ pc' = [pc EXCEPT ![t] = "status"]
  /\ UNCHANGED <<disk, locals, result, history>>

status(t) ==
  /\ pc[t] = "status"
  /\ \/ entry = Absent /\ Leave(t, Failed("not_found"))
     \/ entry = Directory /\ Leave(t, Failed("not_regular"))
     \/ entry \in Inodes /\ Continue(t, "file_size")
  /\ UNCHANGED <<disk, locals, history>>

(* Mutant: the error_code overload, whose answer to an error is -1. *)
file_sizeUnchecked(t) ==
  /\ pc[t] = "file_size"
  /\ fileSize' = [fileSize EXCEPT ![t] =
                    IF entry \in Inodes THEN Len(files[entry]) ELSE -1]
  /\ Continue(t, "open")
  /\ UNCHANGED <<disk, handle, content, history>>

(* fs::file_size has no error_code argument: it throws filesystem_error    *)
(* for a path that no longer names a file.                                 *)
file_size(t) ==
  /\ pc[t] = "file_size"
  /\ IF entry \in Inodes
     THEN /\ fileSize' = [fileSize EXCEPT ![t] = Len(files[entry])]
          /\ Continue(t, "open")
     ELSE Leave(t, Failed("filesystem_error")) /\ UNCHANGED fileSize
  /\ UNCHANGED <<disk, handle, content, history>>

(* openFile.  Whether a directory can be opened depends on the platform.   *)
openFile(t) ==
  /\ pc[t] = "open"
  /\ \/ /\ entry \in readable \cup {Directory}
        /\ handle' = [handle EXCEPT ![t] = entry]
        /\ content' = [content EXCEPT ![t] = <<>>]
        /\ Continue(t, "read")
     \/ /\ entry \notin readable
        /\ Leave(t, Failed("unopened"))
        /\ UNCHANGED <<handle, content>>
  /\ UNCHANGED <<disk, fileSize, history>>

BytesLeft(t) == Len(content[t]) < Len(Held(handle[t]))

read_block(t) ==
  /\ pc[t] = "read" /\ Len(content[t]) < fileSize[t] /\ BytesLeft(t)
  /\ content' = [content EXCEPT ![t] = Append(@, Held(handle[t])[Len(@) + 1])]
  /\ Continue(t, "read")
  /\ UNCHANGED <<disk, fileSize, handle, history>>

(* Mutant: short reads do not throw, and nobody resizes the buffer. *)
ShortReadReturns(t) == Leave(t, Returned(content[t]))

(* The end of the file sets eofbit and failbit, and failbit is in the      *)
(* stream's exception mask: the catch clause turns it into FileReadError,  *)
(* and the resize behind the read is never reached with a smaller count.   *)
ShortRead(t) == Leave(t, Failed("short_read"))

read_short(t) ==
  /\ pc[t] = "read" /\ Len(content[t]) < fileSize[t] /\ ~BytesLeft(t)
  /\ ShortRead(t)
  /\ UNCHANGED <<disk, locals, history>>

(* badbit: a device error in the middle of the file. *)
read_fails(t) ==
  /\ pc[t] = "read" /\ Len(content[t]) < fileSize[t]
  /\ changes < MaxChanges
  /\ changes' = changes + 1
  /\ disturbed' = disturbed \cup {t}
  /\ Leave(t, Failed("io_error"))
  /\ UNCHANGED <<disk, locals, readable, calls>>

(* Mutant: the last block is taken for a terminator. *)
ReadAllButOne(t) == Len(content[t]) + 1 >= fileSize[t]

ReadAll(t) == Len(content[t]) >= fileSize[t]

return(t) ==
  /\ pc[t] = "read" /\ ReadAll(t)
  /\ Leave(t, Returned(content[t]))
  /\ UNCHANGED <<disk, locals, history>>
-----------------------------------------------------------------------------
(* The environment, one change of the file system at a time. *)
Changes ==
  /\ changes < MaxChanges
  /\ changes' = changes + 1
  /\ disturbed' = Threads
  /\ UNCHANGED <<mutex, pc, locals, result, readable, calls>>

unlink == entry \in Inodes /\ entry' = Absent /\ UNCHANGED files
mkdir  == entry = Absent /\ entry' = Directory /\ UNCHANGED files
rmdir  == entry = Directory /\ entry' = Absent /\ UNCHANGED files
rename(i) == entry # Directory /\ entry # i /\ entry' = i /\ UNCHANGED files
write(i, s) ==          \* also truncates and extends
  /\ files[i] # s
  /\ files' = [files EXCEPT ![i] = s]
  /\ UNCHANGED entry

Environment ==
  /\ Changes
  /\ \/ unlink \/ mkdir \/ rmdir
     \/ \E i \in Inodes : rename(i) \/ \E s \in Contents : write(i, s)
-----------------------------------------------------------------------------
Init ==
  /\ entry \in Inodes \cup {Absent, Directory}
  /\ files \in [Inodes -> Contents]
  /\ readable \in SUBSET Inodes
  /\ mutex = Free
  /\ pc = [t \in Threads |-> "idle"]
  /\ fileSize = [t \in Threads |-> 0]
  /\ handle = [t \in Threads |-> Absent]
  /\ content = [t \in Threads |-> <<>>]
  /\ result = [t \in Threads |-> Failed("none")]
  /\ calls = [t \in Threads |-> 0]
  /\ changes = 0
  /\ disturbed = {}

(* What a call that has begun does next. *)
Step(t) ==
  \/ scoped_lock(t) \/ status(t) \/ file_size(t) \/ openFile(t)
  \/ read_block(t) \/ read_short(t) \/ read_fails(t) \/ return(t)

Next == Environment \/ \E t \in Threads : readFromFile(t) \/ Step(t)

(* Calls that have begun run on; nothing is promised of the environment.   *)
(* The mutex is not fair, but MaxCalls bounds how often a thread loses.    *)
Spec == Init /\ [][Next]_vars /\ \A t \in Threads : WF_vars(Step(t))
=============================================================================
