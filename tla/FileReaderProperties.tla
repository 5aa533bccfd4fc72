------------------------- MODULE FileReaderProperties -------------------------
(***************************************************************************)
(* What is checked of FileReader.                                          *)
(***************************************************************************)
EXTENDS FileReader

Kind == {"none", "content", "not_found", "not_regular", "filesystem_error",
         "unopened", "short_read", "io_error"}
Label == {"idle", "lock", "status", "file_size", "open", "read"}

TypeOK ==
  /\ entry \in Inodes \cup {Absent, Directory}
  /\ files \in [Inodes -> Contents]
  /\ readable \subseteq Inodes
  /\ mutex \in Threads \cup {Free}
  /\ pc \in [Threads -> Label]
  /\ fileSize \in [Threads -> 0 .. MaxBlocks]
  /\ handle \in [Threads -> Inodes \cup {Absent, Directory}]
  /\ content \in [Threads -> Contents]
  /\ result \in [Threads -> [kind : Kind, data : Contents]]
  /\ calls \in [Threads -> 0 .. MaxCalls]
  /\ changes \in 0 .. MaxChanges
  /\ disturbed \subseteq Threads

Ended(t) == pc[t] = "idle" /\ result[t].kind # "none"

(* What one look at an unchanging path answers (FileReader.hpp:33 to 48).  *)
Look ==
  CASE entry = Absent -> Failed("not_found")
    [] entry = Directory -> Failed("not_regular")
    [] entry \in Inodes \ readable -> Failed("unopened")
    [] OTHER -> Returned(files[entry])

(* A call during which nothing changes is one atomic look at the path: the *)
(* whole content, or the one FileReadError that fits; and then it still    *)
(* holds for as long as nothing changes.  In particular no other exception *)
(* (filesystem_error) leaves it, and a short read cannot happen.           *)
QuietCallsAreExact ==
  \A t \in Threads : Ended(t) /\ t \notin disturbed => result[t] = Look

(* A returned text has exactly the length that was measured, whatever the  *)
(* environment did meanwhile: a buffer allocated for that length is never  *)
(* returned half filled, or cut.                                           *)
NeverHalfFilled ==
  \A t \in Threads :
    Ended(t) /\ result[t].kind = "content" =>
      Len(result[t].data) = fileSize[t] /\ result[t].data = content[t]

(* Every call ends and lets the next one in, also when it throws.          *)
CallsEnd == \A t \in Threads : pc[t] = "lock" ~> pc[t] = "idle"

(* "If the file is truncated between stat and read, only the bytes         *)
(* actually read are returned" (FileReader.hpp:52).  It fails: the end of  *)
(* the file raises failbit, and openFile made failbit an exception.        *)
TruncatedFilesAreReturned ==
  \A t \in Threads :
    Ended(t) /\ handle[t] = entry /\ result[t].kind \in {"content", "short_read"}
      => result[t] = Returned(content[t])
=============================================================================
