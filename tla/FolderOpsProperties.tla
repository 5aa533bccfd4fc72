-------------------------- MODULE FolderOpsProperties --------------------------
(***************************************************************************)
(* What is checked of FolderOps.                                           *)
(***************************************************************************)
EXTENDS FolderOps

Label == {"idle", "exists", "status", "walk", "mkdir", "open_out", "write", "check_out",
          "exists_file", "is_file", "remove_file", "exists_folder", "is_folder",
          "open_folder", "entries", "is_symlink", "remove_link", "is_directory"}
Frame == [folder : Paths, left : SUBSET Paths]
Result == {"none", "success", "there", "failure", "thrown"}

(* Also: what is there lies in a folder, and a loop has its frame. *)
TypeOK ==
  /\ fs \in [Paths -> KindOf] /\ IsTree(fs) /\ fs[Target] # "link"
  /\ protected \subseteq Paths
  /\ pc \in [Clients -> Label]
  /\ op \in [Clients -> Ops \cup {"none"}]
  /\ path \in [Clients -> CallPaths \cup {Top}]
  /\ cur \in [Clients -> Paths \cup {Top}]
  /\ \A c \in Clients :
       /\ pc[c] \in {"walk", "mkdir"} => stack[c] \in Seq(Paths) \ {<<>>}
       /\ pc[c] = "entries" => stack[c] \in Seq(Frame) \ {<<>>}
  /\ handle \in [Clients -> Paths \cup {Top}]
  /\ result \in [Clients -> Result]
  /\ calls \in [Clients -> 0 .. MaxCalls]
  /\ seen \in [Clients -> SUBSET (KindOf \X KindOf)]
  /\ before \in [Clients -> [Paths -> KindOf]]
  /\ disturbed \subseteq Clients

Ended(c) == pc[c] = "idle" /\ result[c] # "none"
MakesFolder(c) == op[c] \in {"createFolder", "createFolderNextToFile"}
Deletes(c) == op[c] \in {"deleteFolder", "deleteFile"}

Saw(c, kinds) == \E s \in seen[c] : s[2] \in kinds

TrueAnswer(c, how) ==
  /\ how = "there" => MakesFolder(c) /\ Saw(c, KindOf \ {"absent", "loop"})
  /\ how = "success" =>
       /\ MakesFolder(c) => <<"dir", "dir">> \in seen[c]
       /\ op[c] = "createFile" => Saw(c, {"empty", "special"})
       /\ Deletes(c) => <<"absent", "absent">> \in seen[c]

(* A success was true at some moment of the call, whatever other clients   *)
(* did: the folder was made and was there, the file opened was there, what *)
(* was to go was not.  Of a createFolder that returns at its first         *)
(* question only this is true, that something was there; the folder it     *)
(* speaks of need not be (CreatedFolderIsFolder).                          *)
SuccessWasTrue == \A c \in Clients : Ended(c) => TrueAnswer(c, result[c])

Quiet(c) == Ended(c) /\ c \notin disturbed

(* A deleteFolder that nobody disturbs removes the folder with everything  *)
(* below it and nothing else, and succeeds exactly when it may and nothing *)
(* in it is a special file, which deleteFile refuses; when it fails,       *)
(* nothing outside has changed and nothing is left changed but gone.       *)
QuietDeleteIsExact ==
  \A c \in Clients : LET p == path[c]  was == before[c] IN
    Quiet(c) /\ op[c] = "deleteFolder" /\ was[p] = "dir" =>
      LET all == {q \in Under(p) : was[q] # "absent"} IN
      /\ result[c] = "success" <=> \A q \in all : q \notin protected /\ was[q] # "special"
      /\ result[c] = "success" => \A q \in all : fs[q] = "absent"
      /\ result[c] = "failure" => fs[p] = "dir"
      /\ \A q \in Paths : fs[q] # was[q] => q \in all /\ fs[q] = "absent"

(* A createFolder that nobody disturbs makes the folder and the missing    *)
(* ones above it, and nothing else, whatever lies at the path; it succeeds *)
(* when the folder is there already, or is not and all of them can be      *)
(* made, and an error of its first question leaves it, changing nothing.   *)
(* (What it answers where a file lies is CreatedFolderIsFolder's subject.) *)
QuietCreateIsExact ==
  \A c \in Clients : LET p == path[c]  was == before[c] IN
    Quiet(c) /\ MakesFolder(c) =>
      LET missing == {q \in Above[p] \cup {p} : was[q] = "absent"}
          can     == /\ missing \cap protected = {}
                     /\ \A q \in Above[p] \ missing : was[q] = "dir"
      IN
      /\ was[p] = "dir" => result[c] = "there"
      /\ was[p] = "absent" => result[c] = IF can THEN "success" ELSE "failure"
      /\ was[p] = "loop" =>
           result[c] = IF op[c] = "createFolder" THEN "thrown" ELSE "failure"
      /\ result[c] = "success" => \A q \in missing : fs[q] = "dir"
      /\ \A q \in Paths : fs[q] # was[q] =>
           q \in missing /\ fs[q] = "dir" /\ result[c] \in {"success", "failure"}

(* A path vanishes only by a deleting call for a path at or above it that  *)
(* is running: no deletion gets out of its folder by a link it finds there *)
(* (only by one it is called with), whatever other clients do meanwhile.   *)
DeletesStayBelow ==
  [][\A q \in Paths : fs[q] # "absent" /\ fs'[q] = "absent" =>
       \E c \in Clients : pc[c] # "idle" /\ Deletes(c)
         /\ q \in Under(path[c]) \cup (IF \E s \in seen[c] : s[1] = "link" THEN Under(Target) ELSE {})]_vars

(* Every call ends: a folder that cannot be removed is given up.           *)
CallsEnd == \A c \in Clients : pc[c] # "idle" ~> pc[c] = "idle"

(* "Return true since the folder already exists" (FolderCreationResult.hpp *)
(* line 31).  It fails: a folder that comes into existence behind the      *)
(* question makes create_directories answer false, with no error.          *)
ExistingFolderIsSuccess ==
  \A c \in Clients : Ended(c) /\ MakesFolder(c) /\ fs[path[c]] = "dir"
                       /\ path[c] \notin protected =>
    result[c] \in {"success", "there"}

(* "The folder already exists" and "Return true since the folder already   *)
(* exists" (FolderCreationResult.hpp lines 29 and 31): a success means     *)
(* that a folder was there.  It fails: exists() is true of a file as well, *)
(* and then no folder is there, before or after.                           *)
CreatedFolderIsFolder ==
  \A c \in Clients : Ended(c) /\ MakesFolder(c) /\ result[c] \in {"success", "there"} =>
    Saw(c, {"dir"})
=============================================================================
