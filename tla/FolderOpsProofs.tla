--------------------------- MODULE FolderOpsProofs ---------------------------
(***************************************************************************)
(* Safety of the file and folder operations for every tree and any number  *)
(* of clients: a success was true during the call, no deletion leaves the  *)
(* folder it was called with, and a call that nobody disturbs does exactly *)
(* what it promises.                                                       *)
(***************************************************************************)
EXTENDS FolderOpsProperties, SequenceTheorems, TLAPS

(* The labels of each operation; deleteFile is also called for an entry.   *)
InFolder == {"exists", "status", "walk", "mkdir"}
InFile   == {"open_out", "write", "check_out"}
Looking  == {"exists_file", "is_file", "remove_file",
             "exists_folder", "is_folder", "open_folder"}
InEntry  == {"is_symlink", "remove_link", "is_directory"}
Deleting == Looking \cup InEntry \cup {"entries"}

(* Where the call of a client may remove something. *)
Allowed(c) == Under(path[c]) \cup (IF (\E s \in seen[c] : s[1] = "link") THEN Under(Target) ELSE {})
FrameIn(S) == [folder : S, left : SUBSET S]

(* The running deleteFolder calls begin with the client's, and all they    *)
(* know lies where the call may remove something.                          *)
Chain(c) ==
  /\ stack[c] \in Seq(FrameIn(Allowed(c)))
  /\ stack[c] # <<>> => stack[c][1].folder = path[c]
  /\ pc[c] \in InEntry \cup {"entries"} => stack[c] # <<>>
  /\ pc[c] # "entries" => /\ cur[c] \in Allowed(c)
                          /\ stack[c] = <<>> => cur[c] = path[c]
  /\ pc[c] \in Looking \cup {"is_directory"} /\ fs[cur[c]] = "link" => cur[c] = path[c]

Local(c) ==
  /\ pc[c] # "idle" => path[c] \in CallPaths /\ Sight(fs, path[c]) \in seen[c]
  /\ pc[c] \in InFolder => MakesFolder(c)
  /\ pc[c] \in InFile => op[c] = "createFile"
  /\ pc[c] \in Deleting => Deletes(c)
  /\ pc[c] \in {"walk", "mkdir"} =>
       stack[c] \in Seq(Paths) /\ stack[c] # <<>> /\ stack[c][1] = path[c]
  /\ pc[c] \in InFile \cup {"idle", "exists", "status"} => stack[c] = <<>>
  /\ pc[c] \in Deleting => Chain(c)
  /\ pc[c] \in {"write", "check_out"} => Saw(c, {"empty", "special"})
  /\ Ended(c) => TrueAnswer(c, result[c])

(* A handle is of a file that lies at its path. *)
HandlesOpen == \A c \in Clients : handle[c] # Top => fs[handle[c]] \in Files

IInv ==
  /\ TypeOK /\ stack = [c \in Clients |-> stack[c]]
  /\ HandlesOpen /\ \A c \in Clients : Local(c)
-----------------------------------------------------------------------------
(* Sequences. *)
LEMMA FrontElements ==
  ASSUME NEW A, NEW s \in Seq(A), s # <<>>
  PROVE  /\ Len(s) \in Nat \ {0} /\ Last(s) = s[Len(s)]
         /\ Front(s) \in Seq(A) /\ Len(Front(s)) = Len(s) - 1
         /\ \A i \in 1 .. Len(s) - 1 : Front(s)[i] = s[i]
<1>1. Len(s) \in Nat /\ Len(s) >= 1
  BY EmptySeq
<1> DEFINE n == Len(s) - 1
<1>2. n \in Nat /\ \A i \in 1 .. n : s[i] \in A
  BY <1>1
<1> HIDE DEF n
<1>3. /\ SubSeq(s, 1, n) \in Seq(A)
      /\ Len(SubSeq(s, 1, n)) = IF 1 <= n THEN n - 1 + 1 ELSE 0
      /\ \A i \in 1 .. n - 1 + 1 : SubSeq(s, 1, n)[i] = s[1 + i - 1]
  BY <1>2, SubSeqProperties
<1>4. n - 1 + 1 = n /\ (~(1 <= n) => n = 0) /\ \A i \in 1 .. n : 1 + i - 1 = i
  BY <1>2
<1>5. /\ SubSeq(s, 1, n) \in Seq(A) /\ Len(SubSeq(s, 1, n)) = n
      /\ \A i \in 1 .. n : SubSeq(s, 1, n)[i] = s[i]
  BY <1>3, <1>4
<1> QED BY <1>1, <1>5 DEF Front, Last, n

LEMMA FrontAndLast ==
  ASSUME NEW A, NEW s \in Seq(A), s # <<>>
  PROVE  /\ Last(s) \in A
         /\ Front(s) \in Seq(A) /\ Len(Front(s)) = Len(s) - 1
         /\ Front(s) # <<>> => Front(s)[1] = s[1]
         /\ Front(s) = <<>> => Last(s) = s[1]
<1>1. /\ Len(s) \in Nat \ {0} /\ Last(s) = s[Len(s)]
      /\ Front(s) \in Seq(A) /\ Len(Front(s)) = Len(s) - 1
      /\ \A i \in 1 .. Len(s) - 1 : Front(s)[i] = s[i]
  BY FrontElements
<1>2. Last(s) \in A
  BY <1>1
<1>3. ASSUME Front(s) # <<>> PROVE Front(s)[1] = s[1]
  <2>1. Len(Front(s)) # 0
    BY <1>1, <1>3, EmptySeq
  <2> QED BY <1>1, <2>1
<1>4. ASSUME Front(s) = <<>> PROVE Last(s) = s[1]
  <2>1. Len(s) = 1
    BY <1>1, <1>4
  <2> QED BY <1>1, <2>1
<1> QED BY <1>1, <1>2, <1>3, <1>4

LEMMA AppendElements ==
  ASSUME NEW A, NEW s \in Seq(A), NEW x \in A
  PROVE  /\ Append(s, x) \in Seq(A) /\ Append(s, x) # <<>> /\ Len(s) \in Nat
         /\ Len(Append(s, x)) = Len(s) + 1 /\ Last(Append(s, x)) = x
         /\ Append(s, x)[Len(s) + 1] = x
         /\ \A i \in 1 .. Len(s) : Append(s, x)[i] = s[i]
<1>1. /\ Append(s, x) \in Seq(A) /\ Len(Append(s, x)) = Len(s) + 1 /\ Len(s) \in Nat
      /\ \A i \in 1 .. Len(s) : Append(s, x)[i] = s[i]
      /\ Append(s, x)[Len(s) + 1] = x
  BY AppendProperties
<1>2. Append(s, x) # <<>>
  BY <1>1, EmptySeq
<1>3. Last(Append(s, x)) = Append(s, x)[Len(Append(s, x))]
  BY DEF Last
<1> QED BY <1>1, <1>2, <1>3

LEMMA AppendKeepsFirst ==
  ASSUME NEW A, NEW s \in Seq(A), NEW x \in A
  PROVE  /\ Append(s, x) \in Seq(A) /\ Append(s, x) # <<>>
         /\ s # <<>> => Append(s, x)[1] = s[1]
         /\ s = <<>> => Append(s, x)[1] = x
<1>1. Len(s) \in Nat
  OBVIOUS
<1>2. /\ Append(s, x) \in Seq(A) /\ Len(Append(s, x)) = Len(s) + 1
      /\ \A i \in 1 .. Len(s) : Append(s, x)[i] = s[i]
      /\ Append(s, x)[Len(s) + 1] = x
  BY AppendProperties
<1>3. Append(s, x) # <<>>
  BY <1>1, <1>2
<1>4. s # <<>> => Len(s) >= 1
  BY <1>1, EmptySeq
<1>5. s = <<>> => Len(s) = 0
  OBVIOUS
<1> QED BY <1>1, <1>2, <1>3, <1>4, <1>5

LEMMA FramesGrow ==
  ASSUME NEW S, NEW T, S \subseteq T, NEW s \in Seq(FrameIn(S))
  PROVE  s \in Seq(FrameIn(T))
<1>1. FrameIn(S) \subseteq FrameIn(T)
  BY DEF FrameIn
<1> QED BY <1>1, SeqMonotonic

(* The tree of paths. *)
LEMMA UnderClosed ==
  ASSUME NEW p \in Paths, NEW x \in Under(p), NEW q \in Paths, Parent[q] = x
  PROVE  q \in Under(p)
<1>1. x \in Paths /\ (x = p \/ p \in Above[x])
  BY DEF Under
<1>2. Above[q] = {x} \cup Above[x]
  BY <1>1, TreeAssumption
<1> QED BY <1>1, <1>2 DEF Under

LEMMA AllowedClosed ==
  ASSUME NEW c \in Clients, path[c] \in Paths, NEW x \in Allowed(c), NEW q \in Children(x)
  PROVE  q \in Allowed(c)
BY UnderClosed, TreeAssumption DEF Allowed, Children

LEMMA AllowedPaths ==
  ASSUME NEW c \in Clients
  PROVE  Allowed(c) \subseteq Paths
BY DEF Allowed, Under
-----------------------------------------------------------------------------
(* What a step of a client may do to what all share: no link is made, and  *)
(* handles stay open.                                                      *)
SharedOK ==
  /\ fs' \in [Paths -> KindOf] /\ IsTree(fs') /\ fs'[Target] # "link"
  /\ \A q \in Paths : fs'[q] = "link" => fs[q] = "link"
  /\ handle' \in [Clients -> Paths \cup {Top}]
  /\ \A d \in Clients : handle'[d] # Top => fs'[handle'[d]] \in Files

(* What it does to its own variables. *)
Moves(c, label, x, s, r) ==
  /\ pc' = [pc EXCEPT ![c] = label]
  /\ cur' = [cur EXCEPT ![c] = x]
  /\ stack' = [stack EXCEPT ![c] = s]
  /\ result' = [result EXCEPT ![c] = r]

(* A step of a call that is running. *)
Running(c) ==
  /\ pc[c] # "idle" /\ Record(c) /\ UNCHANGED <<op, path, calls, protected>>

LEMMA SightKinds ==
  ASSUME NEW f \in [Paths -> KindOf], NEW p \in Paths
  PROVE  Sight(f, p) \in KindOf \X KindOf
BY TreeAssumption DEF Sight

LEMMA PathsOfCalls ==
  ASSUME IInv, NEW d \in Clients, pc[d] # "idle"
  PROVE  path[d] \in Paths /\ Sight(fs, path[d]) \in seen[d]
BY CallsAssumption DEF IInv, Local

LEMMA HistoryOfRunning ==
  ASSUME IInv, NEW c \in Clients, Running(c), fs' \in [Paths -> KindOf]
  PROVE  /\ seen' \in [Clients -> SUBSET (KindOf \X KindOf)]
         /\ before' \in [Clients -> [Paths -> KindOf]]
         /\ disturbed' \subseteq Clients
         /\ \A d \in Clients : seen'[d] = IF pc[d] = "idle" THEN seen[d]
                                          ELSE seen[d] \cup {Sight(fs', path[d])}
<1>1. \A d \in Clients : calls'[d] = calls[d]
  BY DEF Running
<1>2. seen' = [d \in Clients |-> IF pc[d] = "idle" THEN seen[d]
                                 ELSE seen[d] \cup {Sight(fs', path[d])}]
  BY <1>1 DEF Running, Record
<1>3. seen \in [Clients -> SUBSET (KindOf \X KindOf)]
  BY DEF IInv, TypeOK
<1>4. ASSUME NEW d \in Clients, pc[d] # "idle" PROVE Sight(fs', path[d]) \in KindOf \X KindOf
  BY <1>4, PathsOfCalls, SightKinds
<1>5. seen' \in [Clients -> SUBSET (KindOf \X KindOf)]
  BY <1>2, <1>3, <1>4
<1>6. disturbed' \subseteq Clients
  BY <1>1 DEF Running, Record, IInv, TypeOK
<1>7. before' \in [Clients -> [Paths -> KindOf]]
  <2>1. Nothing \in [Paths -> KindOf] /\ before \in [Clients -> [Paths -> KindOf]]
    BY DEF Nothing, KindOf, IInv, TypeOK
  <2>2. before' = [d \in Clients |-> IF d \in disturbed' THEN Nothing ELSE before[d]]
    BY <1>1 DEF Running, Record
  <2> QED BY <2>1, <2>2
<1> QED BY <1>2, <1>5, <1>6, <1>7

LEMMA AllowedGrows ==
  ASSUME NEW d \in Clients, path'[d] = path[d], seen[d] \subseteq seen'[d]
  PROVE  Allowed(d) \subseteq Allowed(d)'
BY DEF Allowed, Under

LEMMA ChainGrows ==
  ASSUME NEW d \in Clients, Chain(d), Allowed(d) \subseteq Allowed(d)',
         path'[d] = path[d], pc'[d] = pc[d], cur'[d] = cur[d], stack'[d] = stack[d],
         \A q \in Paths : fs'[q] = "link" => fs[q] = "link"
  PROVE  Chain(d)'
<1>1. stack'[d] \in Seq(FrameIn(Allowed(d)'))
  BY FramesGrow DEF Chain
<1>2. cur[d] \in Allowed(d) => cur[d] \in Paths
  BY AllowedPaths
<1>3. pc[d] \in Looking \cup {"is_directory"} => pc[d] # "entries"
  BY DEF Looking
<1> QED BY <1>1, <1>2, <1>3 DEF Chain, FrameIn, InEntry, Looking

(* A client that does not move keeps its part of the invariant. *)
LEMMA OthersKeep ==
  ASSUME IInv, NEW d \in Clients, \A q \in Paths : fs'[q] = "link" => fs[q] = "link",
         pc'[d] = pc[d], cur'[d] = cur[d], stack'[d] = stack[d], result'[d] = result[d],
         op'[d] = op[d], path'[d] = path[d],
         seen'[d] = IF pc[d] = "idle" THEN seen[d] ELSE seen[d] \cup {Sight(fs', path[d])}
  PROVE  Local(d)'
<1>1. Local(d)
  BY DEF IInv
<1>2. Allowed(d) \subseteq Allowed(d)'
  BY AllowedGrows
<1>3. pc[d] \in Deleting => Chain(d)'
  BY <1>1, <1>2, ChainGrows DEF Local
<1>4. pc[d] # "idle" => Sight(fs', path'[d]) \in seen'[d]
  OBVIOUS
<1>5. Ended(d)' => Ended(d) /\ seen'[d] = seen[d]
  BY DEF Ended
<1>6. seen[d] \subseteq seen'[d] /\ (Ended(d)' => seen'[d] = seen[d])
  BY <1>5
<1>7. pc[d] \in {"write", "check_out"} => Saw(d, {"empty", "special"})'
  BY <1>1, <1>6 DEF Local, Saw
<1>8. Ended(d)' => TrueAnswer(d, result[d])'
  BY <1>1, <1>5 DEF Local, TrueAnswer, Saw, MakesFolder, Deletes
<1> QED BY <1>1, <1>3, <1>4, <1>7, <1>8 DEF Local, MakesFolder, Deletes

(* So only the client that moves needs looking at. *)
LEMMA RunKeeps ==
  ASSUME IInv, NEW c \in Clients, Running(c), SharedOK,
         NEW label \in Label, NEW x \in Paths \cup {Top}, NEW s,
         NEW r \in Result, Moves(c, label, x, s, r),
         Local(c)'
  PROVE  IInv'
<1>1. /\ seen' \in [Clients -> SUBSET (KindOf \X KindOf)]
      /\ before' \in [Clients -> [Paths -> KindOf]]
      /\ disturbed' \subseteq Clients
      /\ \A d \in Clients : seen'[d] = IF pc[d] = "idle" THEN seen[d]
                                       ELSE seen[d] \cup {Sight(fs', path[d])}
  BY HistoryOfRunning DEF SharedOK
<1>2. op' = op /\ path' = path /\ calls' = calls /\ protected' = protected
  BY DEF Running
<1>3. /\ pc' \in [Clients -> Label] /\ cur' \in [Clients -> Paths \cup {Top}]
      /\ result' \in [Clients -> Result]
      /\ stack' = [d \in Clients |-> stack'[d]]
  <2>1. /\ pc \in [Clients -> Label] /\ cur \in [Clients -> Paths \cup {Top}]
        /\ result \in [Clients -> Result]
        /\ stack = [d \in Clients |-> stack[d]]
    BY DEF IInv, TypeOK
  <2> QED BY <2>1 DEF Moves
<1>4. \A d \in Clients \ {c} : /\ pc'[d] = pc[d] /\ cur'[d] = cur[d]
                               /\ stack'[d] = stack[d] /\ result'[d] = result[d]
  <2>1. /\ pc \in [Clients -> Label] /\ cur \in [Clients -> Paths \cup {Top}]
        /\ result \in [Clients -> Result]
        /\ stack = [d \in Clients |-> stack[d]]
    BY DEF IInv, TypeOK
  <2> QED BY <2>1 DEF Moves
<1>5. ASSUME NEW d \in Clients PROVE Local(d)'
  BY <1>1, <1>2, <1>4, OthersKeep DEF SharedOK
<1>6. ASSUME NEW d \in Clients
      PROVE  /\ pc'[d] \in {"walk", "mkdir"} => stack'[d] \in Seq(Paths) \ {<<>>}
             /\ pc'[d] = "entries" => stack'[d] \in Seq(Frame) \ {<<>>}
  <2>1. pc'[d] = "entries" =>
          stack'[d] \in Seq(FrameIn(Allowed(d)')) /\ stack'[d] # <<>>
    BY <1>5 DEF Local, Chain, Deleting
  <2>2. pc'[d] = "entries" => stack'[d] \in Seq(Frame)
    <3>1. Allowed(d)' \subseteq Paths
      BY DEF Allowed, Under
    <3>2. FrameIn(Paths) = Frame
      BY DEF FrameIn, Frame
    <3> QED BY <2>1, <3>1, <3>2, FramesGrow
  <2> QED BY <1>5, <2>1, <2>2 DEF Local
<1>7. TypeOK'
  BY <1>1, <1>2, <1>3, <1>6 DEF IInv, TypeOK, SharedOK
<1>8. HandlesOpen'
  BY DEF SharedOK, HandlesOpen
<1> QED BY <1>3, <1>5, <1>7, <1>8 DEF IInv
-----------------------------------------------------------------------------
(* The ways in which a client moves. *)
LEMMA SharedSame ==
  ASSUME IInv, NEW c \in Clients, fs' = fs,
         handle' = handle \/ handle' = [handle EXCEPT ![c] = Top]
  PROVE  SharedOK
BY DEF IInv, TypeOK, HandlesOpen, SharedOK, IsTree, Folders

LEMMA Unmoved ==
  ASSUME IInv, NEW c \in Clients
  PROVE  /\ cur = [cur EXCEPT ![c] = cur[c]]
         /\ stack = [stack EXCEPT ![c] = stack[c]]
         /\ result = [result EXCEPT ![c] = result[c]]
         /\ cur[c] \in Paths \cup {Top}
         /\ result[c] \in Result
BY DEF IInv, TypeOK

(* It ends its call. *)
LEMMA Returns ==
  ASSUME IInv, NEW c \in Clients, Running(c), SharedOK,
         NEW how \in Result \ {"none"}, Moves(c, "idle", Top, <<>>, how),
         how = "there" => MakesFolder(c) /\ Exists(path[c]),
         how = "success" =>
           /\ MakesFolder(c) => fs'[path[c]] = "dir"
           /\ op[c] = "createFile" => Saw(c, {"empty", "special"})
           /\ Deletes(c) => fs'[path[c]] = "absent"
  PROVE  IInv'
<1>1. /\ pc'[c] = "idle" /\ stack'[c] = <<>> /\ result'[c] = how
  BY DEF Moves, IInv, TypeOK
<1>2. op'[c] = op[c] /\ path'[c] = path[c] /\ pc[c] # "idle"
  BY DEF Running
<1>3. /\ Sight(fs, path[c]) \in seen[c] /\ seen'[c] = seen[c] \cup {Sight(fs', path[c])}
      /\ path[c] \in Paths
  BY <1>2, PathsOfCalls, HistoryOfRunning DEF SharedOK
<1>4. /\ MakesFolder(c)' = MakesFolder(c) /\ Deletes(c)' = Deletes(c)
  BY <1>2 DEF MakesFolder, Deletes
<1>5. TrueAnswer(c, how)'
  <2>1. ASSUME how = "there" PROVE Saw(c, KindOf \ {"absent", "loop"})'
    <3>1. Sight(fs, path[c])[2] = Kind(path[c])
      BY DEF Sight, Kind, Resolve
    <3>2. Sight(fs, path[c])[2] \in KindOf
      BY <1>3, SightKinds DEF IInv, TypeOK
    <3> QED BY <1>3, <2>1, <3>1, <3>2 DEF Saw, Exists
  <2>2. \A k \in {"dir", "absent"} : fs'[path[c]] = k => <<k, k>> \in seen'[c]
    BY <1>3 DEF Sight
  <2>3. Saw(c, {"empty", "special"}) => Saw(c, {"empty", "special"})'
    BY <1>3 DEF Saw
  <2> QED BY <1>2, <1>4, <2>1, <2>2, <2>3 DEF TrueAnswer
<1>6. pc'[c] \notin InFolder \cup InFile \cup Deleting \cup {"walk", "mkdir", "write", "check_out"}
  BY <1>1 DEF InFolder, InFile, Deleting, Looking, InEntry
<1>9. TrueAnswer(c, result[c])'
  BY <1>1, <1>5 DEF TrueAnswer, Saw
<1>7. Local(c)'
  BY <1>1, <1>6, <1>9 DEF Local
<1>8. "idle" \in Label
  BY DEF Label
<1> QED BY <1>7, <1>8, RunKeeps

(* It goes on in createFolder or createFile. *)
LEMMA GoesOn ==
  ASSUME IInv, NEW c \in Clients, Running(c), SharedOK,
         NEW label \in InFolder \cup InFile, NEW s,
         Moves(c, label, cur[c], s, result[c]),
         label \in InFolder => pc[c] \in InFolder, label \in InFile => pc[c] \in InFile,
         label \in {"walk", "mkdir"} => s \in Seq(Paths) /\ s # <<>> /\ s[1] = path[c],
         label \notin {"walk", "mkdir"} => s = <<>>,
         label \in {"write", "check_out"} =>
           Saw(c, {"empty", "special"}) \/ Sight(fs', path[c])[2] = "empty"
  PROVE  IInv'
<1>1. pc'[c] = label /\ stack'[c] = s
  BY DEF Moves, IInv, TypeOK
<1>2. op'[c] = op[c] /\ path'[c] = path[c] /\ pc[c] # "idle" /\ path[c] \in CallPaths
  BY DEF Running, IInv, Local
<1>3. seen'[c] = seen[c] \cup {Sight(fs', path[c])}
  BY <1>2, HistoryOfRunning DEF SharedOK
<1>9. /\ Sight(fs', path'[c]) \in seen'[c]
      /\ label \in {"write", "check_out"} => Saw(c, {"empty", "special"})'
  BY <1>2, <1>3 DEF Saw
<1>4. label \notin Deleting \cup {"idle"}
  BY DEF InFolder, InFile, Deleting, Looking, InEntry
<1>5. /\ label \in InFolder => MakesFolder(c)
      /\ label \in InFile => op[c] = "createFile"
      /\ label \in InFile \cup {"exists", "status"} => label \notin {"walk", "mkdir"}
  BY DEF IInv, Local, InFile
<1>6. Local(c)'
  BY <1>1, <1>2, <1>4, <1>5, <1>9 DEF Local, Ended, MakesFolder
<1>7. label \in Label
  BY DEF InFolder, InFile, Label
<1>8. cur[c] \in Paths \cup {Top} /\ result[c] \in Result
  BY Unmoved
<1> QED BY <1>6, <1>7, <1>8, RunKeeps

(* It goes on in a deletion, up or down the chain of its calls. *)
LEMMA GoesDown ==
  ASSUME IInv, NEW c \in Clients, Running(c), SharedOK, pc[c] \in Deleting,
         NEW label \in Deleting, NEW x \in Paths \cup {Top}, NEW s,
         Moves(c, label, x, s, result[c]),
         s \in Seq(FrameIn(Allowed(c))), s # <<>> => s[1].folder = path[c],
         label \in InEntry \cup {"entries"} => s # <<>>,
         label # "entries" => x \in Allowed(c) /\ (s = <<>> => x = path[c]),
         label \in Looking \cup {"is_directory"} /\ fs[x] = "link" => x = path[c]
  PROVE  IInv'
<1>1. pc'[c] = label /\ stack'[c] = s /\ cur'[c] = x
  BY DEF Moves, IInv, TypeOK
<1>2. op'[c] = op[c] /\ path'[c] = path[c] /\ pc[c] # "idle" /\ path[c] \in CallPaths
  BY DEF Running, IInv, Local
<1>3. seen'[c] = seen[c] \cup {Sight(fs', path[c])}
  BY <1>2, HistoryOfRunning DEF SharedOK
<1>4. Allowed(c) \subseteq Allowed(c)'
  BY <1>2, <1>3, AllowedGrows
<1>5. s \in Seq(FrameIn(Allowed(c)'))
  BY <1>4, FramesGrow
<1>6. label \in Looking \cup {"is_directory"} => label # "entries"
  BY DEF Looking
<1>7. label # "entries" => x \in Paths
  BY AllowedPaths
<1>8. label \in Looking \cup {"is_directory"} /\ fs'[x] = "link" => x = path[c]
  BY <1>6, <1>7 DEF SharedOK
<1>9. Chain(c)'
  <2>1. stack'[c] \in Seq(FrameIn(Allowed(c)'))
    BY <1>1, <1>5
  <2>2. stack'[c] # <<>> => stack'[c][1].folder = path'[c]
    BY <1>1, <1>2
  <2>3. pc'[c] # "entries" => cur'[c] \in Allowed(c)' /\ (stack'[c] = <<>> => cur'[c] = path'[c])
    BY <1>1, <1>2, <1>4
  <2>4. /\ pc'[c] \in InEntry \cup {"entries"} => stack'[c] # <<>>
        /\ pc'[c] \in Looking \cup {"is_directory"} /\ fs'[cur'[c]] = "link" => cur'[c] = path'[c]
    BY <1>1, <1>2, <1>8
  <2>5. FrameIn(Allowed(c))' = FrameIn(Allowed(c)')
    BY DEF FrameIn
  <2> QED BY <2>1, <2>2, <2>3, <2>4, <2>5 DEF Chain, InEntry, Looking
<1>10. label \notin InFolder \cup InFile \cup {"idle", "walk", "mkdir", "exists", "status",
                                               "write", "check_out"}
  BY DEF InFolder, InFile, Deleting, Looking, InEntry
<1>11. Deletes(c)'
  BY <1>2 DEF IInv, Local, Deletes
<1>12. Local(c)'
  BY <1>1, <1>2, <1>3, <1>9, <1>10, <1>11 DEF Local, Ended
<1>13. label \in Label
  BY DEF Deleting, Looking, InEntry, Label
<1>14. result[c] \in Result
  BY Unmoved
<1> QED BY <1>12, <1>13, <1>14, RunKeeps

LEMMA FailMoves ==
  ASSUME IInv, NEW c \in Clients, Running(c), fs' = fs, Fail(c)
  PROVE  IInv'
<1>1. handle' = [handle EXCEPT ![c] = Top] /\ Moves(c, "idle", Top, <<>>, "failure")
  BY DEF Fail, Return, Goto, Moves
<1> QED BY <1>1, SharedSame, Returns DEF Result

LEMMA SucceedMoves ==
  ASSUME IInv, NEW c \in Clients, Running(c), SharedOK, Succeed(c),
         pc[c] \in InFolder \cup InFile,
         pc[c] \in InFolder => fs'[path[c]] = "dir",
         pc[c] \in InFile => pc[c] = "check_out"
  PROVE  IInv'
<1>1. Moves(c, "idle", Top, <<>>, "success")
  BY DEF Succeed, Return, Goto, Moves
<1>2. /\ ~Deletes(c)
      /\ MakesFolder(c) => fs'[path[c]] = "dir"
      /\ op[c] = "createFile" => Saw(c, {"empty", "special"})
  BY DEF IInv, Local, Deletes, MakesFolder
<1> QED BY <1>1, <1>2, Returns DEF Result

LEMMA ContinueMoves ==
  ASSUME IInv, NEW c \in Clients, NEW label, Continue(c, label)
  PROVE  Moves(c, label, cur[c], stack[c], result[c]) /\ handle' = handle
BY Unmoved DEF Continue, Goto, Moves

-----------------------------------------------------------------------------
(* createFolder. *)
LEMMA ExistsKeeps ==
  ASSUME IInv, NEW c \in Clients, Running(c), exists(c)
  PROVE  IInv'
<1>1. pc[c] = "exists" /\ fs' = fs
  BY DEF exists
<1>2. CASE Exists(path[c]) /\ Return(c, "there")
  <2>1. SharedOK /\ Moves(c, "idle", Top, <<>>, "there")
    BY <1>1, <1>2, SharedSame DEF Return, Goto, Moves
  <2>2. MakesFolder(c)
    BY <1>1 DEF IInv, Local, InFolder
  <2> QED BY <1>2, <2>1, <2>2, Returns DEF Result
<1>4. CASE Throw(c)
  <2>1. PICK how \in {"thrown", "failure"} : Return(c, how)
    BY <1>4 DEF Throw, Fail
  <2>2. SharedOK /\ Moves(c, "idle", Top, <<>>, how)
    BY <1>1, <2>1, SharedSame DEF Return, Goto, Moves
  <2> QED BY <2>2, Returns DEF Result
<1>3. CASE Continue(c, "status")
  <2>1. Moves(c, "status", cur[c], stack[c], result[c]) /\ SharedOK
    BY <1>1, <1>3, ContinueMoves, SharedSame
  <2>2. stack[c] = <<>>
    BY <1>1 DEF IInv, Local
  <2> QED BY <1>1, <2>1, <2>2, GoesOn DEF InFolder, InFile
<1> QED BY <1>2, <1>3, <1>4 DEF exists

LEMMA StatusKeeps ==
  ASSUME IInv, NEW c \in Clients, Running(c), status(c)
  PROVE  IInv'
<1>1. pc[c] = "status" /\ fs' = fs
  BY DEF status
<1>2. CASE Fail(c)
  BY <1>1, <1>2, FailMoves
<1>3. CASE /\ Goto(c, "walk") /\ stack' = [stack EXCEPT ![c] = <<path[c]>>]
           /\ UNCHANGED <<cur, handle, result>>
  <2>1. Moves(c, "walk", cur[c], <<path[c]>>, result[c]) /\ SharedOK
    BY <1>1, <1>3, Unmoved, SharedSame DEF Moves, Goto
  <2>2. path[c] \in Paths
    BY <1>1, PathsOfCalls
  <2>3. <<path[c]>> \in Seq(Paths) /\ <<path[c]>> # <<>> /\ <<path[c]>>[1] = path[c]
    BY <2>2
  <2> QED BY <1>1, <2>1, <2>3, GoesOn DEF InFolder, InFile
<1> QED BY <1>2, <1>3 DEF status

LEMMA WalkKeeps ==
  ASSUME IInv, NEW c \in Clients, Running(c), walk(c)
  PROVE  IInv'
<1> DEFINE q == Parent[Last(stack[c])]
<1>1. pc[c] = "walk" /\ fs' = fs
  BY DEF walk
<1>2. stack[c] \in Seq(Paths) /\ stack[c] # <<>> /\ stack[c][1] = path[c]
  BY <1>1 DEF IInv, Local
<1>3. CASE Fail(c)
  BY <1>1, <1>3, FailMoves
<1>4. CASE Continue(c, "mkdir")
  <2>1. Moves(c, "mkdir", cur[c], stack[c], result[c]) /\ SharedOK
    BY <1>1, <1>4, ContinueMoves, SharedSame
  <2> QED BY <1>1, <1>2, <2>1, GoesOn DEF InFolder, InFile
<1>5. CASE /\ q # Top /\ stack' = [stack EXCEPT ![c] = Append(@, q)]
           /\ Goto(c, "walk") /\ UNCHANGED <<cur, handle, result>>
  <2>1. Moves(c, "walk", cur[c], Append(stack[c], q), result[c]) /\ SharedOK
    BY <1>1, <1>5, Unmoved, SharedSame DEF Moves, Goto
  <2>2. q \in Paths
    BY <1>2, <1>5, FrontAndLast, TreeAssumption
  <2>3. /\ Append(stack[c], q) \in Seq(Paths) /\ Append(stack[c], q) # <<>>
        /\ Append(stack[c], q)[1] = path[c]
    BY <1>2, <2>2, AppendKeepsFirst
  <2> HIDE DEF q
  <2> QED BY <1>1, <2>1, <2>3, GoesOn DEF InFolder, InFile
<1> QED BY <1>3, <1>4, <1>5 DEF walk

(* Putting something that is no link at a path whose folder is there.      *)
LEMMA MakeShared ==
  ASSUME IInv, NEW q \in Paths, NEW kind \in {"dir", "empty", "full"},
         fs' = [fs EXCEPT ![q] = kind], handle' \in [Clients -> Paths \cup {Top}],
         CanMake(q) \/ (kind # "dir" /\ fs[q] \in Files),
         \A d \in Clients : handle'[d] \in {handle[d], Top} \/ (handle'[d] = q /\ kind # "dir")
  PROVE  SharedOK
<1>1. fs \in [Paths -> KindOf] /\ IsTree(fs) /\ fs[Target] # "link"
  BY DEF IInv, TypeOK
<1>2. fs' \in [Paths -> KindOf] /\ fs'[Target] # "link"
  BY <1>1, TreeAssumption DEF KindOf, Files
<1>3. Parent[q] \in Folders(fs)
  BY <1>1 DEF CanMake, ParentIsDir, IsTree, Files
<1>4. fs[q] # "dir"
  BY DEF CanMake, Files
<1>5. Folders(fs) \subseteq Folders(fs')
  BY <1>1, <1>4 DEF Folders
<1>6. IsTree(fs')
  <2>1. ASSUME NEW p \in Paths, fs'[p] # "absent" PROVE Parent[p] \in Folders(fs)
    BY <1>1, <1>3, <2>1 DEF IsTree
  <2> QED BY <1>5, <2>1 DEF IsTree
<1>7. \A p \in Paths : fs'[p] = "link" => fs[p] = "link"
  BY <1>1
<1>8. ASSUME NEW d \in Clients, handle'[d] # Top PROVE fs'[handle'[d]] \in Files
  <2>1. CASE handle'[d] = q /\ kind # "dir"
    BY <1>1, <2>1 DEF Files
  <2>2. CASE handle'[d] \in {handle[d], Top}
    <3>4. handle'[d] = handle[d] /\ handle[d] # Top
      BY <1>8, <2>2
    <3>1. handle[d] \in Paths /\ fs[handle[d]] \in Files
      BY <3>4 DEF IInv, TypeOK, HandlesOpen
    <3>2. CASE handle[d] = q
      <4>1. kind # "dir"
        BY <3>1, <3>2 DEF CanMake, Files
      <4> QED BY <1>1, <3>2, <3>4, <4>1 DEF Files
    <3>3. CASE handle[d] # q
      BY <1>1, <3>1, <3>3, <3>4
    <3> QED BY <3>2, <3>3
  <2> QED BY <2>1, <2>2
<1> QED BY <1>2, <1>6, <1>7, <1>8 DEF SharedOK

LEMMA MkdirDoneKeeps ==
  ASSUME IInv, NEW c \in Clients, Running(c), pc[c] = "mkdir", NEW made \in BOOLEAN,
         MkdirDone(c, made), SharedOK,
         made => fs'[Last(stack[c])] = "dir"
  PROVE  IInv'
<1>1. stack[c] \in Seq(Paths) /\ stack[c] # <<>> /\ stack[c][1] = path[c]
  BY DEF IInv, Local
<1>2. CASE Len(stack[c]) = 1 /\ made /\ Succeed(c)
  <2>1. Last(stack[c]) = path[c]
    BY <1>1, <1>2 DEF Last
  <2> QED BY <1>2, <2>1, SucceedMoves DEF InFolder, InFile
<1>3. CASE Fail(c)
  <2>1. Moves(c, "idle", Top, <<>>, "failure")
    BY <1>3 DEF Fail, Return, Goto, Moves
  <2> QED BY <2>1, Returns DEF Result
<1>4. CASE /\ Len(stack[c]) # 1 /\ stack' = [stack EXCEPT ![c] = Front(@)]
           /\ Goto(c, "mkdir") /\ UNCHANGED <<cur, handle, result>>
  <2>1. Moves(c, "mkdir", cur[c], Front(stack[c]), result[c])
    BY <1>4, Unmoved DEF Moves, Goto
  <2>2. /\ Front(stack[c]) \in Seq(Paths) /\ Len(Front(stack[c])) = Len(stack[c]) - 1
        /\ Front(stack[c]) # <<>> => Front(stack[c])[1] = path[c]
    BY <1>1, FrontAndLast
  <2>3. Front(stack[c]) # <<>>
    <3>1. Len(stack[c]) - 1 # 0
      BY <1>1, <1>4
    <3> QED BY <2>2, <3>1, EmptySeq
  <2> QED BY <2>1, <2>2, <2>3, GoesOn DEF InFolder, InFile
<1> QED BY <1>2, <1>3, <1>4 DEF MkdirDone

LEMMA MkdirKeeps ==
  ASSUME IInv, NEW c \in Clients, Running(c), mkdir(c)
  PROVE  IInv'
<1> DEFINE q == Last(stack[c])
<1>1. pc[c] = "mkdir"
  BY DEF mkdir
<1>2. q \in Paths
  BY <1>1, FrontAndLast DEF IInv, Local
<1>3. handle' = handle \/ handle' = [handle EXCEPT ![c] = Top]
  BY DEF mkdir, MkdirDone, Succeed, Fail, Return
<1>4. CASE CanMake(q) /\ fs' = [fs EXCEPT ![q] = "dir"] /\ MkdirDone(c, TRUE)
  <2>1. SharedOK
    <3>1. \A d \in Clients : handle'[d] \in {handle[d], Top}
      BY <1>3 DEF IInv, TypeOK
    <3>2. handle' \in [Clients -> Paths \cup {Top}]
      BY <1>3 DEF IInv, TypeOK
    <3> HIDE DEF q
    <3>3. fs' = [fs EXCEPT ![q] = "dir"] /\ CanMake(q)
      BY <1>4
    <3> QED BY <1>2, <3>1, <3>2, <3>3, MakeShared
  <2>2. fs'[q] = "dir"
    BY <1>2, <1>4 DEF IInv, TypeOK
  <2> QED BY <1>1, <1>4, <2>1, <2>2, MkdirDoneKeeps
<1>5. CASE MkdirDone(c, FALSE) /\ fs' = fs
  <2>1. SharedOK
    BY <1>3, <1>5, SharedSame
  <2> QED BY <1>1, <1>5, <2>1, MkdirDoneKeeps
<1>6. CASE Fail(c) /\ fs' = fs
  BY <1>6, FailMoves
<1> QED BY <1>4, <1>5, <1>6 DEF mkdir
-----------------------------------------------------------------------------
(* createFile. *)
LEMMA OpenOutKeeps ==
  ASSUME IInv, NEW c \in Clients, Running(c), open_out(c)
  PROVE  IInv'
<1> DEFINE q == Resolve(path[c])
<1>1. pc[c] = "open_out"
  BY DEF open_out
<1>2. stack[c] = <<>> /\ q \in Paths
  BY <1>1, PathsOfCalls, TreeAssumption DEF IInv, Local, InFile, Resolve
<1>3. CASE Fail(c) /\ fs' = fs
  BY <1>3, FailMoves
<1>4. CASE /\ CanMake(q) \/ fs[q] \in Files
           /\ fs' = [fs EXCEPT ![q] = "empty"]
           /\ handle' = [handle EXCEPT ![c] = q]
           /\ Goto(c, "write")
           /\ UNCHANGED <<cur, stack, result>>
  <2>5. Sight(fs', path[c])[2] = "empty"
    <3>1. path[c] \in Paths /\ fs \in [Paths -> KindOf] /\ fs[Target] # "link"
      BY <1>1, PathsOfCalls DEF IInv, TypeOK
    <3>2. CASE fs[path[c]] = "link"
      <4>1. q = Target /\ Target # path[c]
        BY <3>1, <3>2 DEF Resolve
      <4> QED BY <1>2, <1>4, <3>1, <3>2, <4>1 DEF Sight
    <3>3. CASE fs[path[c]] # "link"
      <4>1. q = path[c]
        BY <3>3 DEF Resolve
      <4> QED BY <1>4, <3>1, <4>1 DEF Sight
    <3> QED BY <3>2, <3>3
  <2> HIDE DEF q
  <2>1. \A d \in Clients : handle'[d] \in {handle[d], Top} \/ handle'[d] = q
    BY <1>4 DEF IInv, TypeOK
  <2>2. handle' \in [Clients -> Paths \cup {Top}]
    BY <1>2, <1>4 DEF IInv, TypeOK
  <2>3. SharedOK
    BY <1>2, <1>4, <2>1, <2>2, MakeShared
  <2>4. Moves(c, "write", cur[c], stack[c], result[c])
    BY <1>4, Unmoved DEF Moves, Goto
  <2> QED BY <1>1, <1>2, <2>3, <2>4, <2>5, GoesOn DEF InFolder, InFile
<1>5. CASE fs[q] = "special" /\ Continue(c, "write") /\ fs' = fs
  <2>1. Moves(c, "write", cur[c], stack[c], result[c]) /\ SharedOK
    BY <1>5, ContinueMoves, SharedSame
  <2>2. Saw(c, {"empty", "special"})
    <3>1. Sight(fs, path[c]) \in seen[c]
      BY <1>1, PathsOfCalls
    <3>2. Sight(fs, path[c])[2] = fs[q]
      BY DEF Sight, Resolve
    <3> QED BY <1>5, <3>1, <3>2 DEF Saw
  <2> HIDE DEF q
  <2> QED BY <1>1, <1>2, <2>1, <2>2, GoesOn DEF InFolder, InFile
<1> QED BY <1>3, <1>4, <1>5 DEF open_out

LEMMA WriteKeeps ==
  ASSUME IInv, NEW c \in Clients, Running(c), write(c)
  PROVE  IInv'
<1>1. pc[c] = "write" /\ Continue(c, "check_out")
  BY DEF write
<1>2. Moves(c, "check_out", cur[c], stack[c], result[c]) /\ handle' = handle
  BY <1>1, ContinueMoves
<1>3. stack[c] = <<>> /\ Saw(c, {"empty", "special"})
  BY <1>1 DEF IInv, Local, InFile
<1>4. CASE fs' = fs
  BY <1>1, <1>2, <1>3, <1>4, SharedSame, GoesOn DEF InFolder, InFile
<1>5. CASE handle[c] # Top /\ fs' = [fs EXCEPT ![handle[c]] = "full"]
  <2> DEFINE q == handle[c]
  <2>1. q \in Paths /\ fs[q] \in Files
    BY <1>5 DEF IInv, TypeOK, HandlesOpen
  <2>2. fs' = [fs EXCEPT ![q] = "full"]
    BY <1>5
  <2> HIDE DEF q
  <2>3. handle' \in [Clients -> Paths \cup {Top}]
    BY <1>2 DEF IInv, TypeOK
  <2>4. SharedOK
    BY <1>2, <2>1, <2>2, <2>3, MakeShared
  <2> QED BY <1>1, <1>2, <1>3, <2>4, GoesOn DEF InFolder, InFile
<1> QED BY <1>4, <1>5 DEF write

LEMMA CheckOutKeeps ==
  ASSUME IInv, NEW c \in Clients, Running(c), check_out(c)
  PROVE  IInv'
<1>1. pc[c] = "check_out" /\ fs' = fs
  BY DEF check_out
<1>2. CASE Succeed(c)
  <2>1. SharedOK
    BY <1>1, <1>2, SharedSame DEF Succeed, Return
  <2> QED BY <1>1, <1>2, <2>1, SucceedMoves DEF InFile, InFolder
<1>3. CASE Fail(c)
  BY <1>1, <1>3, FailMoves
<1> QED BY <1>2, <1>3 DEF check_out
-----------------------------------------------------------------------------
(* Deletions. *)
LEMMA ChainHolds ==
  ASSUME IInv, NEW c \in Clients, pc[c] \in Deleting
  PROVE  Chain(c) /\ path[c] \in Paths
BY PathsOfCalls DEF IInv, Local, Deleting, Looking, InEntry

(* Something goes that is no folder, or an empty one. *)
LEMMA RemoveShared ==
  ASSUME IInv, NEW q \in Paths, CanRemove(q),
         fs' = [fs EXCEPT ![q] = "absent"], handle' = Unlinked(q, handle)
  PROVE  SharedOK
<1>1. fs \in [Paths -> KindOf] /\ IsTree(fs) /\ fs[Target] # "link"
  BY DEF IInv, TypeOK
<1>2. fs' \in [Paths -> KindOf] /\ fs'[Target] # "link"
  BY <1>1, TreeAssumption DEF KindOf
<1>3. IsTree(fs')
  <2>1. ASSUME NEW p \in Paths, fs'[p] # "absent" PROVE Parent[p] \in Folders(fs')
    <3>1. fs[p] # "absent" /\ Parent[p] \in Folders(fs)
      BY <1>1, <2>1 DEF IsTree
    <3>2. Parent[p] # q
      BY <3>1, TreeAssumption DEF CanRemove, Children, Folders
    <3> QED BY <1>1, <3>1, <3>2 DEF Folders
  <2> QED BY <2>1 DEF IsTree
<1>4. \A p \in Paths : fs'[p] = "link" => fs[p] = "link"
  BY <1>1
<1>5. handle' \in [Clients -> Paths \cup {Top}]
  BY DEF Unlinked, IInv, TypeOK
<1>6. ASSUME NEW d \in Clients, handle'[d] # Top PROVE fs'[handle'[d]] \in Files
  <2>1. handle'[d] = handle[d] /\ handle[d] # q
    BY <1>6 DEF Unlinked
  <2>2. handle[d] \in Paths /\ fs[handle[d]] \in Files
    BY <1>6, <2>1 DEF IInv, TypeOK, HandlesOpen
  <2> QED BY <1>1, <2>1, <2>2
<1> QED BY <1>2, <1>3, <1>4, <1>5, <1>6 DEF SharedOK

LEMMA RemovedKeeps ==
  ASSUME IInv, NEW c \in Clients, Running(c), pc[c] \in Deleting, SharedOK,
         NEW q \in Paths, fs'[q] = "absent", NEW rest, Removed(c, rest),
         rest \in Seq(FrameIn(Allowed(c))), rest # <<>> => rest[1].folder = path[c],
         rest = <<>> => q = path[c]
  PROVE  IInv'
<1>1. CASE rest = <<>>
  <2>1. Moves(c, "idle", Top, <<>>, "success")
    BY <1>1 DEF Removed, Moves, Goto
  <2>2. ~MakesFolder(c) /\ op[c] # "createFile"
    BY DEF IInv, Local, MakesFolder, Deletes
  <2> QED BY <1>1, <2>1, <2>2, Returns DEF Result
<1>2. CASE rest # <<>>
  <2>1. Moves(c, "entries", cur[c], rest, result[c])
    BY <1>2, Unmoved DEF Removed, Moves, Goto
  <2>2. cur[c] \in Paths \cup {Top}
    BY Unmoved
  <2>3. "entries" \in Deleting /\ "entries" \notin Looking \cup {"is_directory"}
    BY DEF Deleting, Looking
  <2> QED BY <1>2, <2>1, <2>2, <2>3, GoesDown
<1> QED BY <1>1, <1>2

LEMMA RemoveKeeps ==
  ASSUME IInv, NEW c \in Clients, Running(c), pc[c] \in Deleting,
         NEW q \in Paths, NEW rest, fs_remove(c, q, rest),
         rest \in Seq(FrameIn(Allowed(c))), rest # <<>> => rest[1].folder = path[c],
         rest = <<>> => q = path[c]
  PROVE  IInv'
<1>1. CASE /\ CanRemove(q) /\ fs' = [fs EXCEPT ![q] = "absent"]
           /\ handle' = Unlinked(q, handle) /\ Removed(c, rest)
  <2>1. SharedOK
    BY <1>1, RemoveShared
  <2>2. fs'[q] = "absent"
    BY <1>1 DEF IInv, TypeOK
  <2> QED BY <1>1, <2>1, <2>2, RemovedKeeps
<1>2. CASE NothingThere(q) /\ Removed(c, rest) /\ UNCHANGED <<fs, handle>>
  <2>1. SharedOK /\ fs'[q] = "absent"
    BY <1>2, SharedSame DEF NothingThere
  <2> QED BY <1>2, <2>1, RemovedKeeps
<1>3. CASE Fail(c) /\ UNCHANGED fs
  BY <1>3, FailMoves
<1> QED BY <1>1, <1>2, <1>3 DEF fs_remove

(* A question about cur, and the next one. *)
LEMMA LookOn ==
  ASSUME IInv, NEW c \in Clients, Running(c), fs' = fs,
         pc[c] \in Looking \cup InEntry, NEW label \in Looking \cup InEntry, Continue(c, label),
         label \in InEntry => pc[c] \in InEntry,
         label \in Looking \cup {"is_directory"} /\ fs[cur[c]] = "link" => cur[c] = path[c]
  PROVE  IInv'
<1>1. Moves(c, label, cur[c], stack[c], result[c]) /\ SharedOK
  BY ContinueMoves, SharedSame
<1>2. pc[c] \in Deleting /\ label \in Deleting /\ pc[c] # "entries" /\ label # "entries"
  BY DEF Deleting, Looking, InEntry
<1>3. Chain(c) /\ cur[c] \in Paths \cup {Top}
  BY <1>2, ChainHolds, Unmoved
<1> QED BY <1>1, <1>2, <1>3, GoesDown DEF Chain

LEMMA CheckKeeps ==
  ASSUME IInv, NEW c \in Clients, Running(c), NEW label \in Looking,
         NEW next \in Looking, NEW holds, Check(c, label, holds, next)
  PROVE  IInv'
<1>1. pc[c] = label /\ fs' = fs
  BY DEF Check
<1>2. CASE Fail(c)
  BY <1>1, <1>2, FailMoves
<1>3. CASE Continue(c, next)
  <2>1. next \notin InEntry /\ label \in Deleting
    BY DEF Looking, InEntry, Deleting
  <2>2. fs[cur[c]] = "link" => cur[c] = path[c]
    BY <1>1, <2>1, ChainHolds DEF Chain
  <2> QED BY <1>1, <1>3, <2>1, <2>2, LookOn
<1> QED BY <1>2, <1>3 DEF Check

(* deleteFile. *)
LEMMA RemoveCurKeeps ==
  ASSUME IInv, NEW c \in Clients, Running(c), pc[c] \in {"remove_file", "remove_link"},
         fs_remove(c, cur[c], stack[c])
  PROVE  IInv'
<1>1. pc[c] \in Deleting /\ pc[c] # "entries"
  BY DEF Deleting, Looking, InEntry
<1>2. Chain(c)
  BY <1>1, ChainHolds
<1> DEFINE q == cur[c]  rest == stack[c]
<1>3. /\ q \in Paths /\ rest \in Seq(FrameIn(Allowed(c)))
      /\ rest # <<>> => rest[1].folder = path[c]
      /\ rest = <<>> => q = path[c]
      /\ fs_remove(c, q, rest)
  BY <1>1, <1>2, AllowedPaths DEF Chain
<1> HIDE DEF q, rest
<1> QED BY <1>1, <1>3, RemoveKeeps

(* deleteFolder. *)
LEMMA OpenFolderKeeps ==
  ASSUME IInv, NEW c \in Clients, Running(c), open_folder(c)
  PROVE  IInv'
<1> DEFINE x == Resolve(cur[c])
           frame == [folder |-> cur[c], left |-> Children(x)]
           s == Append(stack[c], frame)
<1>1. pc[c] = "open_folder" /\ fs' = fs
  BY DEF open_folder
<1>2. pc[c] \in Deleting /\ pc[c] \in Looking /\ pc[c] # "entries" /\ "entries" \in Deleting
  BY <1>1 DEF Deleting, Looking
<1>3. Chain(c) /\ path[c] \in Paths /\ Sight(fs, path[c]) \in seen[c]
  BY <1>1, <1>2, ChainHolds, PathsOfCalls
<1>4. CASE Fail(c)
  BY <1>1, <1>4, FailMoves
<1>5. CASE /\ stack' = [stack EXCEPT ![c] = Append(@, frame)]
           /\ Goto(c, "entries") /\ UNCHANGED <<cur, handle, result>>
  <2>1. x \in Allowed(c)
    <3>1. CASE fs[cur[c]] = "link"
      <4>1. \E t \in seen[c] : t[1] = "link"
        BY <1>2, <1>3, <3>1 DEF Chain, Sight
      <4> QED BY <3>1, <4>1, TreeAssumption DEF Resolve, Allowed, Under
    <3>2. CASE fs[cur[c]] # "link"
      BY <1>2, <1>3, <3>2 DEF Resolve, Chain
    <3> QED BY <3>1, <3>2
  <2>2. frame \in FrameIn(Allowed(c))
    <3>1. Children(x) \subseteq Allowed(c)
      BY <1>3, <2>1, AllowedClosed
    <3>2. cur[c] \in Allowed(c)
      BY <1>2, <1>3 DEF Chain
    <3> QED BY <3>1, <3>2 DEF FrameIn
  <2>3. frame.folder = cur[c] /\ (stack[c] = <<>> => cur[c] = path[c])
    BY <1>2, <1>3 DEF Chain
  <2>4. Moves(c, "entries", cur[c], s, result[c])
    BY <1>5, Unmoved DEF Moves, Goto
  <2> HIDE DEF frame
  <2>5. /\ s \in Seq(FrameIn(Allowed(c))) /\ s # <<>>
        /\ stack[c] # <<>> => s[1] = stack[c][1]
        /\ stack[c] = <<>> => s[1] = frame
    BY <1>3, <2>2, AppendKeepsFirst DEF Chain
  <2>6. s[1].folder = path[c]
    BY <1>3, <2>3, <2>5 DEF Chain
  <2>7. SharedOK /\ cur[c] \in Paths \cup {Top}
    BY <1>1, <1>5, SharedSame, Unmoved
  <2>8. "entries" \notin Looking \cup {"is_directory"}
    BY DEF Looking
  <2> HIDE DEF s
  <2> QED BY <1>2, <2>4, <2>5, <2>6, <2>7, <2>8, GoesDown
<1> QED BY <1>4, <1>5 DEF open_folder

LEMMA NextEntryKeeps ==
  ASSUME IInv, NEW c \in Clients, Running(c), next_entry(c)
  PROVE  IInv'
<1> DEFINE last == Last(stack[c])
<1>1. pc[c] = "entries" /\ fs' = fs /\ handle' = handle
  BY DEF next_entry
<1>2. pc[c] \in Deleting /\ "is_symlink" \in Deleting
  BY <1>1 DEF Deleting, InEntry
<1>3. stack[c] \in Seq(FrameIn(Allowed(c))) /\ stack[c] # <<>> /\ stack[c][1].folder = path[c]
  BY <1>1, <1>2, ChainHolds DEF Chain
<1>4. PICK q \in last.left :
        /\ stack' = [stack EXCEPT ![c] =
                       Append(Front(stack[c]), [last EXCEPT !.left = last.left \ {q}])]
        /\ cur' = [cur EXCEPT ![c] = q]
  BY DEF next_entry
<1> DEFINE rest == Front(stack[c])
           frame == [last EXCEPT !.left = last.left \ {q}]
           s == Append(rest, frame)
<1>5. /\ last \in FrameIn(Allowed(c)) /\ rest \in Seq(FrameIn(Allowed(c)))
      /\ rest # <<>> => rest[1] = stack[c][1]
      /\ rest = <<>> => last = stack[c][1]
  BY <1>3, FrontAndLast
<1>6. Moves(c, "is_symlink", q, s, result[c])
  <2>1. stack' = [stack EXCEPT ![c] = s]
    BY <1>4
  <2>2. Goto(c, "is_symlink") /\ result' = result
    BY DEF next_entry
  <2> HIDE DEF s
  <2> QED BY <1>4, <2>1, <2>2, Unmoved DEF Moves, Goto
<1> HIDE DEF last, rest
<1>7. frame \in FrameIn(Allowed(c)) /\ frame.folder = last.folder /\ q \in Allowed(c)
  BY <1>5 DEF FrameIn
<1> HIDE DEF frame
<1>8. /\ s \in Seq(FrameIn(Allowed(c))) /\ s # <<>>
      /\ rest # <<>> => s[1] = rest[1]
      /\ rest = <<>> => s[1] = frame
  BY <1>5, <1>7, AppendKeepsFirst
<1>9. s[1].folder = path[c]
  BY <1>3, <1>5, <1>7, <1>8
<1>10. SharedOK /\ q \in Paths
  BY <1>1, <1>7, SharedSame, AllowedPaths
<1>11. "is_symlink" \notin Looking \cup {"is_directory"}
  BY DEF Looking
<1> HIDE DEF s
<1> QED BY <1>2, <1>6, <1>7, <1>8, <1>9, <1>10, <1>11, GoesDown

LEMMA IsSymlinkKeeps ==
  ASSUME IInv, NEW c \in Clients, Running(c), is_symlink(c)
  PROVE  IInv'
<1>1. pc[c] = "is_symlink" /\ fs' = fs
  BY DEF is_symlink
<1>2. pc[c] \in InEntry /\ {"remove_link", "is_directory"} \subseteq InEntry
  BY <1>1 DEF InEntry
<1>3. CASE Continue(c, "remove_link")
  <2>1. "remove_link" \notin Looking \cup {"is_directory"}
    BY DEF Looking
  <2> QED BY <1>1, <1>2, <1>3, <2>1, LookOn
<1>4. CASE fs[cur[c]] # "link" /\ Continue(c, "is_directory")
  BY <1>1, <1>2, <1>4, LookOn
<1> QED BY <1>3, <1>4 DEF is_symlink, Linked

LEMMA IsDirectoryKeeps ==
  ASSUME IInv, NEW c \in Clients, Running(c), is_directory(c)
  PROVE  IInv'
<1>1. pc[c] = "is_directory" /\ fs' = fs
  BY DEF is_directory
<1>2. PICK label \in {"exists_folder", "exists_file"} : Continue(c, label)
  BY DEF is_directory
<1>3. label \in Looking /\ label \notin InEntry /\ pc[c] \in InEntry /\ pc[c] \in Deleting
  BY <1>1 DEF Looking, InEntry, Deleting
<1>4. fs[cur[c]] = "link" => cur[c] = path[c]
  BY <1>1, <1>3, ChainHolds DEF Chain
<1> QED BY <1>1, <1>2, <1>3, <1>4, LookOn

LEMMA RemoveFolderKeeps ==
  ASSUME IInv, NEW c \in Clients, Running(c), remove_folder(c)
  PROVE  IInv'
<1> DEFINE q == Last(stack[c]).folder  rest == Front(stack[c])
<1>1. pc[c] = "entries" /\ fs_remove(c, q, rest)
  BY DEF remove_folder
<1>2. pc[c] \in Deleting
  BY <1>1 DEF Deleting
<1>3. stack[c] \in Seq(FrameIn(Allowed(c))) /\ stack[c] # <<>> /\ stack[c][1].folder = path[c]
  BY <1>1, <1>2, ChainHolds DEF Chain
<1>4. /\ Last(stack[c]) \in FrameIn(Allowed(c)) /\ rest \in Seq(FrameIn(Allowed(c)))
      /\ rest # <<>> => rest[1] = stack[c][1]
      /\ rest = <<>> => Last(stack[c]) = stack[c][1]
  BY <1>3, FrontAndLast
<1>5. /\ q \in Paths
      /\ rest # <<>> => rest[1].folder = path[c]
      /\ rest = <<>> => q = path[c]
  BY <1>3, <1>4, AllowedPaths DEF FrameIn
<1>6. rest \in Seq(FrameIn(Allowed(c))) /\ fs_remove(c, q, rest)
  BY <1>1, <1>4
<1> HIDE DEF q, rest
<1> QED BY <1>2, <1>5, <1>6, RemoveKeeps
-----------------------------------------------------------------------------
LEMMA StepKeeps ==
  ASSUME IInv, NEW c \in Clients, Run(c)
  PROVE  IInv'
<1>1. pc[c] # "idle" => Running(c)
  BY DEF Run, Step, Running
<1>2. CASE exists(c)
  BY <1>1, <1>2, ExistsKeeps DEF exists
<1>3. CASE status(c)
  BY <1>1, <1>3, StatusKeeps DEF status
<1>4. CASE walk(c)
  BY <1>1, <1>4, WalkKeeps DEF walk
<1>5. CASE mkdir(c)
  BY <1>1, <1>5, MkdirKeeps DEF mkdir
<1>6. CASE open_out(c)
  BY <1>1, <1>6, OpenOutKeeps DEF open_out
<1>7. CASE write(c)
  BY <1>1, <1>7, WriteKeeps DEF write
<1>8. CASE check_out(c)
  BY <1>1, <1>8, CheckOutKeeps DEF check_out
<1>9. CASE exists_file(c)
  BY <1>1, <1>9, CheckKeeps DEF exists_file, Check, Looking
<1>16. CASE is_file(c)
  BY <1>1, <1>16, CheckKeeps DEF is_file, Check, Looking
<1>17. CASE exists_folder(c)
  BY <1>1, <1>17, CheckKeeps DEF exists_folder, Check, Looking
<1>18. CASE is_folder(c)
  BY <1>1, <1>18, CheckKeeps DEF is_folder, Check, Looking
<1>10. CASE remove_file(c) \/ remove_link(c)
  BY <1>1, <1>10, RemoveCurKeeps DEF remove_file, remove_link
<1>11. CASE open_folder(c)
  BY <1>1, <1>11, OpenFolderKeeps DEF open_folder
<1>12. CASE next_entry(c)
  BY <1>1, <1>12, NextEntryKeeps DEF next_entry
<1>13. CASE is_symlink(c)
  BY <1>1, <1>13, IsSymlinkKeeps DEF is_symlink
<1>14. CASE is_directory(c)
  BY <1>1, <1>14, IsDirectoryKeeps DEF is_directory
<1>15. CASE remove_folder(c)
  BY <1>1, <1>15, RemoveFolderKeeps DEF remove_folder
<1> QED
  BY <1>2, <1>3, <1>4, <1>5, <1>6, <1>7, <1>8, <1>9, <1>10, <1>11, <1>12, <1>13, <1>14, <1>15,
     <1>16, <1>17, <1>18
  DEF Run, Step

(* A call begins. *)
LEMMA CallKeeps ==
  ASSUME IInv, NEW c \in Clients, Call(c)
  PROVE  IInv'
<1>1. PICK o \in Ops, p \in CallPaths : begin(c, o, p)
  BY DEF Call
<1>2. /\ pc[c] = "idle" /\ calls[c] < MaxCalls /\ p \in Paths
      /\ calls' = [calls EXCEPT ![c] = @ + 1]
      /\ op' = [op EXCEPT ![c] = o] /\ path' = [path EXCEPT ![c] = p]
      /\ cur' = [cur EXCEPT ![c] = p] /\ pc' = [pc EXCEPT ![c] = FirstStep[o]]
      /\ UNCHANGED <<fs, stack, handle, result, protected>>
  BY <1>1, CallsAssumption DEF begin, Goto, Call
<1>3. \/ o = "createFolder" /\ FirstStep[o] = "exists"
      \/ o = "createFolderNextToFile" /\ FirstStep[o] = "exists"
      \/ o = "createFile" /\ FirstStep[o] = "open_out"
      \/ o = "deleteFile" /\ FirstStep[o] = "exists_file"
      \/ o = "deleteFolder" /\ FirstStep[o] = "exists_folder"
  BY CallsAssumption DEF FirstStep
<1>4. TypeOK /\ HandlesOpen
  BY DEF IInv
<1>5. /\ calls' \in [Clients -> 0 .. MaxCalls] /\ calls'[c] # calls[c]
      /\ \A d \in Clients \ {c} : calls'[d] = calls[d]
  BY <1>2, <1>4, CallsAssumption DEF TypeOK
<1>6. /\ op' \in [Clients -> Ops \cup {"none"}] /\ op'[c] = o
      /\ path' \in [Clients -> CallPaths \cup {Top}] /\ path'[c] = p
      /\ cur' \in [Clients -> Paths \cup {Top}] /\ cur'[c] = p
      /\ pc' \in [Clients -> Label] /\ pc'[c] = FirstStep[o]
      /\ \A d \in Clients \ {c} : /\ op'[d] = op[d] /\ path'[d] = path[d]
                                  /\ cur'[d] = cur[d] /\ pc'[d] = pc[d]
  BY <1>2, <1>3, <1>4 DEF TypeOK, Label
<1>7. /\ seen' = [d \in Clients |->
                    IF d = c THEN {Sight(fs, p)}
                    ELSE IF pc[d] = "idle" THEN seen[d] ELSE seen[d] \cup {Sight(fs', path[d])}]
      /\ disturbed' = disturbed \ {c}
      /\ before' = [d \in Clients |-> IF d \in disturbed' THEN Nothing
                                      ELSE IF d = c THEN fs ELSE before[d]]
  <2>1. Record(c)
    BY DEF Call
  <2>2. \A d \in Clients : calls'[d] # calls[d] <=> d = c
    BY <1>5
  <2>3. seen' = [d \in Clients |->
                   IF d = c THEN {Sight(fs, p)}
                   ELSE IF pc[d] = "idle" THEN seen[d] ELSE seen[d] \cup {Sight(fs', path[d])}]
    BY <1>2, <1>6, <2>1, <2>2 DEF Record
  <2>4. disturbed' = disturbed \ {c}
    BY <1>2, <2>1, <2>2 DEF Record
  <2>5. before' = [d \in Clients |-> IF d \in disturbed' THEN Nothing
                                    ELSE IF d = c THEN fs ELSE before[d]]
    BY <2>1, <2>2, <2>4 DEF Record
  <2> QED BY <2>3, <2>4, <2>5
<1>8. seen' \in [Clients -> SUBSET (KindOf \X KindOf)]
  <2>1. seen \in [Clients -> SUBSET (KindOf \X KindOf)] /\ fs \in [Paths -> KindOf]
    BY <1>4 DEF TypeOK
  <2>2. \A d \in Clients : pc[d] # "idle" => Sight(fs', path[d]) \in KindOf \X KindOf
    BY <1>2, <2>1, PathsOfCalls, SightKinds
  <2>3. Sight(fs, p) \in KindOf \X KindOf
    BY <1>2, <2>1, SightKinds
  <2> QED BY <1>7, <2>1, <2>2, <2>3
<1>9. before' \in [Clients -> [Paths -> KindOf]] /\ disturbed' \subseteq Clients
  <2>1. /\ Nothing \in [Paths -> KindOf] /\ before \in [Clients -> [Paths -> KindOf]]
        /\ fs \in [Paths -> KindOf] /\ disturbed \subseteq Clients
    BY <1>4 DEF TypeOK, Nothing, KindOf
  <2> QED BY <1>7, <2>1
<1>10. Local(c)'
  <2>1. stack'[c] = <<>>
    BY <1>2 DEF IInv, Local
  <2>2. path'[c] \in CallPaths /\ Sight(fs', path'[c]) \in seen'[c]
    BY <1>2, <1>6, <1>7
  <2>3. /\ pc'[c] \notin {"walk", "mkdir", "write", "check_out", "idle", "entries"} \cup InEntry
        /\ pc'[c] \in InFolder => MakesFolder(c)'
        /\ pc'[c] \in InFile => op'[c] = "createFile"
        /\ pc'[c] \in Deleting => Deletes(c)'
    BY <1>3, <1>6 DEF InFolder, InFile, Deleting, Looking, InEntry, Deletes, MakesFolder
  <2>4. Chain(c)'
    <3>1. path'[c] \in Allowed(c)'
      BY <1>2, <1>6 DEF Allowed, Under
    <3>2. stack'[c] \in Seq(FrameIn(Allowed(c))')
      BY <2>1
    <3> QED BY <1>6, <2>1, <2>3, <3>1, <3>2 DEF Chain, InEntry
  <2> QED BY <2>1, <2>2, <2>3, <2>4 DEF Local, Ended
<1>11. ASSUME NEW d \in Clients, d # c PROVE Local(d)'
  <2>1. /\ pc'[d] = pc[d] /\ cur'[d] = cur[d] /\ stack'[d] = stack[d]
        /\ result'[d] = result[d] /\ op'[d] = op[d] /\ path'[d] = path[d]
        /\ seen'[d] = IF pc[d] = "idle" THEN seen[d] ELSE seen[d] \cup {Sight(fs', path[d])}
        /\ \A q \in Paths : fs'[q] = "link" => fs[q] = "link"
    BY <1>2, <1>6, <1>7, <1>11
  <2> QED BY <2>1, OthersKeep
<1>12. /\ fs' = fs /\ protected' = protected /\ handle' = handle /\ result' = result
       /\ IsTree(fs') /\ stack' = [d \in Clients |-> stack'[d]]
  BY <1>2, <1>4 DEF TypeOK, IsTree, Folders, IInv
<1>13. ASSUME NEW d \in Clients
       PROVE  /\ pc'[d] \in {"walk", "mkdir"} => stack'[d] \in Seq(Paths) \ {<<>>}
              /\ pc'[d] = "entries" => stack'[d] \in Seq(Frame) \ {<<>>}
  <2>1. CASE d = c
    <3>1. pc'[d] \notin {"walk", "mkdir", "entries"}
      BY <1>3, <1>6, <2>1
    <3> QED BY <3>1
  <2>2. CASE d # c
    <3>1. pc'[d] = pc[d] /\ stack'[d] = stack[d]
      BY <1>2, <1>6, <2>2
    <3> QED BY <1>4, <3>1 DEF TypeOK
  <2> QED BY <2>1, <2>2
<1>14. TypeOK'
  BY <1>4, <1>5, <1>6, <1>8, <1>9, <1>12, <1>13 DEF TypeOK
<1>15. HandlesOpen'
  BY <1>4, <1>12 DEF HandlesOpen
<1> QED BY <1>10, <1>11, <1>12, <1>14, <1>15 DEF IInv

LEMMA InitIInv == Init => IInv
<1> SUFFICES ASSUME Init PROVE IInv
  OBVIOUS
<1>1. TypeOK
  <2>1. Nothing \in [Paths -> KindOf]
    BY DEF Nothing, KindOf
  <2>2. \A c \in Clients : pc[c] \notin {"walk", "mkdir", "entries"}
    BY DEF Init
  <2> QED BY <2>1, <2>2, CallsAssumption DEF Init, TypeOK, Label, Result, KindOf
<1>2. stack = [c \in Clients |-> stack[c]] /\ HandlesOpen
  BY DEF Init, HandlesOpen
<1>3. ASSUME NEW c \in Clients PROVE Local(c)
  <2>1. pc[c] = "idle" /\ stack[c] = <<>> /\ result[c] = "none"
    BY DEF Init
  <2> QED BY <2>1 DEF Local, Ended, InFolder, InFile, Deleting, Looking, InEntry
<1> QED BY <1>1, <1>2, <1>3 DEF IInv

LEMMA NextIInv == IInv /\ [Next]_vars => IInv'
<1> SUFFICES ASSUME IInv, [Next]_vars PROVE IInv'
  OBVIOUS
<1>1. ASSUME NEW c \in Clients, Call(c) PROVE IInv'
  BY <1>1, CallKeeps
<1>2. ASSUME NEW c \in Clients, Run(c) PROVE IInv'
  BY <1>2, StepKeeps
<1>3. CASE UNCHANGED vars
  <2>1. /\ fs' = fs /\ protected' = protected /\ pc' = pc /\ op' = op /\ path' = path
        /\ cur' = cur /\ stack' = stack /\ handle' = handle /\ result' = result
        /\ calls' = calls /\ seen' = seen /\ before' = before /\ disturbed' = disturbed
    BY <1>3 DEF vars, call, history
  <2>2. TypeOK' /\ HandlesOpen' /\ stack' = [c \in Clients |-> stack'[c]]
    BY <2>1 DEF IInv, TypeOK, IsTree, Folders, HandlesOpen
  <2>3. ASSUME NEW c \in Clients PROVE Local(c)'
    <3>1. /\ Local(c) /\ Chain(c)' = Chain(c)
      BY <2>1 DEF IInv, Chain, Allowed, Under
    <3> QED BY <2>1, <3>1 DEF Local, Ended, TrueAnswer, Saw, MakesFolder, Deletes
  <2> QED BY <2>2, <2>3 DEF IInv
<1> QED BY <1>1, <1>2, <1>3 DEF Next
-----------------------------------------------------------------------------
(* Only fs::remove makes a path absent, and only its own. *)
LEMMA RemovesItsOwn ==
  ASSUME IInv, NEW c \in Clients, NEW x \in Paths, NEW rest, fs_remove(c, x, rest),
         NEW q \in Paths, fs[q] # "absent", fs'[q] = "absent"
  PROVE  q = x
BY DEF fs_remove, IInv, TypeOK

LEMMA RemovedCur ==
  ASSUME IInv, NEW c \in Clients, remove_file(c) \/ remove_link(c),
         NEW q \in Paths, fs[q] # "absent", fs'[q] = "absent"
  PROVE  pc[c] \in Deleting /\ q \in Allowed(c)
<1> DEFINE x == cur[c]  rest == stack[c]
<1>1. /\ pc[c] \in Deleting /\ pc[c] # "entries" /\ fs_remove(c, x, rest)
  BY DEF remove_file, remove_link, Deleting, Looking, InEntry
<1>2. x \in Allowed(c) /\ x \in Paths
  BY <1>1, ChainHolds, AllowedPaths DEF Chain
<1> HIDE DEF x, rest
<1> QED BY <1>1, <1>2, RemovesItsOwn

LEMMA RemovedFolder ==
  ASSUME IInv, NEW c \in Clients, remove_folder(c),
         NEW q \in Paths, fs[q] # "absent", fs'[q] = "absent"
  PROVE  pc[c] \in Deleting /\ q \in Allowed(c)
<1> DEFINE x == Last(stack[c]).folder  rest == Front(stack[c])
<1>1. pc[c] = "entries" /\ fs_remove(c, x, rest)
  BY DEF remove_folder
<1>2. pc[c] \in Deleting
  BY <1>1 DEF Deleting
<1>3. stack[c] \in Seq(FrameIn(Allowed(c))) /\ stack[c] # <<>>
  BY <1>1, <1>2, ChainHolds DEF Chain
<1>4. Last(stack[c]) \in FrameIn(Allowed(c))
  BY <1>3, FrontAndLast
<1>5. x \in Allowed(c) /\ x \in Paths
  BY <1>4, AllowedPaths DEF FrameIn
<1> HIDE DEF x, rest
<1> QED BY <1>1, <1>2, <1>5, RemovesItsOwn

LEMMA RunStaysBelow ==
  ASSUME IInv, NEW c \in Clients, Run(c),
         NEW q \in Paths, fs[q] # "absent", fs'[q] = "absent"
  PROVE  pc[c] # "idle" /\ Deletes(c) /\ q \in Allowed(c)
<1>1. fs \in [Paths -> KindOf] /\ fs' # fs
  BY DEF IInv, TypeOK
<1>2. ~mkdir(c)
  BY <1>1 DEF mkdir
<1>3. ~open_out(c)
  BY <1>1 DEF open_out
<1>4. ~write(c)
  BY <1>1 DEF write
<1>5. ~(exists(c) \/ status(c) \/ walk(c) \/ check_out(c) \/ exists_file(c) \/ is_file(c)
          \/ exists_folder(c) \/ is_folder(c) \/ open_folder(c) \/ next_entry(c)
          \/ is_symlink(c) \/ is_directory(c))
  BY <1>1 DEF exists, status, walk, check_out, exists_file, is_file, exists_folder,
              is_folder, open_folder, next_entry, is_symlink, is_directory, Check
<1>6. remove_file(c) \/ remove_link(c) \/ remove_folder(c)
  BY <1>2, <1>3, <1>4, <1>5 DEF Run, Step
<1>7. pc[c] \in Deleting /\ q \in Allowed(c)
  BY <1>6, RemovedCur, RemovedFolder
<1> QED BY <1>7 DEF IInv, Local, Deleting, Looking, InEntry
-----------------------------------------------------------------------------
(* Calls that nobody disturbs.  f is the file system now, w as it was when *)
(* the call began, prot what may not be made or removed, s the call's stack. *)
Way(p) == Above[p] \cup {p}
Missing(w, p) == {q \in Way(p) : w[q] = "absent"}
There(w, p) == {q \in Under(p) : w[q] # "absent"}

Makes(f, w, p) == \A q \in Paths : f[q] # w[q] => q \in Missing(w, p) /\ f[q] = "dir"
Removes(f, w, p) == \A q \in Paths : f[q] # w[q] => q \in There(w, p) /\ f[q] = "absent"

CanCreate(w, prot, p) ==
  Missing(w, p) \cap prot = {} /\ \A q \in Above[p] \ Missing(w, p) : w[q] = "dir"

CreateExact(f, w, prot, p, o, r) ==
  /\ w[p] = "dir" => r = "there"
  /\ w[p] = "absent" => r = IF CanCreate(w, prot, p) THEN "success" ELSE "failure"
  /\ w[p] = "loop" => r = IF o = "createFolder" THEN "thrown" ELSE "failure"
  /\ r = "success" => \A q \in Missing(w, p) : f[q] = "dir"
  /\ Makes(f, w, p)
  /\ r \in {"success", "failure"} \/ \A q \in Paths : f[q] = w[q]

(* What a deleteFolder may take away. *)
Removable(w, prot) == {q \in Paths : q \notin prot /\ w[q] # "special"}

DeleteExact(f, w, prot, p, r) ==
  /\ r = "success" <=> There(w, p) \subseteq Removable(w, prot)
  /\ r = "success" => \A q \in There(w, p) : f[q] = "absent"
  /\ r = "failure" => f[p] = "dir"
  /\ Removes(f, w, p)

(* The missing folders on the stack lead from the path upwards.            *)
Ladder(s) ==
  /\ \A i, j \in 1 .. Len(s) : i < j => s[j] \in Above[s[i]]
  /\ \A i \in 1 .. Len(s) - 1 : Parent[s[i]] = s[i + 1]

CreateSoFar(f, w, prot, p, s, label, o, r) ==
  /\ label \in {"exists", "status", "walk"} => f = w
  /\ label \in {"status", "walk", "mkdir"} => w[p] = "absent"
  /\ label \in {"walk", "mkdir"} =>
       Ladder(s) /\ \A i \in 1 .. Len(s) : w[s[i]] = "absent" /\ f[s[i]] = "absent"
  /\ label = "walk" => Way(p) \subseteq {s[i] : i \in 1 .. Len(s)} \cup Above[Last(s)]
  /\ label = "mkdir" =>
       /\ Parent[Last(s)] \in Folders(f) /\ Makes(f, w, p)
       /\ \A q \in Above[p] \ Missing(w, p) : w[q] = "dir"
       /\ \A q \in Missing(w, p) :
            (\E i \in 1 .. Len(s) : q = s[i]) \/ (f[q] = "dir" /\ q \notin prot)
  /\ label = "idle" => CreateExact(f, w, prot, p, o, r)

(* With a link at the path there is nothing to make: the question finds    *)
(* what the link leads to, or the mkdir finds the link.                    *)
LinkSoFar(f, w, p, s, label, r) ==
  /\ f = w
  /\ label \in {"status", "walk", "mkdir"} => w[Target] = "absent"
  /\ label \in {"walk", "mkdir"} => s = <<p>>
  /\ label = "idle" => r # "success"

(* The running calls of deleteFolder lead from the path downwards; of each *)
(* folder is left what is still to be returned and what is being removed.  *)
Chained(f, s, p) ==
  /\ \A i \in 1 .. Len(s) : s[i].folder \in Under(p) /\ f[s[i].folder] = "dir"
  /\ \A i, j \in 1 .. Len(s) : i < j => s[i].folder \in Above[s[j].folder]
  /\ \A i \in 1 .. Len(s) - 1 : Parent[s[i + 1].folder] = s[i].folder
                                /\ s[i + 1].folder \notin s[i].left
  /\ \A i \in 1 .. Len(s) : \A q \in s[i].left : Parent[q] = s[i].folder /\ f[q] # "absent"

(* x is what is being removed in the innermost folder; Top, if nothing is. *)
Listed(f, s, x) ==
  \A i \in 1 .. Len(s) : \A q \in Paths : Parent[q] = s[i].folder /\ f[q] # "absent" =>
    \/ q \in s[i].left
    \/ i < Len(s) /\ q = s[i + 1].folder
    \/ i = Len(s) /\ q = x

KindsAt(label) ==
  CASE label \in {"exists_folder", "is_folder", "open_folder"} -> {"dir"}
    [] label \in {"exists_file", "is_file"} -> Files \cup {"special"}
    [] label = "remove_file" -> Files
    [] label = "remove_link" -> Linked
    [] label = "is_directory" -> Files \cup {"special", "dir"}
    [] OTHER -> KindOf \ {"absent"}

Entry(f, s, x, p, label) ==
  /\ x \in Under(p) /\ f[x] \in KindsAt(label)
  /\ s # <<>> => Parent[x] = Last(s).folder /\ x \notin Last(s).left

DeleteSoFar(f, w, prot, p, s, x, label, r) ==
  /\ label \in Deleting =>
       /\ Removes(f, w, p) /\ \A q \in Paths : f[q] # w[q] => q \in Removable(w, prot)
       /\ Chained(f, s, p)
       /\ Listed(f, s, IF label = "entries" THEN Top ELSE x)
       /\ label # "entries" => Entry(f, s, x, p, label)
  /\ label = "idle" => DeleteExact(f, w, prot, p, r)

QuietCreate(c) ==
  c \notin disturbed /\ MakesFolder(c) /\ before[c][path[c]] # "link" =>
    CreateSoFar(fs, before[c], protected, path[c], stack[c], pc[c], op[c], result[c])
QuietLink(c) ==
  c \notin disturbed /\ MakesFolder(c) /\ before[c][path[c]] = "link" =>
    LinkSoFar(fs, before[c], path[c], stack[c], pc[c], result[c])
QuietDelete(c) ==
  c \notin disturbed /\ op[c] = "deleteFolder" /\ before[c][path[c]] = "dir" =>
    DeleteSoFar(fs, before[c], protected, path[c], stack[c], cur[c], pc[c], result[c])
QuietInv ==
  \A c \in Clients : IsTree(before[c]) /\ QuietCreate(c) /\ QuietLink(c) /\ QuietDelete(c)
-----------------------------------------------------------------------------
(* The tree of paths. *)
LEMMA AboveIs ==
  ASSUME NEW p \in Paths
  PROVE  Above[p] = IF Parent[p] = Top THEN {} ELSE {Parent[p]} \cup Above[Parent[p]]
BY TreeAssumption, Zenon

LEMMA ParentIs ==
  ASSUME NEW p \in Paths
  PROVE  Parent[p] \in Paths \cup {Top}
BY TreeAssumption

LEMMA AbovePaths ==
  ASSUME NEW p \in Paths
  PROVE  Above[p] \subseteq Paths
<1> DEFINE S == {q \in Paths : Above[q] \subseteq Paths}
<1>1. ASSUME NEW q \in Paths, Parent[q] \in S \cup {Top} PROVE q \in S
  BY <1>1, AboveIs
<1>2. S \in SUBSET Paths
  OBVIOUS
<1>3. p \in S => Above[p] \subseteq Paths
  OBVIOUS
<1> HIDE DEF S
<1> QED BY <1>1, <1>2, <1>3, DepthAssumption

LEMMA AboveAbove ==
  ASSUME NEW p \in Paths, NEW q \in Above[p]
  PROVE  Above[q] \subseteq Above[p]
<1> DEFINE S == {x \in Paths : \A y \in Above[x] : Above[y] \subseteq Above[x]}
<1>1. ASSUME NEW x \in Paths, Parent[x] \in S \cup {Top} PROVE x \in S
  BY <1>1, AboveIs, TreeAssumption
<1>2. S \in SUBSET Paths
  OBVIOUS
<1>3. p \in S => Above[q] \subseteq Above[p]
  OBVIOUS
<1> HIDE DEF S
<1> QED BY <1>1, <1>2, <1>3, DepthAssumption

LEMMA NotAboveItself ==
  ASSUME NEW p \in Paths
  PROVE  p \notin Above[p]
<1> DEFINE S == {x \in Paths : x \notin Above[x]}
<1>1. ASSUME NEW x \in Paths, Parent[x] \in S \cup {Top} PROVE x \in S
  <2>1. CASE Parent[x] = Top
    BY <2>1, AboveIs
  <2>2. CASE Parent[x] # Top
    <3> DEFINE r == Parent[x]
    <3>1. r \in Paths /\ r \notin Above[r] /\ Above[x] = {r} \cup Above[r]
      BY <1>1, <2>2, AboveIs
    <3>2. ASSUME x \in Above[x] PROVE FALSE
      <4>1. x \in Above[r]
        BY <3>1, <3>2
      <4>2. Above[x] \subseteq Above[r]
        BY <3>1, <4>1, AboveAbove
      <4> QED BY <3>1, <4>2
    <3> QED BY <3>2
  <2> QED BY <2>1, <2>2
<1>2. S \in SUBSET Paths
  OBVIOUS
<1>3. p \in S => p \notin Above[p]
  OBVIOUS
<1> HIDE DEF S
<1> QED BY <1>1, <1>2, <1>3, DepthAssumption

LEMMA FoldersAbove ==
  ASSUME NEW f, IsTree(f), NEW p \in Paths, f[p] # "absent"
  PROVE  \A q \in Above[p] : q \in Paths /\ f[q] = "dir"
<1> DEFINE S == {x \in Paths : f[x] # "absent" => \A q \in Above[x] : f[q] = "dir"}
<1>1. ASSUME NEW x \in Paths, Parent[x] \in S \cup {Top} PROVE x \in S
  <2>1. CASE Parent[x] = Top
    BY <2>1, AboveIs
  <2>2. CASE Parent[x] # Top
    <3> DEFINE r == Parent[x]
    <3>1. r \in S /\ r \in Paths /\ Above[x] = {r} \cup Above[r]
      BY <1>1, <2>2, AboveIs
    <3>2. f[x] # "absent" => f[r] = "dir"
      BY <2>2 DEF IsTree, Folders
    <3> QED BY <3>1, <3>2
  <2> QED BY <2>1, <2>2
<1>2. S \in SUBSET Paths
  OBVIOUS
<1>3. p \in S => \A q \in Above[p] : f[q] = "dir"
  OBVIOUS
<1> HIDE DEF S
<1>4. p \in S
  BY <1>1, <1>2, DepthAssumption
<1> QED BY <1>3, <1>4, AbovePaths
-----------------------------------------------------------------------------
(* The missing folders on the stack of createFolder. *)
LEMMA LadderGrows ==
  ASSUME NEW s \in Seq(Paths), s # <<>>, Ladder(s), Parent[Last(s)] \in Paths
  PROVE  Ladder(Append(s, Parent[Last(s)]))
<1> DEFINE q == Parent[Last(s)]  t == Append(s, q)  n == Len(s)
<1>1. /\ n \in Nat \ {0} /\ Last(s) = s[n] /\ Len(t) = n + 1 /\ t[n + 1] = q
      /\ \A i \in 1 .. n : t[i] = s[i] /\ s[i] \in Paths
  <2>1. n \in Nat \ {0} /\ Last(s) = s[n]
    BY FrontElements
  <2>2. /\ Len(t) = n + 1 /\ t[n + 1] = q
        /\ \A i \in 1 .. n : t[i] = s[i]
    BY AppendElements
  <2>3. \A i \in 1 .. n : s[i] \in Paths
    OBVIOUS
  <2> QED BY <2>1, <2>2, <2>3
<1>2. q = Parent[s[n]] /\ q # Top /\ q \in Above[s[n]]
  BY <1>1, AboveIs, TreeAssumption
<1> HIDE DEF q, t, n
<1>3. /\ \A i, j \in 1 .. n : i < j => s[j] \in Above[s[i]]
      /\ \A i \in 1 .. n - 1 : Parent[s[i]] = s[i + 1]
  BY DEF Ladder, n
<1>4. ASSUME NEW i \in 1 .. n PROVE q \in Above[s[i]]
  <2>1. CASE i = n
    BY <1>2, <2>1
  <2>2. CASE i # n
    <3>1. s[n] \in Above[s[i]]
      BY <1>1, <1>3, <2>2
    <3> QED BY <1>1, <1>2, <3>1, AboveAbove
  <2> QED BY <2>1, <2>2
<1>5. ASSUME NEW i \in 1 .. n + 1, NEW j \in 1 .. n + 1, i < j
      PROVE  t[j] \in Above[t[i]]
  <2>1. i \in 1 .. n /\ t[i] = s[i]
    BY <1>1, <1>5
  <2>2. CASE j = n + 1
    BY <1>1, <1>4, <2>1, <2>2
  <2>3. CASE j # n + 1
    BY <1>1, <1>3, <1>5, <2>1, <2>3
  <2> QED BY <2>2, <2>3
<1>6. ASSUME NEW i \in 1 .. n PROVE Parent[t[i]] = t[i + 1]
  <2>1. CASE i = n
    BY <1>1, <1>2, <2>1
  <2>2. CASE i # n
    BY <1>1, <1>3, <2>2
  <2> QED BY <2>1, <2>2
<1>7. Len(t) = n + 1 /\ Len(t) - 1 = n
  BY <1>1
<1>8. \A i, j \in 1 .. Len(t) : i < j => t[j] \in Above[t[i]]
  BY <1>5, <1>7
<1>9. \A i \in 1 .. Len(t) - 1 : Parent[t[i]] = t[i + 1]
  BY <1>6, <1>7
<1>10. Ladder(t)
  BY <1>8, <1>9, Zenon DEF Ladder
<1> QED BY <1>10 DEF t, q

LEMMA LadderShrinks ==
  ASSUME NEW s \in Seq(Paths), s # <<>>, Ladder(s), Len(s) # 1
  PROVE  /\ Ladder(Front(s)) /\ Front(s) # <<>> /\ Parent[Last(Front(s))] = Last(s)
         /\ \A i \in 1 .. Len(Front(s)) : Front(s)[i] = s[i] /\ s[i] # Last(s)
         /\ \A i \in 1 .. Len(s) : s[i] = Last(s) \/ i \in 1 .. Len(Front(s))
<1> DEFINE t == Front(s)  n == Len(s)
<1>1. /\ n \in Nat \ {0} /\ Last(s) = s[n] /\ Len(t) = n - 1 /\ t \in Seq(Paths)
      /\ \A i \in 1 .. n - 1 : t[i] = s[i]
      /\ \A i \in 1 .. n : s[i] \in Paths
  BY FrontElements
<1>2. n - 1 \in Nat \ {0} /\ n # 1
  BY <1>1
<1>3. t # <<>>
  BY <1>1, <1>2, EmptySeq
<1> HIDE DEF t, n
<1>4. Last(t) = s[n - 1]
  <2>1. Last(t) = t[Len(t)]
    BY DEF Last
  <2>2. n - 1 \in 1 .. n - 1
    BY <1>1, <1>2
  <2> QED BY <1>1, <2>1, <2>2
<1>5. /\ \A i, j \in 1 .. n : i < j => s[j] \in Above[s[i]]
      /\ \A i \in 1 .. n - 1 : Parent[s[i]] = s[i + 1]
  BY DEF Ladder, n
<1>6. Ladder(t)
  <2>1. \A i \in 1 .. n - 1 : i \in 1 .. n /\ t[i] = s[i]
    BY <1>1
  <2>2. \A i \in 1 .. (n - 1) - 1 : i \in 1 .. n - 1 /\ i + 1 \in 1 .. n - 1
    BY <1>1
  <2>3. \A i, j \in 1 .. n - 1 : i < j => t[j] \in Above[t[i]]
    BY <1>5, <2>1
  <2>4. \A i \in 1 .. (n - 1) - 1 : Parent[t[i]] = t[i + 1]
    BY <1>5, <2>1, <2>2
  <2> QED BY <1>1, <2>3, <2>4 DEF Ladder
<1>7. Parent[Last(t)] = Last(s)
  BY <1>1, <1>2, <1>4, <1>5
<1>8. ASSUME NEW i \in 1 .. n - 1 PROVE s[i] # s[n]
  BY <1>1, <1>5, NotAboveItself
<1> QED BY <1>1, <1>3, <1>6, <1>7, <1>8 DEF t, n
-----------------------------------------------------------------------------
(* What a step leaves behind for its client. *)
LEMMA FailGives ==
  ASSUME IInv, NEW c \in Clients, Fail(c)
  PROVE  pc'[c] = "idle" /\ result'[c] = "failure"
BY DEF Fail, Return, Goto, IInv, TypeOK

LEMMA SucceedGives ==
  ASSUME IInv, NEW c \in Clients, Succeed(c)
  PROVE  pc'[c] = "idle" /\ result'[c] = "success"
BY DEF Succeed, Return, Goto, IInv, TypeOK

LEMMA ContinueGives ==
  ASSUME IInv, NEW c \in Clients, NEW label, Continue(c, label)
  PROVE  /\ pc'[c] = label /\ stack'[c] = stack[c] /\ cur'[c] = cur[c]
         /\ result'[c] = result[c]
BY DEF Continue, Goto, IInv, TypeOK

LEMMA ReturnGives ==
  ASSUME IInv, NEW c \in Clients, NEW how, Return(c, how)
  PROVE  pc'[c] = "idle" /\ result'[c] = how
BY DEF Return, Goto, IInv, TypeOK

LEMMA ThrowGives ==
  ASSUME IInv, NEW c \in Clients, Throw(c)
  PROVE  /\ pc'[c] = "idle"
         /\ result'[c] = IF op[c] = "createFolder" THEN "thrown" ELSE "failure"
BY ReturnGives DEF Throw, Fail

LEMMA CreateEnds ==
  ASSUME NEW f, NEW w, NEW prot, NEW p, NEW s, NEW o, NEW r, CreateExact(f, w, prot, p, o, r)
  PROVE  CreateSoFar(f, w, prot, p, s, "idle", o, r)
BY DEF CreateSoFar

(* createFolder, undisturbed. *)
LEMMA WayIs ==
  ASSUME NEW p \in Paths
  PROVE  Way(p) \subseteq Paths /\ p \in Way(p)
BY AbovePaths DEF Way

LEMMA ExistsQuiet ==
  ASSUME IInv, NEW c \in Clients, exists(c), path[c] \in Paths, NEW w, IsTree(w),
         w[path[c]] # "link", NEW prot,
         CreateSoFar(fs, w, prot, path[c], stack[c], pc[c], op[c], result[c])
  PROVE  CreateSoFar(fs', w, prot, path[c], stack'[c], pc'[c], op[c], result'[c])
<1> DEFINE p == path[c]
<1>1. pc[c] = "exists" /\ fs' = fs /\ fs = w
  BY DEF exists, CreateSoFar
<1>2. Kind(p) = w[p] /\ (Exists(p) <=> w[p] \notin {"absent", "loop"})
  BY <1>1 DEF Kind, Resolve, Exists
<1>3. CASE Exists(p) /\ Return(c, "there")
  <2>1. w[p] # "absent" /\ w[p] # "loop"
    BY <1>2, <1>3
  <2>2. CreateExact(fs', w, prot, p, op[c], "there")
    BY <1>1, <2>1 DEF CreateExact, Makes
  <2> QED BY <1>3, <2>2, ReturnGives, CreateEnds
<1>4. CASE Kind(p) = "loop" /\ Throw(c)
  <2> DEFINE r == IF op[c] = "createFolder" THEN "thrown" ELSE "failure"
  <2>1. CreateExact(fs', w, prot, p, op[c], r)
    BY <1>1, <1>2, <1>4 DEF CreateExact, Makes
  <2>2. pc'[c] = "idle" /\ result'[c] = r
    BY <1>4, ThrowGives
  <2> HIDE DEF r
  <2> QED BY <2>1, <2>2, CreateEnds
<1>5. CASE Kind(p) = "absent" /\ Continue(c, "status")
  <2>1. pc'[c] = "status"
    BY <1>5, ContinueGives
  <2> QED BY <1>1, <1>2, <1>5, <2>1 DEF CreateSoFar
<1> QED BY <1>3, <1>4, <1>5 DEF exists

LEMMA StatusQuiet ==
  ASSUME IInv, NEW c \in Clients, status(c), path[c] \in Paths, NEW w,
         w[path[c]] # "link", NEW prot,
         CreateSoFar(fs, w, prot, path[c], stack[c], pc[c], op[c], result[c])
  PROVE  CreateSoFar(fs', w, prot, path[c], stack'[c], pc'[c], op[c], result'[c])
<1> DEFINE p == path[c]  s == <<p>>
<1>1. pc[c] = "status" /\ fs' = fs /\ fs = w /\ w[p] = "absent"
  BY DEF status, CreateSoFar
<1>2. Kind(p) = "absent"
  BY <1>1 DEF Kind, Resolve
<1>3. pc'[c] = "walk" /\ stack'[c] = s
  BY <1>1, <1>2 DEF status, Goto, IInv, TypeOK
<1>4. Len(s) = 1 /\ s[1] = p /\ Last(s) = p
  BY DEF Last
<1> HIDE DEF s
<1>5. Ladder(s) /\ \A i \in 1 .. Len(s) : w[s[i]] = "absent" /\ fs'[s[i]] = "absent"
  BY <1>1, <1>4 DEF Ladder
<1>6. Way(p) \subseteq {s[i] : i \in 1 .. Len(s)} \cup Above[Last(s)]
  BY <1>4 DEF Way
<1>7. CreateSoFar(fs', w, prot, p, s, "walk", op[c], result'[c])
  BY <1>1, <1>5, <1>6 DEF CreateSoFar
<1> QED BY <1>3, <1>7

LEMMA WalkQuiet ==
  ASSUME IInv, NEW c \in Clients, walk(c), path[c] \in Paths, NEW w, IsTree(w), NEW prot,
         CreateSoFar(fs, w, prot, path[c], stack[c], pc[c], op[c], result[c])
  PROVE  CreateSoFar(fs', w, prot, path[c], stack'[c], pc'[c], op[c], result'[c])
<1> DEFINE p == path[c]  s == stack[c]  q == Parent[Last(s)]
<1>1. /\ pc[c] = "walk" /\ fs' = fs /\ fs = w /\ w[p] = "absent" /\ Ladder(s)
      /\ \A i \in 1 .. Len(s) : w[s[i]] = "absent"
      /\ Way(p) \subseteq {s[i] : i \in 1 .. Len(s)} \cup Above[Last(s)]
  BY DEF walk, CreateSoFar
<1>2. /\ s \in Seq(Paths) /\ s # <<>> /\ s[1] = p
  BY <1>1 DEF IInv, Local
<1>3. /\ Len(s) \in Nat \ {0} /\ Last(s) = s[Len(s)] /\ Last(s) \in Paths
      /\ \A i \in 1 .. Len(s) : s[i] \in Paths
  <2>1. Len(s) \in Nat \ {0} /\ Last(s) = s[Len(s)]
    BY <1>2, FrontElements
  <2>2. \A i \in 1 .. Len(s) : s[i] \in Paths
    BY <1>2
  <2> QED BY <2>1, <2>2
<1>4. Above[Last(s)] = IF q = Top THEN {} ELSE {q} \cup Above[q]
  BY <1>3, AboveIs
<1>5. q \in Paths \cup {Top}
  BY <1>3, ParentIs
<1>6. CASE ParentIsDir(Last(s)) /\ Continue(c, "mkdir")
  <2>1. pc'[c] = "mkdir" /\ stack'[c] = s
    BY <1>6, ContinueGives
  <2>2. Parent[Last(s)] \in Folders(w)
    BY <1>1, <1>6 DEF ParentIsDir
  <2>3. \A x \in Above[Last(s)] : w[x] = "dir"
    <3>1. CASE q = Top
      BY <1>4, <3>1
    <3>2. CASE q # Top
      <4>1. q \in Paths /\ w[q] = "dir"
        BY <1>5, <2>2, <3>2 DEF Folders
      <4>2. \A x \in Above[q] : w[x] = "dir"
        BY <4>1, FoldersAbove
      <4> QED BY <1>4, <3>2, <4>1, <4>2
    <3> QED BY <3>1, <3>2
  <2>4. \A x \in Way(p) : w[x] = "dir" \/ \E i \in 1 .. Len(s) : x = s[i]
    BY <1>1, <2>3
  <2>5. \A x \in Above[p] \ Missing(w, p) : w[x] = "dir"
    BY <1>1, <2>4 DEF Missing, Way
  <2>6. \A x \in Missing(w, p) : \E i \in 1 .. Len(s) : x = s[i]
    BY <2>4 DEF Missing
  <2>7. Makes(fs', w, p)
    BY <1>1 DEF Makes
  <2> HIDE DEF s, p
  <2>8. CreateSoFar(fs', w, prot, p, s, "mkdir", op[c], result'[c])
    BY <1>1, <2>2, <2>5, <2>6, <2>7 DEF CreateSoFar
  <2> QED BY <2>1, <2>8 DEF s, p
<1>7. CASE /\ q # Top /\ fs[q] = "absent" /\ stack' = [stack EXCEPT ![c] = Append(@, q)]
           /\ Goto(c, "walk")
  <2> DEFINE t == Append(s, q)
  <2>1. pc'[c] = "walk" /\ stack'[c] = t
    BY <1>7 DEF Goto, IInv, TypeOK
  <2>2. Ladder(t)
    BY <1>1, <1>2, <1>5, <1>7, LadderGrows
  <2>3. /\ Len(t) = Len(s) + 1 /\ t[Len(s) + 1] = q /\ Last(t) = q
        /\ \A i \in 1 .. Len(s) : t[i] = s[i]
    BY <1>2, <1>5, <1>7, AppendElements
  <2> HIDE DEF t, s
  <2>4. \A i \in 1 .. Len(t) : w[t[i]] = "absent"
    <3> TAKE i \in 1 .. Len(t)
    <3>1. CASE i = Len(s) + 1
      BY <1>1, <1>7, <2>3, <3>1
    <3>2. CASE i # Len(s) + 1
      BY <1>1, <1>3, <2>3, <3>2
    <3> QED BY <3>1, <3>2
  <2>5. \A i \in 1 .. Len(s) : s[i] \in {t[j] : j \in 1 .. Len(t)}
    BY <1>3, <2>3
  <2>6. q \in {t[j] : j \in 1 .. Len(t)}
    BY <1>3, <2>3
  <2>7. Way(p) \subseteq {t[j] : j \in 1 .. Len(t)} \cup Above[Last(t)]
    BY <1>1, <1>4, <1>7, <2>3, <2>5, <2>6
  <2> HIDE DEF p
  <2>8. CreateSoFar(fs', w, prot, p, t, "walk", op[c], result'[c])
    BY <1>1, <2>2, <2>4, <2>7 DEF CreateSoFar
  <2> QED BY <2>1, <2>8 DEF p
<1>8. CASE q # Top /\ fs[q] \notin {"dir", "absent"} /\ Fail(c)
  <2>1. q \in Above[p] \ Missing(w, p) /\ w[q] # "dir"
    <3>1. q \in Above[p]
      <4>1. q \in Above[Last(s)]
        BY <1>4, <1>8
      <4>2. Last(s) = p \/ Last(s) \in Above[p]
        <5>1. CASE Len(s) = 1
          BY <1>2, <1>3, <5>1
        <5>2. CASE Len(s) # 1
          <6>1. \A n \in Nat \ {0} : n # 1 => 1 \in 1 .. n /\ n \in 1 .. n /\ 1 < n
            OBVIOUS
          <6>2. 1 \in 1 .. Len(s) /\ Len(s) \in 1 .. Len(s) /\ 1 < Len(s)
            BY <1>3, <5>2, <6>1, Zenon
          <6> QED BY <1>1, <1>2, <1>3, <6>2 DEF Ladder
        <5> QED BY <5>1, <5>2
      <4> QED BY <4>1, <4>2, AboveAbove
    <3> QED BY <1>1, <1>8, <3>1 DEF Way, Missing
  <2>2. ~CanCreate(w, prot, p)
    BY <2>1 DEF CanCreate
  <2>3. CreateExact(fs', w, prot, p, op[c], "failure")
    BY <1>1, <2>2 DEF CreateExact, Makes
  <2> QED BY <1>8, <2>3, FailGives, CreateEnds
<1> QED BY <1>6, <1>7, <1>8 DEF walk

LEMMA MkdirQuiet ==
  ASSUME IInv, NEW c \in Clients, mkdir(c), path[c] \in Paths, NEW w,
         CreateSoFar(fs, w, protected, path[c], stack[c], pc[c], op[c], result[c])
  PROVE  CreateSoFar(fs', w, protected, path[c], stack'[c], pc'[c], op[c], result'[c])
<1> DEFINE p == path[c]  s == stack[c]  q == Last(s)  n == Len(s)
<1>1. /\ pc[c] = "mkdir" /\ w[p] = "absent" /\ Ladder(s)
      /\ \A i \in 1 .. n : w[s[i]] = "absent" /\ fs[s[i]] = "absent"
      /\ Parent[q] \in Folders(fs) /\ Makes(fs, w, p)
      /\ \A x \in Above[p] \ Missing(w, p) : w[x] = "dir"
      /\ \A x \in Missing(w, p) :
           (\E i \in 1 .. n : x = s[i]) \/ (fs[x] = "dir" /\ x \notin protected)
  BY DEF mkdir, CreateSoFar
<1>2. s \in Seq(Paths) /\ s # <<>> /\ s[1] = p
  BY <1>1 DEF IInv, Local
<1>3. n \in Nat \ {0} /\ n \in 1 .. n /\ q = s[n] /\ \A i \in 1 .. n : s[i] \in Paths
  <2>1. n \in Nat \ {0} /\ q = s[n]
    BY <1>2, FrontElements
  <2>2. \A i \in 1 .. n : s[i] \in Paths
    BY <1>2
  <2>3. \A m \in Nat \ {0} : m \in 1 .. m
    OBVIOUS
  <2> QED BY <2>1, <2>2, <2>3, Zenon
<1>4. q \in Paths /\ fs[q] = "absent" /\ w[q] = "absent" /\ fs \in [Paths -> KindOf]
  <2>1. fs \in [Paths -> KindOf]
    BY DEF IInv, TypeOK
  <2> QED BY <1>1, <1>3, <2>1, Zenon
<1>5. Kind(q) # "dir"
  BY <1>4 DEF Kind, Resolve
<1>6. q \in Missing(w, p)
  <2>1. q = p \/ q \in Above[p]
    <3>1. CASE n = 1
      BY <1>2, <1>3, <3>1
    <3>2. CASE n # 1
      <4>1. \A m \in Nat \ {0} : m # 1 => 1 \in 1 .. m /\ m \in 1 .. m /\ 1 < m
        OBVIOUS
      <4>2. 1 \in 1 .. n /\ n \in 1 .. n /\ 1 < n
        BY <1>3, <3>2, <4>1, Zenon
      <4> QED BY <1>1, <1>2, <1>3, <4>2 DEF Ladder
    <3> QED BY <3>1, <3>2
  <2> QED BY <1>4, <2>1 DEF Missing, Way
<1>7. CASE CanMake(q) /\ fs' = [fs EXCEPT ![q] = "dir"] /\ MkdirDone(c, TRUE)
  <2>1. fs'[q] = "dir" /\ \A x \in Paths : x # q => fs'[x] = fs[x]
    BY <1>4, <1>7
  <2>2. q \notin protected
    BY <1>7 DEF CanMake
  <2>3. Makes(fs', w, p)
    BY <1>1, <1>6, <2>1 DEF Makes
  <2>4. \A x \in Missing(w, p) : x \in Paths
    BY WayIs DEF Missing
  <2>5. CASE n = 1 /\ Succeed(c)
    <3>1. \A x \in Missing(w, p) : x = q \/ (fs[x] = "dir" /\ x \notin protected)
      BY <1>1, <1>3, <2>5
    <3>2. \A x \in Missing(w, p) : fs'[x] = "dir" /\ x \notin protected
      BY <2>1, <2>2, <2>4, <3>1
    <3>3. Missing(w, p) \cap protected = {}
      BY <3>2
    <3>4. CanCreate(w, protected, p)
      BY <1>1, <3>3 DEF CanCreate
    <3>5. CreateExact(fs', w, protected, p, op[c], "success")
      BY <1>1, <2>3, <3>2, <3>4 DEF CreateExact
    <3> QED BY <2>5, <3>5, SucceedGives, CreateEnds
  <2>6. CASE /\ n # 1 /\ stack' = [stack EXCEPT ![c] = Front(@)] /\ Goto(c, "mkdir")
             /\ UNCHANGED <<cur, handle, result>>
    <3> DEFINE t == Front(s)
    <3>1. pc'[c] = "mkdir" /\ stack'[c] = t
      BY <2>6 DEF Goto, IInv, TypeOK
    <3>2. /\ Ladder(t) /\ Parent[Last(t)] = q
          /\ \A i \in 1 .. Len(t) : t[i] = s[i] /\ s[i] # q
          /\ \A i \in 1 .. n : s[i] = q \/ i \in 1 .. Len(t)
      BY <1>1, <1>2, <2>6, LadderShrinks
    <3>3. Len(t) = n - 1
      BY <1>2, FrontElements
    <3> HIDE DEF t, s, n
    <3>4. \A i \in 1 .. Len(t) : i \in 1 .. n
      BY <1>3, <3>3
    <3>5. \A i \in 1 .. Len(t) : w[t[i]] = "absent" /\ fs'[t[i]] = "absent"
      BY <1>1, <1>3, <2>1, <3>2, <3>4
    <3>6. Parent[Last(t)] \in Folders(fs')
      BY <1>4, <2>1, <3>2 DEF Folders
    <3>7. \A x \in Missing(w, p) :
            (\E i \in 1 .. Len(t) : x = t[i]) \/ (fs'[x] = "dir" /\ x \notin protected)
      <4> TAKE x \in Missing(w, p)
      <4>1. CASE x = q
        BY <2>1, <2>2, <4>1
      <4>2. CASE x # q /\ \E i \in 1 .. n : x = s[i]
        BY <3>2, <4>2
      <4>3. CASE x # q /\ fs[x] = "dir" /\ x \notin protected
        BY <2>1, <2>4, <4>3
      <4> QED BY <1>1, <4>1, <4>2, <4>3
    <3> HIDE DEF p
    <3>8. CreateSoFar(fs', w, protected, p, t, "mkdir", op[c], result'[c])
      BY <1>1, <2>3, <3>2, <3>5, <3>6, <3>7 DEF CreateSoFar
    <3> QED BY <3>1, <3>8 DEF p
  <2> QED BY <1>7, <2>5, <2>6 DEF MkdirDone
<1>8. CASE ~CanMake(q) /\ Fail(c) /\ fs' = fs
  <2>1. q \in protected
    BY <1>1, <1>4, <1>8 DEF CanMake, ParentIsDir
  <2>2. ~CanCreate(w, protected, p)
    BY <1>6, <2>1 DEF CanCreate
  <2>3. CreateExact(fs', w, protected, p, op[c], "failure")
    BY <1>1, <1>8, <2>2 DEF CreateExact
  <2> QED BY <1>8, <2>3, FailGives, CreateEnds
<1> QED BY <1>5, <1>7, <1>8 DEF mkdir

(* A link at the path, undisturbed. *)
LEMMA LinkQuiet ==
  ASSUME IInv, NEW c \in Clients, exists(c) \/ status(c) \/ walk(c) \/ mkdir(c),
         path[c] \in Paths, NEW w, IsTree(w), w[path[c]] = "link",
         LinkSoFar(fs, w, path[c], stack[c], pc[c], result[c])
  PROVE  LinkSoFar(fs', w, path[c], stack'[c], pc'[c], result'[c])
<1> DEFINE p == path[c]
<1>1. fs = w /\ fs[p] = "link" /\ Kind(p) = w[Target]
  BY DEF LinkSoFar, Kind, Resolve
<1>2. ASSUME NEW how, how # "success", Return(c, how), fs' = fs
      PROVE  LinkSoFar(fs', w, p, stack'[c], pc'[c], result'[c])
  BY <1>1, <1>2, ReturnGives DEF LinkSoFar
<1>3. Last(<<p>>) = p
  BY DEF Last
<1>4. CASE exists(c)
  <2>1. CASE Kind(p) = "absent" /\ Continue(c, "status") /\ fs' = fs
    BY <1>1, <2>1, ContinueGives DEF LinkSoFar
  <2> QED BY <1>2, <1>4, <2>1 DEF exists, Throw, Fail
<1>5. CASE status(c)
  <2>1. pc[c] = "status" /\ Kind(p) = "absent" /\ fs' = fs
    BY <1>1, <1>5 DEF status, LinkSoFar
  <2>2. pc'[c] = "walk" /\ stack'[c] = <<p>>
    BY <1>5, <2>1 DEF status, Goto, IInv, TypeOK
  <2> QED BY <1>1, <2>1, <2>2 DEF LinkSoFar
<1>6. CASE walk(c)
  <2>1. stack[c] = <<p>> /\ Last(stack[c]) = p /\ fs' = fs
    <3>1. pc[c] = "walk" /\ fs' = fs
      BY <1>6 DEF walk
    <3>2. stack[c] = <<p>>
      BY <3>1 DEF LinkSoFar
    <3> QED BY <1>3, <3>1, <3>2
  <2>2. ParentIsDir(p)
    BY <1>1 DEF ParentIsDir, IsTree
  <2>3. ~(Parent[p] # Top /\ fs[Parent[p]] = "absent")
    BY <2>2 DEF ParentIsDir, Folders
  <2>4. CASE Continue(c, "mkdir")
    BY <1>1, <1>6, <2>1, <2>4, ContinueGives DEF walk, LinkSoFar
  <2> QED BY <1>2, <1>6, <2>1, <2>3, <2>4 DEF walk, Fail
<1>7. CASE mkdir(c)
  <2>1. Last(stack[c]) = p /\ Kind(p) = "absent" /\ ~CanMake(p)
    <3>1. pc[c] = "mkdir"
      BY <1>7 DEF mkdir
    <3>2. stack[c] = <<p>> /\ w[Target] = "absent"
      BY <3>1 DEF LinkSoFar
    <3>3. ~CanMake(p)
      BY <1>1 DEF CanMake
    <3> QED BY <1>1, <1>3, <3>2, <3>3
  <2> QED BY <1>2, <1>7, <2>1 DEF mkdir, Fail
<1> QED BY <1>4, <1>5, <1>6, <1>7

(* The labels of createFolder are no others'. *)
LEMMA CreateSteps ==
  ASSUME IInv, NEW c \in Clients, Run(c), MakesFolder(c)
  PROVE  path[c] \in Paths /\ (exists(c) \/ status(c) \/ walk(c) \/ mkdir(c))
<1>1. Local(c) /\ (pc[c] # "idle" => path[c] \in Paths)
  BY PathsOfCalls DEF IInv
<1>2. pc[c] \notin InFile \cup Deleting
  BY <1>1 DEF Local, Deletes, MakesFolder
<1>3. exists(c) \/ status(c) \/ walk(c) \/ mkdir(c)
  <2>1. ~(open_out(c) \/ write(c) \/ check_out(c))
    BY <1>2 DEF InFile, open_out, write, check_out
  <2>2. ~(exists_file(c) \/ is_file(c) \/ remove_file(c) \/ exists_folder(c)
            \/ is_folder(c) \/ open_folder(c))
    BY <1>2 DEF Deleting, Looking, exists_file, is_file, remove_file, exists_folder,
                is_folder, open_folder, Check
  <2>3. ~(next_entry(c) \/ is_symlink(c) \/ remove_link(c) \/ is_directory(c)
            \/ remove_folder(c))
    BY <1>2 DEF Deleting, InEntry, next_entry, is_symlink, remove_link, is_directory,
                remove_folder
  <2> QED BY <2>1, <2>2, <2>3 DEF Run, Step
<1>4. path[c] \in Paths
  BY <1>1, <1>3 DEF exists, status, walk, mkdir
<1> QED BY <1>3, <1>4

LEMMA CreateQuiet ==
  ASSUME IInv, NEW c \in Clients, Run(c), MakesFolder(c), NEW w, IsTree(w),
         w[path[c]] # "link",
         CreateSoFar(fs, w, protected, path[c], stack[c], pc[c], op[c], result[c])
  PROVE  CreateSoFar(fs', w, protected, path[c], stack'[c], pc'[c], op[c], result'[c])
BY CreateSteps, ExistsQuiet, StatusQuiet, WalkQuiet, MkdirQuiet
-----------------------------------------------------------------------------
(* deleteFolder, undisturbed. *)
LEMMA DeleteEnds ==
  ASSUME NEW f, NEW w, NEW prot, NEW p, NEW s, NEW x, NEW r, DeleteExact(f, w, prot, p, r)
  PROVE  DeleteSoFar(f, w, prot, p, s, x, "idle", r)
BY DEF DeleteSoFar, Deleting, Looking, InEntry

(* What is there has not changed, and belongs to the folder. *)
LEMMA PresentIsThere ==
  ASSUME NEW f, NEW w, NEW p \in Paths, Removes(f, w, p), NEW q \in Under(p), f[q] # "absent"
  PROVE  q \in Paths /\ f[q] = w[q] /\ q \in There(w, p)
BY DEF Removes, There, Under

LEMMA FoldersDiffer ==
  ASSUME NEW f, NEW s, NEW p \in Paths, Chained(f, s, p), Len(s) \in Nat
  PROVE  \A i, j \in 1 .. Len(s) : s[i].folder = s[j].folder => i = j
<1>1. \A i \in 1 .. Len(s) : s[i].folder \in Paths
  BY DEF Chained, Under
<1>2. \A i, j \in 1 .. Len(s) : i < j => s[i].folder # s[j].folder
  BY <1>1, NotAboveItself DEF Chained
<1> DEFINE n == Len(s)
<1> HIDE DEF n
<1>3. \A i, j \in 1 .. n : i = j \/ i < j \/ j < i
  BY DEF n
<1> QED BY <1>2, <1>3, Zenon DEF n

(* What every step of a running call may use. *)
LEMMA DeletingFacts ==
  ASSUME IInv, NEW c \in Clients, pc[c] \in Deleting, NEW w, NEW prot, NEW r,
         DeleteSoFar(fs, w, prot, path[c], stack[c], cur[c], pc[c], r)
  PROVE  /\ path[c] \in Paths /\ fs \in [Paths -> KindOf] /\ Top \notin Paths
         /\ stack[c] \in Seq(Frame) /\ (stack[c] # <<>> => stack[c][1].folder = path[c])
         /\ pc[c] \in InEntry \cup {"entries"} => stack[c] # <<>>
         /\ pc[c] # "entries" /\ stack[c] = <<>> => cur[c] = path[c]
         /\ Removes(fs, w, path[c]) /\ \A q \in Paths : fs[q] # w[q] => q \in Removable(w, prot)
         /\ Chained(fs, stack[c], path[c])
         /\ pc[c] = "entries" => Listed(fs, stack[c], Top)
         /\ pc[c] # "entries" => /\ Listed(fs, stack[c], cur[c])
                                 /\ Entry(fs, stack[c], cur[c], path[c], pc[c])
<1>1. Chain(c) /\ path[c] \in Paths
  BY ChainHolds
<1>2. Top \notin Paths /\ fs \in [Paths -> KindOf]
  BY TreeAssumption DEF IInv, TypeOK
<1>3. stack[c] \in Seq(Frame)
  <2>1. FrameIn(Paths) = Frame
    BY DEF FrameIn, Frame
  <2> QED BY <1>1, <2>1, AllowedPaths, FramesGrow DEF Chain
<1>4. /\ stack[c] # <<>> => stack[c][1].folder = path[c]
      /\ pc[c] \in InEntry \cup {"entries"} => stack[c] # <<>>
      /\ pc[c] # "entries" /\ stack[c] = <<>> => cur[c] = path[c]
  BY <1>1 DEF Chain
<1>5. /\ Removes(fs, w, path[c]) /\ \A q \in Paths : fs[q] # w[q] => q \in Removable(w, prot)
      /\ Chained(fs, stack[c], path[c])
      /\ pc[c] = "entries" => Listed(fs, stack[c], Top)
      /\ pc[c] # "entries" => /\ Listed(fs, stack[c], cur[c])
                              /\ Entry(fs, stack[c], cur[c], path[c], pc[c])
  BY DEF DeleteSoFar
<1> QED BY <1>1, <1>2, <1>3, <1>4, <1>5

LEMMA EntriesFacts ==
  ASSUME IInv, NEW c \in Clients, pc[c] = "entries", NEW w, NEW prot, NEW r,
         DeleteSoFar(fs, w, prot, path[c], stack[c], cur[c], pc[c], r)
  PROVE  /\ path[c] \in Paths /\ fs \in [Paths -> KindOf] /\ Top \notin Paths
         /\ stack[c] \in Seq(Frame) /\ stack[c] # <<>> /\ stack[c][1].folder = path[c]
         /\ Removes(fs, w, path[c]) /\ \A q \in Paths : fs[q] # w[q] => q \in Removable(w, prot)
         /\ Chained(fs, stack[c], path[c]) /\ Listed(fs, stack[c], Top)
<1>1. pc[c] \in Deleting /\ pc[c] \in InEntry \cup {"entries"}
  BY DEF Deleting
<1>2. /\ pc[c] \in InEntry \cup {"entries"} => stack[c] # <<>>
      /\ stack[c] # <<>> => stack[c][1].folder = path[c]
      /\ pc[c] = "entries" => Listed(fs, stack[c], Top)
  BY <1>1, DeletingFacts
<1>3. /\ path[c] \in Paths /\ fs \in [Paths -> KindOf] /\ Top \notin Paths
      /\ stack[c] \in Seq(Frame) /\ Chained(fs, stack[c], path[c])
      /\ Removes(fs, w, path[c]) /\ \A q \in Paths : fs[q] # w[q] => q \in Removable(w, prot)
  BY <1>1, DeletingFacts
<1> QED BY <1>1, <1>2, <1>3

(* It asks on: nothing changes, and what lies there is what the next label *)
(* is for.                                                                 *)
LEMMA LookOnQuiet ==
  ASSUME IInv, NEW c \in Clients, NEW w, NEW prot, pc[c] \in Deleting \ {"entries"},
         DeleteSoFar(fs, w, prot, path[c], stack[c], cur[c], pc[c], result[c]),
         NEW label \in Deleting \ {"entries"}, Continue(c, label), fs' = fs,
         fs[cur[c]] \in KindsAt(label)
  PROVE  DeleteSoFar(fs', w, prot, path[c], stack'[c], cur'[c], pc'[c], result'[c])
<1> DEFINE p == path[c]  s == stack[c]  x == cur[c]  r == result[c]
<1>1. pc'[c] = label /\ stack'[c] = s /\ cur'[c] = x /\ result'[c] = r
  BY ContinueGives
<1>2. /\ Removes(fs, w, p) /\ \A q \in Paths : fs[q] # w[q] => q \in Removable(w, prot)
      /\ Chained(fs, s, p) /\ Listed(fs, s, x) /\ Entry(fs, s, x, p, pc[c])
  BY DeletingFacts
<1>3. Entry(fs, s, x, p, label)
  BY <1>2 DEF Entry
<1>4. label # "idle" /\ label # "entries"
  BY DEF Deleting, Looking, InEntry
<1> HIDE DEF p, s, x, r
<1>5. DeleteSoFar(fs, w, prot, p, s, x, label, r)
  BY <1>2, <1>3, <1>4 DEF DeleteSoFar
<1> QED BY <1>1, <1>5 DEF p, s, x, r

(* Something in the folder does not go: the call fails, and the reason is  *)
(* one that the definition counts.                                         *)
LEMMA GivesUpQuiet ==
  ASSUME IInv, NEW c \in Clients, NEW w, NEW prot, NEW p \in Paths, NEW s,
         s # <<>>, Len(s) \in Nat \ {0}, s[1].folder = p,
         Chained(fs, s, p), Removes(fs, w, p),
         NEW q \in There(w, p), q \notin Removable(w, prot), Fail(c), fs' = fs
  PROVE  DeleteSoFar(fs', w, prot, p, stack'[c], cur'[c], pc'[c], result'[c])
<1> DEFINE n == Len(s)
<1>1. \A i \in 1 .. n : fs[s[i].folder] = "dir"
  BY DEF Chained
<1>2. 1 \in 1 .. n
  OBVIOUS
<1>3. fs[p] = "dir"
  BY <1>1, <1>2
<1>4. DeleteExact(fs', w, prot, p, "failure")
  BY <1>3 DEF DeleteExact
<1> QED BY <1>4, FailGives, DeleteEnds

LEMMA SpecialQuiet ==
  ASSUME IInv, NEW c \in Clients, NEW w, NEW prot, w[path[c]] = "dir",
         pc[c] \in Deleting \ {"entries"},
         DeleteSoFar(fs, w, prot, path[c], stack[c], cur[c], pc[c], result[c]),
         fs[cur[c]] = "special", Fail(c), fs' = fs
  PROVE  DeleteSoFar(fs', w, prot, path[c], stack'[c], cur'[c], pc'[c], result'[c])
<1> DEFINE p == path[c]  s == stack[c]  x == cur[c]
<1>1. /\ p \in Paths /\ s \in Seq(Frame) /\ (s # <<>> => s[1].folder = p)
      /\ s = <<>> => x = p
      /\ Removes(fs, w, p) /\ Chained(fs, s, p) /\ x \in Under(p)
  BY DeletingFacts DEF Entry
<1>2. x \in Paths /\ fs[x] = w[x] /\ x \in There(w, p)
  BY <1>1, PresentIsThere
<1>3. s # <<>>
  BY <1>1, <1>2
<1>4. Len(s) \in Nat \ {0}
  BY <1>1, <1>3, FrontElements
<1>5. x \notin Removable(w, prot)
  BY <1>2 DEF Removable
<1> QED BY <1>1, <1>2, <1>3, <1>4, <1>5, GivesUpQuiet

LEMMA AskQuiet ==
  ASSUME IInv, NEW c \in Clients, NEW w, NEW prot, op[c] = "deleteFolder",
         w[path[c]] = "dir",
         \/ exists_file(c) \/ is_file(c) \/ exists_folder(c) \/ is_folder(c)
         \/ is_symlink(c) \/ is_directory(c),
         DeleteSoFar(fs, w, prot, path[c], stack[c], cur[c], pc[c], result[c])
  PROVE  DeleteSoFar(fs', w, prot, path[c], stack'[c], cur'[c], pc'[c], result'[c])
<1> DEFINE x == cur[c]
<1>1. pc[c] \in Deleting \ {"entries"}
  BY DEF Deleting, Looking, InEntry, exists_file, is_file, exists_folder, is_folder,
         is_symlink, is_directory, Check
<1>2. fs[x] \in KindsAt(pc[c]) /\ fs' = fs
  <2>1. fs[x] \in KindsAt(pc[c])
    BY <1>1, DeletingFacts DEF Entry
  <2>2. fs' = fs
    BY DEF exists_file, is_file, exists_folder, is_folder, is_symlink, is_directory, Check
  <2> QED BY <2>1, <2>2
<1>3. fs[x] # "link" => Kind(x) = fs[x] /\ (Exists(x) <=> fs[x] \notin {"absent", "loop"})
  BY DEF Kind, Resolve, Exists
<1> HIDE DEF x
<1>4. ASSUME NEW label \in Deleting \ {"entries"}, Continue(c, label), fs[x] \in KindsAt(label)
      PROVE  DeleteSoFar(fs', w, prot, path[c], stack'[c], cur'[c], pc'[c], result'[c])
  BY <1>1, <1>2, <1>4, LookOnQuiet DEF x
<1>5. CASE exists_file(c)
  <2>1. pc[c] = "exists_file" /\ fs[x] \in Files \cup {"special"}
    BY <1>2, <1>5 DEF exists_file, Check, KindsAt
  <2>2. Continue(c, "is_file")
    BY <1>3, <1>5, <2>1 DEF exists_file, Check, Files, x
  <2> QED BY <1>4, <2>1, <2>2 DEF KindsAt, Deleting, Looking
<1>6. CASE is_file(c)
  <2>1. pc[c] = "is_file" /\ fs[x] \in Files \cup {"special"}
    BY <1>2, <1>6 DEF is_file, Check, KindsAt
  <2>2. CASE fs[x] \in Files
    <3>1. Continue(c, "remove_file")
      BY <1>3, <1>6, <2>2 DEF is_file, Check, Files, x
    <3> QED BY <1>4, <2>2, <3>1 DEF KindsAt, Deleting, Looking
  <2>3. CASE fs[x] = "special"
    <3>1. Fail(c)
      BY <1>3, <1>6, <2>3 DEF is_file, Check, Files, x
    <3> QED BY <1>1, <1>2, <2>3, <3>1, SpecialQuiet DEF x
  <2> QED BY <2>1, <2>2, <2>3
<1>7. CASE exists_folder(c)
  <2>1. pc[c] = "exists_folder" /\ fs[x] = "dir"
    BY <1>2, <1>7 DEF exists_folder, Check, KindsAt
  <2>2. Continue(c, "is_folder")
    BY <1>3, <1>7, <2>1 DEF exists_folder, Check, x
  <2> QED BY <1>4, <2>1, <2>2 DEF KindsAt, Deleting, Looking
<1>8. CASE is_folder(c)
  <2>1. pc[c] = "is_folder" /\ fs[x] = "dir"
    BY <1>2, <1>8 DEF is_folder, Check, KindsAt
  <2>2. Continue(c, "open_folder")
    BY <1>3, <1>8, <2>1 DEF is_folder, Check, x
  <2> QED BY <1>4, <2>1, <2>2 DEF KindsAt, Deleting, Looking
<1>9. CASE is_symlink(c)
  <2>1. pc[c] = "is_symlink" /\ fs[x] \in KindOf \ {"absent"}
    BY <1>2, <1>9 DEF is_symlink, KindsAt
  <2>2. CASE fs[x] \in Linked
    BY <1>4, <1>9, <2>2 DEF is_symlink, KindsAt, Deleting, InEntry, x
  <2>3. CASE fs[x] \notin Linked
    <3>1. fs[x] \in Files \cup {"special", "dir"} /\ Continue(c, "is_directory")
      BY <1>9, <2>1, <2>3 DEF is_symlink, KindOf, x
    <3> QED BY <1>4, <3>1 DEF KindsAt, Deleting, InEntry
  <2> QED BY <2>2, <2>3
<1>10. CASE is_directory(c)
  <2>1. pc[c] = "is_directory" /\ fs[x] \in Files \cup {"special", "dir"}
    BY <1>2, <1>10 DEF is_directory, KindsAt
  <2>2. CASE fs[x] = "dir"
    BY <1>3, <1>4, <1>10, <2>2 DEF is_directory, KindsAt, Deleting, Looking, x
  <2>3. CASE fs[x] \in Files \cup {"special"}
    <3>1. Kind(x) # "dir"
      BY <1>3, <2>3 DEF Files
    <3>2. Continue(c, "exists_file")
      BY <1>10, <3>1 DEF is_directory, x
    <3> QED BY <1>4, <2>3, <3>2 DEF KindsAt, Deleting, Looking
  <2> QED BY <2>1, <2>2, <2>3
<1> QED BY <1>5, <1>6, <1>7, <1>8, <1>9, <1>10

LEMMA RemoveEntryQuiet ==
  ASSUME IInv, NEW c \in Clients, NEW w, op[c] = "deleteFolder", w[path[c]] = "dir",
         remove_file(c) \/ remove_link(c),
         DeleteSoFar(fs, w, protected, path[c], stack[c], cur[c], pc[c], result[c])
  PROVE  DeleteSoFar(fs', w, protected, path[c], stack'[c], cur'[c], pc'[c], result'[c])
<1> DEFINE p == path[c]  s == stack[c]  x == cur[c]  r == result[c]  n == Len(s)
<1>1. /\ pc[c] \in {"remove_file", "remove_link"} /\ pc[c] \in Deleting /\ pc[c] # "entries"
      /\ fs_remove(c, x, s)
  BY DEF remove_file, remove_link, Deleting, Looking, InEntry
<1>2. /\ p \in Paths /\ fs \in [Paths -> KindOf] /\ s \in Seq(Frame)
      /\ s # <<>> => s[1].folder = p
      /\ pc[c] \in InEntry => s # <<>>
      /\ s = <<>> => x = p
      /\ Removes(fs, w, p) /\ \A q \in Paths : fs[q] # w[q] => q \in Removable(w, protected)
      /\ Chained(fs, s, p) /\ Listed(fs, s, x) /\ Entry(fs, s, x, p, pc[c])
  BY <1>1, DeletingFacts
<1>3. x \in Under(p) /\ fs[x] \notin {"absent", "dir", "special"}
  <2>1. fs[x] \in Files \cup Linked /\ x \in Under(p)
    BY <1>1, <1>2 DEF Entry, KindsAt
  <2> QED BY <2>1 DEF Files, Linked
<1>4. x \in Paths /\ fs[x] = w[x] /\ x \in There(w, p)
  BY <1>2, <1>3, PresentIsThere
<1>5. s # <<>>
  BY <1>2, <1>3, <1>4
<1>6. /\ n \in Nat \ {0} /\ Last(s) = s[n] /\ s[1].folder = p
      /\ Parent[x] = s[n].folder /\ x \notin s[n].left
  BY <1>2, <1>5, FrontElements DEF Entry
<1>7. ~NothingThere(x)
  BY <1>3 DEF NothingThere
<1>8. CASE CanRemove(x) /\ fs' = [fs EXCEPT ![x] = "absent"] /\ Removed(c, s)
  <2>1. fs'[x] = "absent" /\ \A q \in Paths : q # x => fs'[q] = fs[q]
    BY <1>2, <1>4, <1>8
  <2>2. /\ pc'[c] = "entries" /\ stack'[c] = s
    BY <1>5, <1>8 DEF Removed, Goto, IInv, TypeOK
  <2>3. x \in Removable(w, protected)
    BY <1>3, <1>4, <1>8 DEF CanRemove, Removable
  <2>4. Removes(fs', w, p) /\ \A q \in Paths : fs'[q] # w[q] => q \in Removable(w, protected)
    <3>1. fs'[x] # w[x] => x \in There(w, p) /\ fs'[x] = "absent" /\ x \in Removable(w, protected)
      BY <1>4, <2>1, <2>3
    <3>2. ASSUME NEW q \in Paths, q # x, fs'[q] # w[q]
          PROVE  q \in There(w, p) /\ fs'[q] = "absent" /\ q \in Removable(w, protected)
      BY <1>2, <2>1, <3>2 DEF Removes
    <3> QED BY <3>1, <3>2 DEF Removes
  <2>5. Chained(fs', s, p)
    <3> HIDE DEF s, x, n, p
    <3>1. ASSUME NEW i \in 1 .. n PROVE fs'[s[i].folder] = "dir"
      <4>1. s[i].folder \in Under(p) /\ fs[s[i].folder] = "dir"
        BY <1>2 DEF Chained, n
      <4>2. s[i].folder \in Paths /\ s[i].folder # x
        BY <1>3, <4>1 DEF Under
      <4> QED BY <2>1, <4>1, <4>2
    <3>2. ASSUME NEW i \in 1 .. n, NEW q \in s[i].left
          PROVE  Parent[q] = s[i].folder /\ fs'[q] # "absent"
      <4>1. Parent[q] = s[i].folder /\ fs[q] # "absent"
        BY <1>2 DEF Chained, n
      <4>2. q # x
        <5>1. q = x => s[i].folder = s[n].folder
          BY <1>6, <4>1
        <5>2. n \in 1 .. n
          BY <1>6
        <5>3. q = x => i = n
          BY <1>2, <1>6, <5>1, <5>2, FoldersDiffer DEF n
        <5> QED BY <1>6, <5>3
      <4>3. q \in Paths
        <5>1. s[i] \in Frame
          BY <1>2 DEF n
        <5> QED BY <5>1 DEF Frame
      <4> QED BY <2>1, <4>1, <4>2, <4>3
    <3> QED BY <1>2, <3>1, <3>2 DEF Chained, n
  <2>6. Listed(fs', s, Top)
    <3> HIDE DEF s, x, n, p
    <3>1. ASSUME NEW i \in 1 .. n, NEW q \in Paths, Parent[q] = s[i].folder, fs'[q] # "absent"
          PROVE  q \in s[i].left \/ (i < n /\ q = s[i + 1].folder)
      <4>1. q # x /\ fs[q] # "absent"
        BY <2>1, <3>1
      <4> QED BY <1>2, <3>1, <4>1 DEF Listed, n
    <3> QED BY <3>1 DEF Listed, n
  <2> HIDE DEF p, s
  <2>7. DeleteSoFar(fs', w, protected, p, s, cur'[c], "entries", result'[c])
    BY <2>4, <2>5, <2>6 DEF DeleteSoFar
  <2> QED BY <2>2, <2>7 DEF p
<1>9. CASE ~CanRemove(x) /\ Fail(c) /\ fs' = fs
  <2>1. x \notin Removable(w, protected)
    BY <1>3, <1>9 DEF CanRemove, Removable
  <2> QED BY <1>2, <1>4, <1>5, <1>6, <1>9, <2>1, GivesUpQuiet
<1> QED BY <1>1, <1>7, <1>8, <1>9 DEF fs_remove

LEMMA RemoveFolderQuiet ==
  ASSUME IInv, NEW c \in Clients, NEW w, op[c] = "deleteFolder", w[path[c]] = "dir",
         remove_folder(c),
         DeleteSoFar(fs, w, protected, path[c], stack[c], cur[c], pc[c], result[c])
  PROVE  DeleteSoFar(fs', w, protected, path[c], stack'[c], cur'[c], pc'[c], result'[c])
<1> DEFINE p == path[c]  s == stack[c]  n == Len(s)  q == Last(s).folder  t == Front(s)
<1>1. pc[c] = "entries" /\ pc[c] \in Deleting /\ Last(s).left = {} /\ fs_remove(c, q, t)
  BY DEF remove_folder, Deleting
<1>2. /\ p \in Paths /\ fs \in [Paths -> KindOf] /\ s \in Seq(Frame) /\ s # <<>>
      /\ s[1].folder = p /\ Top \notin Paths
      /\ Removes(fs, w, p) /\ \A x \in Paths : fs[x] # w[x] => x \in Removable(w, protected)
      /\ Chained(fs, s, p) /\ Listed(fs, s, Top)
  <2>1. pc[c] = "entries"
    BY <1>1
  <2> QED BY <2>1, EntriesFacts, Zenon
<1>3. /\ n \in Nat \ {0} /\ n \in 1 .. n /\ Last(s) = s[n]
      /\ t \in Seq(Frame) /\ Len(t) = n - 1 /\ \A i \in 1 .. n - 1 : t[i] = s[i]
  <2>1. /\ n \in Nat \ {0} /\ Last(s) = s[n]
        /\ t \in Seq(Frame) /\ Len(t) = n - 1 /\ \A i \in 1 .. n - 1 : t[i] = s[i]
    BY <1>2, FrontElements
  <2>2. \A m \in Nat \ {0} : m \in 1 .. m
    OBVIOUS
  <2> QED BY <2>1, <2>2, Zenon
<1>4. q \in Under(p) /\ fs[q] = "dir" /\ q = s[n].folder /\ s[n].left = {}
  BY <1>1, <1>2, <1>3 DEF Chained
<1>5. q \in Paths /\ fs[q] = w[q] /\ q \in There(w, p)
  BY <1>2, <1>4, PresentIsThere
<1>6. ~NothingThere(q)
  BY <1>4 DEF NothingThere
<1>7. Children(q) = {}
  <2>1. ASSUME NEW y \in Paths, Parent[y] = q, fs[y] # "absent" PROVE FALSE
    <3> HIDE DEF s, n, q
    <3>1. \/ y \in s[n].left \/ (n < n /\ y = s[n + 1].folder) \/ (n = n /\ y = Top)
      BY <1>2, <1>3, <1>4, <2>1 DEF Listed, n
    <3>2. ~(n < n)
      BY <1>3
    <3> QED BY <1>2, <1>4, <3>1, <3>2
  <2> QED BY <2>1 DEF Children
<1>8. CASE CanRemove(q) /\ fs' = [fs EXCEPT ![q] = "absent"] /\ handle' = Unlinked(q, handle)
           /\ Removed(c, t)
  <2>1. fs'[q] = "absent" /\ \A x \in Paths : x # q => fs'[x] = fs[x]
    BY <1>2, <1>5, <1>8
  <2>2. q \in Removable(w, protected)
    BY <1>4, <1>5, <1>8 DEF CanRemove, Removable
  <2>3. Removes(fs', w, p) /\ \A x \in Paths : fs'[x] # w[x] => x \in Removable(w, protected)
    <3>1. fs'[q] # w[q] => q \in There(w, p) /\ fs'[q] = "absent" /\ q \in Removable(w, protected)
      BY <1>5, <2>1, <2>2
    <3>2. ASSUME NEW x \in Paths, x # q, fs'[x] # w[x]
          PROVE  x \in There(w, p) /\ fs'[x] = "absent" /\ x \in Removable(w, protected)
      BY <1>2, <2>1, <3>2 DEF Removes
    <3> QED BY <3>1, <3>2 DEF Removes
  <2>4. CASE t = <<>>
    <3>1. n = 1
      BY <1>3, <2>4
    <3>2. q = p /\ pc'[c] = "idle" /\ result'[c] = "success"
      <4>1. pc'[c] = "idle" /\ result'[c] = "success"
        BY <1>8, <2>4 DEF Removed, Goto, IInv, TypeOK
      <4>2. q = p
        BY <1>2, <1>4, <3>1
      <4> QED BY <4>1, <4>2
    <3>3. IsTree(fs')
      BY <1>5, <1>8, RemoveShared DEF SharedOK
    <3>4. ASSUME NEW y \in There(w, p) PROVE fs'[y] = "absent" /\ y \in Removable(w, protected)
      <4>1. y \in Paths /\ (y = p \/ p \in Above[y]) /\ w[y] # "absent"
        BY DEF There, Under
      <4>2. fs'[y] = "absent"
        BY <2>1, <3>2, <3>3, <4>1, FoldersAbove
      <4> QED BY <2>3, <4>1, <4>2
    <3>5. There(w, p) \subseteq Removable(w, protected)
      BY <3>4
    <3>6. DeleteExact(fs', w, protected, p, "success")
      BY <2>3, <3>4, <3>5 DEF DeleteExact
    <3> QED BY <3>2, <3>6, DeleteEnds
  <2>5. CASE t # <<>>
    <3>1. pc'[c] = "entries" /\ stack'[c] = t
      BY <1>8, <2>5 DEF Removed, Goto, IInv, TypeOK
    <3>2. n # 1
      BY <1>3, <2>5, EmptySeq
    <3>3. \A i, j \in 1 .. n : s[i].folder = s[j].folder => i = j
      BY <1>2, <1>3, FoldersDiffer
    <3>4. /\ \A i \in 1 .. n : s[i].folder \in Under(p) /\ fs[s[i].folder] = "dir"
          /\ \A i, j \in 1 .. n : i < j => s[i].folder \in Above[s[j].folder]
          /\ \A i \in 1 .. n - 1 : Parent[s[i + 1].folder] = s[i].folder
                                    /\ s[i + 1].folder \notin s[i].left
          /\ \A i \in 1 .. n : \A x \in s[i].left : Parent[x] = s[i].folder
                                                    /\ fs[x] # "absent"
      BY <1>2 DEF Chained
    <3>5. \A i \in 1 .. n : s[i].left \subseteq Paths
      <4>1. \A i \in 1 .. n : s[i] \in Frame
        BY <1>2
      <4> QED BY <4>1 DEF Frame
    <3>6. \A i \in 1 .. n : \A x \in Paths : Parent[x] = s[i].folder /\ fs[x] # "absent" =>
            x \in s[i].left \/ (i < n /\ x = s[i + 1].folder) \/ (i = n /\ x = Top)
      BY <1>2 DEF Listed
    <3> HIDE DEF s, n, q, t, p
    <3>7. \A i \in 1 .. n - 1 : i \in 1 .. n /\ i < n /\ i # n /\ t[i] = s[i]
      BY <1>3
    <3>8. n - 1 \in 1 .. n - 1 /\ (n - 1) + 1 = n
      BY <1>3, <3>2
    <3>9. Parent[q] = s[n - 1].folder /\ q \notin s[n - 1].left
      BY <1>4, <3>4, <3>8
    <3>10. ASSUME NEW i \in 1 .. n - 1 PROVE t[i].folder \in Under(p) /\ fs'[t[i].folder] = "dir"
      <4>1. s[i].folder \in Under(p) /\ fs[s[i].folder] = "dir" /\ t[i] = s[i]
        BY <3>4, <3>7
      <4>2. s[i].folder # q
        BY <1>3, <1>4, <3>3, <3>7
      <4>3. s[i].folder \in Paths
        BY <4>1 DEF Under
      <4> QED BY <2>1, <4>1, <4>2, <4>3
    <3>11. ASSUME NEW i \in 1 .. n - 1, NEW x \in t[i].left
           PROVE  Parent[x] = t[i].folder /\ fs'[x] # "absent"
      <4>1. x \in s[i].left /\ t[i] = s[i] /\ i \in 1 .. n
        BY <3>7, <3>11
      <4>2. Parent[x] = s[i].folder /\ fs[x] # "absent" /\ x \in Paths
        BY <3>4, <3>5, <4>1
      <4>3. x # q
        <5>1. n - 1 \in 1 .. n
          BY <3>7, <3>8
        <5>2. x = q => i = n - 1
          BY <3>3, <3>9, <4>1, <4>2, <5>1
        <5> QED BY <3>9, <4>1, <5>2
      <4> QED BY <2>1, <4>1, <4>2, <4>3
    <3>12. \A i, j \in 1 .. n - 1 : i < j => t[i].folder \in Above[t[j].folder]
      BY <3>4, <3>7
    <3>13. \A i \in 1 .. (n - 1) - 1 : Parent[t[i + 1].folder] = t[i].folder
                                       /\ t[i + 1].folder \notin t[i].left
      <4> TAKE i \in 1 .. (n - 1) - 1
      <4>1. i \in 1 .. n - 1 /\ i + 1 \in 1 .. n - 1
        BY <1>3
      <4> QED BY <3>4, <3>7, <4>1
    <3>14. Chained(fs', t, p)
      BY <1>3, <3>10, <3>11, <3>12, <3>13 DEF Chained
    <3>15. Listed(fs', t, Top)
      <4>1. ASSUME NEW i \in 1 .. n - 1, NEW x \in Paths, Parent[x] = t[i].folder,
                   fs'[x] # "absent"
            PROVE  x \in t[i].left \/ (i < n - 1 /\ x = t[i + 1].folder)
        <5>1. x # q /\ fs[x] # "absent"
          BY <2>1, <4>1
        <5>2. x \in s[i].left \/ (i < n /\ x = s[i + 1].folder)
          BY <3>6, <3>7, <4>1, <5>1
        <5>3. i # n - 1 => i < n - 1 /\ i + 1 \in 1 .. n - 1
          BY <1>3
        <5>4. i = n - 1 => i + 1 = n
          BY <3>8
        <5> QED BY <1>4, <3>7, <5>1, <5>2, <5>3, <5>4
      <4> QED BY <1>3, <4>1 DEF Listed
    <3>16. DeleteSoFar(fs', w, protected, p, t, cur'[c], "entries", result'[c])
      BY <2>3, <3>14, <3>15 DEF DeleteSoFar
    <3> QED BY <3>1, <3>16 DEF p
  <2> QED BY <2>4, <2>5
<1>9. CASE ~CanRemove(q) /\ Fail(c) /\ fs' = fs
  <2>1. q \notin Removable(w, protected)
    BY <1>4, <1>7, <1>9 DEF CanRemove, Removable
  <2> QED BY <1>2, <1>3, <1>5, <1>9, <2>1, GivesUpQuiet
<1> QED BY <1>1, <1>6, <1>8, <1>9 DEF fs_remove

LEMMA OpenFolderQuiet ==
  ASSUME IInv, NEW c \in Clients, NEW w, NEW prot, op[c] = "deleteFolder", open_folder(c),
         DeleteSoFar(fs, w, prot, path[c], stack[c], cur[c], pc[c], result[c])
  PROVE  DeleteSoFar(fs', w, prot, path[c], stack'[c], cur'[c], pc'[c], result'[c])
<1> DEFINE p == path[c]  s == stack[c]  x == cur[c]  n == Len(s)
           frame == [folder |-> x, left |-> Children(x)]
           t == Append(s, frame)
<1>1. pc[c] = "open_folder" /\ pc[c] \in Deleting /\ pc[c] # "entries" /\ fs' = fs
  BY DEF open_folder, Deleting, Looking
<1>2. /\ p \in Paths /\ fs \in [Paths -> KindOf] /\ s \in Seq(Frame)
      /\ s = <<>> => x = p
      /\ Removes(fs, w, p) /\ \A q \in Paths : fs[q] # w[q] => q \in Removable(w, prot)
      /\ Chained(fs, s, p) /\ Listed(fs, s, x) /\ Entry(fs, s, x, p, pc[c])
  BY <1>1, DeletingFacts
<1>3. x \in Under(p) /\ fs[x] = "dir" /\ x \in Paths
  BY <1>1, <1>2 DEF Entry, KindsAt, Under
<1>4. Kind(x) = "dir" /\ Resolve(x) = x
  BY <1>3 DEF Kind, Resolve
<1>5. pc'[c] = "entries" /\ stack'[c] = t
  BY <1>1, <1>4 DEF open_folder, Goto, IInv, TypeOK
<1>6. frame \in Frame
  BY <1>3 DEF Frame, Children
<1>7. /\ n \in Nat /\ Len(t) = n + 1 /\ t[n + 1] = frame
      /\ \A i \in 1 .. n : t[i] = s[i]
  BY <1>2, <1>6, AppendElements
<1>8. n # 0 => Parent[x] = s[n].folder /\ x \notin s[n].left
  <2>1. n # 0 => s # <<>>
    OBVIOUS
  <2>2. s # <<>> => Last(s) = s[n]
    BY <1>2, FrontElements
  <2> QED BY <1>2, <2>1, <2>2 DEF Entry
<1>9. frame.folder = x /\ frame.left = Children(x)
  OBVIOUS
<1>10. /\ \A i \in 1 .. n : s[i].folder \in Under(p) /\ fs[s[i].folder] = "dir"
       /\ \A i, j \in 1 .. n : i < j => s[i].folder \in Above[s[j].folder]
       /\ \A i \in 1 .. n - 1 : Parent[s[i + 1].folder] = s[i].folder
                                 /\ s[i + 1].folder \notin s[i].left
       /\ \A i \in 1 .. n : \A q \in s[i].left : Parent[q] = s[i].folder
                                                 /\ fs[q] # "absent"
  BY <1>2 DEF Chained
<1>11. \A i \in 1 .. n : \A q \in Paths : Parent[q] = s[i].folder /\ fs[q] # "absent" =>
         q \in s[i].left \/ (i < n /\ q = s[i + 1].folder) \/ (i = n /\ q = x)
  BY <1>2 DEF Listed
<1> HIDE DEF s, n, t, x, p, frame
<1>12. ASSUME NEW i \in 1 .. n PROVE s[i].folder \in Above[x]
  <2>1. n # 0 /\ n \in 1 .. n
    BY <1>7
  <2>2. s[n].folder \in Paths /\ s[n].folder # Top
    BY <1>10, <2>1, TreeAssumption DEF Under
  <2>3. s[n].folder \in Above[x] /\ Above[s[n].folder] \subseteq Above[x]
    BY <1>3, <1>8, <2>1, <2>2, AboveIs
  <2>4. CASE i = n
    BY <2>3, <2>4
  <2>5. CASE i # n
    BY <1>7, <1>10, <2>1, <2>3, <2>5
  <2> QED BY <2>4, <2>5
<1>13. \A i \in 1 .. n + 1 : i = n + 1 \/ i \in 1 .. n
  BY <1>7
<1>14. ASSUME NEW i \in 1 .. n + 1
       PROVE  /\ t[i].folder \in Under(p) /\ fs[t[i].folder] = "dir"
              /\ \A q \in t[i].left : Parent[q] = t[i].folder /\ fs[q] # "absent"
  <2>1. CASE i = n + 1
    BY <1>3, <1>7, <1>9, <2>1 DEF Children
  <2>2. CASE i \in 1 .. n
    BY <1>7, <1>10, <2>2
  <2> QED BY <1>13, <2>1, <2>2
<1>15. ASSUME NEW i \in 1 .. n + 1, NEW j \in 1 .. n + 1, i < j
       PROVE  t[i].folder \in Above[t[j].folder]
  <2>1. i \in 1 .. n
    BY <1>7, <1>15
  <2>2. CASE j = n + 1
    BY <1>7, <1>9, <1>12, <2>1, <2>2
  <2>3. CASE j \in 1 .. n
    BY <1>7, <1>10, <1>15, <2>1, <2>3
  <2> QED BY <1>13, <2>2, <2>3
<1>16. ASSUME NEW i \in 1 .. n
       PROVE  Parent[t[i + 1].folder] = t[i].folder /\ t[i + 1].folder \notin t[i].left
  <2>1. CASE i = n
    BY <1>7, <1>8, <1>9, <2>1
  <2>2. CASE i # n
    <3>1. i \in 1 .. n - 1 /\ i + 1 \in 1 .. n
      BY <1>7, <2>2
    <3> QED BY <1>7, <1>10, <3>1
  <2> QED BY <2>1, <2>2
<1>17. (n + 1) - 1 = n
  BY <1>7
<1>18. Chained(fs, t, p)
  BY <1>7, <1>14, <1>15, <1>16, <1>17 DEF Chained
<1>19. Listed(fs, t, Top)
  <2>1. ASSUME NEW i \in 1 .. n + 1, NEW q \in Paths, Parent[q] = t[i].folder, fs[q] # "absent"
        PROVE  q \in t[i].left \/ (i < n + 1 /\ q = t[i + 1].folder)
    <3>1. CASE i = n + 1
      BY <1>7, <1>9, <2>1, <3>1 DEF Children
    <3>2. CASE i \in 1 .. n
      <4>1. q \in s[i].left \/ (i < n /\ q = s[i + 1].folder) \/ (i = n /\ q = x)
        BY <1>7, <1>11, <2>1, <3>2
      <4>2. i < n => i + 1 \in 1 .. n
        BY <1>7, <3>2
      <4>3. i < n + 1
        BY <1>7, <3>2
      <4> QED BY <1>7, <1>9, <3>2, <4>1, <4>2, <4>3
    <3> QED BY <1>13, <3>1, <3>2
  <2> QED BY <1>7, <2>1 DEF Listed
<1>20. DeleteSoFar(fs, w, prot, p, t, cur'[c], "entries", result'[c])
  BY <1>2, <1>18, <1>19 DEF DeleteSoFar
<1> QED BY <1>1, <1>5, <1>20 DEF p

LEMMA NextEntryQuiet ==
  ASSUME IInv, NEW c \in Clients, NEW w, NEW prot, op[c] = "deleteFolder", next_entry(c),
         DeleteSoFar(fs, w, prot, path[c], stack[c], cur[c], pc[c], result[c])
  PROVE  DeleteSoFar(fs', w, prot, path[c], stack'[c], cur'[c], pc'[c], result'[c])
<1> DEFINE p == path[c]  s == stack[c]  n == Len(s)  last == Last(s)
<1>1. pc[c] = "entries" /\ pc[c] \in Deleting /\ fs' = fs
  BY DEF next_entry, Deleting
<1>2. /\ p \in Paths /\ fs \in [Paths -> KindOf] /\ s \in Seq(Frame)
      /\ s # <<>> /\ Top \notin Paths
      /\ Removes(fs, w, p) /\ \A x \in Paths : fs[x] # w[x] => x \in Removable(w, prot)
      /\ Chained(fs, s, p) /\ Listed(fs, s, Top)
  BY <1>1, EntriesFacts, Zenon
<1>3. PICK q \in last.left :
        /\ stack' = [stack EXCEPT ![c] = Append(Front(@), [last EXCEPT !.left = @ \ {q}])]
        /\ cur' = [cur EXCEPT ![c] = q]
  BY DEF next_entry
<1> DEFINE frame == [last EXCEPT !.left = @ \ {q}]  t == Append(Front(s), frame)
<1>4. pc'[c] = "is_symlink" /\ stack'[c] = t /\ cur'[c] = q /\ result'[c] = result[c]
  <2>1. pc'[c] = "is_symlink" /\ result'[c] = result[c]
    BY DEF next_entry, Goto, IInv, TypeOK
  <2>2. stack'[c] = t /\ cur'[c] = q
    BY <1>3 DEF IInv, TypeOK
  <2> QED BY <2>1, <2>2
<1>5. /\ n \in Nat \ {0} /\ last = s[n] /\ Front(s) \in Seq(Frame) /\ Len(Front(s)) = n - 1
      /\ \A i \in 1 .. n - 1 : Front(s)[i] = s[i]
  BY <1>2, FrontElements
<1>6. last \in Frame
  BY <1>2, FrontAndLast
<1>7. /\ frame \in Frame /\ frame.folder = last.folder /\ frame.left = last.left \ {q}
      /\ q \in Paths
  BY <1>6 DEF Frame
<1>8. Len(t) = n /\ t[n] = frame /\ Last(t) = frame /\ \A i \in 1 .. n - 1 : t[i] = s[i]
  <2>1. /\ Len(t) = Len(Front(s)) + 1 /\ t[Len(Front(s)) + 1] = frame /\ Last(t) = frame
        /\ \A i \in 1 .. Len(Front(s)) : t[i] = Front(s)[i]
    BY <1>5, <1>7, AppendElements
  <2>2. Len(Front(s)) + 1 = n
    BY <1>5
  <2> QED BY <1>5, <2>1, <2>2
<1>9. /\ \A i \in 1 .. n : s[i].folder \in Under(p) /\ fs[s[i].folder] = "dir"
      /\ \A i, j \in 1 .. n : i < j => s[i].folder \in Above[s[j].folder]
      /\ \A i \in 1 .. n - 1 : Parent[s[i + 1].folder] = s[i].folder
                                /\ s[i + 1].folder \notin s[i].left
      /\ \A i \in 1 .. n : \A x \in s[i].left : Parent[x] = s[i].folder
                                                /\ fs[x] # "absent"
  BY <1>2 DEF Chained
<1>10. \A i \in 1 .. n : \A x \in Paths : Parent[x] = s[i].folder /\ fs[x] # "absent" =>
         x \in s[i].left \/ (i < n /\ x = s[i + 1].folder) \/ (i = n /\ x = Top)
  BY <1>2 DEF Listed
<1> HIDE DEF s, n, t, p, frame, last
<1>11. n \in 1 .. n /\ \A i \in 1 .. n : i = n \/ i \in 1 .. n - 1
  BY <1>5
<1>12. \A i \in 1 .. n : t[i].folder = s[i].folder
  BY <1>5, <1>7, <1>8, <1>11
<1>13. \A i \in 1 .. n : t[i].left \subseteq s[i].left
  BY <1>5, <1>7, <1>8, <1>11
<1>14. \A i \in 1 .. n - 1 : i \in 1 .. n /\ i + 1 \in 1 .. n
  BY <1>5
<1>15. Chained(fs, t, p)
  <2>1. \A i \in 1 .. n : t[i].folder \in Under(p) /\ fs[t[i].folder] = "dir"
    BY <1>9, <1>12
  <2>2. \A i, j \in 1 .. n : i < j => t[i].folder \in Above[t[j].folder]
    BY <1>9, <1>12
  <2>3. \A i \in 1 .. n - 1 : Parent[t[i + 1].folder] = t[i].folder
                              /\ t[i + 1].folder \notin t[i].left
    BY <1>9, <1>12, <1>13, <1>14
  <2>4. \A i \in 1 .. n : \A x \in t[i].left : Parent[x] = t[i].folder /\ fs[x] # "absent"
    BY <1>9, <1>12, <1>13
  <2> QED BY <1>8, <2>1, <2>2, <2>3, <2>4 DEF Chained
<1>16. Parent[q] = frame.folder /\ fs[q] # "absent" /\ q \in Under(p)
  <2>1. Parent[q] = s[n].folder /\ fs[q] # "absent" /\ s[n].folder \in Under(p)
    BY <1>3, <1>5, <1>9, <1>11
  <2>2. q \in Under(p)
    BY <1>2, <1>7, <2>1, UnderClosed
  <2> QED BY <1>5, <1>7, <2>1, <2>2
<1>17. Listed(fs, t, q)
  <2>1. ASSUME NEW i \in 1 .. n, NEW x \in Paths, Parent[x] = t[i].folder, fs[x] # "absent"
        PROVE  x \in t[i].left \/ (i < n /\ x = t[i + 1].folder) \/ (i = n /\ x = q)
    <3>1. x \in s[i].left \/ (i < n /\ x = s[i + 1].folder) \/ (i = n /\ x = Top)
      BY <1>10, <1>12, <2>1
    <3>2. CASE i = n
      <4>1. ~(i < n)
        BY <1>5, <3>2
      <4> QED BY <1>2, <1>5, <1>7, <1>8, <3>1, <3>2, <4>1
    <3>3. CASE i \in 1 .. n - 1
      <4>1. i # n /\ t[i] = s[i]
        BY <1>5, <1>8, <3>3
      <4> QED BY <1>12, <1>14, <3>1, <3>3, <4>1
    <3> QED BY <1>11, <3>2, <3>3
  <2> QED BY <1>8, <2>1 DEF Listed
<1>18. fs[q] \in KindsAt("is_symlink")
  BY <1>2, <1>7, <1>16 DEF KindsAt
<1>19. Entry(fs, t, q, p, "is_symlink")
  BY <1>7, <1>8, <1>16, <1>18 DEF Entry
<1>20. DeleteSoFar(fs, w, prot, p, t, q, "is_symlink", result'[c])
  BY <1>2, <1>15, <1>17, <1>19 DEF DeleteSoFar
<1> QED BY <1>1, <1>4, <1>20 DEF p

LEMMA DeleteQuiet ==
  ASSUME IInv, NEW c \in Clients, Run(c), op[c] = "deleteFolder", NEW w, w[path[c]] = "dir",
         DeleteSoFar(fs, w, protected, path[c], stack[c], cur[c], pc[c], result[c])
  PROVE  DeleteSoFar(fs', w, protected, path[c], stack'[c], cur'[c], pc'[c], result'[c])
<1>1. pc[c] \notin InFolder \cup InFile
  BY DEF IInv, Local, MakesFolder
<1>2. ~(exists(c) \/ status(c) \/ walk(c) \/ mkdir(c) \/ open_out(c) \/ write(c)
          \/ check_out(c))
  BY <1>1 DEF InFolder, InFile, exists, status, walk, mkdir, open_out, write, check_out
<1>3. \/ remove_file(c) \/ remove_link(c) \/ remove_folder(c)
      \/ open_folder(c) \/ next_entry(c)
      \/ exists_file(c) \/ is_file(c) \/ exists_folder(c) \/ is_folder(c)
      \/ is_symlink(c) \/ is_directory(c)
  BY <1>2 DEF Run, Step
<1> QED BY <1>3, RemoveEntryQuiet, RemoveFolderQuiet, OpenFolderQuiet, NextEntryQuiet, AskQuiet
-----------------------------------------------------------------------------
(* A step of one client leaves the variables of the others alone. *)
Stays(d) ==
  pc'[d] = pc[d] /\ cur'[d] = cur[d] /\ stack'[d] = stack[d] /\ result'[d] = result[d]

LEMMA ReturnStays ==
  ASSUME IInv, NEW c \in Clients, NEW d \in Clients, d # c, NEW how, Return(c, how)
  PROVE  Stays(d)
BY DEF IInv, TypeOK, Return, Goto, Stays

LEMMA ContinueStays ==
  ASSUME IInv, NEW c \in Clients, NEW d \in Clients, d # c, NEW label, Continue(c, label)
  PROVE  Stays(d)
BY DEF IInv, TypeOK, Continue, Goto, Stays

LEMMA PushStays ==
  ASSUME IInv, NEW c \in Clients, NEW d \in Clients, d # c, NEW label, Goto(c, label),
         NEW s, stack' = [stack EXCEPT ![c] = s] \/ stack' = stack,
         NEW x, cur' = [cur EXCEPT ![c] = x] \/ cur' = cur,
         result' = result
  PROVE  Stays(d)
BY DEF IInv, TypeOK, Goto, Stays

LEMMA FsRemoveStays ==
  ASSUME IInv, NEW c \in Clients, NEW d \in Clients, d # c, NEW q, NEW rest,
         fs_remove(c, q, rest)
  PROVE  Stays(d)
<1>1. CASE Removed(c, rest)
  BY <1>1 DEF IInv, TypeOK, Removed, Goto, Stays
<1>2. CASE Fail(c)
  BY <1>2, ReturnStays DEF Fail
<1> QED BY <1>1, <1>2 DEF fs_remove

LEMMA RunStays ==
  ASSUME IInv, NEW c \in Clients, NEW d \in Clients, d # c, Run(c)
  PROVE  Stays(d)
<1>1. CASE exists(c)
  BY <1>1, ReturnStays, ContinueStays DEF exists, Throw, Fail
<1>2. CASE status(c)
  BY <1>2, ReturnStays, PushStays DEF status, Fail
<1>3. CASE walk(c)
  <2> DEFINE q == Parent[Last(stack[c])]
  <2>1. \/ Continue(c, "mkdir") \/ Fail(c)
        \/ /\ stack' = [stack EXCEPT ![c] = Append(@, q)]
           /\ Goto(c, "walk") /\ UNCHANGED <<cur, handle, result>>
    BY <1>3 DEF walk
  <2> HIDE DEF q
  <2> QED BY <2>1, ReturnStays, ContinueStays, PushStays DEF Fail
<1>4. CASE mkdir(c)
  <2>1. \/ Succeed(c) \/ Fail(c)
        \/ /\ stack' = [stack EXCEPT ![c] = Front(@)]
           /\ Goto(c, "mkdir") /\ UNCHANGED <<cur, handle, result>>
    BY <1>4 DEF mkdir, MkdirDone
  <2> QED BY <2>1, ReturnStays, PushStays DEF Fail, Succeed
<1>5. CASE open_out(c)
  <2>1. \/ Fail(c) \/ Continue(c, "write")
        \/ Goto(c, "write") /\ UNCHANGED <<cur, stack, result>>
    BY <1>5 DEF open_out
  <2> QED BY <2>1, ReturnStays, ContinueStays, PushStays DEF Fail
<1>6. CASE write(c)
  BY <1>6, ContinueStays DEF write
<1>7. CASE check_out(c)
  BY <1>7, ReturnStays DEF check_out, Fail, Succeed
<1>8. CASE exists_file(c) \/ is_file(c) \/ exists_folder(c) \/ is_folder(c)
  BY <1>8, ReturnStays, ContinueStays
  DEF exists_file, is_file, exists_folder, is_folder, Check, Fail
<1>9. CASE open_folder(c)
  <2>1. \/ Fail(c)
        \/ /\ stack' = [stack EXCEPT ![c] = Append(@, [folder |-> cur[c],
                                                      left |-> Children(Resolve(cur[c]))])]
           /\ Goto(c, "entries") /\ UNCHANGED <<cur, handle, result>>
    BY <1>9 DEF open_folder
  <2> QED BY <2>1, ReturnStays, PushStays DEF Fail
<1>10. CASE next_entry(c)
  <2>1. PICK q \in Last(stack[c]).left :
          /\ stack' = [stack EXCEPT ![c] =
                         Append(Front(@), [Last(stack[c]) EXCEPT !.left = @ \ {q}])]
          /\ cur' = [cur EXCEPT ![c] = q]
    BY <1>10 DEF next_entry
  <2>2. Goto(c, "is_symlink") /\ result' = result
    BY <1>10 DEF next_entry
  <2> QED BY <2>1, <2>2, PushStays
<1>11. CASE is_symlink(c) \/ is_directory(c)
  BY <1>11, ContinueStays DEF is_symlink, is_directory
<1>12. CASE remove_file(c) \/ remove_link(c) \/ remove_folder(c)
  BY <1>12, FsRemoveStays DEF remove_file, remove_link, remove_folder
<1> QED
  BY <1>1, <1>2, <1>3, <1>4, <1>5, <1>6, <1>7, <1>8, <1>9, <1>10, <1>11, <1>12 DEF Run, Step

LEMMA NothingIsATree == IsTree(Nothing)
BY DEF IsTree, Nothing

QuietOf(d) == IsTree(before[d]) /\ QuietCreate(d) /\ QuietLink(d) /\ QuietDelete(d)

(* The others: either they are disturbed, or nothing they know of changes. *)
LEMMA OthersQuiet ==
  ASSUME IInv, NEW c \in Clients, Call(c) \/ Run(c), NEW d \in Clients, d # c, QuietOf(d)
  PROVE  QuietOf(d)'
<1>1. /\ calls'[d] = calls[d] /\ op'[d] = op[d] /\ path'[d] = path[d]
      /\ protected' = protected /\ Record(c) /\ Stays(d)
  <2>1. CASE Run(c)
    BY <2>1, RunStays DEF Run, Step
  <2>2. CASE Call(c)
    <3>1. PICK o \in Ops, p \in CallPaths : begin(c, o, p)
      BY <2>2 DEF Call
    <3> QED BY <2>2, <3>1 DEF Call, begin, Goto, IInv, TypeOK, Stays
  <2> QED BY <2>1, <2>2
<1>2. /\ d \in disturbed' \/ (fs' = fs /\ (d \in disturbed' <=> d \in disturbed))
      /\ before'[d] = IF d \in disturbed' THEN Nothing ELSE before[d]
  BY <1>1 DEF Record
<1>3. CASE d \in disturbed'
  BY <1>2, <1>3, NothingIsATree DEF QuietOf, QuietCreate, QuietLink, QuietDelete, MakesFolder
<1>4. CASE d \notin disturbed'
  <2>1. fs' = fs /\ d \notin disturbed /\ before'[d] = before[d]
    BY <1>2, <1>4
  <2> QED BY <1>1, <2>1 DEF QuietOf, QuietCreate, QuietLink, QuietDelete, MakesFolder, Stays
<1> QED BY <1>3, <1>4

LEMMA RunQuiet ==
  ASSUME IInv, NEW c \in Clients, Run(c), QuietOf(c)
  PROVE  QuietOf(c)'
<1>1. /\ calls'[c] = calls[c] /\ op'[c] = op[c] /\ path'[c] = path[c]
      /\ protected' = protected /\ Record(c)
  BY DEF Run, Step
<1>2. /\ c \in disturbed' <=> c \in disturbed
      /\ before'[c] = IF c \in disturbed' THEN Nothing ELSE before[c]
  BY <1>1 DEF Record
<1>3. CASE c \in disturbed'
  BY <1>2, <1>3, NothingIsATree DEF QuietOf, QuietCreate, QuietLink, QuietDelete, MakesFolder
<1>4. CASE c \notin disturbed'
  <2>1. before'[c] = before[c] /\ c \notin disturbed
    BY <1>2, <1>4
  <2>2. QuietCreate(c)'
    BY <1>1, <2>1, CreateQuiet DEF QuietOf, QuietCreate, MakesFolder
  <2>3. QuietLink(c)'
    BY <1>1, <2>1, CreateSteps, LinkQuiet DEF QuietOf, QuietLink, MakesFolder
  <2>4. QuietDelete(c)'
    BY <1>1, <2>1, DeleteQuiet DEF QuietOf, QuietDelete
  <2> QED BY <2>1, <2>2, <2>3, <2>4 DEF QuietOf
<1> QED BY <1>3, <1>4

(* A call begins, and has changed nothing. *)
LEMMA CallQuiet ==
  ASSUME IInv, NEW c \in Clients, Call(c)
  PROVE  QuietOf(c)'
<1>1. PICK o \in Ops, p \in CallPaths : begin(c, o, p)
  BY DEF Call
<1>2. TypeOK /\ p \in Paths /\ pc[c] = "idle"
  BY <1>1, CallsAssumption DEF IInv, begin
<1>3. /\ op'[c] = o /\ path'[c] = p /\ cur'[c] = p /\ pc'[c] = FirstStep[o]
      /\ fs' = fs /\ stack' = stack /\ result' = result /\ protected' = protected
  BY <1>1, <1>2 DEF begin, Goto, TypeOK, Call
<1>4. calls'[c] # calls[c]
  BY <1>1, <1>2, CallsAssumption DEF begin, TypeOK
<1>5. before'[c] = fs /\ c \notin disturbed'
  BY <1>3, <1>4 DEF Call, Record
<1>6. stack'[c] = <<>> /\ fs \in [Paths -> KindOf] /\ IsTree(fs)
  BY <1>2, <1>3 DEF IInv, Local, TypeOK
<1>7. ASSUME o \in {"createFolder", "createFolderNextToFile"}
      PROVE  /\ CreateSoFar(fs, fs, protected, p, <<>>, FirstStep[o], o, result[c])
             /\ LinkSoFar(fs, fs, p, <<>>, FirstStep[o], result[c])
  BY <1>7 DEF CreateSoFar, LinkSoFar, FirstStep
<1>8. ASSUME o = "deleteFolder", fs[p] = "dir"
      PROVE  DeleteSoFar(fs, fs, protected, p, <<>>, p, FirstStep[o], result[c])
  <2> DEFINE s == <<>>
  <2>1. Removes(fs, fs, p)
    BY DEF Removes
  <2>2. Len(s) = 0
    OBVIOUS
  <2>3. Entry(fs, s, p, p, "exists_folder")
    BY <1>2, <1>8 DEF Entry, KindsAt, Under
  <2> HIDE DEF s
  <2>4. Chained(fs, s, p) /\ Listed(fs, s, p)
    BY <2>2 DEF Chained, Listed
  <2>5. FirstStep[o] = "exists_folder"
    BY <1>8 DEF FirstStep
  <2>6. DeleteSoFar(fs, fs, protected, p, s, p, "exists_folder", result[c])
    BY <2>1, <2>3, <2>4 DEF DeleteSoFar
  <2> QED BY <2>5, <2>6 DEF s
<1>9. QuietCreate(c)'
  BY <1>3, <1>5, <1>6, <1>7 DEF QuietCreate, MakesFolder
<1>10. QuietLink(c)'
  BY <1>3, <1>5, <1>6, <1>7 DEF QuietLink, MakesFolder
<1>11. QuietDelete(c)'
  BY <1>3, <1>5, <1>6, <1>8 DEF QuietDelete
<1> QED BY <1>5, <1>6, <1>9, <1>10, <1>11 DEF QuietOf

LEMMA QuietInvHolds == Spec => []QuietInv
<1>1. Init => QuietInv
  <2> SUFFICES ASSUME Init, NEW c \in Clients
               PROVE  IsTree(before[c]) /\ QuietCreate(c) /\ QuietLink(c) /\ QuietDelete(c)
    BY DEF QuietInv
  <2>1. before[c] = Nothing /\ op[c] = "none"
    BY DEF Init
  <2> QED BY <2>1, NothingIsATree DEF QuietCreate, QuietLink, QuietDelete, MakesFolder
<1>2. IInv /\ QuietInv /\ [Next]_vars => QuietInv'
  <2> SUFFICES ASSUME IInv, QuietInv, [Next]_vars, NEW d \in Clients
               PROVE  QuietOf(d)'
    BY DEF QuietInv, QuietOf
  <2>1. QuietOf(d)
    BY DEF QuietInv, QuietOf
  <2>2. CASE UNCHANGED vars
    BY <2>1, <2>2 DEF vars, call, history, QuietOf, QuietCreate, QuietLink, QuietDelete, MakesFolder
  <2>3. ASSUME NEW c \in Clients, Call(c) \/ Run(c) PROVE QuietOf(d)'
    BY <2>1, <2>3, OthersQuiet, RunQuiet, CallQuiet
  <2> QED BY <2>2, <2>3 DEF Next
<1> QED BY <1>1, <1>2, InitIInv, NextIInv, PTL DEF Spec
-----------------------------------------------------------------------------
(* A state of the calls is what the types say, what is there lies in a     *)
(* folder, and the loops over missing folders and over running             *)
(* deleteFolder calls never find their stack empty.                        *)
THEOREM TypeCorrect == Spec => []TypeOK
<1>1. IInv => TypeOK
  BY DEF IInv
<1> QED BY <1>1, InitIInv, NextIInv, PTL DEF Spec

(* A success was true at some moment of the call, whatever other clients   *)
(* do (FolderCreationResult.hpp, FileCreationResult.hpp, FileDeletion-     *)
(* Result.hpp, FolderDeletionResult.hpp): the folder createFolder made was *)
(* there, the file createFile opened was there, what the deletions were to *)
(* remove was not; of a createFolder that returns at its first question it *)
(* is proved that something was there, and no more.                        *)
THEOREM SuccessTrue == Spec => []SuccessWasTrue
<1>1. IInv => SuccessWasTrue
  BY DEF IInv, Local, SuccessWasTrue
<1> QED BY <1>1, InitIInv, NextIInv, PTL DEF Spec

(* A path vanishes only by a running deletion that was called with it, with *)
(* a path above it, or with a link to one of these: no link found on the   *)
(* way leads a deleteFolder out of its folder.                             *)
THEOREM DeletionsStayBelow == Spec => DeletesStayBelow
<1>1. ASSUME IInv, [Next]_vars
      PROVE  [\A q \in Paths : fs[q] # "absent" /\ fs'[q] = "absent" =>
                \E c \in Clients : pc[c] # "idle" /\ Deletes(c)
                  /\ q \in Under(path[c])
                             \cup (IF \E s \in seen[c] : s[1] = "link" THEN Under(Target) ELSE {})]_vars
  <2>1. CASE UNCHANGED vars
    BY <2>1
  <2>2. ASSUME NEW c \in Clients, Call(c) PROVE fs' = fs
    BY <2>2 DEF Call, begin
  <2>3. ASSUME NEW c \in Clients, Run(c), NEW q \in Paths,
               fs[q] # "absent", fs'[q] = "absent"
        PROVE  pc[c] # "idle" /\ Deletes(c) /\ q \in Allowed(c)
    BY <1>1, <2>3, RunStaysBelow
  <2> QED BY <1>1, <2>1, <2>2, <2>3 DEF Next, Allowed
<1> QED BY <1>1, InitIInv, NextIInv, PTL DEF Spec, DeletesStayBelow

(* A deleteFolder that nobody disturbs removes the folder with everything  *)
(* below it and nothing else, succeeds exactly when it may remove all of   *)
(* that and none of it is a special file, and where it fails it has        *)
(* removed nothing from outside (FolderDeletionResult.hpp), for every tree *)
(* in which no path leads through a link (LinksAssumption).                *)
THEOREM QuietDeletesExact == Spec => []QuietDeleteIsExact
<1>1. QuietInv => QuietDeleteIsExact
  <2> SUFFICES ASSUME QuietInv, NEW c \in Clients, Quiet(c), op[c] = "deleteFolder",
                      before[c][path[c]] = "dir"
               PROVE  DeleteExact(fs, before[c], protected, path[c], result[c])
    BY DEF QuietDeleteIsExact, DeleteExact, Removable, Removes, There, Under
  <2>1. DeleteSoFar(fs, before[c], protected, path[c], stack[c], cur[c], pc[c], result[c])
    BY DEF QuietInv, QuietDelete, Quiet
  <2> QED BY <2>1 DEF DeleteSoFar, Quiet, Ended
<1> QED BY <1>1, QuietInvHolds, PTL

(* A createFolder that nobody disturbs makes the folder and the missing    *)
(* ones above it and nothing else.  With nothing at the path it succeeds   *)
(* exactly when all of these can be made; with a folder there it answers   *)
(* from its first question, and an error of that question leaves it        *)
(* (FolderCreationResult.hpp).  For every tree in which no path leads      *)
(* through a link (LinksAssumption).                                       *)
THEOREM QuietCreatesExact == Spec => []QuietCreateIsExact
<1>1. QuietInv => QuietCreateIsExact
  <2> SUFFICES ASSUME QuietInv, NEW c \in Clients, Quiet(c), MakesFolder(c)
               PROVE  CreateExact(fs, before[c], protected, path[c], op[c], result[c])
    BY DEF QuietCreateIsExact, CreateExact, CanCreate, Makes, Missing, Way
  <2>1. CASE before[c][path[c]] # "link"
    <3>1. CreateSoFar(fs, before[c], protected, path[c], stack[c], pc[c], op[c], result[c])
      BY <2>1 DEF QuietInv, QuietCreate, Quiet
    <3> QED BY <3>1 DEF CreateSoFar, Quiet, Ended
  <2>2. CASE before[c][path[c]] = "link"
    <3>1. fs = before[c] /\ result[c] # "success"
      BY <2>2 DEF QuietInv, QuietLink, Quiet, LinkSoFar, Ended
    <3> QED BY <2>2, <3>1 DEF CreateExact, Makes
  <2> QED BY <2>1, <2>2
<1> QED BY <1>1, QuietInvHolds, PTL
=============================================================================
