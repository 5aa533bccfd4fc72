-------------------------- MODULE FileReaderProofs --------------------------
(***************************************************************************)
(* Safety of readFromFile for every set of threads and files and every     *)
(* bound: no call returns a buffer that is not filled, and a call in which *)
(* nothing changed is one atomic look at the path.                         *)
(***************************************************************************)
EXTENDS FileReaderProperties, SequenceTheorems, TLAPS

(* What was read is the beginning of the file the path names. *)
Prefix(t) ==
  /\ Len(content[t]) <= Len(files[entry])
  /\ \A k \in 1 .. Len(content[t]) : content[t][k] = files[entry][k]

(* What a thread inside an undisturbed call has found out still holds.     *)
StillTrue(t) ==
  /\ pc[t] \in {"file_size", "open", "read"} => entry \in Inodes
  /\ pc[t] \in {"open", "read"} => fileSize[t] = Len(files[entry])
  /\ pc[t] = "read" => handle[t] = entry /\ entry \in readable /\ Prefix(t)
  /\ Ended(t) => result[t] = Look

Filled(t) ==
  /\ pc[t] = "read" => Len(content[t]) <= fileSize[t]
  /\ Ended(t) /\ result[t].kind = "content" =>
       Len(result[t].data) = fileSize[t] /\ result[t].data = content[t]

IInv ==
  /\ TypeOK
  /\ \A t \in Threads : Filled(t) /\ (t \notin disturbed => StillTrue(t))
-----------------------------------------------------------------------------
(* Contents are the sequences of at most MaxBlocks blocks. *)
LEMMA ContentsAreSequences ==
  ASSUME NEW s
  PROVE  s \in Contents <=> s \in Seq(Blocks) /\ Len(s) <= MaxBlocks
<1>1. ASSUME s \in Contents PROVE s \in Seq(Blocks) /\ Len(s) <= MaxBlocks
  <2>1. PICK n \in 0 .. MaxBlocks : s \in [1 .. n -> Blocks]
    BY <1>1 DEF Contents
  <2>2. n \in Nat /\ n <= MaxBlocks
    BY BoundsAssumption
  <2> QED BY <2>1, <2>2
<1>2. ASSUME s \in Seq(Blocks), Len(s) <= MaxBlocks PROVE s \in Contents
  <2>1. Len(s) \in 0 .. MaxBlocks /\ s \in [1 .. Len(s) -> Blocks]
    BY <1>2, BoundsAssumption
  <2> QED BY <2>1 DEF Contents
<1> QED BY <1>1, <1>2

LEMMA EmptyContents == <<>> \in Contents
<1>1. <<>> \in Seq(Blocks) /\ Len(<<>>) = 0
  OBVIOUS
<1>2. 0 <= MaxBlocks
  BY BoundsAssumption
<1>3. Len(<<>>) <= MaxBlocks
  BY <1>1, <1>2
<1> QED BY <1>1, <1>3, ContentsAreSequences

LEMMA HeldTyped ==
  ASSUME TypeOK, NEW h
  PROVE  Held(h) \in Contents
BY EmptyContents DEF Held, TypeOK

LEMMA ContentsLength ==
  ASSUME NEW s \in Contents
  PROVE  Len(s) \in 0 .. MaxBlocks
<1>1. s \in Seq(Blocks) /\ Len(s) <= MaxBlocks
  BY ContentsAreSequences
<1>2. Len(s) \in Nat
  BY <1>1
<1> QED BY <1>1, <1>2, BoundsAssumption

LEMMA FailedTyped ==
  ASSUME NEW why \in Kind
  PROVE  Failed(why) \in [kind : Kind, data : Contents]
BY EmptyContents DEF Failed
-----------------------------------------------------------------------------
(* A thread of which a step changes nothing, and around which it changes   *)
(* nothing either.                                                         *)
Untouched(u) ==
  /\ pc'[u] = pc[u] /\ fileSize'[u] = fileSize[u] /\ handle'[u] = handle[u]
  /\ content'[u] = content[u] /\ result'[u] = result[u]

LEMMA UntouchedKeeps ==
  ASSUME IInv, NEW u \in Threads, Untouched(u)
  PROVE  /\ Filled(u)'
         /\ UNCHANGED <<disk, readable>> /\ (u \in disturbed => u \in disturbed')
              => (u \notin disturbed' => StillTrue(u)')
<1>1. Filled(u)'
  BY DEF IInv, Filled, Ended, Untouched
<1>2. ASSUME UNCHANGED <<disk, readable>>, u \notin disturbed, StillTrue(u)
      PROVE  StillTrue(u)'
  BY <1>2 DEF StillTrue, Ended, Prefix, Look, disk, Untouched
<1> QED BY <1>1, <1>2 DEF IInv

(* So for the steps of a thread only that thread needs looking at. *)
LEMMA OnlyTheActor ==
  ASSUME IInv, NEW t \in Threads, TypeOK',
         \A u \in Threads \ {t} : Untouched(u) /\ (u \in disturbed => u \in disturbed'),
         UNCHANGED <<disk, readable>>,
         Filled(t)', t \notin disturbed' => StillTrue(t)'
  PROVE  IInv'
<1>1. ASSUME NEW u \in Threads
      PROVE  Filled(u)' /\ (u \notin disturbed' => StillTrue(u)')
  <2>1. CASE u = t
    BY <2>1
  <2>2. CASE u # t
    BY <2>2, UntouchedKeeps
  <2> QED BY <2>1, <2>2
<1> QED BY <1>1 DEF IInv

(* A call ends: with how, which must fit what the call has found out.      *)
LEMMA LeaveKeeps ==
  ASSUME IInv, NEW t \in Threads, NEW how \in [kind : Kind, data : Contents],
         Leave(t, how), UNCHANGED <<disk, locals, readable, calls>>,
         changes' \in 0 .. MaxChanges,
         disturbed' = disturbed \/ disturbed' = disturbed \cup {t},
         how.kind = "content" => Len(how.data) = fileSize[t] /\ how.data = content[t],
         t \notin disturbed' => how = Look
  PROVE  IInv'
<1>1. /\ result' = [result EXCEPT ![t] = how]
      /\ pc' = [pc EXCEPT ![t] = "idle"]
      /\ mutex' = Free
      /\ entry' = entry /\ files' = files /\ readable' = readable /\ calls' = calls
      /\ fileSize' = fileSize /\ handle' = handle /\ content' = content
  BY DEF Leave, disk, locals
<1>2. TypeOK'
  BY <1>1 DEF IInv, TypeOK, Label
<1>3. \A u \in Threads \ {t} : Untouched(u) /\ (u \in disturbed => u \in disturbed')
  BY <1>1 DEF IInv, TypeOK, Untouched
<1>4. pc'[t] = "idle" /\ result'[t] = how /\ Look' = Look
  BY <1>1 DEF IInv, TypeOK, Look
<1>5. Filled(t)'
  BY <1>1, <1>4 DEF Filled
<1>6. t \notin disturbed' => StillTrue(t)'
  BY <1>4 DEF StillTrue
<1> QED BY <1>2, <1>3, <1>5, <1>6, OnlyTheActor DEF disk

LEMMA FailKeeps ==
  ASSUME IInv, NEW t \in Threads, NEW why \in Kind \ {"content"},
         Leave(t, Failed(why)), UNCHANGED <<disk, locals, readable, calls>>,
         changes' \in 0 .. MaxChanges,
         disturbed' = disturbed \/ disturbed' = disturbed \cup {t},
         t \notin disturbed' => Failed(why) = Look
  PROVE  IInv'
<1>1. Failed(why) \in [kind : Kind, data : Contents] /\ Failed(why).kind # "content"
  BY FailedTyped DEF Failed
<1> QED BY <1>1, LeaveKeeps

(* A call goes on at label. *)
LEMMA ContinueFrame ==
  ASSUME IInv, NEW t \in Threads, NEW label \in Label, Continue(t, label),
         UNCHANGED <<disk, readable>>,
         fileSize' \in [Threads -> 0 .. MaxBlocks],
         handle' \in [Threads -> Inodes \cup {Absent, Directory}],
         content' \in [Threads -> Contents],
         calls' \in [Threads -> 0 .. MaxCalls],
         UNCHANGED changes, disturbed' = disturbed \/ disturbed' = disturbed \ {t},
         \A u \in Threads \ {t} :
           fileSize'[u] = fileSize[u] /\ handle'[u] = handle[u] /\ content'[u] = content[u],
         Filled(t)', t \notin disturbed' => StillTrue(t)'
  PROVE  IInv'
<1>1. /\ pc' = [pc EXCEPT ![t] = label] /\ mutex' = mutex /\ result' = result
      /\ entry' = entry /\ files' = files /\ readable' = readable /\ changes' = changes
  BY DEF Continue, disk
<1>2. TypeOK'
  BY <1>1 DEF IInv, TypeOK
<1>3. \A u \in Threads \ {t} : Untouched(u) /\ (u \in disturbed => u \in disturbed')
  BY <1>1 DEF IInv, TypeOK, Untouched
<1> QED BY <1>2, <1>3, OnlyTheActor
-----------------------------------------------------------------------------
(* The actions. *)
LEMMA CallKeeps ==
  ASSUME IInv, NEW t \in Threads, readFromFile(t)
  PROVE  IInv'
<1>1. /\ pc[t] = "idle" /\ calls[t] < MaxCalls
      /\ calls' = [calls EXCEPT ![t] = @ + 1]
      /\ disturbed' = disturbed \ {t}
      /\ Continue(t, "lock") /\ pc' = [pc EXCEPT ![t] = "lock"]
      /\ UNCHANGED <<disk, readable>> /\ UNCHANGED changes
      /\ fileSize' = fileSize /\ handle' = handle /\ content' = content
  BY DEF readFromFile, locals, Continue
<1>2. pc'[t] = "lock" /\ "lock" \in Label
  BY <1>1 DEF IInv, TypeOK, Label
<1>3. calls' \in [Threads -> 0 .. MaxCalls]
  <2>1. calls[t] + 1 \in 0 .. MaxCalls
    BY <1>1, BoundsAssumption DEF IInv, TypeOK
  <2> QED BY <1>1, <2>1 DEF IInv, TypeOK
<1>4. Filled(t)' /\ StillTrue(t)'
  BY <1>2 DEF Filled, StillTrue, Ended
<1> QED BY <1>1, <1>2, <1>3, <1>4, ContinueFrame DEF IInv, TypeOK

LEMMA LockKeeps ==
  ASSUME IInv, NEW t \in Threads, scoped_lock(t)
  PROVE  IInv'
<1>1. /\ pc' = [pc EXCEPT ![t] = "status"] /\ mutex' = t /\ result' = result
      /\ entry' = entry /\ files' = files /\ readable' = readable
      /\ fileSize' = fileSize /\ handle' = handle /\ content' = content
      /\ calls' = calls /\ changes' = changes /\ disturbed' = disturbed
  BY DEF scoped_lock, disk, locals, history
<1>2. TypeOK' /\ pc'[t] = "status"
  BY <1>1 DEF IInv, TypeOK, Label
<1>3. \A u \in Threads \ {t} : Untouched(u) /\ (u \in disturbed => u \in disturbed')
  BY <1>1 DEF IInv, TypeOK, Untouched
<1>4. Filled(t)' /\ StillTrue(t)'
  BY <1>2 DEF Filled, StillTrue, Ended
<1> QED BY <1>1, <1>2, <1>3, <1>4, OnlyTheActor DEF disk

LEMMA StatusKeeps ==
  ASSUME IInv, NEW t \in Threads, status(t)
  PROVE  IInv'
<1>1. /\ UNCHANGED <<disk, locals, readable, calls>> /\ changes' = changes
      /\ disturbed' = disturbed /\ pc[t] = "status"
      /\ entry' = entry /\ files' = files
      /\ fileSize' = fileSize /\ handle' = handle /\ content' = content
  BY DEF status, history, disk, locals
<1>2. CASE entry = Absent /\ Leave(t, Failed("not_found"))
  <2>1. Look = Failed("not_found")
    BY <1>2, NamesAssumption DEF Look, Absent, Directory
  <2> QED BY <1>1, <1>2, <2>1, FailKeeps DEF Kind, IInv, TypeOK
<1>3. CASE entry = Directory /\ Leave(t, Failed("not_regular"))
  <2>1. Look = Failed("not_regular")
    BY <1>3, NamesAssumption DEF Look, Absent, Directory
  <2> QED BY <1>1, <1>3, <2>1, FailKeeps DEF Kind, IInv, TypeOK
<1>4. CASE entry \in Inodes /\ Continue(t, "file_size")
  <2>1. pc'[t] = "file_size" /\ "file_size" \in Label
    BY <1>4 DEF Continue, IInv, TypeOK, Label
  <2>2. Filled(t)' /\ StillTrue(t)'
    BY <1>1, <1>4, <2>1 DEF Filled, StillTrue, Ended
  <2> QED BY <1>1, <1>4, <2>1, <2>2, ContinueFrame DEF IInv, TypeOK
<1> QED BY <1>2, <1>3, <1>4 DEF status

LEMMA SizeKeeps ==
  ASSUME IInv, NEW t \in Threads, file_size(t)
  PROVE  IInv'
<1>1. /\ UNCHANGED <<disk, readable, calls>> /\ changes' = changes
      /\ disturbed' = disturbed /\ pc[t] = "file_size"
      /\ entry' = entry /\ files' = files /\ handle' = handle /\ content' = content
  BY DEF file_size, history, disk
<1>2. CASE entry \notin Inodes
  <2>1. Leave(t, Failed("filesystem_error")) /\ fileSize' = fileSize
    BY <1>2 DEF file_size
  <2>2. t \in disturbed
    BY <1>1, <1>2 DEF IInv, StillTrue
  <2>3. UNCHANGED locals /\ "filesystem_error" \in Kind \ {"content"}
    BY <1>1, <2>1 DEF locals, Kind
  <2> QED BY <1>1, <2>1, <2>2, <2>3, FailKeeps DEF IInv, TypeOK
<1>3. CASE entry \in Inodes
  <2>1. /\ fileSize' = [fileSize EXCEPT ![t] = Len(files[entry])]
        /\ Continue(t, "open")
    BY <1>3 DEF file_size
  <2>2. Len(files[entry]) \in 0 .. MaxBlocks
    BY <1>3, ContentsLength DEF IInv, TypeOK
  <2>3. pc'[t] = "open" /\ "open" \in Label
    BY <2>1 DEF Continue, IInv, TypeOK, Label
  <2>4. fileSize'[t] = Len(files'[entry'])
    BY <1>1, <2>1 DEF IInv, TypeOK
  <2>5. Filled(t)' /\ StillTrue(t)'
    BY <1>1, <1>3, <2>3, <2>4 DEF Filled, StillTrue, Ended
  <2>6. fileSize' \in [Threads -> 0 .. MaxBlocks]
    BY <2>1, <2>2 DEF IInv, TypeOK
  <2>7. \A u \in Threads \ {t} :
           fileSize'[u] = fileSize[u] /\ handle'[u] = handle[u] /\ content'[u] = content[u]
    BY <1>1, <2>1 DEF IInv, TypeOK
  <2> QED BY <1>1, <2>1, <2>3, <2>5, <2>6, <2>7, ContinueFrame DEF IInv, TypeOK
<1> QED BY <1>2, <1>3

LEMMA OpenKeeps ==
  ASSUME IInv, NEW t \in Threads, openFile(t)
  PROVE  IInv'
<1>1. /\ UNCHANGED <<disk, readable, calls>> /\ changes' = changes
      /\ disturbed' = disturbed /\ pc[t] = "open"
      /\ entry' = entry /\ files' = files /\ fileSize' = fileSize /\ readable' = readable
  BY DEF openFile, history, disk
<1>2. CASE /\ entry \in readable \cup {Directory}
           /\ handle' = [handle EXCEPT ![t] = entry]
           /\ content' = [content EXCEPT ![t] = <<>>]
           /\ Continue(t, "read")
  <2>1. pc'[t] = "read" /\ "read" \in Label
    BY <1>2 DEF Continue, IInv, TypeOK, Label
  <2>2. handle'[t] = entry /\ content'[t] = <<>>
    BY <1>2 DEF IInv, TypeOK
  <2>3. fileSize[t] \in Nat /\ Len(<<>>) = 0
    BY BoundsAssumption DEF IInv, TypeOK
  <2>4. Filled(t)'
    BY <1>1, <2>1, <2>2, <2>3 DEF Filled, Ended
  <2>5. t \notin disturbed' => StillTrue(t)'
    <3> SUFFICES ASSUME t \notin disturbed PROVE StillTrue(t)'
      BY <1>1
    <3>1. entry \in Inodes /\ fileSize[t] = Len(files[entry])
      BY <1>1 DEF IInv, StillTrue
    <3>2. entry \in readable
      BY <1>2, <3>1, NamesAssumption
    <3>3. Prefix(t)'
      BY <1>1, <2>2, <2>3, <3>1 DEF Prefix
    <3> QED BY <1>1, <2>1, <2>2, <3>1, <3>2, <3>3 DEF StillTrue, Ended
  <2>6. /\ handle' \in [Threads -> Inodes \cup {Absent, Directory}]
        /\ content' \in [Threads -> Contents]
    BY <1>2, EmptyContents DEF IInv, TypeOK
  <2>7. \A u \in Threads \ {t} :
           fileSize'[u] = fileSize[u] /\ handle'[u] = handle[u] /\ content'[u] = content[u]
    BY <1>1, <1>2 DEF IInv, TypeOK
  <2> QED BY <1>1, <1>2, <2>1, <2>4, <2>5, <2>6, <2>7, ContinueFrame DEF IInv, TypeOK
<1>3. CASE /\ entry \notin readable
           /\ Leave(t, Failed("unopened"))
           /\ UNCHANGED <<handle, content>>
  <2>1. t \notin disturbed => Look = Failed("unopened")
    BY <1>1, <1>3, NamesAssumption DEF IInv, StillTrue, Look
  <2>2. UNCHANGED locals /\ "unopened" \in Kind \ {"content"}
    BY <1>1, <1>3 DEF locals, Kind
  <2> QED BY <1>1, <1>3, <2>1, <2>2, FailKeeps DEF IInv, TypeOK
<1> QED BY <1>2, <1>3 DEF openFile

(* One more block of what is held: still a content, and still a prefix. *)
LEMMA AppendTyped ==
  ASSUME NEW s \in Contents, NEW whole \in Contents, Len(s) < Len(whole)
  PROVE  /\ Append(s, whole[Len(s) + 1]) \in Contents
         /\ Len(Append(s, whole[Len(s) + 1])) = Len(s) + 1
         /\ (\A k \in 1 .. Len(s) : s[k] = whole[k]) =>
              \A k \in 1 .. Len(Append(s, whole[Len(s) + 1])) :
                Append(s, whole[Len(s) + 1])[k] = whole[k]
<1>1. /\ s \in Seq(Blocks) /\ whole \in Seq(Blocks)
      /\ Len(whole) <= MaxBlocks
  BY ContentsAreSequences
<1>2. Len(s) \in Nat /\ Len(whole) \in Nat /\ MaxBlocks \in Nat
  BY <1>1, BoundsAssumption
<1>3. Len(s) + 1 \in 1 .. Len(whole) /\ Len(s) + 1 <= MaxBlocks
  BY <1>1, <1>2
<1>4. whole[Len(s) + 1] \in Blocks
  BY <1>1, <1>3
<1> DEFINE x == whole[Len(s) + 1]
<1>5. /\ Append(s, x) \in Seq(Blocks) /\ Len(Append(s, x)) = Len(s) + 1
      /\ \A k \in 1 .. Len(s) : Append(s, x)[k] = s[k]
      /\ Append(s, x)[Len(s) + 1] = x
  BY <1>1, <1>4, AppendProperties
<1>6. Append(s, x) \in Contents
  BY <1>3, <1>5, ContentsAreSequences
<1>7. ASSUME \A k \in 1 .. Len(s) : s[k] = whole[k], NEW k \in 1 .. Len(s) + 1
      PROVE  Append(s, x)[k] = whole[k]
  BY <1>2, <1>5, <1>7
<1> QED BY <1>5, <1>6, <1>7

LEMMA ReadBlockKeeps ==
  ASSUME IInv, NEW t \in Threads, read_block(t)
  PROVE  IInv'
<1> DEFINE s == content[t]  whole == Held(handle[t])
<1>1. /\ UNCHANGED <<disk, readable, calls>> /\ changes' = changes
      /\ disturbed' = disturbed /\ pc[t] = "read" /\ readable' = readable
      /\ entry' = entry /\ files' = files /\ fileSize' = fileSize /\ handle' = handle
      /\ Len(s) < fileSize[t] /\ Len(s) < Len(whole) /\ Continue(t, "read")
      /\ content' = [content EXCEPT ![t] = Append(s, whole[Len(s) + 1])]
  BY DEF read_block, BytesLeft, history, disk
<1>2. s \in Contents /\ whole \in Contents
  BY HeldTyped DEF IInv, TypeOK
<1>3. content'[t] = Append(s, whole[Len(s) + 1])
  BY <1>1 DEF IInv, TypeOK
<1>4. content'[t] \in Contents /\ Len(content'[t]) = Len(s) + 1
  BY <1>1, <1>2, <1>3, AppendTyped
<1>5. pc'[t] = "read" /\ "read" \in Label
  BY <1>1 DEF Continue, IInv, TypeOK, Label
<1>6. Filled(t)'
  <2>1. Len(s) \in Nat /\ fileSize[t] \in Nat
    BY <1>2, ContentsLength, BoundsAssumption DEF IInv, TypeOK
  <2>2. Len(content'[t]) <= fileSize'[t]
    BY <1>1, <1>4, <2>1
  <2> QED BY <1>5, <2>2 DEF Filled, Ended
<1>7. t \notin disturbed' => StillTrue(t)'
  <2> SUFFICES ASSUME t \notin disturbed PROVE StillTrue(t)'
    BY <1>1
  <2>1. /\ entry \in Inodes /\ fileSize[t] = Len(files[entry]) /\ handle[t] = entry
        /\ entry \in readable /\ \A k \in 1 .. Len(s) : s[k] = files[entry][k]
    BY <1>1 DEF IInv, StillTrue, Prefix
  <2>2. whole = files[entry]
    BY <2>1 DEF Held
  <2>3. \A k \in 1 .. Len(content'[t]) : content'[t][k] = files[entry][k]
    BY <1>1, <1>2, <1>3, <2>1, <2>2, AppendTyped
  <2>4. Len(content'[t]) <= Len(files[entry])
    <3>1. Len(s) \in Nat /\ Len(whole) \in Nat
      BY <1>2, ContentsLength, BoundsAssumption
    <3> QED BY <1>1, <1>4, <2>2, <3>1
  <2>5. Prefix(t)'
    BY <1>1, <2>3, <2>4 DEF Prefix
  <2> QED BY <1>1, <1>5, <2>1, <2>5 DEF StillTrue, Ended
<1>8. content' \in [Threads -> Contents]
  BY <1>1, <1>3, <1>4 DEF IInv, TypeOK
<1>9. \A u \in Threads \ {t} :
         fileSize'[u] = fileSize[u] /\ handle'[u] = handle[u] /\ content'[u] = content[u]
  BY <1>1 DEF IInv, TypeOK
<1> QED BY <1>1, <1>5, <1>6, <1>7, <1>8, <1>9, ContinueFrame DEF IInv, TypeOK

LEMMA ReadShortKeeps ==
  ASSUME IInv, NEW t \in Threads, read_short(t)
  PROVE  IInv'
<1>1. /\ UNCHANGED <<disk, locals, readable, calls>> /\ changes' = changes
      /\ disturbed' = disturbed /\ pc[t] = "read"
      /\ Len(content[t]) < fileSize[t] /\ ~BytesLeft(t) /\ Leave(t, Failed("short_read"))
  BY DEF read_short, ShortRead, history
<1>2. t \in disturbed
  <2> SUFFICES ASSUME t \notin disturbed PROVE FALSE
    OBVIOUS
  <2>1. entry \in Inodes /\ fileSize[t] = Len(files[entry]) /\ handle[t] = entry
    BY <1>1 DEF IInv, StillTrue
  <2>2. BytesLeft(t)
    BY <1>1, <2>1 DEF BytesLeft, Held
  <2> QED BY <1>1, <2>2
<1> QED BY <1>1, <1>2, FailKeeps DEF Kind, IInv, TypeOK

LEMMA ReadFailsKeeps ==
  ASSUME IInv, NEW t \in Threads, read_fails(t)
  PROVE  IInv'
<1>1. /\ UNCHANGED <<disk, locals, readable, calls>> /\ changes' = changes + 1
      /\ changes < MaxChanges /\ disturbed' = disturbed \cup {t}
      /\ Leave(t, Failed("io_error"))
  BY DEF read_fails
<1>2. changes' \in 0 .. MaxChanges
  BY <1>1, BoundsAssumption DEF IInv, TypeOK
<1> QED BY <1>1, <1>2, FailKeeps DEF Kind

LEMMA ReturnKeeps ==
  ASSUME IInv, NEW t \in Threads, return(t)
  PROVE  IInv'
<1>1. /\ UNCHANGED <<disk, locals, readable, calls>> /\ changes' = changes
      /\ disturbed' = disturbed /\ pc[t] = "read"
      /\ Len(content[t]) >= fileSize[t] /\ Leave(t, Returned(content[t]))
  BY DEF return, ReadAll, history
<1>2. content[t] \in Contents /\ Len(content[t]) \in Nat /\ fileSize[t] \in Nat
  <2>1. content[t] \in Contents
    BY DEF IInv, TypeOK
  <2> QED BY <2>1, ContentsLength, BoundsAssumption DEF IInv, TypeOK
<1>3. Len(content[t]) = fileSize[t]
  BY <1>1, <1>2 DEF IInv, Filled
<1>4. t \notin disturbed => Returned(content[t]) = Look
  <2> SUFFICES ASSUME t \notin disturbed PROVE Returned(content[t]) = Look
    OBVIOUS
  <2>1. /\ entry \in Inodes /\ entry \in readable /\ fileSize[t] = Len(files[entry])
        /\ \A k \in 1 .. Len(content[t]) : content[t][k] = files[entry][k]
    BY <1>1 DEF IInv, StillTrue, Prefix
  <2>2. files[entry] \in Contents
    BY <2>1 DEF IInv, TypeOK
  <2>3. content[t] \in Seq(Blocks) /\ files[entry] \in Seq(Blocks)
    BY <1>2, <2>2, ContentsAreSequences
  <2>4. content[t] = files[entry]
    BY <1>3, <2>1, <2>3, SeqEqual
  <2> QED BY <2>1, <2>4, NamesAssumption DEF Look
<1>5. /\ Returned(content[t]) \in [kind : Kind, data : Contents]
      /\ Returned(content[t]).data = content[t]
  BY <1>2 DEF Returned, Kind
<1> QED BY <1>1, <1>3, <1>4, <1>5, LeaveKeeps DEF IInv, TypeOK

LEMMA EnvironmentKeeps ==
  ASSUME IInv, Environment
  PROVE  IInv'
<1>1. /\ changes < MaxChanges /\ changes' = changes + 1 /\ disturbed' = Threads
      /\ mutex' = mutex /\ pc' = pc /\ result' = result /\ readable' = readable
      /\ calls' = calls /\ fileSize' = fileSize /\ handle' = handle /\ content' = content
  BY DEF Environment, Changes, locals
<1>2. entry' \in Inodes \cup {Absent, Directory} /\ files' \in [Inodes -> Contents]
  BY DEF Environment, unlink, mkdir, rmdir, rename, write, IInv, TypeOK
<1>3. changes' \in 0 .. MaxChanges
  BY <1>1, BoundsAssumption DEF IInv, TypeOK
<1>4. TypeOK'
  BY <1>1, <1>2, <1>3 DEF IInv, TypeOK
<1>5. ASSUME NEW u \in Threads PROVE Filled(u)'
  BY <1>1, UntouchedKeeps DEF Untouched
<1> QED BY <1>1, <1>4, <1>5 DEF IInv
-----------------------------------------------------------------------------
LEMMA InitIInv == Init => IInv
<1> SUFFICES ASSUME Init PROVE IInv
  OBVIOUS
<1>1. 0 \in 0 .. MaxBlocks /\ 0 \in 0 .. MaxCalls /\ 0 \in 0 .. MaxChanges
  BY BoundsAssumption
<1>2. TypeOK
  BY <1>1, EmptyContents, FailedTyped DEF Init, TypeOK, Kind, Label
<1>3. ASSUME NEW t \in Threads PROVE Filled(t) /\ StillTrue(t)
  BY DEF Init, Filled, StillTrue, Ended, Failed
<1> QED BY <1>2, <1>3 DEF IInv

LEMMA NextIInv == IInv /\ [Next]_vars => IInv'
<1> SUFFICES ASSUME IInv, [Next]_vars PROVE IInv'
  OBVIOUS
<1>1. CASE UNCHANGED vars
  <2>1. TypeOK'
    BY <1>1 DEF IInv, TypeOK, vars, disk, locals, history
  <2>2. ASSUME NEW u \in Threads PROVE Filled(u)' /\ (u \notin disturbed' => StillTrue(u)')
    BY <1>1, UntouchedKeeps DEF Untouched, vars, disk, locals, history
  <2> QED BY <2>1, <2>2 DEF IInv
<1>2. CASE Environment
  BY <1>2, EnvironmentKeeps
<1>3. ASSUME NEW t \in Threads, readFromFile(t) \/ Step(t) PROVE IInv'
  BY <1>3, CallKeeps, LockKeeps, StatusKeeps, SizeKeeps, OpenKeeps, ReadBlockKeeps,
     ReadShortKeeps, ReadFailsKeeps, ReturnKeeps DEF Step
<1> QED BY <1>1, <1>2, <1>3 DEF Next

LEMMA Inductive == Spec => []IInv
BY InitIInv, NextIInv, PTL DEF Spec

(* Every variable of readFromFile's model keeps its type. *)
THEOREM TypeCorrect == Spec => []TypeOK
<1>1. IInv => TypeOK
  BY DEF IInv
<1> QED BY <1>1, Inductive, PTL

(* FileReader.hpp:77 to 89 never returns a buffer of which a part was not  *)
(* read, whatever happens to the file meanwhile.                           *)
THEOREM HalfFilledNever == Spec => []NeverHalfFilled
<1>1. IInv => NeverHalfFilled
  BY DEF IInv, Filled, NeverHalfFilled
<1> QED BY <1>1, Inductive, PTL

(* If nothing else touches the path, a call of FileReader.hpp:57 is atomic: *)
(* it returns or throws what one look at the path says.                     *)
THEOREM QuietCallsExact == Spec => []QuietCallsAreExact
<1>1. IInv => QuietCallsAreExact
  BY DEF IInv, StillTrue, QuietCallsAreExact
<1> QED BY <1>1, Inductive, PTL
=============================================================================
