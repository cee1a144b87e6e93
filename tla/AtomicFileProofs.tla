-------------------------- MODULE AtomicFileProofs --------------------------
(***************************************************************************)
(* Facts about the file discipline of AtomicFile that hold for every set   *)
(* of keys, values and persisters.                                         *)
(***************************************************************************)
EXTENDS AtomicFile, TLAPS, FiniteSetTheorems, FunctionTheorems, SequenceTheorems

-----------------------------------------------------------------------------
(* Marshalling.                                                            *)

\* SetToSeq enumerates a finite set: every element, each once.
LEMMA SetToSeqEnumerates ==
  ASSUME NEW S, IsFiniteSet(S)
  PROVE  /\ Cardinality(S) \in Nat
         /\ SetToSeq(S) \in [1..Cardinality(S) -> S]
         /\ \A i, j \in 1..Cardinality(S) : SetToSeq(S)[i] = SetToSeq(S)[j] => i = j
         /\ \A x \in S : \E i \in 1..Cardinality(S) : SetToSeq(S)[i] = x
<1> DEFINE n == Cardinality(S)
<1>1. n \in Nat /\ ExistsBijection(1..n, S)
  BY FS_CardinalityType
<1>2. PICK g \in Bijection(1..n, S) : TRUE
  BY <1>1 DEF ExistsBijection
<1>3. g \in [1..n -> S] /\ IsInjective(g)
  BY <1>2 DEF Bijection, Injection, IsInjective
<1> DEFINE f == SetToSeq(S)
<1>4. f \in [1..n -> S] /\ IsInjective(f)
  BY <1>3 DEF SetToSeq
<1>5. f \in Injection(1..n, S)
  BY <1>4 DEF Injection, IsInjective
<1>6. IsFiniteSet(1..n) /\ Cardinality(1..n) = n
  BY <1>1, FS_Interval
<1>7. f \in Surjection(1..n, S)
  BY <1>1, <1>5, <1>6, FS_Injection
<1> QED
  BY <1>1, <1>4, <1>7 DEF Surjection, IsInjective

LEMMA PresentIsFinite ==
  ASSUME NEW m
  PROVE  IsFiniteSet(Present(m))
BY FiniteKeys, FS_Subset DEF Present

\* The shape of a marshalled map: its records, each id once, then the brace.
LEMMA EncodeShape ==
  ASSUME NEW m \in Maps
  PROVE  /\ Encode(m) \in Seq(Blocks)
         /\ Len(Encode(m)) = Cardinality(Present(m)) + 1
         /\ Cardinality(Present(m)) \in Nat
         /\ Encode(m)[Len(Encode(m))] = End
         /\ \A i \in 1..Cardinality(Present(m)) :
              Encode(m)[i] = [key |-> SetToSeq(Present(m))[i],
                              val |-> m[SetToSeq(Present(m))[i]]]
<1> DEFINE ks == SetToSeq(Present(m))
           n == Cardinality(Present(m))
<1>1. n \in Nat /\ ks \in [1..n -> Present(m)]
  BY PresentIsFinite, SetToSeqEnumerates
<1>2. ks \in Seq(Present(m)) /\ Len(ks) = n
  BY <1>1, IsASeq
<1>3. \A i \in 1..n : ks[i] \in Keys /\ m[ks[i]] \in Vals
  BY <1>1 DEF Present, Maps
<1>4. \A i \in 1..n : [key |-> ks[i], val |-> m[ks[i]]] \in Blocks
  BY <1>3 DEF Blocks, Record
<1>5. Encode(m) = [i \in 1..(n + 1) |->
                     IF i <= n THEN [key |-> ks[i], val |-> m[ks[i]]] ELSE End]
  BY <1>2 DEF Encode
<1>6. Encode(m) \in [1..(n + 1) -> Blocks]
  BY <1>1, <1>4, <1>5 DEF Blocks
<1>7. Encode(m) \in Seq(Blocks) /\ Len(Encode(m)) = n + 1
  BY <1>1, <1>6, IsASeq
<1> QED
  BY <1>1, <1>5, <1>7

\* What Persist marshals, Load accepts.
LEMMA EncodeParses ==
  ASSUME NEW m \in Maps
  PROVE  Parses(Encode(m))
<1> DEFINE n == Cardinality(Present(m))
<1>1. /\ n \in Nat /\ Len(Encode(m)) = n + 1
      /\ Encode(m) \in Seq(Blocks)
      /\ Encode(m)[Len(Encode(m))] = End
  BY EncodeShape
<1>2. Encode(m) # <<>>
  BY <1>1
<1>3. ASSUME NEW i \in 1..n
      PROVE  Encode(m)[i] \in Record
  <2> DEFINE k == SetToSeq(Present(m))[i]
  <2>1. k \in Present(m)
    BY <1>3, PresentIsFinite, SetToSeqEnumerates
  <2>2. k \in Keys /\ m[k] \in Vals
    BY <2>1 DEF Present, Maps
  <2>3. Encode(m)[i] = [key |-> k, val |-> m[k]]
    BY <1>3, EncodeShape
  <2> HIDE DEF k
  <2> QED
    BY <2>2, <2>3 DEF Record
<1> QED
  BY <1>1, <1>2, <1>3 DEF Parses

\* Where the last record of id k stands.
LastAt(c, k) ==
  {i \in 1..(Len(c) - 1) : /\ c[i].key = k
                           /\ \A j \in (i + 1)..(Len(c) - 1) : c[j].key # k}

LEMMA ParsedByLastAt ==
  ASSUME NEW c
  PROVE  Parsed(c) = [k \in Keys |-> IF LastAt(c, k) = {} THEN None
                                     ELSE c[CHOOSE i \in LastAt(c, k) : TRUE].val]
BY DEF Parsed, LastAt

\* Whatever Load accepts is a map.
LEMMA ParsedType ==
  ASSUME NEW c, Parses(c)
  PROVE  Parsed(c) \in Maps
<1>1. ASSUME NEW k \in Keys, LastAt(c, k) # {}
      PROVE  c[CHOOSE i \in LastAt(c, k) : TRUE].val \in Vals
  <2> DEFINE i == CHOOSE i \in LastAt(c, k) : TRUE
  <2>1. i \in 1..(Len(c) - 1)
    BY <1>1 DEF LastAt
  <2>2. c[i] \in Record
    BY <2>1 DEF Parses
  <2>3. c[i].val \in Vals
    <3> HIDE DEF i
    <3> QED
      BY <2>2 DEF Record
  <2> QED
    BY <2>3
<1> QED
  BY <1>1, ParsedByLastAt DEF Maps

\* A round trip through the file gives the map back.
LEMMA ParsedEncode ==
  ASSUME NEW m \in Maps
  PROVE  Parsed(Encode(m)) = m
<1> DEFINE n == Cardinality(Present(m))
           ks == SetToSeq(Present(m))
           c == Encode(m)
<1>1. /\ n \in Nat /\ Len(c) - 1 = n
      /\ ks \in [1..n -> Present(m)]
      /\ \A i, j \in 1..n : ks[i] = ks[j] => i = j
      /\ \A x \in Present(m) : \E i \in 1..n : ks[i] = x
  BY EncodeShape, PresentIsFinite, SetToSeqEnumerates
<1>2. ASSUME NEW i \in 1..n
      PROVE  c[i].key = ks[i] /\ c[i].val = m[ks[i]]
  <2>1. c[i] = [key |-> ks[i], val |-> m[ks[i]]]
    BY EncodeShape
  <2> HIDE DEF c, ks
  <2> QED
    BY <2>1
<1> HIDE DEF n, ks, c
<1>3. ASSUME NEW k \in Keys
      PROVE  m[k] = IF LastAt(c, k) = {} THEN None
                    ELSE c[CHOOSE i \in LastAt(c, k) : TRUE].val
  <2>1. \A i \in LastAt(c, k) : i \in 1..n /\ ks[i] = k
    <3>1. \A i \in LastAt(c, k) : i \in 1..n /\ c[i].key = k
      BY <1>1 DEF LastAt
    <3> QED
      BY <3>1, <1>2
  <2>2. CASE k \in Present(m)
    <3>1. PICK i \in 1..n : ks[i] = k
      BY <2>2, <1>1
    <3>2. \A j \in (i + 1)..(Len(c) - 1) : j \in 1..n /\ j # i
      BY <1>1, <3>1
    <3>3. \A j \in (i + 1)..(Len(c) - 1) : c[j].key # k
      BY <3>1, <3>2, <1>1, <1>2
    <3>4. i \in LastAt(c, k)
      BY <3>1, <3>3, <1>1, <1>2 DEF LastAt
    <3>5. LastAt(c, k) = {i}
      BY <3>1, <3>4, <2>1, <1>1
    <3>6. c[i].val = m[k]
      BY <3>1, <1>2
    <3> QED
      BY <3>5, <3>6
  <2>3. CASE k \notin Present(m)
    <3>1. LastAt(c, k) = {}
      BY <2>1, <2>3, <1>1
    <3> QED
      BY <3>1, <2>3 DEF Present
  <2> QED
    BY <2>2, <2>3
<1>4. Parsed(c) = [k \in Keys |-> m[k]]
  BY <1>3, ParsedByLastAt
<1> QED
  BY <1>4 DEF Maps, c

-----------------------------------------------------------------------------
(* The file system steps.                                                  *)

LEMMA WriteAtType ==
  ASSUME NEW c \in Seq(Blocks), NEW i \in Nat, NEW b \in Blocks
  PROVE  WriteAt(c, i + 1, b) \in Seq(Blocks)
<1> DEFINE n == IF i + 1 > Len(c) THEN i + 1 ELSE Len(c)
<1>1. n \in Nat
  BY LenProperties
<1>2. \A j \in 1..n : j <= Len(c) => c[j] \in Blocks
  BY ElementOfSeq
<1>3. WriteAt(c, i + 1, b) \in [1..n -> Blocks]
  BY <1>2 DEF WriteAt, Blocks
<1> QED
  BY <1>1, <1>3, IsASeq

\* A write at the end of the file appends one block.
LEMMA WriteAtEnd ==
  ASSUME NEW c \in Seq(Blocks), NEW b \in Blocks
  PROVE  /\ Len(WriteAt(c, Len(c) + 1, b)) = Len(c) + 1
         /\ \A j \in 1..Len(c) : WriteAt(c, Len(c) + 1, b)[j] = c[j]
         /\ WriteAt(c, Len(c) + 1, b)[Len(c) + 1] = b
<1>1. Len(c) \in Nat
  BY LenProperties
<1>2. WriteAt(c, Len(c) + 1, b) =
        [j \in 1..(Len(c) + 1) |->
           IF j = Len(c) + 1 THEN b ELSE IF j <= Len(c) THEN c[j] ELSE Hole]
  BY <1>1 DEF WriteAt
<1>3. WriteAt(c, Len(c) + 1, b) \in Seq(Blocks)
  BY <1>1, WriteAtType
<1>4. DOMAIN WriteAt(c, Len(c) + 1, b) = 1..(Len(c) + 1)
  BY <1>2
<1>5. Len(WriteAt(c, Len(c) + 1, b)) = Len(c) + 1
  BY <1>1, <1>3, <1>4, LenProperties
<1> QED
  BY <1>1, <1>2, <1>5

\* The steps of one persister.
SaveStep(p) ==
  \/ \E m \in Maps : BeginSave(p, m)
  \/ OpenTmp(p)
  \/ WriteBlock(p)
  \/ WriteFails(p)
  \/ RenameTmp(p)
  \/ RenameFails(p)
  \/ RemoveTmp(p)

LEMMA FileInitTypes == FileInit => FileTypeOK /\ TmpApart
BY EmptySeq, NoInodeIsNoInode DEF FileInit, FileTypeOK, TmpApart

Dirs == [{"canonical", "tmp"} -> Inodes \union {NoInode}]

LEMMA RebindTypes ==
  ASSUME FileTypeOK, NEW d \in Dirs, Rebind(d)
  PROVE  /\ dir' = d /\ dir' \in Dirs /\ older' \in SUBSET Dirs
         /\ \A e \in older' : e \in older \union {dir}
BY DEF FileTypeOK, Rebind, Dirs

LEMMA FreeTypes ==
  ASSUME FileTypeOK, NEW gone, Free(gone)
  PROVE  /\ file' \in [Inodes -> Seq(Blocks)] /\ dirty' \in SUBSET Inodes
         /\ \A i \in Inodes \ gone : file'[i] = file[i]
BY EmptySeq DEF FileTypeOK, Free

\* What becomes of the directory when .tmp is bound, and when it is renamed.
LEMMA BindTmpTypes ==
  ASSUME FileTypeOK, NEW i \in Inodes \union {NoInode}, Rebind([dir EXCEPT !.tmp = i])
  PROVE  /\ dir' \in Dirs /\ older' \in SUBSET Dirs
         /\ dir'.tmp = i /\ dir'.canonical = dir.canonical
         /\ \A e \in older' : e \in older \union {dir}
<1> DEFINE d == [dir EXCEPT !.tmp = i]
<1>1. d \in Dirs /\ d.tmp = i /\ d.canonical = dir.canonical
  BY DEF FileTypeOK, Dirs
<1> HIDE DEF d
<1> QED
  BY <1>1, RebindTypes DEF d

LEMMA RenameTypes ==
  ASSUME FileTypeOK, Rebind([canonical |-> dir.tmp, tmp |-> NoInode])
  PROVE  /\ dir' \in Dirs /\ older' \in SUBSET Dirs
         /\ dir'.tmp = NoInode /\ dir'.canonical = dir.tmp
         /\ \A e \in older' : e \in older \union {dir}
<1> DEFINE d == [canonical |-> dir.tmp, tmp |-> NoInode]
<1>1. d.tmp = NoInode /\ d.canonical = dir.tmp
  OBVIOUS
<1>2. dir.tmp \in Inodes \union {NoInode}
  BY DEF FileTypeOK
<1>3. d \in Dirs
  BY <1>2 DEF Dirs
<1> HIDE DEF d
<1> QED
  BY <1>1, <1>3, RebindTypes DEF d

\* Every step of any persister keeps the file system well typed.
LEMMA SaveStepTypes ==
  ASSUME FileTypeOK, NEW p \in Persisters, SaveStep(p)
  PROVE  FileTypeOK'
<1> USE DEF FileTypeOK
<1>1. ASSUME NEW m \in Maps, BeginSave(p, m)
      PROVE  FileTypeOK'
  BY <1>1, EncodeShape DEF BeginSave
<1>2. CASE OpenTmp(p)
  <2>1. PICK i \in Inodes :
          /\ Rebind([dir EXCEPT !.tmp = i])
          /\ file' = [file EXCEPT ![i] = <<>>]
          /\ fd' = [fd EXCEPT ![p] = i]
          /\ Touch(i)
    BY <1>2 DEF OpenTmp
  <2>2. <<>> \in Seq(Blocks) /\ i # NoInode
    BY EmptySeq, NoInodeIsNoInode
  <2>3. dir' \in Dirs /\ older' \in SUBSET Dirs
    BY <2>1, BindTmpTypes
  <2>4. file' \in [Inodes -> Seq(Blocks)] /\ dirty' \in SUBSET Inodes
    BY <2>1, <2>2 DEF Touch
  <2> QED
    BY <1>2, <2>1, <2>2, <2>3, <2>4 DEF OpenTmp, Dirs
<1>3. CASE WriteBlock(p)
  <2>1. fd[p] \in Inodes
    BY <1>3 DEF WriteBlock
  <2>2. buf[p][pos[p] + 1] \in Blocks
    BY <1>3, ElementOfSeq, LenProperties DEF WriteBlock
  <2>3. WriteAt(file[fd[p]], pos[p] + 1, buf[p][pos[p] + 1]) \in Seq(Blocks)
    BY <2>1, <2>2, WriteAtType
  <2>4. file' \in [Inodes -> Seq(Blocks)]
    BY <1>3, <2>3 DEF WriteBlock
  <2> QED
    BY <1>3, <2>1, <2>4 DEF WriteBlock, Touch
<1>4. CASE WriteFails(p)
  BY <1>4, EmptySeq DEF WriteFails, Return
<1>5. CASE RenameTmp(p)
  <2>1. dir' \in Dirs /\ older' \in SUBSET Dirs
    BY <1>5, RenameTypes DEF RenameTmp
  <2>2. file' \in [Inodes -> Seq(Blocks)] /\ dirty' \in SUBSET Inodes
    BY <1>5, FreeTypes DEF RenameTmp, Unlink
  <2> QED
    BY <1>5, <2>1, <2>2, EmptySeq DEF RenameTmp, Return, Dirs
<1>6. CASE RenameFails(p)
  BY <1>6 DEF RenameFails
<1>7. CASE RemoveTmp(p)
  <2>1. CASE Rebind([dir EXCEPT !.tmp = NoInode]) /\ Unlink(dir.tmp)
    <3>1. dir' \in Dirs /\ older' \in SUBSET Dirs
      BY <2>1, BindTmpTypes
    <3>2. file' \in [Inodes -> Seq(Blocks)] /\ dirty' \in SUBSET Inodes
      BY <2>1, FreeTypes DEF Unlink
    <3> QED
      BY <1>7, <3>1, <3>2, EmptySeq DEF RemoveTmp, Return, Dirs
  <2>2. CASE UNCHANGED <<dir, older, file, dirty>>
    BY <1>7, <2>2, EmptySeq DEF RemoveTmp, Return
  <2> QED
    BY <1>7, <2>1, <2>2 DEF RemoveTmp
<1> QED
  BY <1>1, <1>2, <1>3, <1>4, <1>5, <1>6, <1>7 DEF SaveStep

-----------------------------------------------------------------------------
(* One persister: the argument for the rename.                             *)

\* With one persister, what it has written stays a prefix of its buffer, in
\* a file that is not the canonical one.
LEMMA SaveStepApart ==
  ASSUME SoleWriter, FileTypeOK, TmpApart, NEW p \in Persisters, SaveStep(p)
  PROVE  TmpApart'
<1>1. \A q \in Persisters : q = p
  BY DEF SoleWriter
<1> USE DEF FileTypeOK, TmpApart
<1>2. ASSUME NEW m \in Maps, BeginSave(p, m)
      PROVE  TmpApart'
  BY <1>1, <1>2 DEF BeginSave, WrittenPrefix
<1>3. CASE OpenTmp(p)
  <2>1. PICK i \in Inodes :
          /\ IF dir.tmp = NoInode THEN i \notin InUse ELSE i = dir.tmp
          /\ Rebind([dir EXCEPT !.tmp = i])
          /\ file' = [file EXCEPT ![i] = <<>>]
          /\ fd' = [fd EXCEPT ![p] = i]
    BY <1>3 DEF OpenTmp
  <2>2. call' = [call EXCEPT ![p] = "write"] /\ pos' = pos /\ buf' = buf
    BY <1>3 DEF OpenTmp
  <2>3. pos[p] = 0 /\ Len(buf[p]) \in Nat
    BY <1>3, LenProperties DEF OpenTmp
  <2>4. /\ dir'.tmp = i /\ dir'.canonical = dir.canonical
        /\ \A d \in older' : d \in older \union {dir}
    BY <2>1, BindTmpTypes
  <2>7. \A d \in older \union {dir} : i # d.canonical
    BY <2>1 DEF InUse, Linked, Recoverable, Names
  <2>8. \A d \in older' \union {dir'} :
          (d.tmp # NoInode => d.tmp # d.canonical) /\ i # d.canonical
    BY <2>4, <2>7
  <2>5. fd'[p] = i /\ file'[i] = <<>> /\ Len(file'[i]) = 0
    BY <2>1
  <2>6. WrittenPrefix(p)'
    BY <2>2, <2>3, <2>4, <2>5 DEF WrittenPrefix
  <2> QED
    BY <1>1, <2>2, <2>4, <2>6, <2>8
<1>4. CASE WriteBlock(p)
  <2> DEFINE c == file[fd[p]]
             b == buf[p][pos[p] + 1]
  <2>1. /\ fd[p] = dir.tmp /\ fd[p] \in Inodes
        /\ Len(c) = pos[p] /\ c \in Seq(Blocks)
        /\ \A j \in 1..pos[p] : c[j] = buf[p][j]
    BY <1>4 DEF WriteBlock, WrittenPrefix
  <2>2. b \in Blocks
    BY <1>4, ElementOfSeq, LenProperties DEF WriteBlock
  <2>3. file'[fd[p]] = WriteAt(c, pos[p] + 1, b)
    BY <1>4, <2>1 DEF WriteBlock
  <2>4. pos'[p] = pos[p] + 1 /\ pos[p] \in Nat /\ pos[p] < Len(buf[p])
    BY <1>4 DEF WriteBlock
  <2>5. dir' = dir /\ older' = older /\ fd' = fd /\ buf' = buf /\ call' = call
    BY <1>4 DEF WriteBlock
  <2>6. /\ Len(file'[fd[p]]) = pos[p] + 1
        /\ \A j \in 1..pos[p] : file'[fd[p]][j] = c[j]
        /\ file'[fd[p]][pos[p] + 1] = b
    <3> HIDE DEF c, b
    <3> QED
      BY <2>1, <2>2, <2>3, WriteAtEnd
  <2>7. ASSUME NEW j \in 1..(pos[p] + 1)
        PROVE  file'[fd[p]][j] = buf[p][j]
    <3>1. CASE j = pos[p] + 1
      BY <2>6, <3>1
    <3>2. CASE j \in 1..pos[p]
      BY <2>1, <2>6, <3>2
    <3> QED
      BY <2>4, <3>1, <3>2
  <2>8. pos[p] + 1 <= Len(buf[p])
    BY <2>4, LenProperties
  <2>9. WrittenPrefix(p)'
    BY <2>1, <2>4, <2>5, <2>6, <2>7, <2>8 DEF WrittenPrefix
  <2>10. call[p] = "write"
    BY <1>4 DEF WriteBlock
  <2> QED
    BY <1>1, <2>5, <2>9, <2>10
<1>5. CASE WriteFails(p)
  BY <1>1, <1>5 DEF WriteFails, Return
<1>6. CASE RenameTmp(p)
  <2>1. dir'.tmp = NoInode /\ \A d \in older' : d \in older \union {dir}
    BY <1>6, RenameTypes DEF RenameTmp
  <2> QED
    BY <1>1, <1>6, <2>1 DEF RenameTmp, Return
<1>7. CASE RenameFails(p)
  BY <1>1, <1>7 DEF RenameFails
<1>8. CASE RemoveTmp(p)
  <2>1. CASE Rebind([dir EXCEPT !.tmp = NoInode])
    <3>1. /\ dir'.tmp = NoInode /\ dir'.canonical = dir.canonical
          /\ \A d \in older' : d \in older \union {dir}
      BY <2>1, BindTmpTypes
    <3> QED
      BY <1>1, <1>8, <3>1 DEF RemoveTmp, Return
  <2>2. CASE UNCHANGED <<dir, older, file, dirty>>
    BY <1>1, <1>8, <2>2 DEF RemoveTmp, Return
  <2> QED
    BY <1>8, <2>1, <2>2 DEF RemoveTmp
<1> QED
  BY <1>2, <1>3, <1>4, <1>5, <1>6, <1>7, <1>8 DEF SaveStep

\* No step of a persister changes a file with a canonical name, be it in a
\* directory that a power loss may bring back; only the rename binds another.
LEMMA CanonicalsStay ==
  ASSUME FileTypeOK, TmpApart, NEW p \in Persisters, SaveStep(p)
  PROVE  /\ \A d \in older' : d \in older \union {dir}
         /\ \A d \in older' \union {dir'} :
              d.canonical \in Inodes => file'[d.canonical] = file[d.canonical]
         /\ RenameTmp(p) \/ dir'.canonical = dir.canonical
<1> USE DEF FileTypeOK, TmpApart
<1>1. CASE OpenTmp(p)
  <2>1. PICK i \in Inodes :
          /\ IF dir.tmp = NoInode THEN i \notin InUse ELSE i = dir.tmp
          /\ Rebind([dir EXCEPT !.tmp = i])
          /\ file' = [file EXCEPT ![i] = <<>>]
    BY <1>1 DEF OpenTmp
  <2>2. dir'.canonical = dir.canonical /\ \A d \in older' : d \in older \union {dir}
    BY <2>1, BindTmpTypes
  <2>3. \A d \in older \union {dir} : i # d.canonical
    BY <2>1 DEF InUse, Linked, Recoverable, Names
  <2> QED
    BY <2>1, <2>2, <2>3
<1>2. CASE WriteBlock(p)
  <2>1. fd[p] = dir.tmp /\ dir.tmp # NoInode /\ dir' = dir /\ older' = older
    BY <1>2 DEF WriteBlock, WrittenPrefix
  <2>2. \A i \in Inodes \ {fd[p]} : file'[i] = file[i]
    BY <1>2 DEF WriteBlock
  <2> QED
    BY <2>1, <2>2
<1>3. CASE RemoveTmp(p)
  <2>1. CASE Rebind([dir EXCEPT !.tmp = NoInode]) /\ Unlink(dir.tmp)
    <3>1. dir'.canonical = dir.canonical /\ \A d \in older' : d \in older \union {dir}
      BY <2>1, BindTmpTypes
    <3>2. \A i \in Inodes \ {dir.tmp} : file'[i] = file[i]
      BY <2>1, FreeTypes DEF Unlink
    <3> QED
      BY <3>1, <3>2, NoInodeIsNoInode
  <2>2. CASE UNCHANGED <<dir, older, file, dirty>>
    BY <2>2
  <2> QED
    BY <1>3, <2>1, <2>2 DEF RemoveTmp
<1>4. CASE RenameTmp(p)
  <2>1. dir'.canonical = dir.tmp /\ \A d \in older' : d \in older \union {dir}
    BY <1>4, RenameTypes DEF RenameTmp
  <2>2. \A i \in Inodes : i # dir.canonical \/ i \in Recoverable' => file'[i] = file[i]
    BY <1>4, FreeTypes DEF RenameTmp, Unlink
  <2>3. \A d \in older' : d.canonical \in Recoverable'
    BY DEF Recoverable, Names
  <2>4. dir.tmp # dir.canonical
    BY <1>4 DEF RenameTmp
  <2> QED
    BY <1>4, <2>1, <2>2, <2>3, <2>4
<1>5. CASE \E m \in Maps : BeginSave(p, m)
  BY <1>5 DEF BeginSave
<1>6. CASE WriteFails(p) \/ RenameFails(p)
  BY <1>6 DEF WriteFails, RenameFails
<1> QED
  BY <1>1, <1>2, <1>3, <1>4, <1>5, <1>6 DEF SaveStep

\* A step that is not the rename leaves the canonical file alone.
CanonicalKept ==
  /\ HasCanonical' = HasCanonical
  /\ HasCanonical => Canonical' = Canonical

LEMMA OnlyRenameChangesCanonical ==
  ASSUME FileTypeOK, TmpApart, NEW p \in Persisters, SaveStep(p), ~RenameTmp(p)
  PROVE  CanonicalKept
<1>1. dir'.canonical = dir.canonical
  BY CanonicalsStay
<1>2. dir.canonical \in Inodes => file'[dir.canonical] = file[dir.canonical]
  BY <1>1, CanonicalsStay
<1> QED
  BY <1>1, <1>2 DEF CanonicalKept, HasCanonical, Canonical, FileTypeOK

\* What tells the rename from every other step of a persister.
LEMMA RenameShows ==
  ASSUME FileTypeOK, NEW p \in Persisters, RenameTmp(p)
  PROVE  /\ call[p] = "write" /\ pos[p] = Len(buf[p])
         /\ call'[p] = "idle" /\ dir' # dir
BY RenameTypes DEF FileTypeOK, RenameTmp, Return

\* The rename replaces the canonical file by the whole buffer.
LEMMA RenameInstallsBuffer ==
  ASSUME FileTypeOK, TmpApart, NEW p \in Persisters, RenameTmp(p)
  PROVE  HasCanonical' /\ Canonical' = buf[p]
<1> USE DEF FileTypeOK, TmpApart
<1>1. /\ fd[p] = dir.tmp /\ fd[p] \in Inodes /\ pos[p] = Len(buf[p])
      /\ Len(file[fd[p]]) = pos[p]
      /\ \A j \in 1..pos[p] : file[fd[p]][j] = buf[p][j]
  BY DEF RenameTmp, WrittenPrefix
<1>2. file[fd[p]] = buf[p]
  <2>1. file[fd[p]] \in Seq(Blocks) /\ buf[p] \in Seq(Blocks)
    BY <1>1
  <2> QED
    BY <1>1, <2>1, SeqEqual
<1>3. dir'.canonical = fd[p] /\ fd[p] # dir.canonical /\ fd[p] # NoInode
  BY <1>1, RenameTypes, NoInodeIsNoInode DEF RenameTmp
<1>4. file'[fd[p]] = file[fd[p]]
  BY <1>1, <1>3, FreeTypes DEF RenameTmp, Unlink
<1> QED
  BY <1>2, <1>3, <1>4 DEF HasCanonical, Canonical

\* A process that dies leaves the files as they are.
LEMMA KillKeepsFiles ==
  ASSUME FileTypeOK, TmpApart, ProcessKilled
  PROVE  FileTypeOK' /\ TmpApart' /\ CanonicalKept
BY EmptySeq DEF FileTypeOK, TmpApart, CanonicalKept, HasCanonical, Canonical,
                ProcessKilled, Killed
=============================================================================
