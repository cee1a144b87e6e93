----------------------------- MODULE AtomicFile -----------------------------
(***************************************************************************)
(* The write-to-.tmp-then-rename discipline that every store of the        *)
(* repository uses to flush its map to one JSON file.  The four Persist    *)
(* functions (s03, s05, s07, s08) share one shape after their snapshot:    *)
(*                                                                         *)
(*     MkdirAll ; MarshalIndent ; WriteFile(path.tmp) ; Rename(path.tmp,   *)
(*     path) ; on a rename error, Remove(path.tmp)                         *)
(*                                                                         *)
(* A file is an inode holding a sequence of blocks; the directory binds    *)
(* the two names to inodes.  os.WriteFile opens with O_TRUNC whatever      *)
(* inode the name .tmp has at that moment and then writes through its own  *)
(* descriptor at its own offset, so a rename does not redirect a write     *)
(* that is under way.                                                      *)
(*                                                                         *)
(* Nothing in the code calls fsync, on a file or on the directory.  Both   *)
(* therefore reach the disk when the kernel writes them back; a power loss *)
(* before that leaves a prefix of a file and any directory since the last  *)
(* one written back, so that a rename that returned may be undone.  Of the *)
(* file system it is assumed that changes of one directory reach the disk  *)
(* in order, and that a truncation does not come after them.               *)
(***************************************************************************)
EXTENDS Naturals, Sequences, FiniteSets, SequencesExt

CONSTANTS
  Keys,          \* record ids of the store
  Vals,          \* record bodies
  None,          \* "no record under this id"
  End,           \* the block that closes the JSON object
  Hole,          \* a block of zero bytes, left when a write skips over it
  Persisters,    \* goroutines that call Persist
  Inodes,        \* bound: files that may exist at once
  NoInode,       \* the name is not bound
  PowerLoss      \* TRUE: the machine itself may stop, not only the process

ASSUME FiniteKeys == IsFiniteSet(Keys)
ASSUME NoneIsNoVal == None \notin Vals
ASSUME NoInodeIsNoInode == NoInode \notin Inodes
ASSUME BlocksDistinct == /\ End # Hole
                         /\ End \notin [key : Keys, val : Vals]
                         /\ Hole \notin [key : Keys, val : Vals]
ASSUME PowerLossIsBoolean == PowerLoss \in BOOLEAN

VARIABLES
  dir,     \* the directory: the inode of each of the two names
  older,   \* the earlier directories that a power loss may bring back
  file,    \* the blocks of each inode
  dirty,   \* inodes with blocks the kernel has not written back
  call,    \* where each persister is inside Persist
  fd,      \* the inode its descriptor refers to
  pos,     \* blocks it has written so far
  buf      \* the marshalled snapshot it is writing

fileVars == <<dir, older, file, dirty, call, fd, pos, buf>>

-----------------------------------------------------------------------------
(* What the marshalled map looks like on disk.                             *)

Record == [key : Keys, val : Vals]
Blocks == Record \union {End, Hole}
Maps == [Keys -> Vals \union {None}]
EmptyMap == [k \in Keys |-> None]
Present(m) == {k \in Keys : m[k] # None}

\* json.MarshalIndent: one block per record, then the closing brace.
Encode(m) ==
  LET ks == SetToSeq(Present(m))
  IN  [i \in 1..(Len(ks) + 1) |->
         IF i <= Len(ks) THEN [key |-> ks[i], val |-> m[ks[i]]] ELSE End]

\* Mutant: a decoder that does not ask for the closing brace.
ParsesPrefix(c) == \A i \in 1..(Len(c) - 1) : c[i] \in Record

\* json.Unmarshal accepts exactly a list of records closed once, at the end.
Parses(c) ==
  /\ c # <<>>
  /\ c[Len(c)] = End
  /\ \A i \in 1..(Len(c) - 1) : c[i] \in Record

\* A name that occurs twice in a JSON object takes its last value.
Parsed(c) ==
  [k \in Keys |->
     LET last == {i \in 1..(Len(c) - 1) :
                    /\ c[i].key = k
                    /\ \A j \in (i + 1)..(Len(c) - 1) : c[j].key # k}
     IN  IF last = {} THEN None ELSE c[CHOOSE i \in last : TRUE].val]

\* A write of block b at position i: earlier blocks stay, a gap reads zero.
WriteAt(c, i, b) ==
  [j \in 1..(IF i > Len(c) THEN i ELSE Len(c)) |->
     IF j = i THEN b ELSE IF j <= Len(c) THEN c[j] ELSE Hole]

-----------------------------------------------------------------------------
FileInit ==
  /\ dir = [canonical |-> NoInode, tmp |-> NoInode]
  /\ older = {}
  /\ file = [i \in Inodes |-> <<>>]
  /\ dirty = {}
  /\ call = [p \in Persisters |-> "idle"]
  /\ fd = [p \in Persisters |-> NoInode]
  /\ pos = [p \in Persisters |-> 0]
  /\ buf = [p \in Persisters |-> <<>>]

Touch(i) == dirty' = IF PowerLoss THEN dirty \union {i} ELSE dirty

\* The names are bound anew; the directory on disk follows later.
Rebind(d) ==
  /\ dir' = d
  /\ older' = IF PowerLoss THEN (older \union {dir}) \ {d} ELSE older

Names(d) == {d.canonical, d.tmp}
Linked == Names(dir)
Opened == {fd[p] : p \in Persisters}
Recoverable == UNION {Names(d) : d \in older}
InUse == Linked \union Opened \union Recoverable

\* Inodes without a name, a descriptor or a directory to come back to are
\* gone.
Free(gone) ==
  /\ file' = [i \in Inodes |-> IF i \in gone THEN <<>> ELSE file[i]]
  /\ dirty' = dirty \ gone

\* An inode loses a name.
Unlink(i) == Free({i} \ (Opened \union Recoverable'))

\* The persister returns from Persist, with or without an error.
Return(p) ==
  /\ call' = [call EXCEPT ![p] = "idle"]
  /\ fd' = [fd EXCEPT ![p] = NoInode]
  /\ pos' = [pos EXCEPT ![p] = 0]
  /\ buf' = [buf EXCEPT ![p] = <<>>]

\* The snapshot is taken and marshalled; the file system is next.
BeginSave(p, m) ==
  /\ call[p] = "idle"
  /\ call' = [call EXCEPT ![p] = "open"]
  /\ buf' = [buf EXCEPT ![p] = Encode(m)]
  /\ UNCHANGED <<dir, older, file, dirty, fd, pos>>

\* Mutant: the file is rewritten in place.
OpenInPlace(p) ==
  /\ call[p] = "open"
  /\ \E i \in Inodes :
       /\ IF dir.canonical = NoInode THEN i \notin InUse ELSE i = dir.canonical
       /\ Rebind([dir EXCEPT !.tmp = i])
       /\ file' = [file EXCEPT ![i] = <<>>]
       /\ fd' = [fd EXCEPT ![p] = i]
       /\ Touch(i)
  /\ call' = [call EXCEPT ![p] = "write"]
  /\ UNCHANGED <<pos, buf>>

\* os.WriteFile opens the shared .tmp name: O_CREATE|O_TRUNC.
OpenTmp(p) ==
  /\ call[p] = "open"
  /\ \E i \in Inodes :
       /\ IF dir.tmp = NoInode THEN i \notin InUse ELSE i = dir.tmp
       /\ Rebind([dir EXCEPT !.tmp = i])
       /\ file' = [file EXCEPT ![i] = <<>>]
       /\ fd' = [fd EXCEPT ![p] = i]
       /\ Touch(i)
  /\ call' = [call EXCEPT ![p] = "write"]
  /\ UNCHANGED <<pos, buf>>

\* os.WriteFile writes on, one block at a time.
WriteBlock(p) ==
  /\ call[p] = "write"
  /\ pos[p] < Len(buf[p])
  /\ file' = [file EXCEPT ![fd[p]] = WriteAt(@, pos[p] + 1, buf[p][pos[p] + 1])]
  /\ pos' = [pos EXCEPT ![p] = @ + 1]
  /\ Touch(fd[p])
  /\ UNCHANGED <<dir, older, call, fd, buf>>

\* MkdirAll, MarshalIndent or WriteFile reports an error: Persist returns it
\* and leaves the .tmp file as it is.
WriteFails(p) ==
  /\ call[p] \in {"open", "write"}
  /\ Return(p)
  /\ UNCHANGED <<dir, older, file, dirty>>

\* Mutant: the rename does not wait for the last block.
RenameEarly(p) ==
  /\ call[p] = "write"
  /\ dir.tmp # NoInode
  /\ Rebind([canonical |-> dir.tmp, tmp |-> NoInode])
  /\ Unlink(dir.canonical)
  /\ Return(p)

\* os.Rename binds the canonical name to whatever inode .tmp names now.
RenameTmp(p) ==
  /\ call[p] = "write"
  /\ pos[p] = Len(buf[p])
  /\ dir.tmp # NoInode
  /\ Rebind([canonical |-> dir.tmp, tmp |-> NoInode])
  /\ Unlink(dir.canonical)
  /\ Return(p)

\* os.Rename reports an error (always when .tmp is gone).
RenameFails(p) ==
  /\ call[p] = "write"
  /\ pos[p] = Len(buf[p])
  /\ call' = [call EXCEPT ![p] = "remove"]
  /\ fd' = [fd EXCEPT ![p] = NoInode]
  /\ UNCHANGED <<dir, older, file, dirty, pos, buf>>

\* Mutant: the clean-up removes the wrong name.
RemoveCanonical(p) ==
  /\ call[p] = "remove"
  /\ Rebind([dir EXCEPT !.canonical = NoInode])
  /\ Unlink(dir.canonical)
  /\ Return(p)

\* The best-effort os.Remove of .tmp, whose own error is dropped; then the
\* error of the rename is returned.
RemoveTmp(p) ==
  /\ call[p] = "remove"
  /\ \/ Rebind([dir EXCEPT !.tmp = NoInode]) /\ Unlink(dir.tmp)
     \/ UNCHANGED <<dir, older, file, dirty>>
  /\ Return(p)

\* The process dies: descriptors and snapshots are gone, the files stay.
Killed ==
  /\ call' = [p \in Persisters |-> "idle"]
  /\ fd' = [p \in Persisters |-> NoInode]
  /\ pos' = [p \in Persisters |-> 0]
  /\ buf' = [p \in Persisters |-> <<>>]

ProcessKilled == Killed /\ UNCHANGED <<dir, older, file, dirty>>

\* The machine dies: the directory is one that the disk may hold, and an
\* inode not written back keeps some prefix of itself.
MachineLost ==
  /\ PowerLoss
  /\ Killed
  /\ dir' \in older \union {dir}
  /\ \E n \in [dirty -> 0..(Cardinality(Keys) + 1)] :
       /\ \A i \in dirty : n[i] <= Len(file[i])
       /\ file' = [i \in Inodes |->
                     IF i \notin Linked' THEN <<>>
                     ELSE IF i \in dirty THEN SubSeq(file[i], 1, n[i])
                     ELSE file[i]]
  /\ older' = {}
  /\ dirty' = {}

\* The kernel writes an inode back in its own time.
WriteBack(i) ==
  /\ i \in dirty
  /\ dirty' = dirty \ {i}
  /\ UNCHANGED <<dir, older, file, call, fd, pos, buf>>

\* The kernel writes the directory back: no earlier one returns.
WriteBackDir ==
  /\ older # {}
  /\ older' = {}
  /\ Free(Inodes \ (Linked \union Opened))
  /\ UNCHANGED <<dir, call, fd, pos, buf>>

-----------------------------------------------------------------------------
\* What the canonical name holds.
HasCanonical == dir.canonical # NoInode
Canonical == file[dir.canonical]

\* The file system as the code uses it: typed blocks, descriptors only while
\* a write is under way.
FileTypeOK ==
  /\ dir \in [{"canonical", "tmp"} -> Inodes \union {NoInode}]
  /\ older \in SUBSET [{"canonical", "tmp"} -> Inodes \union {NoInode}]
  /\ file \in [Inodes -> Seq(Blocks)]
  /\ dirty \in SUBSET Inodes
  /\ call \in [Persisters -> {"idle", "open", "write", "remove"}]
  /\ fd \in [Persisters -> Inodes \union {NoInode}]
  /\ pos \in [Persisters -> Nat]
  /\ buf \in [Persisters -> Seq(Blocks)]
  /\ \A p \in Persisters : call[p] = "write" <=> fd[p] # NoInode

\* With one persister, what it has written so far is a prefix of its buffer,
\* in the file that .tmp names, which is no canonical one, of this directory
\* or of one that may come back.
SoleWriter == \A p, q \in Persisters : p = q
WrittenPrefix(p) ==
  /\ fd[p] = dir.tmp
  /\ pos[p] <= Len(buf[p])
  /\ Len(file[fd[p]]) = pos[p]
  /\ \A j \in 1..pos[p] : file[fd[p]][j] = buf[p][j]
TmpApart ==
  /\ \A d \in older \union {dir} :
       /\ d.tmp # NoInode => d.tmp # d.canonical
       /\ dir.tmp # NoInode => dir.tmp # d.canonical
  /\ \A p \in Persisters :
       /\ call[p] # "write" => pos[p] = 0 \/ call[p] = "remove"
       /\ call[p] = "write" => WrittenPrefix(p)
=============================================================================
