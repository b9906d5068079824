------------------------------ MODULE SavedFile ------------------------------
(***************************************************************************)
(* A small text file that is replaced as a whole: the save of PolicyRules  *)
(* (crates/triet-pack/src/policy.rs) and of Lockfile (lockfile.rs).  The   *)
(* text goes to a sibling whose name is FIXED (dao.policy.tmp, .lock.tmp), *)
(* and the sibling is renamed over the file.                               *)
(*                                                                         *)
(* Names and open files are kept apart from the data they refer to,        *)
(* because a saver goes on writing to what it opened after somebody else   *)
(* has renamed it.                                                         *)
(***************************************************************************)
EXTENDS Naturals, FiniteSets

CONSTANTS
  Savers,   \* processes that save the file
  Blank,    \* the content of an empty file; an absent one loads as the same
  Broken,   \* a content that does not parse
  Absent    \* no such file; no file open

ASSUME SavedFileAssumption ==
  /\ IsFiniteSet(Savers)
  /\ Absent \notin Nat \cup Savers
  /\ Blank # Broken

VARIABLES
  file,     \* what the name of the file refers to: an inode or Absent
  tmp,      \* what the name of the temporary sibling refers to
  data,     \* inode -> its content
  fd,       \* saver -> the inode it is writing, or Absent
  lone,     \* HISTORY the saver that nobody has met since it began, or Absent
  due       \* HISTORY the text last meant for the file; Absent if savers met

inodeVars == <<file, tmp, data, fd>>
fileVars  == <<inodeVars, lone, due>>

\* One inode per name and per open file, and one more to be allocated.
Inodes == 0..(Cardinality(Savers) + 2)

Content == IF file = Absent THEN Blank ELSE data[file]

\* An inode that neither a name nor an open file refers to.
Free(i) == i \notin {file, tmp} /\ \A s \in Savers : fd[s] # i
NewInode == CHOOSE i \in Inodes : Free(i)

\* What nothing refers to is gone.
Kept(d, refs) == [i \in Inodes |-> IF i \in refs THEN d[i] ELSE Blank]

\* The file is absent, or one of the texts somebody wrote before.
FileInit(texts) ==
  /\ \/ file = Absent /\ data = [i \in Inodes |-> Blank]
     \/ file = 0 /\ \E t \in texts : data = [i \in Inodes |-> IF i = 0 THEN t ELSE Blank]
  /\ tmp = Absent
  /\ fd = [s \in Savers |-> Absent]
  /\ lone = Absent
  /\ due = Content

\* A save begins.  If another is under way, neither is alone from now on.
StartSave(s, busy) ==
  /\ lone' = IF busy = {} THEN s ELSE Absent
  /\ UNCHANGED <<inodeVars, due>>

\* The save ends, one way or another.
EndSave(s) == lone' = IF lone = s THEN Absent ELSE lone

\* Seeded defect: the file itself is truncated, without a sibling.
OpenInPlace(s) ==
  LET i == IF file = Absent THEN NewInode ELSE file
  IN  /\ tmp' = i
      /\ data' = [data EXCEPT ![i] = Blank]
      /\ fd' = [fd EXCEPT ![s] = i]
      /\ UNCHANGED <<file, lone, due>>

\* fs::write, first half: the sibling is created or truncated.
OpenTmp(s) ==
  LET i == IF tmp = Absent THEN NewInode ELSE tmp
  IN  /\ tmp' = i
      /\ data' = [data EXCEPT ![i] = Blank]
      /\ fd' = [fd EXCEPT ![s] = i]
      /\ UNCHANGED <<file, lone, due>>

\* fs::write, second half.  Over the text of another saver it writes from the
\* start: the tail of the longer text stays, and the whole does not parse.
WriteTmp(s, text) ==
  /\ \E c \in IF data[fd[s]] = Blank THEN {text} ELSE {text, Broken} :
       data' = [data EXCEPT ![fd[s]] = c]
  /\ fd' = [fd EXCEPT ![s] = Absent]
  /\ UNCHANGED <<file, tmp, lone, due>>

\* fs::rename moves what the sibling's name refers to by now.
RenameTmp(s, text) ==
  /\ tmp # Absent
  /\ file' = tmp
  /\ tmp' = Absent
  /\ data' = Kept(data, {tmp} \cup {fd[o] : o \in Savers})
  /\ due' = IF lone = s THEN text ELSE Absent
  /\ EndSave(s)
  /\ UNCHANGED fd

\* The rename fails, for want of the sibling or otherwise; it is removed.
RenameFails(s) ==
  /\ tmp' = Absent
  /\ data' = Kept(data, {file} \cup {fd[o] : o \in Savers})
  /\ EndSave(s)
  /\ UNCHANGED <<file, fd, due>>

\* Closing without having written: the write failed, or the process was killed.
Abandon(s) ==
  /\ fd' = [fd EXCEPT ![s] = Absent]
  /\ EndSave(s)
  /\ UNCHANGED <<file, tmp, data, due>>

\* Somebody replaces the file by hand, or deletes it: a save under way is not
\* alone any more.
Replace(text) ==
  /\ file' = NewInode
  /\ data' = [Kept(data, {tmp} \cup {fd[s] : s \in Savers}) EXCEPT ![NewInode] = text]
  /\ lone' = Absent
  /\ due' = text
  /\ UNCHANGED <<tmp, fd>>

Delete ==
  /\ file' = Absent
  /\ data' = Kept(data, {tmp} \cup {fd[s] : s \in Savers})
  /\ lone' = Absent
  /\ due' = Blank
  /\ UNCHANGED <<tmp, fd>>

\* A save that meets no other and no edit publishes the very text it was given,
\* and nobody changes that but by another save or edit: not what a save that
\* failed or was killed left in the sibling, nor one that begins.
Whole == due # Absent => Content = due

\* "Atomically": the file never names what somebody is still writing.
NeverHalfWritten == \A s \in Savers : fd[s] # Absent => fd[s] # file
=============================================================================
