--------------------------- MODULE SaveStackProofs ---------------------------
(***************************************************************************)
(* Proofs about SaveStack, for any files and any of the failures but that  *)
(* of fclose, which breaks the promises (see CloseStream).                 *)
(***************************************************************************)
EXTENDS SaveStack, TLAPS

(* What the steps of a save leave for the next: the old file is at its     *)
(* place until it is renamed, and in the backup while the new one is       *)
(* written; the new one is whole once it is closed.                        *)
BinarySteps == {"unlink", "aside", "open", "write", "close", "finish",
                "remove", "putback"}
TextSteps == {"opentext", "writetext", "closetext"}

KindOK == /\ pc \in BinarySteps => mem.kind = "binary"
          /\ pc \in TextSteps => mem.kind = "script"

DiskOK == \A f \in Files : /\ disk[f].state = "absent" => disk[f] = Absent
                           /\ disk[f].state = "whole" => disk[f].version # 0

(* Where the old file is.                                                  *)
OldKept ==
    /\ pc \in {"unlink", "aside"} => disk[target] = before
    /\ pc \in {"open", "write", "close", "remove", "putback"} /\ before # Absent
          => disk[BackupOf[target]] = before

(* What the file that is written holds.                                    *)
NewFile ==
    /\ pc = "open" => disk[target] = Absent
    /\ pc \in {"write", "writetext"} => disk[target] = Torn
    /\ pc \in {"remove", "putback"} => ~IsWhole(target)
    /\ pc \in {"close", "closetext"} => disk[target] \in {Torn, Whole}
    /\ pc = "finish" => disk[target] = Whole

SaidOK == pc # "idle" => said = IF pc \in {"remove", "putback"}
                                THEN "failed" ELSE "none"

IInv == /\ TypeOK /\ KindOK /\ DiskOK /\ OldKept /\ NewFile /\ SaidOK
        /\ SavedIsOnDisk /\ FailedSaveKeepsFile

USE DEF Says, Goes, Fails, IsWhole, Exists, Absent, Torn, Whole, NoStack,
        Kinds, Contents, Steps, BinarySteps, TextSteps

-----------------------------------------------------------------------------
(* The invariant.                                                          *)

LEMMA Initially == FilesAssumption /\ Init => IInv
BY DEF Init, FilesAssumption, IInv, TypeOK, KindOK, DiskOK, OldKept, NewFile,
       SaidOK, SavedIsOnDisk, FailedSaveKeepsFile

(* A rename and an unlink touch only the files they name.                  *)
LEMMA Renamed ==
  ASSUME IInv, NEW old \in Files, NEW new \in Files, old # new, Rename(old, new)
  PROVE  /\ disk' \in [Files -> Contents]
         /\ disk'[new] = disk[old] /\ disk'[old] = Absent
         /\ \A f \in Files \ {old, new} : disk'[f] = disk[f]
         /\ DiskOK'
BY DEF Rename, IInv, TypeOK, DiskOK

LEMMA Unlinked ==
  ASSUME IInv, NEW g \in Files, Unlink(g)
  PROVE  /\ disk' \in [Files -> Contents]
         /\ disk'[g] \in {disk[g], Absent}
         /\ \A f \in Files \ {g} : disk'[f] = disk[f]
         /\ DiskOK'
BY DEF Unlink, IInv, TypeOK, DiskOK

LEMMA Written ==
  ASSUME IInv, NEW g \in Files, mem.version # 0,
         disk' \in {disk, [disk EXCEPT ![g] = Torn], [disk EXCEPT ![g] = Whole]}
  PROVE  /\ disk' \in [Files -> Contents]
         /\ \A f \in Files \ {g} : disk'[f] = disk[f]
         /\ DiskOK'
BY DEF IInv, TypeOK, DiskOK

(* The backup of a name is another file than any name.                     *)
LEMMA Backup ==
  ASSUME FilesAssumption, BackupsAssumption, NEW n \in Names
  PROVE  /\ n \in Files /\ n # NoFile
         /\ BackupOf[n] \in Files /\ BackupOf[n] \notin Names
         /\ BackupOf[n] # n /\ BackupOf[n] # NoFile
BY DEF FilesAssumption, BackupsAssumption

LEMMA Outside ==
  ASSUME FilesAssumption, IInv,
         \/ \E kind \in Kinds : Create(kind)
         \/ Edit \/ Revert \/ Crash
         \/ \E f \in Files : Load(f)
  PROVE  IInv'
<1> USE DEF LoadsAs, IInv, TypeOK, KindOK, DiskOK, OldKept, NewFile,
            SaidOK, SavedIsOnDisk, FailedSaveKeepsFile
<1>1. ASSUME NEW kind \in Kinds, Create(kind) PROVE IInv' BY <1>1 DEF Create
<1>2. CASE Edit BY <1>2 DEF Edit
<1>3. CASE Revert BY <1>3 DEF Revert
<1>4. CASE Crash BY <1>4 DEF Crash
<1>5. ASSUME NEW f \in Files, Load(f) PROVE IInv' BY <1>5 DEF Load
<1> QED BY <1>1, <1>2, <1>3, <1>4, <1>5

LEMMA Begins ==
  ASSUME FilesAssumption, IInv, Save \/ \E n \in Names : SaveAs(n)
  PROVE  IInv'
<1> USE DEF SaveTo, IInv, TypeOK, KindOK, DiskOK, OldKept, NewFile,
            SaidOK, SavedIsOnDisk, FailedSaveKeepsFile
<1>1. CASE Save BY <1>1 DEF Save
<1>2. ASSUME NEW n \in Names, SaveAs(n) PROVE IInv' BY <1>2 DEF SaveAs
<1> QED BY <1>1, <1>2

LEMMA SaveSteps ==
  ASSUME FilesAssumption, BackupsAssumption, "close" \notin Faults, IInv, SaveStep
  PROVE  IInv'
<1> DEFINE T == target
           B == BackupOf[target]
<1>0. pc # "idle" /\ T \in Names /\ mem.version # 0
  BY DEF SaveStep, UnlinkOldBackup, SetAside, OpenStream, WriteStack, CloseStream,
         Finish, RemoveWritten, PutBack, OpenText, WriteText, CloseText, IInv, TypeOK
<1>1. /\ T \in Files /\ T # NoFile /\ B \in Files /\ B # T
  BY <1>0, Backup
<1> USE <1>0, <1>1
<1> USE DEF IInv, TypeOK, KindOK, OldKept, NewFile,
            SaidOK, SavedIsOnDisk, FailedSaveKeepsFile
<1>2. CASE UnlinkOldBackup BY <1>2, Unlinked DEF UnlinkOldBackup, DiskOK
<1>3. CASE SetAside BY <1>3, Renamed DEF SetAside, DiskOK
<1>4. CASE OpenStream BY <1>4, Written DEF OpenStream, DiskOK
<1>5. CASE WriteStack BY <1>5, Written DEF WriteStack, DiskOK
<1>6. CASE CloseStream BY <1>6, Written DEF CloseStream, DiskOK
<1>7. CASE Finish BY <1>7, Unlinked DEF Finish, DiskOK
<1>8. CASE RemoveWritten BY <1>8, Unlinked DEF RemoveWritten, DiskOK
<1>9. CASE PutBack BY <1>9, Renamed DEF PutBack, DiskOK
<1>10. CASE OpenText BY <1>10, Written DEF OpenText, DiskOK
<1>11. CASE WriteText BY <1>11, Written DEF WriteText, DiskOK
<1>12. CASE CloseText BY <1>12, Written DEF CloseText, DiskOK
<1> QED BY <1>2, <1>3, <1>4, <1>5, <1>6, <1>7, <1>8, <1>9, <1>10, <1>11, <1>12 DEF SaveStep

-----------------------------------------------------------------------------
(* The refinement of AtomicSave.                                           *)

stored == [n \in Names |-> StoredVersion(n)]
place == [n \in Names |-> Place(n)]
held == [version |-> mem.version, kind |-> mem.kind]

USE DEF StoredVersion, ReadFrom, Replacing

LEMMA Mapped ==
  ASSUME FilesAssumption, BackupsAssumption, IInv, NEW n \in Names
  PROVE  /\ stored[n] \in Nat
         /\ held \in [version : Nat, kind : Kinds]
         /\ IsWhole(n) => stored[n] # 0 /\ stored[n] = disk[n].version
                          /\ place[n] = "file"
         /\ ~IsWhole(n) /\ IsWhole(BackupOf[n]) =>
               /\ stored[n] # 0 /\ stored[n] = disk[BackupOf[n]].version
               /\ place[n] = IF target = n /\ pc \in Replacing THEN "aside" ELSE "left"
         /\ ~IsWhole(n) /\ ~IsWhole(BackupOf[n]) => stored[n] = 0 /\ place[n] = "file"
BY Backup DEF stored, place, held, Place, IInv, TypeOK, DiskOK

LEMMA ChangedAt ==
  ASSUME NEW S, NEW F, NEW G, NEW n \in S,
         F = [m \in S |-> F[m]], G = [m \in S |-> G[m]],
         \A m \in S \ {n} : G[m] = F[m]
  PROVE  G = [F EXCEPT ![n] = G[n]]
OBVIOUS

(* When only the files of one name change, the rest stays for the others.  *)
LEMMA OnlyAt ==
  ASSUME FilesAssumption, BackupsAssumption, IInv, IInv',
         NEW n \in Names, target = n, target' = n,
         \A f \in Files \ {n, BackupOf[n]} : disk'[f] = disk[f]
  PROVE  /\ stored' = [stored EXCEPT ![n] = stored'[n]]
         /\ place' = [place EXCEPT ![n] = place'[n]]
<1>1. ASSUME NEW m \in Names, m # n
      PROVE  stored'[m] = stored[m] /\ place'[m] = place[m]
  <2>1. disk'[m] = disk[m] /\ disk'[BackupOf[m]] = disk[BackupOf[m]]
    BY <1>1, Backup DEF BackupsAssumption
  <2> QED BY <2>1, <1>1 DEF stored, place, Place
<1>2. /\ stored = [m \in Names |-> stored[m]] /\ stored' = [m \in Names |-> stored'[m]]
      /\ place = [m \in Names |-> place[m]] /\ place' = [m \in Names |-> place'[m]]
  BY DEF stored, place
<1>3. stored' = [stored EXCEPT ![n] = stored'[n]]
  <2> HIDE DEF StoredVersion
  <2> QED BY <1>1, <1>2, ChangedAt
<1>4. place' = [place EXCEPT ![n] = place'[n]] BY <1>1, <1>2, ChangedAt
<1> QED BY <1>3, <1>4

LEMMA OutsideMapped ==
  ASSUME FilesAssumption, BackupsAssumption, IInv, IInv',
         \/ \E kind \in Kinds : Create(kind)
         \/ Edit \/ Revert \/ Crash \/ Save
         \/ \E f \in Files : Load(f)
         \/ \E n \in Names : SaveAs(n)
  PROVE  Atomic!Change
<1>1. UNCHANGED disk /\ pc' \notin Replacing
  BY DEF Create, Edit, Revert, Crash, Save, Load, SaveAs, SaveTo
<1>2. pc \notin Replacing \/ Crash
  BY DEF Create, Edit, Revert, Save, Load, SaveAs
<1>3. stored' = stored BY <1>1 DEF stored
<1>4. held' \in [version : Nat, kind : Kinds] BY DEF held, IInv, TypeOK
<1>5. CASE pc \notin Replacing
  <2>1. place' = place BY <1>1, <1>5 DEF place, Place
  <2> QED BY <2>1, <1>3, <1>4 DEF Atomic!Change, Atomic!Kinds, stored, place, held
<1>6. CASE pc \in Replacing
  <2>1. ASSUME NEW n \in Names
        PROVE  place'[n] = IF place[n] = "aside" THEN "left" ELSE place[n]
    BY <1>1 DEF place, Place
  <2>2. place' = [n \in Names |-> IF place[n] = "aside" THEN "left" ELSE place[n]]
    BY <2>1 DEF place
  <2> QED BY <2>2, <1>3, <1>4 DEF Atomic!Change, Atomic!Kinds, stored, place, held
<1> QED BY <1>5, <1>6

LEMMA MappedNext ==
  ASSUME FilesAssumption, BackupsAssumption, IInv', NEW n \in Names
  PROVE  /\ stored'[n] \in Nat
         /\ IsWhole(n)' => stored'[n] # 0 /\ stored'[n] = disk'[n].version
                          /\ place'[n] = "file"
         /\ ~IsWhole(n)' /\ IsWhole(BackupOf[n])' =>
               /\ stored'[n] # 0 /\ stored'[n] = disk'[BackupOf[n]].version
               /\ place'[n] = IF target' = n /\ pc' \in Replacing THEN "aside" ELSE "left"
         /\ ~IsWhole(n)' /\ ~IsWhole(BackupOf[n])' => stored'[n] = 0 /\ place'[n] = "file"
BY Backup DEF stored, place, held, Place, IInv, TypeOK, DiskOK

(* A step of a save seen through the mapping: what it does to the stored   *)
(* version of its target is one of the actions of AtomicSave, or nothing.  *)
Acts(n) == \/ Atomic!SetAside(n) \/ Atomic!PutBack(n) \/ Atomic!Complete(n)
           \/ Atomic!Discard(n) \/ Atomic!Truncate(n) \/ Atomic!Change
           \/ UNCHANGED Atomic!vars

LEMMA SaveStepMapped ==
  ASSUME FilesAssumption, BackupsAssumption, "close" \notin Faults,
         IInv, IInv', SaveStep
  PROVE  Acts(target)
<1> DEFINE n == target
           B == BackupOf[target]
<1>0. pc # "idle" /\ n \in Names /\ mem.version # 0 /\ target' = n
  BY DEF SaveStep, UnlinkOldBackup, SetAside, OpenStream, WriteStack, CloseStream,
         Finish, RemoveWritten, PutBack, OpenText, WriteText, CloseText, IInv, TypeOK
<1>1. n \in Files /\ B \in Files /\ B # n BY <1>0, Backup
<1>2. /\ held' = held /\ held \in [version : Nat, kind : Kinds]
      /\ held.version = mem.version /\ held.kind = mem.kind
  BY DEF SaveStep, UnlinkOldBackup, SetAside, OpenStream, WriteStack, CloseStream,
         Finish, RemoveWritten, PutBack, OpenText, WriteText, CloseText,
         held, IInv, TypeOK
<1>3. \A f \in Files \ {n, B} : disk'[f] = disk[f]
  BY <1>1 DEF SaveStep, UnlinkOldBackup, SetAside, OpenStream, WriteStack, CloseStream,
         Finish, RemoveWritten, PutBack, OpenText, WriteText, CloseText, Unlink, Rename,
         IInv, TypeOK
<1>4. /\ stored' = [stored EXCEPT ![n] = stored'[n]]
      /\ place' = [place EXCEPT ![n] = place'[n]]
  BY <1>0, <1>3, OnlyAt
<1>5. /\ stored = [m \in Names |-> stored[m]]
      /\ place = [m \in Names |-> place[m]]
  BY DEF stored, place
<1>6. /\ stored'[n] = stored[n] => stored' = stored
      /\ place'[n] = place[n] => place' = place
  BY <1>4, <1>5, <1>0
<1> USE <1>0, <1>1
<1> HIDE DEF StoredVersion, Place
<1>7. ASSUME stored'[n] = stored[n], place'[n] = place[n]
      PROVE  Acts(n)
  BY <1>2, <1>6, <1>7 DEF Acts, Atomic!vars, stored, place, held
<1>8. ASSUME place[n] = "left", stored'[n] = 0, place'[n] = "file"
      PROVE  Acts(n)
  <2>1. Atomic!Discard(n) BY <1>2, <1>4, <1>8 DEF Atomic!Discard, stored, place, held
  <2> QED BY <2>1 DEF Acts
<1>9. ASSUME \/ stored[n] # 0 /\ place[n] = "file"
             \/ place[n] = "left",
             stored'[n] = stored[n], place'[n] = "aside"
      PROVE  Acts(n)
  <2>1. Atomic!SetAside(n)
    BY <1>2, <1>4, <1>6, <1>9 DEF Atomic!SetAside, Atomic!Moves, stored, place, held
  <2> QED BY <2>1 DEF Acts
<1>10. ASSUME place[n] = "aside", stored'[n] = stored[n], place'[n] = "file"
       PROVE  Acts(n)
  <2>1. Atomic!PutBack(n)
    BY <1>2, <1>4, <1>6, <1>10 DEF Atomic!PutBack, Atomic!Moves, stored, place, held
  <2> QED BY <2>1 DEF Acts
<1>11. ASSUME stored'[n] = mem.version, place'[n] = "file"
       PROVE  Acts(n)
  <2>1. Atomic!Complete(n)
    BY <1>2, <1>4, <1>11 DEF Atomic!Complete, stored, place, held
  <2> QED BY <2>1 DEF Acts
<1>12. ASSUME mem.kind = "script", place[n] = "file", stored'[n] \in Nat,
              place'[n] = IF stored'[n] = 0 THEN "file" ELSE "left"
       PROVE  Acts(n)
  <2>1. Atomic!Truncate(n)
    BY <1>2, <1>4, <1>12 DEF Atomic!Truncate, stored, place, held
  <2> QED BY <2>1 DEF Acts
<1>13. ASSUME place[n] = "aside", stored'[n] = stored[n], place'[n] = "left"
       PROVE  Acts(n)
  <2>1. \A m \in Names \ {n} : place[m] # "aside" BY DEF place, Place
  <2>2. place' = [m \in Names |-> IF place[m] = "aside" THEN "left" ELSE place[m]]
    BY <2>1, <1>4, <1>5, <1>13
  <2>3. Atomic!Change
    BY <2>2, <1>2, <1>6, <1>13 DEF Atomic!Change, Atomic!Kinds, stored, place, held
  <2> QED BY <2>3 DEF Acts
<1> HIDE DEF Acts
<1> USE Mapped, MappedNext
<1>14. CASE UnlinkOldBackup
  <2>1. /\ disk'[n] = disk[n] /\ disk'[B] \in {disk[B], Absent}
        /\ pc' = "aside" /\ pc = "unlink"
    BY <1>14, Unlinked DEF UnlinkOldBackup
  <2> QED BY <2>1, <1>7, <1>8
<1>15. CASE SetAside
  <2>1. /\ pc = "aside"
        /\ \/ disk'[n] = disk[n] /\ disk'[B] = disk[B] /\ pc' = "open" /\ ~IsWhole(n)
           \/ disk'[n] = Absent /\ disk'[B] = disk[n] /\ pc' = "open"
           \/ disk'[n] = disk[n] /\ disk'[B] = disk[B] /\ pc' = "idle"
    BY <1>15, Renamed DEF SetAside
  <2> QED BY <2>1, <1>7, <1>8, <1>9
<1>16. CASE OpenStream
  <2>1. /\ pc = "open" /\ ~IsWhole(n) /\ ~IsWhole(n)' /\ disk'[B] = disk[B]
        /\ pc' \in Replacing
    BY <1>16 DEF OpenStream, IInv, NewFile, TypeOK
  <2> QED BY <2>1, <1>7
<1>17. CASE WriteStack
  <2>1. /\ pc = "write" /\ ~IsWhole(n) /\ disk'[n] \in {disk[n], Whole}
        /\ disk'[B] = disk[B] /\ pc' \in Replacing
    BY <1>17 DEF WriteStack, IInv, NewFile, TypeOK
  <2> QED BY <2>1, <1>7, <1>11
<1>18. CASE CloseStream
  <2>1. /\ disk'[n] = Whole /\ disk'[B] = disk[B]
    BY <1>18 DEF CloseStream, IInv, TypeOK
  <2> QED BY <2>1, <1>11
<1>19. CASE Finish
  <2>1. disk[n] = Whole /\ disk'[n] = Whole
    BY <1>19, Unlinked DEF Finish, IInv, NewFile
  <2> QED BY <2>1, <1>7
<1>20. CASE RemoveWritten
  <2>1. /\ pc = "remove" /\ pc' = "putback" /\ ~IsWhole(n) /\ ~IsWhole(n)'
        /\ disk'[B] = disk[B]
    BY <1>20, Unlinked DEF RemoveWritten, IInv, NewFile
  <2> QED BY <2>1, <1>7
<1>21. CASE PutBack
  <2>1. /\ pc = "putback" /\ pc' = "idle" /\ ~IsWhole(n)
        /\ \/ disk'[n] = disk[B] /\ disk'[B] = Absent
           \/ disk'[n] = disk[n] /\ disk'[B] = disk[B]
    BY <1>21, Renamed DEF PutBack, IInv, NewFile
  <2> QED BY <2>1, <1>7, <1>10, <1>13
<1>22. CASE OpenText
  <2>1. /\ pc = "opentext" /\ pc' \in {"idle", "writetext"} /\ mem.kind = "script"
        /\ disk'[B] = disk[B]
        /\ \/ disk'[n] = disk[n]
           \/ ~IsWhole(n)'
    BY <1>22 DEF OpenText, IInv, KindOK, TypeOK
  <2> QED BY <2>1, <1>7, <1>12
<1>23. CASE WriteText
  <2>1. /\ pc = "writetext" /\ pc' \in {"idle", "closetext"} /\ ~IsWhole(n)
        /\ disk'[n] \in {disk[n], Whole} /\ disk'[B] = disk[B]
    BY <1>23 DEF WriteText, IInv, NewFile, TypeOK
  <2> QED BY <2>1, <1>7, <1>11
<1>24. CASE CloseText
  <2>1. /\ disk'[n] = Whole /\ disk'[B] = disk[B]
    BY <1>24 DEF CloseText, IInv, TypeOK
  <2> QED BY <2>1, <1>11
<1> QED BY <1>14, <1>15, <1>16, <1>17, <1>18, <1>19, <1>20, <1>21, <1>22, <1>23, <1>24
           DEF SaveStep

-----------------------------------------------------------------------------
(* The theorems.  They leave out the failure of fclose, after which the    *)
(* properties do not hold.                                                 *)

LEMMA Invariant ==
  ASSUME FilesAssumption, BackupsAssumption, "close" \notin Faults
  PROVE  Spec => []IInv
<1>1. Init => IInv BY Initially
<1>2. IInv /\ [Next]_vars => IInv'
  <2> SUFFICES ASSUME IInv, [Next]_vars PROVE IInv' OBVIOUS
  <2>1. CASE Next
    BY <2>1, Outside, Begins, SaveSteps DEF Next
  <2>2. CASE UNCHANGED vars
    BY <2>2 DEF vars, IInv, TypeOK, KindOK, DiskOK, OldKept, NewFile, SaidOK,
                SavedIsOnDisk, FailedSaveKeepsFile
  <2> QED BY <2>1, <2>2
<1> QED BY <1>1, <1>2, PTL DEF Spec

(* Every variable keeps its type, and a save that runs has a file to write *)
(* and a stack to write to it.                                             *)
THEOREM TypeCorrect ==
  ASSUME FilesAssumption, BackupsAssumption, "close" \notin Faults
  PROVE  Spec => []TypeOK
<1>1. IInv => TypeOK BY DEF IInv
<1> QED BY <1>1, Invariant, PTL

(* A save that answers nothing has left the whole stack in its file.       *)
THEOREM SaveIsOnDisk ==
  ASSUME FilesAssumption, BackupsAssumption, "close" \notin Faults
  PROVE  Spec => []SavedIsOnDisk
<1>1. IInv => SavedIsOnDisk BY DEF IInv
<1> QED BY <1>1, Invariant, PTL

(* A save that answers with an error has left the old file, or its backup. *)
THEOREM FailureKeepsFile ==
  ASSUME FilesAssumption, BackupsAssumption, "close" \notin Faults
  PROVE  Spec => []FailedSaveKeepsFile
<1>1. IInv => FailedSaveKeepsFile BY DEF IInv
<1> QED BY <1>1, Invariant, PTL

(* Saving implements AtomicSave, whatever else fails and wherever the      *)
(* process stops.                                                          *)
THEOREM ImplementsAtomicSave ==
  ASSUME FilesAssumption, BackupsAssumption, "close" \notin Faults
  PROVE  Spec => SavesAtomically
<1>1. Init => Atomic!Init
  BY Backup DEF Init, Atomic!Init, Place
<1>2. ASSUME IInv, IInv', [Next]_vars
      PROVE  [Atomic!Next]_(Atomic!vars)
  <2>1. CASE SaveStep
    <3>1. target \in Names
      BY <1>2, <2>1 DEF SaveStep, UnlinkOldBackup, SetAside, OpenStream, WriteStack,
         CloseStream, Finish, RemoveWritten, PutBack, OpenText, WriteText, CloseText,
         IInv, TypeOK
    <3>2. Acts(target) BY <1>2, <2>1, SaveStepMapped
    <3> HIDE DEF StoredVersion, Place
    <3> QED
      BY <3>1, <3>2 DEF Acts, Atomic!Next, Atomic!SetAside, Atomic!Moves,
         Atomic!PutBack, Atomic!Complete, Atomic!Discard, Atomic!Truncate
  <2>2. CASE UNCHANGED vars
    <3>1. Atomic!vars' = Atomic!vars BY <2>2 DEF vars, Atomic!vars, Place
    <3> QED BY <3>1
  <2>3. CASE Next /\ ~SaveStep
    BY <1>2, <2>3, OutsideMapped DEF Next, Atomic!Next
  <2> QED BY <1>2, <2>1, <2>2, <2>3
<1> QED BY <1>1, <1>2, Invariant, PTL DEF Spec, SavesAtomically, Atomic!Spec
=============================================================================
