------------------------------ MODULE SaveStack ------------------------------
(***************************************************************************)
(* Saving a stack to its file and reading it back: MCDispatch::savestack,  *)
(* dosavestack, dosavescriptonlystack and cleanup (dispatch.cpp), the      *)
(* loaders that decide whether a file is whole, `revert', and the file     *)
(* operations they use on Linux (sysspec.cpp, dsklnx.cpp).                 *)
(*                                                                         *)
(* A save of an ordinary stack renames the file to its backup, the name    *)
(* with "~" after it, writes the file anew and removes the backup; if it   *)
(* fails it removes what it wrote and renames the backup back.  The        *)
(* process may stop between any two calls to the file system, and any call *)
(* may fail: the kinds of failure an instance allows are in Faults.  What  *)
(* is on the disk survives; what is in memory or in a stream does not.     *)
(* A power failure, which may lose what the system has not written out     *)
(* yet, is left out: the code asks for nothing that would prevent it.      *)
(***************************************************************************)
EXTENDS Naturals

CONSTANTS Files,        \* the names of files
          Names,        \* the files stacks are saved to
          BackupOf,     \* the name with "~" after it
          NoFile,       \* the empty file name
          Faults,       \* the calls that may fail, and "crash"
          MaxVersions   \* bound: versions of stacks made in one behaviour

AllFaults == {"perm", "unlink", "rename", "open", "write", "close", "crash"}

ASSUME FilesAssumption == /\ NoFile \notin Files
                          /\ Names \subseteq Files
                          /\ BackupOf \in [Names -> Files]
ASSUME BackupsAssumption ==
    /\ \A n \in Names : BackupOf[n] \notin Names
    /\ \A n, m \in Names : BackupOf[n] = BackupOf[m] => n = m
ASSUME BoundsAssumption == /\ Faults \subseteq AllFaults
                           /\ MaxVersions \in Nat

VARIABLES
    disk,       \* what each file holds
    mem,        \* the stack in memory: version (0: none), kind, file name
    pc,         \* the next call of the save that runs, "idle" when none does
    target,     \* linkname, the file the save writes
    said,       \* how the last save ended for the script that asked for it
    before,     \* what the target held when the last save began
    versions    \* versions made so far

vars == <<disk, mem, pc, target, said, before, versions>>

Kinds == {"binary", "script"}

Contents == [state : {"absent", "torn", "whole"}, version : Nat, kind : Kinds]

Absent == [state |-> "absent", version |-> 0, kind |-> "binary"]

(* What a stream of the stack in memory leaves in the file: nothing a      *)
(* loader accepts until its last byte is written out.                      *)
Torn == [state |-> "torn", version |-> mem.version, kind |-> mem.kind]
Whole == [state |-> "whole", version |-> mem.version, kind |-> mem.kind]

IsWhole(f) == disk[f].state = "whole"
Exists(f) == disk[f].state # "absent"

NoStack == [version |-> 0, kind |-> "binary", file |-> NoFile]

Steps == {"idle", "unlink", "aside", "open", "write", "close", "finish",
          "remove", "putback", "opentext", "writetext", "closetext"}

TypeOK == /\ disk \in [Files -> Contents]
          /\ mem \in [version : Nat, kind : Kinds, file : Files \union {NoFile}]
          /\ pc \in Steps
          /\ target \in Names \union {NoFile}
          /\ said \in {"none", "saved", "failed"}
          /\ before \in Contents
          /\ versions \in Nat
          /\ pc # "idle" => target \in Names /\ mem.version # 0

-----------------------------------------------------------------------------

Init == /\ disk = [f \in Files |-> Absent]
        /\ mem = NoStack
        /\ pc = "idle" /\ target = NoFile /\ said = "none"
        /\ before = Absent
        /\ versions = 0

(* MCS_unlink: the answer is not looked at.                                *)
Unlink(f) == \/ disk' = [disk EXCEPT ![f] = Absent]
             \/ "unlink" \in Faults /\ UNCHANGED disk

(* rename(2): there is a file at the old name, one at the new name goes.   *)
Rename(old, new) == disk' = [disk EXCEPT ![new] = disk[old], ![old] = Absent]

Says(answer) == said' = answer

Goes(step) == pc' = step /\ UNCHANGED <<mem, target, before, versions>>

Fails(step) == Says("failed") /\ Goes(step)

-----------------------------------------------------------------------------
(* Outside a save.                                                         *)

(* A new stack of either kind.                                             *)
Create(kind) == /\ pc = "idle" /\ mem.version = 0 /\ versions < MaxVersions
                /\ versions' = versions + 1
                /\ mem' = [version |-> versions', kind |-> kind, file |-> NoFile]
                /\ Says("none")
                /\ UNCHANGED <<disk, pc, target, before>>

Edit == /\ pc = "idle" /\ mem.version # 0 /\ versions < MaxVersions
        /\ versions' = versions + 1
        /\ mem' = [mem EXCEPT !.version = versions']
        /\ Says("none")
        /\ UNCHANGED <<disk, pc, target, before>>

(* loadfile: a binary stack is taken only if it is read up to OT_END.  The *)
(* text of a script-only stack has no end mark: one that was cut short is  *)
(* a stack like any other, of a version nobody made.                       *)
LoadsAs(f) ==
    \/ /\ IsWhole(f)
       /\ mem' = [version |-> disk[f].version, kind |-> disk[f].kind, file |-> f]
       /\ UNCHANGED versions
    \/ /\ disk[f].state = "torn" /\ disk[f].kind = "script"
       /\ versions < MaxVersions
       /\ versions' = versions + 1
       /\ mem' = [version |-> versions', kind |-> "script", file |-> f]

Load(f) == /\ pc = "idle" /\ mem.version = 0
           /\ LoadsAs(f)
           /\ Says("none")
           /\ UNCHANGED <<disk, pc, target, before>>

(* The stack is deleted before its file is read: if the file cannot be     *)
(* loaded (a torn script may also lack its first line), nothing is left    *)
(* in memory.                                                              *)
Revert == /\ pc = "idle" /\ mem.version # 0 /\ mem.file # NoFile
          /\ \/ LoadsAs(mem.file)
             \/ /\ ~IsWhole(mem.file)
                /\ mem' = NoStack
                /\ UNCHANGED versions
          /\ Says("none")
          /\ UNCHANGED <<disk, pc, target, before>>

(* The process stops, at any point.  What its stream had not written out   *)
(* is lost with it.                                                        *)
Crash == /\ "crash" \in Faults
         /\ mem.version # 0
         /\ mem' = NoStack
         /\ pc' = "idle" /\ target' = NoFile /\ Says("none")
         /\ before' = Absent
         /\ UNCHANGED <<disk, versions>>

-----------------------------------------------------------------------------
(* MCDispatch::savestack: the file to write, and the checks before any     *)
(* file is touched.  A stack that was opened from a backup is saved under  *)
(* another name: `save' without a name would make a backup of the backup.  *)

(* A slip: `save as' takes the name the stack already has.                 *)
SaveToOwnName(f) ==
    /\ target' = mem.file /\ before' = disk[f]
    /\ pc' = IF mem.kind = "script" THEN "opentext" ELSE "unlink"
    /\ Says("none")
    /\ UNCHANGED <<disk, mem, versions>>

SaveTo(f) == /\ target' = f /\ before' = disk[f]
             /\ \/ /\ pc' = IF mem.kind = "script" THEN "opentext" ELSE "unlink"
                   /\ Says("none")
                \/ /\ "perm" \in Faults
                   /\ pc' = "idle" /\ Says("failed")
             /\ UNCHANGED <<disk, mem, versions>>

SaveAs(n) == /\ pc = "idle" /\ mem.version # 0
             /\ SaveTo(n)

Save == /\ pc = "idle" /\ mem.version # 0
        /\ \/ mem.file \in Names /\ SaveTo(mem.file)
           \/ /\ mem.file = NoFile
              /\ target' = NoFile /\ before' = Absent /\ Says("failed")
              /\ UNCHANGED <<disk, mem, pc, versions>>

-----------------------------------------------------------------------------
(* MCDispatch::dosavestack.                                                *)

UnlinkOldBackup == /\ pc = "unlink"
                   /\ Unlink(BackupOf[target])
                   /\ UNCHANGED said /\ Goes("aside")

(* A slip: the file is not renamed before it is written over.              *)
NotSetAside == pc = "aside" /\ UNCHANGED <<disk, said>> /\ Goes("open")

SetAside ==
    /\ pc = "aside"
    /\ \/ /\ ~Exists(target)
          /\ UNCHANGED <<disk, said>> /\ Goes("open")
       \/ /\ Exists(target)
          /\ Rename(target, BackupOf[target])
          /\ UNCHANGED said /\ Goes("open")
       \/ /\ Exists(target) /\ "rename" \in Faults
          /\ UNCHANGED disk /\ Fails("idle")

OpenStream == /\ pc = "open"
              /\ \/ /\ disk' = [disk EXCEPT ![target] = Torn]
                    /\ UNCHANGED said /\ Goes("write")
                 \/ /\ "open" \in Faults
                    /\ UNCHANGED disk /\ Fails("remove")

(* All the writes, into the buffer of a stream that empties itself into    *)
(* the file when it is full: the last bytes may or may not be in the file. *)
(* A slip: the backup goes before the stream is closed.                    *)
WriteUnclosed == /\ pc = "write"
                 /\ UNCHANGED <<disk, said>>
                 /\ Goes("finish")

WriteStack == /\ pc = "write"
              /\ \/ /\ disk' \in {disk, [disk EXCEPT ![target] = Whole]}
                    /\ UNCHANGED said /\ Goes("close")
                 \/ /\ "write" \in Faults
                    /\ UNCHANGED disk /\ Fails("remove")

(* MCStdioFileHandle::Close does not look at what fclose answers: if it    *)
(* could not write the last bytes, the save goes on and removes the backup *)
(* of the file it has left torn.  Every promise below is for Faults        *)
(* without "close".                                                        *)
CloseStream == /\ pc = "close"
               /\ \/ disk' = [disk EXCEPT ![target] = Whole]
                  \/ "close" \in Faults /\ UNCHANGED disk
               /\ UNCHANGED said /\ Goes("finish")

Finish == /\ pc = "finish"
          /\ mem' = [mem EXCEPT !.file = target]
          /\ Unlink(BackupOf[target])
          /\ pc' = "idle" /\ Says("saved")
          /\ UNCHANGED <<target, before, versions>>

(* MCDispatch::cleanup: what was written goes, the backup comes back.      *)
(* A slip: the cleanup removes the backup.                                 *)
RemoveBackup == /\ pc = "remove"
                /\ Unlink(BackupOf[target])
                /\ UNCHANGED said /\ Goes("putback")

RemoveWritten == /\ pc = "remove"
                 /\ Unlink(target)
                 /\ UNCHANGED said /\ Goes("putback")

PutBack == /\ pc = "putback"
           /\ \/ Exists(BackupOf[target]) /\ Rename(BackupOf[target], target)
              \/ ~Exists(BackupOf[target]) /\ UNCHANGED disk
              \/ "rename" \in Faults /\ UNCHANGED disk
           /\ UNCHANGED said /\ Goes("idle")

-----------------------------------------------------------------------------
(* MCDispatch::dosavescriptonlystack: no backup, the file is emptied by    *)
(* the open.                                                               *)

OpenText == /\ pc = "opentext"
            /\ \/ /\ disk' = [disk EXCEPT ![target] = Torn]
                  /\ UNCHANGED said /\ Goes("writetext")
               \/ /\ "open" \in Faults
                  /\ UNCHANGED disk /\ Fails("idle")

WriteText == /\ pc = "writetext"
             /\ \/ /\ disk' \in {disk, [disk EXCEPT ![target] = Whole]}
                   /\ UNCHANGED said /\ Goes("closetext")
                \/ /\ "write" \in Faults
                   /\ UNCHANGED disk /\ Fails("idle")

CloseText == /\ pc = "closetext"
             /\ \/ disk' = [disk EXCEPT ![target] = Whole]
                \/ "close" \in Faults /\ UNCHANGED disk
             /\ mem' = [mem EXCEPT !.file = target]
             /\ pc' = "idle" /\ Says("saved")
             /\ UNCHANGED <<target, before, versions>>

-----------------------------------------------------------------------------

SaveStep == \/ UnlinkOldBackup \/ SetAside \/ OpenStream \/ WriteStack
            \/ CloseStream \/ Finish \/ RemoveWritten \/ PutBack
            \/ OpenText \/ WriteText \/ CloseText

Next == \/ \E kind \in Kinds : Create(kind)
        \/ Edit \/ Revert \/ Crash \/ Save
        \/ \E f \in Files : Load(f)
        \/ \E n \in Names : SaveAs(n)
        \/ SaveStep

Spec == Init /\ [][Next]_vars

-----------------------------------------------------------------------------
(* Properties.                                                             *)

(* docs/dictionary/command/save.lcdoc: the result is empty only if the     *)
(* stack was saved.  The file then holds the whole of the version in       *)
(* memory, and the stack has that file's name, so that a later `save' or   *)
(* `revert' uses it.                                                       *)
SavedIsOnDisk ==
    pc = "idle" /\ said = "saved" =>
        /\ target \in Names /\ mem.file = target
        /\ disk[target] = Whole

(* A save of an ordinary stack that was answered with an error leaves the  *)
(* file as it was; when taking it back failed too, the backup is the file  *)
(* as it was and nothing whole hides it.  Several calls of the save and of *)
(* its cleanup may have failed on the way.                                 *)
FailedSaveKeepsFile ==
    pc = "idle" /\ said = "failed" /\ mem.kind = "binary" /\ before # Absent =>
        \/ disk[target] = before
        \/ ~IsWhole(target) /\ disk[BackupOf[target]] = before

(* What can be read for a name: the file, or else the backup that the      *)
(* loader's message speaks of.                                             *)
Replacing == {"open", "write", "close", "finish", "remove", "putback"}

ReadFrom(n) == IF IsWhole(n) THEN n ELSE BackupOf[n]

StoredVersion(n) == IF IsWhole(ReadFrom(n)) THEN disk[ReadFrom(n)].version
                                            ELSE 0

Place(n) == IF IsWhole(n) \/ ~IsWhole(BackupOf[n]) THEN "file"
            ELSE IF target = n /\ pc \in Replacing THEN "aside"
            ELSE "left"

(* Whatever fails and wherever the process stops, the version that can be  *)
(* read for a name changes as AtomicSave allows: a save over a whole file  *)
(* never loses it before the new version is whole.                         *)
Atomic == INSTANCE AtomicSave
            WITH stored <- [n \in Names |-> StoredVersion(n)],
                 place <- [n \in Names |-> Place(n)],
                 held <- [version |-> mem.version, kind |-> mem.kind]

SavesAtomically == Atomic!Spec
=============================================================================
