---------------------------- MODULE SelfUpdate ----------------------------
(***************************************************************************)
(* astral update (commands/update_cmd.cpp) and replaceExecutable           *)
(* (platform/self_update.cpp): several executions of the command, started  *)
(* at any time from whatever `astral` is then, each of which may crash     *)
(* between two file operations, on each of the three platforms.            *)
(*                                                                         *)
(* A file is named by the execution that extracted it, or is Installed.    *)
(* What it contains matters only as far as its archive was intact.         *)
(***************************************************************************)
EXTENDS FiniteSets

CONSTANTS
    Proc,       \* executions of astral update
    Installed,  \* the executable the install script left
    Nothing     \* no file

ASSUME NamesAssumption ==
    /\ Installed \notin Proc
    /\ Nothing \notin Proc \cup {Installed}

VARIABLES
    platform,
    target,     \* the file at .../astral
    backup,     \* the file at .../astral.old
    astray,     \* the file at ".../astral (deleted)"
    pc,
    image,      \* image[p]: the file p executes
    path,       \* path[p]: what currentExecutable() answered
    archive,    \* archive[p]: what p downloaded
    accident    \* history: somebody died or gave up between the two moves

files == <<target, backup, astray>>
locals == <<image, path, archive>>
vars == <<platform, files, pc, locals, accident>>

File == Proc \cup {Installed}
Over == {"unstarted", "installed", "failed", "dead"}
Busy == {"lookup", "download", "verify", "install", "moveIn", "rollback"}

\* Only Windows leaves a backup, only Linux misleads about the path.
TypeOK ==
    /\ platform \in {"linux", "macos", "windows"}
    /\ target \in File \cup {Nothing}
    /\ backup \in File \cup {Nothing} /\ (platform # "windows" => backup = Nothing)
    /\ astray \in Proc \cup {Nothing} /\ (platform # "linux" => astray = Nothing)
    /\ pc \in [Proc -> Over \cup Busy]
    /\ image \in [Proc -> File \cup {Nothing}]
    /\ path \in [Proc -> {"target"} \cup IF platform = "linux" THEN {"deleted"} ELSE {}]
    /\ archive \in [Proc -> {"none", "intact", "altered"}]
    /\ accident \in BOOLEAN

Init ==
    /\ platform \in {"linux", "macos", "windows"}
    /\ target = Installed /\ backup = Nothing /\ astray = Nothing
    /\ pc = [p \in Proc |-> "unstarted"]
    /\ image = [p \in Proc |-> Nothing]
    /\ path = [p \in Proc |-> "target"]
    /\ archive = [p \in Proc |-> "none"]
    /\ accident = FALSE

-----------------------------------------------------------------------------
(***************************************************************************)
(* The operating system                                                    *)
(***************************************************************************)

Goes(p, phase) == pc' = [pc EXCEPT ![p] = phase]

Executes(p, f) == pc[p] \in Busy /\ image[p] = f

\* Windows neither deletes nor overwrites a file that is being executed; it
\* does rename it.
Locked(f) == platform = "windows" /\ \E p \in Proc : Executes(p, f)

\* /proc/self/exe of an execution whose file was overwritten reads
\* "<path> (deleted)"; the other platforms answer the path it started from.
OwnPath(p) ==
    IF platform = "linux" /\ target # image[p] THEN "deleted" ELSE "target"

\* The user starts the command, if there is one.
Start(p) ==
    /\ pc[p] = "unstarted"
    /\ target # Nothing
    /\ Goes(p, "lookup")
    /\ image' = [image EXCEPT ![p] = target]
    /\ UNCHANGED <<platform, files, path, archive, accident>>

Crash(p) ==
    /\ pc[p] \in Busy
    /\ Goes(p, "dead")
    /\ accident' = (accident \/ pc[p] \in {"moveIn", "rollback"})
    /\ UNCHANGED <<platform, files, locals>>

-----------------------------------------------------------------------------
(***************************************************************************)
(* From the release lookup to a verified executable                        *)
(***************************************************************************)

\* cleanupStaleUpdateFiles: errors are ignored, so the file may stay.
CleansUp ==
    \/ UNCHANGED backup
    \/ ~Locked(backup) /\ backup' = Nothing

\* The release is known and is another version: currentExecutable, clean-up
\* and the guard, which both paths of a managed directory pass.
Located(p) ==
    /\ pc[p] = "lookup"
    /\ path' = [path EXCEPT ![p] = OwnPath(p)]
    /\ CleansUp
    /\ Goes(p, "download")
    /\ UNCHANGED <<platform, target, astray, image, archive, accident>>

\* Archive and checksums are on disk.  They may disagree: re-published
\* between the two requests, altered on the way, or a write that failed at
\* the file.close() nobody checks.
Downloaded(p) ==
    /\ pc[p] = "download"
    /\ \E got \in {"intact", "altered"} : archive' = [archive EXCEPT ![p] = got]
    /\ Goes(p, "verify")
    /\ UNCHANGED <<platform, files, image, path, accident>>

\* Mutant: an entry for the archive is enough.
HasEntry(p) == archive[p] # "none"

ChecksumAgrees(p) == archive[p] = "intact"

\* The executable is extracted into the work directory.
Extracted(p) ==
    /\ pc[p] = "verify"
    /\ ChecksumAgrees(p)
    /\ Goes(p, "install")
    /\ UNCHANGED <<platform, files, locals, accident>>

\* Any error so far, "up to date" and --check, and a replaceExecutable whose
\* first operation fails: nothing has changed, the work directory goes.
GivesUp(p) ==
    /\ pc[p] \in {"lookup", "download", "verify", "install"}
    /\ Goes(p, "failed")
    /\ UNCHANGED <<platform, files, locals, accident>>

-----------------------------------------------------------------------------
(***************************************************************************)
(* replaceExecutable                                                       *)
(***************************************************************************)

\* Mutant: the old file is removed before the new one is renamed.
RemovesFirst(p) ==
    /\ backup' = backup /\ astray' = astray
    /\ IF target # Nothing
       THEN target' = Nothing /\ Goes(p, "install")
       ELSE target' = p /\ Goes(p, "installed")

\* rename over whatever the path names.
RenamesOver(p) ==
    /\ IF path[p] = "target"
       THEN target' = p /\ astray' = astray
       ELSE target' = target /\ astray' = p
    /\ backup' = backup
    /\ Goes(p, "installed")

InstallPosix(p) ==
    /\ pc[p] = "install" /\ platform # "windows"
    /\ RenamesOver(p)
    /\ UNCHANGED <<platform, locals, accident>>

\* target -> target.old, overwriting an older backup
MovesAway(p) ==
    /\ pc[p] = "install" /\ platform = "windows"
    /\ target # Nothing /\ ~Locked(backup)
    /\ backup' = target /\ target' = Nothing
    /\ Goes(p, "moveIn")
    /\ UNCHANGED <<platform, astray, locals, accident>>

\* replacement -> target
MovesIn(p) ==
    /\ pc[p] = "moveIn"
    /\ target = Nothing \/ ~Locked(target)
    /\ target' = p
    /\ Goes(p, "installed")
    /\ UNCHANGED <<platform, backup, astray, locals, accident>>

\* Mutant: the error is returned at once.
ReturnsError(p) ==
    /\ pc[p] = "moveIn"
    /\ Goes(p, "failed")
    /\ UNCHANGED <<platform, files, locals, accident>>

MoveInFails(p) ==
    /\ pc[p] = "moveIn"
    /\ Goes(p, "rollback")
    /\ UNCHANGED <<platform, files, locals, accident>>

\* target.old -> target
RollsBack(p) ==
    /\ pc[p] = "rollback"
    /\ backup # Nothing
    /\ target = Nothing \/ ~Locked(target)
    /\ target' = backup /\ backup' = Nothing
    /\ Goes(p, "failed")
    /\ UNCHANGED <<platform, astray, locals, accident>>

\* Best effort: the result is not looked at.
RollbackFails(p) ==
    /\ pc[p] = "rollback"
    /\ Goes(p, "failed")
    /\ accident' = TRUE
    /\ UNCHANGED <<platform, files, locals>>

-----------------------------------------------------------------------------
Step(p) ==
    \/ Start(p)
    \/ Crash(p)
    \/ Located(p)
    \/ Downloaded(p)
    \/ Extracted(p)
    \/ GivesUp(p)
    \/ InstallPosix(p)
    \/ MovesAway(p)
    \/ MovesIn(p)
    \/ MoveInFails(p)
    \/ RollsBack(p)
    \/ RollbackFails(p)

Next == \E p \in Proc : Step(p)

Spec == Init /\ [][Next]_vars

-----------------------------------------------------------------------------
(***************************************************************************)
(* Properties                                                              *)
(***************************************************************************)

\* However many updates run, fail and crash, an executable is left: in its
\* place, or on Windows at least under the name it was moved to.  Nobody's
\* clean-up or second move takes away the last one.
ExecutableSurvives ==
    target # Nothing \/ (platform = "windows" /\ backup # Nothing)

\* The command is missing only in the moment between the two moves, unless
\* the process died there or could not move the old file back: a failed
\* update by itself leaves the command usable.
MissingHasCause ==
    target = Nothing => accident \/ \E p \in Proc : pc[p] \in {"moveIn", "rollback"}

\* Whatever is installed, under any name, came from an archive that agreed
\* with its checksum.
OnlyVerified ==
    \A p \in Proc \cap {target, backup, astray} : archive[p] = "intact"

\* README.md:76: "astral update v0.2.1" installs that version.  An update
\* that reports success has put its executable where `astral` is.
InstallsWhatItReports ==
    [][\A p \in Proc : pc[p] # "installed" /\ pc'[p] = "installed" => target' = p]_vars
=============================================================================
