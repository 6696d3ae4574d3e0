---------------------------- MODULE SetupInstall ----------------------------
(***************************************************************************)
(* The files of the "setup" command: typio_rime_setup_rime_ice moves a     *)
(* user directory with schemas out of the way, downloads and extracts an   *)
(* archive and leaves a marker, on a detached thread per command.  The     *)
(* directory outlives the process, which may end between any two steps,    *)
(* and so does the unzip that extracts the archive, a process of its own;  *)
(* nothing keeps two of these threads apart.                               *)
(***************************************************************************)
EXTENDS Naturals

CONSTANTS
    Jobs,         \* the setup threads that can run at once
    Absent,       \* there is no user directory
    MaxRestarts   \* bound on the restarts of the process

VARIABLES
    dir,         \* what the user directory holds
    recent,      \* the backup whose name is that of the current second
    older,       \* does a backup of an earlier second hold the user's schemas?
    pc,          \* where each job is
    here,        \* per job: is its directory, and its open archive, still
                 \* what the path names?
    orphan,      \* does an unzip run whose process has ended?
    restarts,    \* restarts of the process so far
    had,         \* the user has saved schemas of his own (history)
    overlapped,  \* a job was started while another, or its unzip, was
                 \* running (history)
    misread      \* a status that waitpid never wrote was taken for success
                 \* (history)

files == <<dir, recent, older>>
history == <<had, overlapped, misread>>
vars == <<files, pc, here, orphan, restarts, history>>

\* Schemas of the user, of rime-ice, and what librime writes itself; the
\* archive and the marker.  A part is what an interruption leaves.
Contents == [mine : BOOLEAN, ice : {"none", "part", "whole"},
             librime : BOOLEAN, archive : {"none", "part", "whole"},
             marker : BOOLEAN]
Empty == [mine |-> FALSE, ice |-> "none", librime |-> FALSE,
          archive |-> "none", marker |-> FALSE]

ASSUME AbsentAssumption == Absent \notin Contents
ASSUME BoundAssumption == MaxRestarts \in Nat

Exists == dir # Absent

\* typio_rime_ensure_dir, when it succeeds.
Ensured == IF Exists THEN dir ELSE Empty

\* dir_has_yaml_files.
HasYaml == Exists /\ (dir.mine \/ dir.ice # "none" \/ dir.librime)

Over == {"idle", "ok", "failed"}
Labels == Over \cup {"marker", "yaml", "backup", "mkdir", "open", "download",
                     "extract", "extracting", "unforked", "unknown", "mark"}

TypeOK ==
    /\ dir \in Contents \cup {Absent}
    /\ recent \in {"none", "mine", "other"}
    /\ older \in BOOLEAN
    /\ pc \in [Jobs -> Labels]
    /\ here \in [Jobs -> BOOLEAN]
    /\ orphan \in BOOLEAN
    /\ restarts \in Nat
    /\ had \in BOOLEAN
    /\ overlapped \in BOOLEAN
    /\ misread \in BOOLEAN

\* typio_rime_init has made the directory and librime has written to it; the
\* user may have schemas there from an earlier day.
Init ==
    /\ \E mine \in BOOLEAN :
         /\ dir = [Empty EXCEPT !.mine = mine, !.librime = TRUE]
         /\ had = mine
    /\ recent = "none"
    /\ older = FALSE
    /\ pc = [j \in Jobs |-> "idle"]
    /\ here = [j \in Jobs |-> FALSE]
    /\ orphan = FALSE
    /\ restarts = 0
    /\ overlapped = FALSE
    /\ misread = FALSE

Goto(j, label) == pc' = [pc EXCEPT ![j] = label]

\* The files of the others are no longer those the path names.
Displaced(j) == here' = [k \in Jobs |-> k = j /\ here[k]]

-----------------------------------------------------------------------------
(* typio_rime_setup_rime_ice on job j.                                     *)

\* rime_invoke_command makes the directory and starts the thread.
Start(j) ==
    /\ pc[j] \in Over
    /\ Goto(j, "marker")
    /\ dir' = Ensured
    /\ overlapped' = (overlapped \/ orphan \/ \E k \in Jobs : pc[k] \notin Over)
    /\ UNCHANGED <<recent, older, here, orphan, restarts, had, misread>>

\* Already installed?
SomethingInstalled == Exists /\ dir.ice # "none"
Installed == Exists /\ dir.marker

CheckMarker(j) ==
    /\ pc[j] = "marker"
    /\ Goto(j, IF Installed THEN "ok" ELSE "yaml")
    /\ UNCHANGED <<files, here, orphan, restarts, history>>

LookForSchemas(j) ==
    /\ pc[j] = "yaml"
    /\ Goto(j, IF HasYaml THEN "backup" ELSE "mkdir")
    /\ UNCHANGED <<files, here, orphan, restarts, history>>

\* A rename onto a directory that is not empty fails; a backup's name is its
\* second.
NeverTaken == FALSE
TakenForEver == recent # "none" \/ older
NameTaken == recent # "none"

BackUp(j) ==
    /\ pc[j] = "backup"
    /\ \/ /\ Exists /\ ~NameTaken
          /\ recent' = IF dir.mine THEN "mine" ELSE "other"
          /\ dir' = Absent
          /\ Displaced(j)
          /\ Goto(j, "mkdir")
       \/ /\ Goto(j, "failed")
          /\ UNCHANGED <<dir, recent, here>>
    /\ UNCHANGED <<older, orphan, restarts, history>>

MakeDir(j) ==
    /\ pc[j] = "mkdir"
    /\ \/ dir' = Ensured /\ Goto(j, "open")
       \/ dir' = dir /\ Goto(j, "failed")
    /\ UNCHANGED <<recent, older, here, orphan, restarts, history>>

\* download_zip: fopen truncates whatever archive is there.
OpenArchive(j) ==
    /\ pc[j] = "open"
    /\ \/ /\ Exists
          /\ dir' = [dir EXCEPT !.archive = "part"]
          /\ here' = [here EXCEPT ![j] = TRUE]
          /\ Goto(j, "download")
       \/ Goto(j, "failed") /\ UNCHANGED <<dir, here>>
    /\ UNCHANGED <<recent, older, orphan, restarts, history>>

\* The transfer succeeds, though nobody looks whether the last bytes reached
\* the disk, or fails and whatever archive has that name is removed.
Discarded == IF Exists THEN [dir EXCEPT !.archive = "none"] ELSE dir

Download(j) ==
    /\ pc[j] = "download"
    /\ \/ /\ IF here[j] /\ Exists
             THEN \E a \in {"part", "whole"} :
                      dir' = [dir EXCEPT !.archive = a]
             ELSE dir' = dir
          /\ Goto(j, "extract")
          /\ UNCHANGED here
       \/ /\ dir' = Discarded
          /\ Displaced(j)
          /\ Goto(j, "failed")
    /\ UNCHANGED <<recent, older, orphan, restarts, history>>

\* extract_zip: unzip overwrites, and refuses an archive that is not whole;
\* fork may fail, and is not checked.
Extract(j) ==
    /\ pc[j] = "extract"
    /\ \/ /\ Exists /\ dir.archive = "whole"
          /\ dir' = [dir EXCEPT !.ice = "part", !.mine = FALSE]
          /\ here' = [here EXCEPT ![j] = TRUE]
          /\ Goto(j, "extracting")
       \/ /\ dir' = Discarded
          /\ Displaced(j)
          /\ Goto(j, "failed")
       \/ Goto(j, "unforked") /\ UNCHANGED <<dir, here>>
    /\ UNCHANGED <<recent, older, orphan, restarts, history>>

\* What the directory may hold when j's unzip has ended and the archive is
\* removed.  It opens each file by its path: when the directory was replaced
\* under it, only what came after, if not everything, is in the new one.
Extractions(j, ok) ==
    IF ~Exists THEN {dir}
    ELSE {[Discarded EXCEPT !.ice = i] :
              i \in IF ~here[j] THEN {dir.ice, "whole"}
                    ELSE IF ok THEN {"whole"} ELSE {dir.ice}}

\* Its exit status decides; the archive goes in both cases.
ThreadLost == "off"
AnyStatusDoes == "mark"
OnFailure == "failed"
Verdict(ok) == IF ok THEN "mark" ELSE OnFailure

Extracted(j) ==
    /\ pc[j] = "extracting"
    /\ \E ok \in BOOLEAN :
         dir' \in Extractions(j, ok) /\ Goto(j, Verdict(ok))
    /\ Displaced(j)
    /\ UNCHANGED <<recent, older, orphan, restarts, history>>

\* Without a child of its own j waits with waitpid(-1): for the unzip of any
\* other job, whose status it takes and leaves that job without, or for none.
WaitAny(j) ==
    /\ pc[j] = "unforked"
    /\ \/ /\ \A k \in Jobs : pc[k] # "extracting"
          /\ Goto(j, "unknown")
          /\ UNCHANGED <<dir, here>>
       \/ \E k \in Jobs, ok \in BOOLEAN :
            /\ pc[k] = "extracting"
            /\ dir' \in Extractions(k, ok)
            /\ pc' = [pc EXCEPT ![j] = Verdict(ok), ![k] = "unknown"]
            /\ Displaced(j)
    /\ UNCHANGED <<recent, older, orphan, restarts, history>>

\* waitpid has failed and written no status: it is whatever was on the stack.
StatusUnknown(j) ==
    /\ pc[j] = "unknown"
    /\ \/ Goto(j, "mark") /\ misread' = TRUE
       \/ Goto(j, "failed") /\ UNCHANGED misread
    /\ dir' = Discarded
    /\ Displaced(j)
    /\ UNCHANGED <<recent, older, orphan, restarts, had, overlapped>>

\* Nobody looks whether the marker could be written.
Mark(j) ==
    /\ pc[j] = "mark"
    /\ \/ Exists /\ dir' = [dir EXCEPT !.marker = TRUE]
       \/ dir' = dir
    /\ Goto(j, "ok")
    /\ UNCHANGED <<recent, older, here, orphan, restarts, history>>

Step(j) ==
    \/ CheckMarker(j) \/ LookForSchemas(j) \/ BackUp(j) \/ MakeDir(j)
    \/ OpenArchive(j) \/ Download(j)
    \/ Extract(j) \/ Extracted(j) \/ WaitAny(j) \/ StatusUnknown(j)
    \/ Mark(j)

-----------------------------------------------------------------------------
(* What else happens to the directory.                                     *)

\* An unzip writes by path, into whatever directory is there.
Unzipping == orphan \/ \E j \in Jobs : pc[j] = "extracting"

UnzipWrites ==
    /\ Unzipping /\ Exists
    /\ dir' = [dir EXCEPT !.ice = "part", !.mine = FALSE]
    /\ UNCHANGED <<recent, older, pc, here, orphan, restarts, history>>

\* One that outlived its process ends, with nobody to look at its status and
\* to remove the archive; or is killed with the process.
OrphanEnds ==
    /\ orphan /\ orphan' = FALSE
    /\ \/ Exists /\ dir' = [dir EXCEPT !.ice = "whole"]
       \/ dir' = dir
    /\ UNCHANGED <<recent, older, pc, here, restarts, history>>

\* The next second: its name is free.
Tick ==
    /\ recent # "none"
    /\ older' = (older \/ recent = "mine")
    /\ recent' = "none"
    /\ UNCHANGED <<dir, pc, here, orphan, restarts, history>>

\* librime writes YAML files of its own when it starts and when it deploys,
\* and makes the directory if it has to.
LibrimeWrites ==
    /\ dir' = [Ensured EXCEPT !.librime = TRUE]
    /\ UNCHANGED <<recent, older, pc, here, orphan, restarts, history>>

\* The user saves a schema; not while a setup or its unzip runs, which would
\* overwrite it.
UserSaves ==
    /\ ~orphan /\ \A j \in Jobs : pc[j] \in Over
    /\ dir' = [Ensured EXCEPT !.mine = TRUE]
    /\ had' = TRUE
    /\ UNCHANGED <<recent, older, pc, here, orphan, restarts, overlapped,
                   misread>>

\* The process ends, with every thread but not with their unzips, and is
\* started again.
Restart ==
    /\ restarts < MaxRestarts
    /\ restarts' = restarts + 1
    /\ orphan' = Unzipping
    /\ pc' = [j \in Jobs |-> "idle"]
    /\ here' = [j \in Jobs |-> FALSE]
    /\ dir' = [Ensured EXCEPT !.librime = TRUE]
    /\ UNCHANGED <<recent, older, history>>

Next ==
    \/ \E j \in Jobs : Start(j) \/ Step(j)
    \/ UnzipWrites \/ OrphanEnds
    \/ Tick \/ LibrimeWrites \/ UserSaves \/ Restart

\* The threads and the processes are scheduled and time passes.
Fairness == /\ WF_vars(Tick) /\ WF_vars(OrphanEnds)
            /\ \A j \in Jobs : WF_vars(Step(j))

Spec == Init /\ [][Next]_vars
FairSpec == Spec /\ Fairness

-----------------------------------------------------------------------------
(* Properties.                                                             *)

\* Schemas the user saved are in the directory or in a backup, whatever was
\* interrupted, repeated or run twice at once: what moving the directory away
\* is for (rime_setup.c:115-121).
SchemasKept == had => \/ Exists /\ dir.mine
                      \/ recent = "mine" \/ older

\* The marker is never beside a part of rime-ice, which every later setup
\* would take for the whole: as long as setups do not overlap, an unzip that
\* outlives its process included, and no status that was never written is
\* taken for success.  Every other failure and every interruption leaves
\* what the next setup repairs.
MarkerIsTrue == ~overlapped /\ ~misread /\ Installed => dir.ice = "whole"

\* A setup that returns TYPIO_OK, on which setup_thread_func selects the
\* schema rime_ice and deploys, leaves rime-ice in the directory, with the
\* same two exceptions.
SuccessIsInstalled ==
    [][\A j \in Jobs : pc[j] # "ok" /\ pc'[j] = "ok"
                       /\ ~overlapped /\ ~misread =>
           dir' # Absent /\ dir'.ice = "whole"]_vars

\* When setup says "rime-ice installed successfully" (rime_setup.c:151) it is.
SuccessIsTrue ==
    [][\A j \in Jobs : pc[j] = "mark" /\ pc'[j] = "ok" =>
           dir' # Absent /\ dir'.ice = "whole"]_vars

\* The file system, the network or the system fails a step.
Whole(d) == d # Absent /\ d.archive = "whole"

Fault(j) ==
    \/ /\ pc[j] \in {"mkdir", "open", "download", "extract", "extracting"}
       /\ pc'[j] = "failed"
    \/ pc[j] = "download" /\ pc'[j] = "extract" /\ ~Whole(dir')
    \/ pc[j] = "extract" /\ pc'[j] = "unforked"
    \/ pc[j] = "mark" /\ pc'[j] = "ok" /\ ~Installed'

\* A backup whose name is free could not be made.
BackUpFault(j) == pc[j] = "backup" /\ pc'[j] = "failed" /\ ~NameTaken

\* No interruption leaves the directory in a state from which setup cannot
\* succeed: asked again and again, once the faults end, it installs rime-ice.
SetupConverges ==
    /\ [](~overlapped /\ ~misread)
    /\ []<><<\E j \in Jobs : Start(j)>>_vars
    /\ <>[][\A j \in Jobs : ~Fault(j) /\ ~BackUpFault(j)]_vars
    => <>Installed

=============================================================================
