------------------------- MODULE SetupInstallProofs -------------------------
(***************************************************************************)
(* Theorems about the files of the setup command, for any number of setup  *)
(* threads and restarts.                                                   *)
(***************************************************************************)
EXTENDS SetupInstall, TLAPS

\* Going to a label keeps pc a function into the labels.
LEMMA GotoType ==
    ASSUME TypeOK, NEW j \in Jobs, NEW label \in Labels, Goto(j, label)
    PROVE  /\ pc' \in [Jobs -> Labels]
           /\ pc'[j] = label
           /\ \A k \in Jobs \ {j} : pc'[k] = pc[k]
    BY DEF TypeOK, Goto

\* The labels Goto is given.
LEMMA LabelTable ==
    {"idle", "marker", "yaml", "backup", "mkdir", "open", "download",
     "extract", "extracting", "unforked", "unknown", "mark", "ok",
     "failed"} \subseteq Labels
    BY DEF Labels, Over

LEMMA DisplacedType ==
    ASSUME TypeOK, NEW j \in Jobs, Displaced(j)
    PROVE  here' \in [Jobs -> BOOLEAN]
<1>1. here' = [k \in Jobs |-> k = j /\ here[k]]
    BY DEF Displaced
<1>2. \A k \in Jobs : (k = j /\ here[k]) \in BOOLEAN
    OBVIOUS
<1> QED BY <1>1, <1>2, Zenon

\* The directory keeps its type when it is made or loses its archive.
LEMMA EnsuredType ==
    ASSUME TypeOK
    PROVE  /\ Ensured \in Contents
           /\ Ensured.mine = (Exists /\ dir.mine)
           /\ Exists => Ensured = dir
           /\ ~Exists => Ensured = Empty
    BY AbsentAssumption DEF TypeOK, Ensured, Exists, Contents, Empty

LEMMA DiscardedType ==
    ASSUME TypeOK
    PROVE  /\ Discarded \in Contents \cup {Absent}
           /\ Exists <=> Discarded # Absent
           /\ Exists => /\ Discarded.mine = dir.mine
                        /\ Discarded.ice = dir.ice
                        /\ Discarded.marker = dir.marker
    BY AbsentAssumption DEF TypeOK, Discarded, Exists, Contents

\* What an unzip may leave has the marker and the user's schemas as they were.
LEMMA ExtractionsType ==
    ASSUME TypeOK, NEW j \in Jobs, NEW ok \in BOOLEAN,
           NEW d \in Extractions(j, ok)
    PROVE  /\ d \in Contents \cup {Absent}
           /\ Exists <=> d # Absent
           /\ Exists => /\ d.mine = dir.mine /\ d.marker = dir.marker
                        /\ here[j] => d.ice = IF ok THEN "whole" ELSE dir.ice
<1>1. CASE ~Exists
    BY <1>1, AbsentAssumption DEF Extractions, Exists
<1>2. CASE Exists
  <2>1. PICK i \in {dir.ice, "whole"} :
            /\ d = [Discarded EXCEPT !.ice = i]
            /\ here[j] => i = IF ok THEN "whole" ELSE dir.ice
      BY <1>2 DEF Extractions
  <2>2. Discarded \in Contents /\ dir.ice \in {"none", "part", "whole"}
      BY <1>2, DiscardedType DEF TypeOK, Contents, Exists
  <2>3. i \in {"none", "part", "whole"}
      BY <2>2
  <2>4. d \in Contents /\ d.mine = Discarded.mine
        /\ d.marker = Discarded.marker /\ d.ice = i
      BY <2>1, <2>2, <2>3 DEF Contents
  <2>5. d # Absent
      BY <2>4, AbsentAssumption
  <2> QED BY <1>2, <2>1, <2>4, <2>5, DiscardedType
<1> QED BY <1>1, <1>2

LEMMA BeganType ==
    ASSUME TypeOK, Exists,
           NEW d, d = [dir EXCEPT !.ice = "part", !.mine = FALSE]
    PROVE  /\ d \in Contents /\ d # Absent
           /\ d.marker = dir.marker /\ d.ice = "part"
    BY AbsentAssumption DEF TypeOK, Exists, Contents

LEMMA FinishedType ==
    ASSUME TypeOK, Exists, NEW d, d = [dir EXCEPT !.ice = "whole"]
    PROVE  /\ d \in Contents /\ d # Absent
           /\ d.mine = dir.mine /\ d.marker = dir.marker
    BY AbsentAssumption DEF TypeOK, Exists, Contents

LEMMA VerdictType ==
    ASSUME NEW ok \in BOOLEAN
    PROVE  /\ Verdict(ok) \in Labels /\ Verdict(ok) \in {"mark", "failed"}
           /\ Verdict(ok) = "mark" => ok
    BY LabelTable DEF Verdict, OnFailure

LEMMA MarkedType ==
    ASSUME TypeOK, Exists, NEW d, d = [dir EXCEPT !.marker = TRUE]
    PROVE  /\ d \in Contents /\ d # Absent
           /\ d.mine = dir.mine /\ d.ice = dir.ice
    BY AbsentAssumption DEF TypeOK, Exists, Contents

\* What librime, the user and a restart leave in the directory.
LEMMA WrittenType ==
    ASSUME TypeOK, NEW d, \/ d = [Ensured EXCEPT !.librime = TRUE]
                          \/ d = [Ensured EXCEPT !.mine = TRUE]
    PROVE  /\ d \in Contents /\ d # Absent
           /\ Exists /\ dir.mine => d.mine
           /\ Exists => d.ice = dir.ice /\ d.marker = dir.marker
           /\ ~Exists => ~d.marker
<1>1. Ensured \in Contents /\ (~Exists => ~Ensured.marker)
    BY EnsuredType DEF Empty
<1>2. d \in Contents /\ d.ice = Ensured.ice /\ d.marker = Ensured.marker
      /\ (Ensured.mine => d.mine)
    BY <1>1 DEF Contents
<1> QED BY <1>1, <1>2, EnsuredType, AbsentAssumption

-----------------------------------------------------------------------------
(* The type invariant.                                                     *)

LEMMA StepType == ASSUME TypeOK, NEW j \in Jobs, Step(j) PROVE TypeOK'
<1>1. CASE CheckMarker(j)
    BY <1>1, GotoType, LabelTable DEF CheckMarker, TypeOK, files, history
<1>2. CASE LookForSchemas(j)
    BY <1>2, GotoType, LabelTable DEF LookForSchemas, TypeOK, files, history
<1>3. CASE BackUp(j)
  <2>1. here' \in [Jobs -> BOOLEAN]
      BY <1>3, DisplacedType DEF BackUp, TypeOK
  <2> QED BY <2>1, <1>3, GotoType, LabelTable DEF BackUp, TypeOK, history
<1>4. CASE MakeDir(j)
    BY <1>4, GotoType, LabelTable, EnsuredType DEF MakeDir, TypeOK, history
<1>5. CASE OpenArchive(j)
    BY <1>5, GotoType, LabelTable DEF OpenArchive, TypeOK, Exists, Contents,
        history
<1>6. CASE Download(j)
  <2>1. here' \in [Jobs -> BOOLEAN]
      BY <1>6, DisplacedType DEF Download, TypeOK
  <2> QED BY <2>1, <1>6, GotoType, LabelTable, DiscardedType
      DEF Download, TypeOK, Exists, Contents, history
<1>7. CASE Extract(j)
  <2>1. here' \in [Jobs -> BOOLEAN]
      BY <1>7, DisplacedType DEF Extract, TypeOK
  <2> QED BY <2>1, <1>7, GotoType, LabelTable, DiscardedType
      DEF Extract, TypeOK, Exists, Contents, history
<1>8. CASE Extracted(j)
  <2>1. PICK ok \in BOOLEAN :
            dir' \in Extractions(j, ok) /\ Goto(j, Verdict(ok))
      BY <1>8 DEF Extracted
  <2>2. here' \in [Jobs -> BOOLEAN]
      BY <1>8, DisplacedType DEF Extracted
  <2>3. pc' \in [Jobs -> Labels] /\ dir' \in Contents \cup {Absent}
      BY <2>1, VerdictType, GotoType, ExtractionsType
  <2> QED BY <2>2, <2>3, <1>8 DEF Extracted, TypeOK, history
<1>9. CASE Mark(j)
    BY <1>9, GotoType, LabelTable DEF Mark, TypeOK, Exists, Contents, history
<1>10. CASE WaitAny(j)
  <2>1. CASE Goto(j, "unknown") /\ UNCHANGED <<dir, here>>
      BY <1>10, <2>1, GotoType, LabelTable DEF WaitAny, TypeOK, history
  <2>2. CASE \E k \in Jobs, ok \in BOOLEAN :
               /\ dir' \in Extractions(k, ok)
               /\ pc' = [pc EXCEPT ![j] = Verdict(ok), ![k] = "unknown"]
               /\ Displaced(j)
    <3>1. PICK k \in Jobs, ok \in BOOLEAN :
               /\ dir' \in Extractions(k, ok)
               /\ pc' = [pc EXCEPT ![j] = Verdict(ok), ![k] = "unknown"]
               /\ Displaced(j)
        BY <2>2
    <3>2. Verdict(ok) \in Labels /\ "unknown" \in Labels
        BY VerdictType, LabelTable
    <3>3. pc' \in [Jobs -> Labels]
        BY <3>1, <3>2 DEF TypeOK
    <3>4. dir' \in Contents \cup {Absent} /\ here' \in [Jobs -> BOOLEAN]
        BY <3>1, ExtractionsType, DisplacedType
    <3> QED BY <3>3, <3>4, <1>10 DEF WaitAny, TypeOK, history
  <2> QED BY <1>10, <2>1, <2>2 DEF WaitAny
<1>11. CASE StatusUnknown(j)
  <2>1. here' \in [Jobs -> BOOLEAN]
      BY <1>11, DisplacedType DEF StatusUnknown
  <2>2. misread' \in BOOLEAN
      BY <1>11 DEF StatusUnknown, TypeOK
  <2> QED BY <2>1, <2>2, <1>11, GotoType, LabelTable, DiscardedType
      DEF StatusUnknown, TypeOK
<1> QED BY <1>1, <1>2, <1>3, <1>4, <1>5, <1>6, <1>7, <1>8, <1>9, <1>10, <1>11
    DEF Step

LEMMA NextType == ASSUME TypeOK, [Next]_vars PROVE TypeOK'
<1>1. ASSUME NEW j \in Jobs, Start(j) PROVE TypeOK'
  <2>1. (overlapped \/ orphan \/ \E k \in Jobs : pc[k] \notin Over) \in BOOLEAN
      OBVIOUS
  <2>2. overlapped' \in BOOLEAN
      BY <1>1, <2>1, Zenon DEF Start
  <2>3. /\ dir' = Ensured /\ Goto(j, "marker")
        /\ UNCHANGED <<recent, older, here, orphan, restarts, had, misread>>
      BY <1>1, Zenon DEF Start
  <2> QED BY <2>2, <2>3, GotoType, LabelTable, EnsuredType DEF TypeOK
<1>2. CASE Tick
  <2>1. (older \/ recent = "mine") \in BOOLEAN
      OBVIOUS
  <2>2. older' \in BOOLEAN
      BY <1>2, <2>1, Zenon DEF Tick
  <2>3. recent' = "none"
        /\ UNCHANGED <<dir, pc, here, orphan, restarts, had, overlapped, misread>>
      BY <1>2, Zenon DEF Tick, history
  <2> QED BY <2>2, <2>3 DEF TypeOK
<1>3. CASE LibrimeWrites
    BY <1>3, EnsuredType DEF LibrimeWrites, TypeOK, Contents, history
<1>4. CASE UserSaves
    BY <1>4, EnsuredType DEF UserSaves, TypeOK, Contents
<1>5. CASE Restart
  <2>1. "idle" \in Labels
      BY LabelTable
  <2>2. pc' \in [Jobs -> Labels] /\ here' \in [Jobs -> BOOLEAN]
      BY <1>5, <2>1 DEF Restart
  <2>3. dir' \in Contents
      BY <1>5, EnsuredType DEF Restart, Contents
  <2>4. orphan' \in BOOLEAN
    <3>1. Unzipping \in BOOLEAN
        BY DEF Unzipping, TypeOK
    <3> QED BY <1>5, <3>1, Zenon DEF Restart
  <2>5. /\ restarts' = restarts + 1
        /\ UNCHANGED <<recent, older, had, overlapped, misread>>
      BY <1>5, Zenon DEF Restart, history
  <2> QED BY <2>2, <2>3, <2>4, <2>5 DEF TypeOK
<1>6. CASE UNCHANGED vars
    BY <1>6 DEF vars, files, history, TypeOK
<1>7. CASE UnzipWrites
    BY <1>7, BeganType DEF UnzipWrites, TypeOK, history
<1>8. CASE OrphanEnds
    BY <1>8, FinishedType DEF OrphanEnds, TypeOK, history
<1> QED BY <1>1, <1>2, <1>3, <1>4, <1>5, <1>6, <1>7, <1>8, StepType DEF Next

\* Every variable keeps its type (the state of rime_setup.c and of the disk).
THEOREM TypeCorrect == Spec => []TypeOK
<1>1. Init => TypeOK
  <2> SUFFICES ASSUME Init PROVE TypeOK
      OBVIOUS
  <2>1. PICK mine \in BOOLEAN :
            dir = [Empty EXCEPT !.mine = mine, !.librime = TRUE] /\ had = mine
      BY DEF Init
  <2>2. dir \in Contents
      BY <2>1 DEF Contents, Empty
  <2>3. had \in BOOLEAN
      BY <2>1
  <2>4. "idle" \in Labels
      BY LabelTable
  <2>5. pc \in [Jobs -> Labels] /\ here \in [Jobs -> BOOLEAN]
      BY <2>4 DEF Init
  <2> QED BY <2>2, <2>3, <2>5 DEF Init, TypeOK
<1> QED BY <1>1, NextType, PTL DEF Spec

\* Where waitpid(-1) leads.
LEMMA WaitAnyMoves ==
    ASSUME TypeOK, NEW j \in Jobs, WaitAny(j)
    PROVE  /\ pc'[j] \in {"unknown", "mark", "failed"}
           /\ \A k \in Jobs \ {j} : pc'[k] = pc[k] \/ pc'[k] = "unknown"
<1>1. CASE Goto(j, "unknown")
    BY <1>1, GotoType, LabelTable
<1>2. CASE \E k \in Jobs, ok \in BOOLEAN :
               pc' = [pc EXCEPT ![j] = Verdict(ok), ![k] = "unknown"]
    BY <1>2, VerdictType DEF TypeOK
<1> QED BY <1>1, <1>2 DEF WaitAny

\* What a step of j does to the rest: only the job whose child it waited for
\* goes on, without a status.
LEMMA StepOthers ==
    ASSUME TypeOK, NEW j \in Jobs, Step(j)
    PROVE  /\ \A k \in Jobs \ {j} : pc'[k] = pc[k] \/ pc'[k] = "unknown"
           /\ UNCHANGED <<orphan, had, overlapped>>
<1>1. CASE WaitAny(j)
    BY <1>1, WaitAnyMoves DEF WaitAny, history
<1>2. CASE ~WaitAny(j)
    BY <1>2, GotoType DEF Step, CheckMarker, LookForSchemas, BackUp, MakeDir,
       OpenArchive, Download, Extract, Extracted, StatusUnknown, Mark, Goto,
       history, TypeOK
<1> QED BY <1>1, <1>2

-----------------------------------------------------------------------------
(* The user's schemas.                                                     *)

\* They can be overwritten only from these labels on, where the directory has
\* none: the job found none, or moved the directory away, and the user does
\* not save any while a setup runs.
Overwriting == {"mkdir", "open", "download", "extract", "extracting"}
KeptInv ==
    /\ SchemasKept
    /\ \A j \in Jobs : pc[j] \in Overwriting => ~(Exists /\ dir.mine)
    /\ orphan => ~(Exists /\ dir.mine)

LEMMA NextKept == ASSUME TypeOK, KeptInv, [Next]_vars PROVE KeptInv'
<1> USE DEF KeptInv
<1>1. ASSUME NEW j \in Jobs, Start(j) PROVE KeptInv'
  <2>1. /\ dir' = Ensured /\ Goto(j, "marker")
        /\ UNCHANGED <<recent, older, here, orphan, restarts, had, misread>>
      BY <1>1, Zenon DEF Start
  <2> QED BY <2>1, EnsuredType, GotoType, LabelTable, AbsentAssumption
      DEF SchemasKept, Exists, Overwriting
<1>2. ASSUME NEW j \in Jobs, Step(j) PROVE KeptInv'
  <2>0. /\ \A k \in Jobs \ {j} : pc'[k] = pc[k] \/ pc'[k] = "unknown"
        /\ orphan' = orphan /\ had' = had
      BY <1>2, StepOthers DEF history
  <2>1. CASE CheckMarker(j)
      BY <2>0, <2>1, GotoType, LabelTable
      DEF CheckMarker, files, SchemasKept, Exists, Overwriting
  <2>2. CASE LookForSchemas(j)
      BY <2>0, <2>2, GotoType, LabelTable
      DEF LookForSchemas, HasYaml, files, SchemasKept, Exists, Overwriting
  <2>3. CASE BackUp(j)
      BY <2>0, <2>3, GotoType, LabelTable, AbsentAssumption
      DEF BackUp, NameTaken, SchemasKept, Exists, Overwriting
  <2>4. CASE MakeDir(j)
      BY <2>0, <2>4, GotoType, LabelTable, EnsuredType, AbsentAssumption
      DEF MakeDir, SchemasKept, Exists, Overwriting
  <2>5. CASE OpenArchive(j)
      BY <2>0, <2>5, GotoType, LabelTable, AbsentAssumption
      DEF OpenArchive, TypeOK, Contents, SchemasKept, Exists, Overwriting
  <2>6. CASE Download(j)
      BY <2>0, <2>6, GotoType, LabelTable, DiscardedType, AbsentAssumption
      DEF Download, TypeOK, Contents, SchemasKept, Exists, Overwriting
  <2>7. CASE Extract(j)
    <3>1. Exists /\ dir.mine => dir' # Absent /\ dir'.mine
        BY <2>7, DiscardedType DEF Extract, Exists, Overwriting
    <3>2. ~(Exists /\ dir.mine)
        BY <2>7 DEF Extract, Overwriting
    <3>3. dir' # Absent => ~dir'.mine
        BY <2>7, <3>2, DiscardedType, AbsentAssumption
        DEF Extract, TypeOK, Contents, Exists
    <3> QED BY <2>0, <2>7, <3>2, <3>3 DEF Extract, SchemasKept, Exists
  <2>8. CASE Extracted(j)
    <3>1. PICK ok \in BOOLEAN :
              dir' \in Extractions(j, ok) /\ Goto(j, Verdict(ok))
        BY <2>8 DEF Extracted
    <3>2. /\ dir' # Absent <=> dir # Absent
          /\ dir # Absent => dir'.mine = dir.mine
        BY <3>1, ExtractionsType DEF Exists
    <3>3. pc'[j] \notin Overwriting
        BY <3>1, VerdictType, GotoType DEF Overwriting
    <3> QED BY <2>0, <2>8, <3>2, <3>3
        DEF Extracted, SchemasKept, Exists, Overwriting
  <2>9. CASE Mark(j)
      BY <2>0, <2>9, GotoType, LabelTable, MarkedType
      DEF Mark, SchemasKept, Exists, Overwriting
  <2>10. CASE WaitAny(j)
    <3>1. /\ dir' # Absent <=> dir # Absent
          /\ dir # Absent => dir'.mine = dir.mine
        BY <2>10, ExtractionsType DEF WaitAny, Exists
    <3>2. pc'[j] \notin Overwriting
        BY <2>10, WaitAnyMoves DEF Overwriting
    <3> QED BY <2>0, <2>10, <3>1, <3>2
        DEF WaitAny, SchemasKept, Exists, Overwriting
  <2>11. CASE StatusUnknown(j)
    <3>1. pc'[j] \notin Overwriting
        BY <2>11, GotoType, LabelTable DEF StatusUnknown, Overwriting
    <3> QED BY <2>0, <2>11, <3>1, DiscardedType
        DEF StatusUnknown, SchemasKept, Exists, Overwriting
  <2> QED BY <1>2, <2>1, <2>2, <2>3, <2>4, <2>5, <2>6, <2>7, <2>8, <2>9,
      <2>10, <2>11 DEF Step
<1>3. CASE Tick
  <2>1. older' = (older \/ recent = "mine") /\ recent' = "none"
        /\ UNCHANGED <<dir, pc, orphan, had>>
      BY <1>3, Zenon DEF Tick, history
  <2>2. older \/ recent = "mine" => older'
      BY <2>1, Zenon
  <2> QED BY <2>1, <2>2 DEF SchemasKept, Exists, Overwriting
<1>4. CASE LibrimeWrites
  <2>1. dir' # Absent /\ (Exists /\ dir.mine => dir'.mine)
      BY <1>4, WrittenType DEF LibrimeWrites
  <2>2. ~(Exists /\ dir.mine) => ~dir'.mine
      BY <1>4, EnsuredType DEF LibrimeWrites, Contents, Empty
  <2> QED BY <1>4, <2>1, <2>2 DEF LibrimeWrites, SchemasKept, Exists, history
<1>5. CASE UserSaves
    BY <1>5, EnsuredType, AbsentAssumption
    DEF UserSaves, Contents, SchemasKept, Exists, Overwriting, Over
<1>6. CASE Restart
  <2>1. orphan' => ~(Exists /\ dir.mine)
    <3>1. orphan' = Unzipping
        BY <1>6, Zenon DEF Restart
    <3> QED BY <3>1 DEF Unzipping, Overwriting
  <2>2. /\ dir' = [Ensured EXCEPT !.librime = TRUE]
        /\ UNCHANGED <<recent, older, had>>
        /\ \A j \in Jobs : pc'[j] = "idle"
      BY <1>6 DEF Restart, history
  <2>3. /\ dir' # Absent /\ (Exists /\ dir.mine => dir'.mine)
        /\ ~(Exists /\ dir.mine) => ~dir'.mine
    <3>1. ~(Exists /\ dir.mine) => ~dir'.mine
        BY <2>2, EnsuredType DEF Contents, Empty
    <3> QED BY <2>2, <3>1, WrittenType
  <2> QED BY <2>1, <2>2, <2>3 DEF SchemasKept, Exists, Overwriting
<1>7. CASE UNCHANGED vars
    BY <1>7 DEF vars, files, history, SchemasKept, Exists
<1>8. CASE UnzipWrites
  <2>1. ~(Exists /\ dir.mine) /\ Exists
      BY <1>8 DEF UnzipWrites, Unzipping, Overwriting
  <2>2. dir' # Absent /\ ~dir'.mine
      BY <1>8, <2>1, BeganType DEF UnzipWrites, TypeOK, Contents, Exists
  <2> QED BY <1>8, <2>1, <2>2 DEF UnzipWrites, SchemasKept, Exists, history
<1>9. CASE OrphanEnds
  <2>1. /\ Exists <=> dir' # Absent
        /\ Exists => dir'.mine = dir.mine
      BY <1>9, FinishedType DEF OrphanEnds, Exists
  <2> QED BY <1>9, <2>1 DEF OrphanEnds, SchemasKept, Exists, history
<1> QED BY <1>1, <1>2, <1>3, <1>4, <1>5, <1>6, <1>7, <1>8, <1>9 DEF Next

\* The user's schemas survive every interruption, repetition and overlap of
\* setups (rime_setup.c:115-121).
THEOREM SchemasAreKept == Spec => []SchemasKept
<1>1. ASSUME Init PROVE KeptInv
  <2>1. PICK mine \in BOOLEAN :
            dir = [Empty EXCEPT !.mine = mine, !.librime = TRUE] /\ had = mine
      BY <1>1 DEF Init
  <2>2. dir \in Contents /\ dir.mine = mine
      BY <2>1 DEF Contents, Empty
  <2> QED BY <1>1, <2>1, <2>2, AbsentAssumption
      DEF Init, KeptInv, SchemasKept, Exists, Overwriting
<1>2. KeptInv => SchemasKept
    BY DEF KeptInv
<1> QED BY <1>1, <1>2, TypeCorrect, NextKept, PTL DEF Spec

-----------------------------------------------------------------------------
(* The marker.                                                             *)

Working == {"yaml", "backup", "mkdir", "open", "download", "extract",
            "extracting", "unforked", "unknown", "mark"}

\* As long as no two jobs overlapped there is at most one, and none beside an
\* unzip that outlived its process; it works only while there is no marker,
\* on the directory the path names, and unless it misread a status comes to
\* the marker with all of rime-ice there.
AloneInv ==
    ~overlapped =>
        /\ \A j, k \in Jobs : pc[j] \notin Over /\ pc[k] \notin Over => j = k
        /\ orphan => ~Installed /\ \A j \in Jobs : pc[j] \in Over
        /\ \A j \in Jobs :
             /\ pc[j] \in Working => ~Installed
             /\ pc[j] = "extracting" => Exists /\ here[j]
             /\ pc[j] = "mark" /\ ~misread => Exists /\ dir.ice = "whole"
        /\ Installed /\ ~misread => dir.ice = "whole"

LEMMA NextAlone == ASSUME TypeOK, AloneInv, [Next]_vars PROVE AloneInv'
<1> USE DEF AloneInv
<1> SUFFICES ASSUME ~overlapped' PROVE AloneInv'
    OBVIOUS
<1>1. ASSUME NEW j \in Jobs, Start(j) PROVE AloneInv'
  <2>1. /\ dir' = Ensured /\ Goto(j, "marker")
        /\ UNCHANGED <<recent, older, here, orphan, restarts, had, misread>>
      BY <1>1, Zenon DEF Start
  <2>2. ~overlapped /\ ~orphan /\ \A k \in Jobs : pc[k] \in Over
      BY <1>1, Zenon DEF Start
  <2> QED BY <2>1, <2>2, EnsuredType, GotoType, LabelTable, AbsentAssumption
      DEF Over, Working, Installed, Exists, Empty
<1>2. ASSUME NEW j \in Jobs, Step(j) PROVE AloneInv'
  <2>0. overlapped' = overlapped /\ orphan' = orphan
      BY <1>2, StepOthers
  <2>1. pc[j] \notin Over
      BY <1>2 DEF Step, CheckMarker, LookForSchemas, BackUp, MakeDir,
         OpenArchive, Download, Extract, Extracted, WaitAny, StatusUnknown,
         Mark, Over
  <2>2. ~orphan /\ \A k \in Jobs \ {j} : pc[k] \in Over
      BY <2>0, <2>1
  <2>3. \A k \in Jobs \ {j} : pc'[k] = pc[k]
    <3>1. CASE WaitAny(j)
      <4>1. \A k \in Jobs : pc[k] # "extracting"
          BY <2>2, <3>1 DEF WaitAny, Over
      <4> QED BY <3>1, <4>1, GotoType, LabelTable DEF WaitAny
    <3>2. CASE ~WaitAny(j)
        BY <1>2, <3>2, GotoType DEF Step, CheckMarker, LookForSchemas, BackUp,
           MakeDir, OpenArchive, Download, Extract, Extracted, StatusUnknown,
           Mark, Goto, TypeOK
    <3> QED BY <3>1, <3>2
  <2>4. \A k \in Jobs \ {j} : /\ pc'[k] \in Over /\ pc'[k] \notin Working
                             /\ pc'[k] # "extracting" /\ pc'[k] # "mark"
      BY <2>2, <2>3 DEF Over, Working
  <2>5. SUFFICES
            /\ pc'[j] \in Working => ~Installed'
            /\ pc'[j] = "extracting" => Exists' /\ here'[j]
            /\ pc'[j] = "mark" /\ ~misread' => Exists' /\ dir'.ice = "whole"
            /\ Installed' /\ ~misread' => dir'.ice = "whole"
      BY <2>0, <2>2, <2>4
  <2> USE <2>0 DEF Working
  <2>6. CASE CheckMarker(j)
      BY <2>6, GotoType, LabelTable
      DEF CheckMarker, files, history, Installed, Exists
  <2>7. CASE LookForSchemas(j)
      BY <2>7, GotoType, LabelTable
      DEF LookForSchemas, files, history, Installed, Exists
  <2>8. CASE BackUp(j)
      BY <2>8, GotoType, LabelTable DEF BackUp, history, Installed, Exists
  <2>9. CASE MakeDir(j)
      BY <2>9, GotoType, LabelTable, EnsuredType
      DEF MakeDir, history, Installed, Exists, Empty
  <2>10. CASE OpenArchive(j)
      BY <2>10, GotoType, LabelTable
      DEF OpenArchive, history, TypeOK, Contents, Installed, Exists
  <2>11. CASE Download(j)
      BY <2>11, GotoType, LabelTable, DiscardedType
      DEF Download, history, TypeOK, Contents, Installed, Exists
  <2>12. CASE Extract(j)
      BY <2>12, GotoType, LabelTable, DiscardedType, BeganType
      DEF Extract, history, TypeOK, Installed, Exists
  <2>13. CASE Extracted(j)
    <3>1. PICK ok \in BOOLEAN :
              dir' \in Extractions(j, ok) /\ Goto(j, Verdict(ok))
        BY <2>13 DEF Extracted
    <3>2. /\ pc'[j] \in {"mark", "failed"} /\ (pc'[j] = "mark" => ok)
          /\ misread' = misread
        BY <2>13, <3>1, VerdictType, GotoType DEF Extracted, history
    <3>3. Exists /\ here[j] /\ ~Installed
        BY <2>13 DEF Extracted
    <3>4. /\ dir' # Absent /\ ~dir'.marker
          /\ dir'.ice = IF ok THEN "whole" ELSE dir.ice
        BY <3>1, <3>3, ExtractionsType DEF Installed, Exists
    <3> QED BY <3>2, <3>4 DEF Installed, Exists
  <2>14. CASE WaitAny(j)
    <3>1. \A k \in Jobs : pc[k] # "extracting"
        BY <2>2, <2>14 DEF WaitAny, Over
    <3> QED BY <2>14, <3>1, GotoType, LabelTable
        DEF WaitAny, history, Installed, Exists
  <2>15. CASE StatusUnknown(j)
      BY <2>15, GotoType, LabelTable, DiscardedType
      DEF StatusUnknown, Installed, Exists
  <2>16. CASE Mark(j)
      BY <2>16, GotoType, LabelTable, MarkedType
      DEF Mark, history, Installed, Exists
  <2> QED BY <1>2, <2>6, <2>7, <2>8, <2>9, <2>10, <2>11, <2>12, <2>13, <2>14,
      <2>15, <2>16 DEF Step
<1>3. CASE Tick
    BY <1>3 DEF Tick, history, Installed, Exists
<1>4. CASE LibrimeWrites
    BY <1>4, WrittenType DEF LibrimeWrites, history, Installed, Exists
<1>5. CASE UserSaves
    BY <1>5, WrittenType DEF UserSaves, Installed, Exists, Over, Working
<1>6. CASE Restart
  <2>1. orphan' => ~Installed
    <3>1. orphan' = Unzipping /\ overlapped' = overlapped
        BY <1>6, Zenon DEF Restart, history
    <3> QED BY <3>1 DEF Unzipping, Working
  <2>2. \A j \in Jobs : /\ pc'[j] \in Over /\ pc'[j] \notin Working
                       /\ pc'[j] # "extracting" /\ pc'[j] # "mark"
      BY <1>6 DEF Restart, Over, Working
  <2>3. /\ dir' # Absent /\ (Exists => dir'.ice = dir.ice
                                       /\ dir'.marker = dir.marker)
        /\ ~Exists => ~dir'.marker
      BY <1>6, WrittenType DEF Restart
  <2>4. overlapped' = overlapped /\ misread' = misread
      BY <1>6 DEF Restart, history
  <2> QED BY <2>1, <2>2, <2>3, <2>4 DEF Installed, Exists
<1>7. CASE UNCHANGED vars
    BY <1>7 DEF vars, files, history, Installed, Exists
<1>8. CASE UnzipWrites
  <2>1. /\ overlapped' = overlapped /\ misread' = misread /\ orphan' = orphan
        /\ pc' = pc /\ here' = here
      BY <1>8 DEF UnzipWrites, history
  <2>2. ~Installed /\ \A j \in Jobs : pc[j] # "mark"
      BY <1>8, <2>1 DEF UnzipWrites, Unzipping, Over, Working
  <2>3. dir' # Absent /\ dir'.marker = dir.marker
      BY <1>8, BeganType DEF UnzipWrites
  <2>4. ~Installed'
      BY <1>8, <2>2, <2>3 DEF UnzipWrites, Installed, Exists
  <2> QED BY <2>1, <2>2, <2>3, <2>4 DEF Exists
<1>9. CASE OrphanEnds
  <2>1. /\ overlapped' = overlapped /\ misread' = misread
        /\ pc' = pc /\ here' = here /\ orphan /\ ~orphan'
      BY <1>9 DEF OrphanEnds, history
  <2>2. ~Installed /\ \A j \in Jobs : pc[j] \in Over
      BY <2>1
  <2>3. \A j \in Jobs : /\ pc'[j] \notin Working /\ pc'[j] # "extracting"
                       /\ pc'[j] # "mark"
      BY <2>1, <2>2 DEF Over, Working
  <2>4. ~Installed'
      BY <1>9, <2>2, FinishedType DEF OrphanEnds, Installed, Exists
  <2> QED BY <2>1, <2>2, <2>3, <2>4
<1> QED BY <1>1, <1>2, <1>3, <1>4, <1>5, <1>6, <1>7, <1>8, <1>9 DEF Next

LEMMA InitAlone == Init => AloneInv
    BY AbsentAssumption
    DEF Init, AloneInv, Installed, Exists, Contents, Empty, Over, Working

\* Unless setups overlapped or a status was misread, the marker stands for all
\* of rime-ice (rime_setup.c:108-113).
THEOREM MarkerIsAlwaysTrue == Spec => []MarkerIsTrue
<1>1. AloneInv => MarkerIsTrue
    BY DEF AloneInv, MarkerIsTrue
<1> QED BY <1>1, InitAlone, TypeCorrect, NextAlone, PTL DEF Spec

\* With the same exceptions, TYPIO_OK means that rime-ice is in the directory.
THEOREM SuccessIsAlwaysInstalled == Spec => SuccessIsInstalled
<1>1. ASSUME TypeOK, AloneInv, [Next]_vars, NEW j \in Jobs,
             pc[j] # "ok", pc'[j] = "ok", ~overlapped, ~misread
      PROVE  dir' # Absent /\ dir'.ice = "whole"
  <2>1. CASE CheckMarker(j)
      BY <1>1, <2>1, GotoType, LabelTable
      DEF CheckMarker, files, AloneInv, Installed, Exists
  <2>2. CASE Mark(j)
      BY <1>1, <2>2, AbsentAssumption
      DEF Mark, AloneInv, TypeOK, Contents, Exists
  <2>3. CheckMarker(j) \/ Mark(j)
    <3>1. ASSUME NEW k \in Jobs, Step(k) PROVE k = j
        BY <1>1, <3>1, StepOthers
    <3>2. CASE Step(j)
      <4>1. ~Extracted(j)
          BY <1>1, VerdictType, GotoType DEF Extracted
      <4>2. ~WaitAny(j)
          BY <1>1, WaitAnyMoves
      <4>3. ~StatusUnknown(j) /\ ~Extract(j) /\ ~Download(j)
          BY <1>1, GotoType, LabelTable DEF StatusUnknown, Extract, Download
      <4>4. ~LookForSchemas(j) /\ ~BackUp(j) /\ ~MakeDir(j) /\ ~OpenArchive(j)
          BY <1>1, GotoType, LabelTable
          DEF LookForSchemas, BackUp, MakeDir, OpenArchive
      <4> QED BY <3>2, <4>1, <4>2, <4>3, <4>4 DEF Step
    <3>3. \A k \in Jobs : ~Start(k)
        BY <1>1, GotoType, LabelTable DEF Start
    <3>4. \E k \in Jobs : Step(k)
        BY <1>1, <3>3 DEF Next, vars, UnzipWrites, OrphanEnds, Tick,
           LibrimeWrites, UserSaves, Restart
    <3> QED BY <3>1, <3>2, <3>4
  <2> QED BY <2>1, <2>2, <2>3
<1>2. TypeOK /\ AloneInv /\ [Next]_vars =>
      [\A j \in Jobs : pc[j] # "ok" /\ pc'[j] = "ok"
                      /\ ~overlapped /\ ~misread =>
           dir' # Absent /\ dir'.ice = "whole"]_vars
    BY <1>1
<1> QED BY <1>2, InitAlone, TypeCorrect, NextAlone, PTL
    DEF Spec, SuccessIsInstalled

=============================================================================
