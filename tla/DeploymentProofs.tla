-------------------------- MODULE DeploymentProofs --------------------------
(***************************************************************************)
(* What is proved about Deployment, for every bound and every choice of    *)
(* the host's operations.  Type correctness holds with any setup threads;  *)
(* the other results are about the engine without them (Jobs = {}), the    *)
(* shipped worker: with a setup thread they are false.                     *)
(***************************************************************************)
EXTENDS Deployment, TLAPS

\* The handler and the environment change together in no step but Detach.
USE DEF settings

Labels == MainLabels \cup RunLabels \cup JobLabels

\* Going to a label keeps pc a function into the labels.
LEMMA GotoType ==
    ASSUME pc \in [Threads -> Labels], NEW t \in Threads, NEW l \in Labels,
           Goto(t, l)
    PROVE  pc' \in [Threads -> Labels]
  BY DEF Goto

\* The labels Goto is given, and the threads it is given.
LEMMA LabelTable ==
    /\ {"idle", "lookup", "ensure", "probe", "found", "foundReady", "create",
        "apply", "retry", "returned", "quiesce", "freeInstance", "freeEngine",
        "exited", "load", "store", "start", "mark", "announce", "join",
        "done", "ready", "reload", "install", "fetch", "await", "settle",
        "settled", "finish", "end", "off"} \subseteq Labels
    /\ Main \in Threads
    /\ \A j \in Jobs : j \in Threads
  BY DEF Labels, MainLabels, RunLabels, JobLabels, Threads

\* GiveUp leaves the variables it writes in their types.
LEMMA GiveUpType ==
    ASSUME TypeOK, GiveUp
    PROVE  /\ pc' \in [Threads -> Labels]
           /\ fresh' \in Sessions \cup {NoSession}
           /\ reloading' \in BOOLEAN
           /\ ret' = ret /\ session' = session
  <1>1. pc \in [Threads -> Labels]  BY DEF TypeOK, Labels
  <1>2. Goto(Main, "idle")  BY DEF GiveUp
  <1>3. "idle" \in Labels /\ Main \in Threads  BY LabelTable
  <1>4. pc' \in [Threads -> Labels]  BY <1>1, <1>2, <1>3, GotoType
  <1> QED  BY <1>4 DEF GiveUp

\* Every step of librime's thread keeps the types.
LEMMA WorkerType == ASSUME TypeOK, Worker PROVE TypeOK'
  <1>1. CASE NotifyStart
    <2>1. worker' \in {"preparing", "build"}  BY <1>1 DEF NotifyStart
    <2>2. maintenance_done' \in BOOLEAN  BY <1>1 DEF NotifyStart, TypeOK
    <2> QED  BY <1>1, <2>1, <2>2
        DEF NotifyStart, TypeOK, report, sessions, control
  <1>2. CASE NotifyPreparing
    BY <1>2 DEF NotifyPreparing, TypeOK, report, sessions, control
  <1>3. CASE Build
    <2>1. /\ worker' \in {"idle", "begin", "preparing", "build", "built",
                          "broken", "succeeded", "reported"}
          /\ queued' \in BOOLEAN
          /\ outcome' \in {"none", "success", "failure", "refused"}
      BY <1>3 DEF Build
    <2>2. build' \in BOOLEAN  BY <1>3 DEF Build, TypeOK
    <2>3. /\ UNCHANGED <<maintenance_done, availability, deploy_id>>
          /\ UNCHANGED <<handler, sync, generation, session, fresh>>
      BY <1>3 DEF Build, report, sessions
    <2>4. UNCHANGED <<pc, ret, reloading, reg>>  BY <1>3 DEF Build, control
    <2> QED  BY <2>1, <2>2, <2>3, <2>4 DEF TypeOK
  <1>4. CASE NotifyResult
    <2>1. worker' \in {"succeeded", "reported"}  BY <1>4 DEF NotifyResult
    <2>2. maintenance_done' \in BOOLEAN
      BY <1>4 DEF NotifyResult, SetLatch, ReportFailure, TypeOK, report
    <2>3. availability' \in {"PREPARING", "READY", "FAILED"}
      BY <1>4 DEF NotifyResult, SetLatch, ReportFailure, TypeOK, report
    <2> QED  BY <1>4, <2>1, <2>2, <2>3
        DEF NotifyResult, TypeOK, sessions, control
  <1>5. CASE NotifyReady
    BY <1>5 DEF NotifyReady, TypeOK, report, sessions, control
  <1>6. CASE WorkerEnd
    BY <1>6 DEF WorkerEnd, TypeOK, report, sessions, control
  <1> QED  BY <1>1, <1>2, <1>3, <1>4, <1>5, <1>6 DEF Worker

\* Every step of run_maintenance keeps the types.
LEMMA RunType ==
    ASSUME TypeOK, NEW t \in Threads, RunMaintenance(t) PROVE TypeOK'
  <1> USE DEF Labels
  <1>1. CASE LoadDeployId(t)
    BY <1>1, GotoType, LabelTable
    DEF LoadDeployId, TypeOK, At, report, librime, sessions
  <1>2. CASE StoreDeployId(t)
    BY <1>2, GotoType, LabelTable
    DEF StoreDeployId, Incremented, TypeOK, At, report, librime, sessions
  <1>3. CASE StartRefused(t)
    <2>1. /\ pc' \in [Threads -> Labels]
          /\ fresh' \in Sessions \cup {NoSession}
          /\ reloading' \in BOOLEAN
          /\ ret' = ret /\ session' = session
      <3>1. CASE t = Main
        BY <1>3, <3>1, GiveUpType DEF StartRefused
      <3>2. CASE t # Main
        BY <1>3, <3>2, GotoType, LabelTable DEF StartRefused, TypeOK, sessions
      <3> QED  BY <3>1, <3>2
    <2> QED  BY <1>3, <2>1 DEF StartRefused, ReportFailure, TypeOK
  <1>4. CASE StartMaintenance(t)
    <2>1. worker' \in {worker, "begin"}  BY <1>4 DEF StartMaintenance
    <2>3. queued' \in BOOLEAN  BY <1>4 DEF StartMaintenance, TypeOK
    <2>2. pc' \in [Threads -> Labels]
      BY <1>4, GotoType, LabelTable DEF StartMaintenance, TypeOK
    <2> QED  BY <1>4, <2>1, <2>2, <2>3
        DEF StartMaintenance, TypeOK, report, sessions
  <1>5. CASE MarkPending(t)
    <2>1. pc' \in [Threads -> Labels]
      BY <1>5, GotoType, LabelTable DEF MarkPending, TypeOK
    <2>2. maintenance_done' \in BOOLEAN  BY <1>5 DEF MarkPending
    <2> QED  BY <1>5, <2>1, <2>2
        DEF MarkPending, TypeOK, At, report, librime, sessions
  <1>6. CASE AnnouncePreparing(t)
    BY <1>6, GotoType, LabelTable
    DEF AnnouncePreparing, TypeOK, At, report, librime, sessions
  <1>7. CASE JoinMaintenance(t)
    BY <1>7, GotoType, LabelTable
    DEF JoinMaintenance, TypeOK, At, report, librime, sessions
  <1>8. CASE MarkDone(t)
    <2>1. pc' \in [Threads -> Labels]
      BY <1>8, GotoType, LabelTable DEF MarkDone, TypeOK
    <2>2. maintenance_done' \in BOOLEAN  BY <1>8 DEF MarkDone
    <2> QED  BY <1>8, <2>1, <2>2
        DEF MarkDone, TypeOK, At, report, librime, sessions
  <1>9. CASE AnnounceReady(t)
    BY <1>9, GotoType, LabelTable
    DEF AnnounceReady, TypeOK, At, report, librime, sessions
  <1> QED  BY <1>1, <1>2, <1>3, <1>4, <1>5, <1>6, <1>7, <1>8, <1>9
      DEF RunMaintenance

\* Every other step of Main keeps the types.
LEMMA MainType == ASSUME TypeOK, MainStep PROVE TypeOK'
  <1> USE DEF Labels
  <1>1. CASE EnsureDeployed
    BY <1>1, GotoType, GiveUpType, LabelTable
    DEF EnsureDeployed, TypeOK, At, report, librime, sessions
  <1>2. CASE ProbeBuild
    BY <1>2, GotoType, LabelTable
    DEF ProbeBuild, TypeOK, At, report, librime, sessions
  <1>3. CASE Returned
    BY <1>3, GotoType, GiveUpType, LabelTable
    DEF Returned, TypeOK, At, report, librime, sessions
  <1>4. CASE LookupHit
    <2>1. pc' \in [Threads -> Labels]
      BY <1>4, GotoType, LabelTable DEF LookupHit, TypeOK
    <2>2. reloading' \in BOOLEAN  BY <1>4 DEF LookupHit
    <2> QED  BY <1>4, <2>1, <2>2
        DEF LookupHit, TypeOK, At, report, librime, sessions
  <1>5. CASE LookupMiss
    BY <1>5, GotoType, LabelTable
    DEF LookupMiss, TypeOK, At, report, librime, sessions
  <1>6. CASE CreateSession
    BY <1>6, GotoType, GiveUpType, LabelTable
    DEF CreateSession, TypeOK, At, report, librime, sessions, Sessions
  <1>7. CASE SchemaSelected
    <2>1. pc' \in [Threads -> Labels]
      BY <1>7, GotoType, LabelTable DEF SchemaSelected, TypeOK
    <2>2. reloading' \in BOOLEAN  BY <1>7 DEF SchemaSelected
    <2> QED  BY <1>7, <2>1, <2>2
        DEF SchemaSelected, TypeOK, At, report, librime, sessions
  <1>8. CASE SchemaRejected
    BY <1>8, GotoType, GiveUpType, LabelTable
    DEF SchemaRejected, TypeOK, At, report, librime, sessions
  <1>9. CASE ApplyRuntimeConfig
    <2>1. pc' \in [Threads -> Labels]
      BY <1>9, GotoType, LabelTable DEF ApplyRuntimeConfig, TypeOK
    <2>2. reloading' \in BOOLEAN  BY <1>9 DEF ApplyRuntimeConfig
    <2> QED  BY <1>9, <2>1, <2>2
        DEF ApplyRuntimeConfig, TypeOK, At, report, librime, sessions
  <1>10. CASE Quiesce
    BY <1>10, GotoType, LabelTable
    DEF Quiesce, TypeOK, At, report, librime, sessions
  <1>11. CASE FreeInstance
    BY <1>11, GotoType, LabelTable
    DEF FreeInstance, TypeOK, At, report, librime, sessions
  <1>12. CASE FreeEngine
    BY <1>12, GotoType, LabelTable
    DEF FreeEngine, TypeOK, At, report, librime, sessions
  <1>13. CASE RunMaintenance(Main)  BY <1>13, RunType, LabelTable
  <1> QED  BY <1>1, <1>2, <1>3, <1>4, <1>5, <1>6, <1>7, <1>8, <1>9, <1>10,
              <1>11, <1>12, <1>13 DEF MainStep

\* Every request keeps the types.
LEMMA HostType == ASSUME TypeOK, Host PROVE TypeOK'
  <1> USE DEF Labels
  <1>1. CASE FocusIn
    BY <1>1, GotoType, LabelTable
    DEF FocusIn, TypeOK, Request, At, report, librime, sessions
  <1>2. CASE ProcessKey
    BY <1>2, GotoType, LabelTable
    DEF ProcessKey, TypeOK, Request, At, report, librime, sessions
  <1>3. CASE Peek
    BY <1>3, GotoType, LabelTable
    DEF Peek, TypeOK, Request, At, report, librime, sessions, control
  <1>4. CASE ReloadConfig
    BY <1>4, GotoType, LabelTable
    DEF ReloadConfig, TypeOK, Request, At, report, librime, sessions
  <1>5. CASE Deploy
    <2>1. pc' \in [Threads -> Labels]
      BY <1>5, GotoType, LabelTable DEF Deploy, TypeOK
    <2>2. build' \in BOOLEAN  BY <1>5 DEF Deploy
    <2> QED  BY <1>5, <2>1, <2>2
        DEF Deploy, TypeOK, Request, At, report, librime, sessions
  <1>6. ASSUME NEW j \in Jobs, Setup(j) PROVE TypeOK'
    BY <1>6, GotoType, LabelTable
    DEF Setup, TypeOK, Request, At, librime, sessions
  <1>7. CASE Deactivate
    <2>1. pc' \in [Threads -> Labels]
      BY <1>7, GotoType, LabelTable DEF Deactivate, Detach, TypeOK
    <2>2. handler' \in BOOLEAN  BY <1>7 DEF Deactivate, Detach
    <2> QED  BY <1>7, <2>1, <2>2
        DEF Deactivate, Detach, TypeOK, At, report, librime, sessions
  <1>8. CASE Shutdown
    <2>1. pc' \in [Threads -> Labels]
      BY <1>8, GotoType, LabelTable DEF Shutdown, Detach, TypeOK
    <2>2. handler' \in BOOLEAN  BY <1>8 DEF Shutdown, Detach
    <2> QED  BY <1>8, <2>1, <2>2
        DEF Shutdown, Detach, TypeOK, At, report, librime, sessions
  <1> QED  BY <1>1, <1>2, <1>3, <1>4, <1>5, <1>6, <1>7, <1>8 DEF Host

\* Every step of a setup thread keeps the types.
LEMMA JobType == ASSUME TypeOK, NEW j \in Jobs, Job(j) PROVE TypeOK'
  <1> USE DEF Labels
  <1>1. CASE Install(j)
    BY <1>1, GotoType, LabelTable
    DEF Install, ReportFailure, TypeOK, At, report, librime, sessions
  <1>2. CASE InvalidateBuild(j)
    <2>1. pc' \in [Threads -> Labels]
      BY <1>2, GotoType, LabelTable DEF InvalidateBuild, TypeOK
    <2>2. build' \in BOOLEAN  BY <1>2 DEF InvalidateBuild
    <2> QED  BY <1>2, <2>1, <2>2
        DEF InvalidateBuild, TypeOK, At, report, librime, sessions
  <1>3. CASE RunMaintenance(j)  BY <1>3, RunType, LabelTable
  <1>4. CASE BackUp(j)
    <2>1. pc' \in [Threads -> Labels]
      BY <1>4, GotoType, LabelTable DEF BackUp, TypeOK
    <2>2. build' \in BOOLEAN  BY <1>4 DEF BackUp, TypeOK
    <2>3. availability' \in {"PREPARING", "READY", "FAILED"}
      BY <1>4 DEF BackUp, ReportFailure, TypeOK
    <2> QED  BY <1>4, <2>1, <2>2, <2>3 DEF BackUp, TypeOK, sessions
  <1> QED  BY <1>1, <1>2, <1>3, <1>4 DEF Job

\* Every variable keeps its type, with any number of setup threads.
THEOREM TypeCorrect == Spec => []TypeOK
  <1>1. Init => TypeOK
    <2> SUFFICES ASSUME Init PROVE TypeOK  OBVIOUS
    <2>1. pc \in [Threads -> Labels] /\ reg \in [Threads -> Nat]
      BY LabelTable DEF Init
    <2>2. /\ maintenance_done \in BOOLEAN /\ handler \in BOOLEAN
          /\ queued \in BOOLEAN /\ reloading \in BOOLEAN
          /\ sync \in BOOLEAN
      BY HostAssumption DEF Init
    <2> QED  BY <2>1, <2>2 DEF Init, TypeOK, Labels
  <1>2. TypeOK /\ [Next]_vars => TypeOK'
    <2> SUFFICES ASSUME TypeOK, [Next]_vars PROVE TypeOK'  OBVIOUS
    <2>1. CASE UNCHANGED vars
      BY <2>1 DEF TypeOK, vars, report, librime, sessions, control
    <2>2. CASE Terminated
      BY <2>2 DEF Terminated, TypeOK, vars, report, librime, sessions, control
    <2> QED
      BY <2>1, <2>2, WorkerType, MainType, HostType, JobType DEF Next
  <1> QED  BY <1>1, <1>2, PTL DEF Spec

-----------------------------------------------------------------------------
(* The teardown.  QuietTeardown is not inductive: a step of run_maintenance *)
(* or of ensure_deployed that returns to ret would break it if ret could be *)
(* the teardown's label there.  And it is false with a setup thread; what   *)
(* stays true is that then such a thread has yet to join.                   *)

\* From handing a deployment to librime to the join at a job's end.
Joining == {"mark", "announce", "join", "settle"}

TeardownInv ==
    /\ TearingDown /\ worker # "idle" => \E j \in Jobs : pc[j] \in Joining
    /\ ret = "freeInstance" => TearingDown \/ pc[Main] = "quiesce"

\* Where Main is after it has gone to a label.
LEMMA MainMoves ==
    ASSUME TypeOK, NEW l, Goto(Main, l) PROVE pc'[Main] = l
  BY LabelTable DEF TypeOK, Goto

\* The other threads stay where they are.
LEMMA OthersStay ==
    ASSUME TypeOK, NEW t, NEW l, Goto(t, l)
    PROVE  /\ t \in Jobs => pc'[Main] = pc[Main] /\ pc'[t] = l
           /\ \A j \in Jobs : j # t => pc'[j] = pc[j]
           /\ t = Main => \A j \in Jobs : pc'[j] = pc[j]
  BY ThreadsAssumption DEF TypeOK, Goto, Threads

\* run_maintenance on Main does not enter the teardown.
LEMMA TeardownRun ==
    ASSUME TypeOK, TeardownInv, RunMaintenance(Main) PROVE TeardownInv'
  <1>1. ~TearingDown /\ pc[Main] # "quiesce"
    BY DEF RunMaintenance, LoadDeployId, StoreDeployId, StartRefused,
       StartMaintenance, MarkPending, AnnouncePreparing, JoinMaintenance,
       MarkDone, AnnounceReady, At, TearingDown
  <1>2. ret # "freeInstance"  BY <1>1 DEF TeardownInv
  <1>3. ret' = ret
    BY DEF RunMaintenance, LoadDeployId, StoreDeployId, StartRefused, GiveUp,
       StartMaintenance, MarkPending, AnnouncePreparing, JoinMaintenance,
       MarkDone, AnnounceReady
  <1>4. pc'[Main] \in {"store", "start", "idle", "settle", "join", "mark",
                        "announce", "returned", "done", "settled", "ready",
                        "finish", "foundReady", "end", ret}
    BY MainMoves
    DEF RunMaintenance, LoadDeployId, StoreDeployId, StartRefused, GiveUp,
       StartMaintenance, MarkPending, AnnouncePreparing, JoinMaintenance,
       MarkDone, AnnounceReady
  <1>5. ~TearingDown'  BY <1>2, <1>4 DEF TearingDown, TypeOK
  <1> QED  BY <1>2, <1>3, <1>5 DEF TeardownInv

\* Main's other steps: only Quiesce enters the teardown, after the join.
LEMMA TeardownMain ==
    ASSUME TypeOK, TeardownInv, MainStep PROVE TeardownInv'
  <1>1. CASE RunMaintenance(Main)  BY <1>1, TeardownRun
  <1>2. CASE Quiesce
    <2>1. pc'[Main] = ret /\ ret' = ret /\ worker' = "idle"
      BY <1>2, MainMoves DEF Quiesce, Joined, Maintaining, librime
    <2> QED  BY <2>1 DEF TeardownInv, TearingDown
  <1>3. CASE FreeInstance \/ FreeEngine
    <2>1. TearingDown /\ worker' = worker /\ ret' = ret
      BY <1>3 DEF FreeInstance, FreeEngine, At, TearingDown, librime
    <2>2. TearingDown' /\ \A j \in Jobs : pc'[j] = pc[j]
      BY <1>3, MainMoves, OthersStay DEF FreeInstance, FreeEngine, TearingDown
    <2> QED  BY <2>1, <2>2 DEF TeardownInv
  <1>4. CASE EnsureDeployed \/ ProbeBuild \/ Returned \/ LookupHit
             \/ LookupMiss \/ CreateSession \/ SchemaSelected
             \/ SchemaRejected \/ ApplyRuntimeConfig
    <2>1. ~TearingDown /\ pc[Main] # "quiesce"
      BY <1>4 DEF EnsureDeployed, ProbeBuild, Returned, LookupHit, LookupMiss,
         CreateSession, SchemaSelected, SchemaRejected, ApplyRuntimeConfig,
         At, TearingDown
    <2>2. ret # "freeInstance"  BY <2>1 DEF TeardownInv
    <2>3. ret' \in {ret, "create", "retry"}
      BY <1>4 DEF EnsureDeployed, ProbeBuild, Returned, LookupHit, LookupMiss,
         CreateSession, SchemaSelected, SchemaRejected, ApplyRuntimeConfig,
         GiveUp
    <2>4. pc'[Main] \in {"idle", "probe", "found", "load", "apply", "ensure",
                          "lookup", ret}
      BY <1>4, MainMoves
      DEF EnsureDeployed, ProbeBuild, Returned, LookupHit, LookupMiss,
         CreateSession, SchemaSelected, SchemaRejected, ApplyRuntimeConfig,
         GiveUp
    <2> QED  BY <2>2, <2>3, <2>4 DEF TeardownInv, TearingDown,
         TypeOK
  <1> QED  BY <1>1, <1>2, <1>3, <1>4 DEF MainStep

\* A setup thread does not leave the join before librime's thread has ended.
LEMMA TeardownJob ==
    ASSUME TypeOK, TeardownInv, NEW j \in Jobs, Job(j) PROVE TeardownInv'
  <1>1. PICK l : Goto(j, l)
    BY DEF Job, BackUp, Install, InvalidateBuild, RunMaintenance, LoadDeployId,
       StoreDeployId, StartRefused, StartMaintenance, MarkPending,
       AnnouncePreparing, JoinMaintenance, MarkDone, AnnounceReady, GiveUp
  <1>2. j # Main /\ pc'[Main] = pc[Main] /\ pc'[j] = l
        /\ \A k \in Jobs : k # j => pc'[k] = pc[k]
    BY <1>1, ThreadsAssumption, OthersStay
  <1>3. ret' = ret
    BY <1>2 DEF Job, BackUp, Install, InvalidateBuild, RunMaintenance,
       LoadDeployId, StoreDeployId, StartRefused, StartMaintenance, MarkPending,
       AnnouncePreparing, JoinMaintenance, MarkDone, AnnounceReady
  <1>4. CASE StartMaintenance(j)
    <2>1. pc'[j] \in Joining
      BY <1>4, OthersStay DEF StartMaintenance, Joining
    <2> QED  BY <1>2, <1>3, <2>1 DEF TeardownInv, TearingDown
  <1>5. CASE JoinMaintenance(j)
    <2>1. worker' = "idle"
      BY <1>5 DEF JoinMaintenance, Joined, Maintaining, librime
    <2> QED  BY <1>2, <1>3, <2>1 DEF TeardownInv, TearingDown
  <1>6. CASE MarkPending(j) \/ AnnouncePreparing(j)
    <2>1. pc'[j] \in Joining /\ worker' = worker
      BY <1>2, <1>6, OthersStay
      DEF MarkPending, AnnouncePreparing, Joining, librime
    <2> QED  BY <1>2, <1>3, <2>1 DEF TeardownInv, TearingDown
  <1>7. CASE BackUp(j) \/ Install(j) \/ InvalidateBuild(j) \/ LoadDeployId(j)
             \/ StoreDeployId(j) \/ StartRefused(j) \/ MarkDone(j)
             \/ AnnounceReady(j)
    <2>1. worker' = worker /\ pc[j] \notin Joining
      BY <1>7 DEF BackUp, Install, InvalidateBuild, LoadDeployId,
         StoreDeployId, StartRefused, MarkDone, AnnounceReady, At, Joining,
         librime
    <2> QED  BY <1>2, <1>3, <2>1 DEF TeardownInv, TearingDown
  <1> QED  BY <1>4, <1>5, <1>6, <1>7 DEF Job, RunMaintenance

\* Every step keeps the teardown quiet but for a setup thread.
LEMMA TeardownStep ==
    ASSUME TypeOK, TeardownInv, [Next]_vars PROVE TeardownInv'
  <1>1. CASE Worker
    <2>1. worker # "idle"
      BY <1>1 DEF Worker, NotifyStart, NotifyPreparing, Build, NotifyResult,
         NotifyReady, WorkerEnd
    <2>2. pc' = pc /\ ret' = ret
      BY <1>1 DEF Worker, NotifyStart, NotifyPreparing, Build, NotifyResult,
         NotifyReady, WorkerEnd, control
    <2> QED  BY <2>1, <2>2 DEF TeardownInv, TearingDown
  <1>2. CASE MainStep  BY <1>2, TeardownMain
  <1>3. CASE Host
    <2>1. pc[Main] = "idle" /\ ret # "freeInstance"
      BY <1>3 DEF Host, FocusIn, ProcessKey, Peek, ReloadConfig, Deploy, Setup,
         Deactivate, Shutdown, Detach, Request, At, TeardownInv, TearingDown
    <2>2. CASE Peek
      BY <2>1, <2>2 DEF Peek, control, TeardownInv, TearingDown
    <2>3. CASE Deactivate \/ Shutdown
      BY <2>3, MainMoves
      DEF Deactivate, Shutdown, Detach, TeardownInv, TearingDown
    <2>4. CASE FocusIn \/ ProcessKey \/ ReloadConfig \/ Deploy
      <3>1. pc'[Main] \in {"lookup", "reload", "load"}
        BY <2>4, MainMoves DEF FocusIn, ProcessKey, ReloadConfig, Deploy
      <3>2. ret' \in {ret, "reload"}
        BY <2>4 DEF FocusIn, ProcessKey, ReloadConfig, Deploy
      <3> QED  BY <2>1, <3>1, <3>2 DEF TeardownInv, TearingDown
    <2>5. ASSUME NEW j \in Jobs, Setup(j) PROVE TeardownInv'
      <3>1. pc'[Main] = "idle" /\ ret' = ret
        BY <2>1, <2>5, OthersStay DEF Setup
      <3> QED  BY <2>1, <3>1 DEF TeardownInv, TearingDown
    <2> QED  BY <1>3, <2>2, <2>3, <2>4, <2>5 DEF Host
  <1>4. CASE Terminated \/ UNCHANGED vars
    BY <1>4 DEF Terminated, vars, librime, control, TeardownInv, TearingDown
  <1>5. ASSUME NEW j \in Jobs, Job(j) PROVE TeardownInv'
    BY <1>5, TeardownJob
  <1> QED  BY <1>1, <1>2, <1>3, <1>4, <1>5 DEF Next

\* The strengthening holds throughout.
LEMMA TeardownInvariant == Spec => []TeardownInv
  <1>1. Init => TeardownInv
    BY LabelTable DEF Init, TeardownInv, TearingDown
  <1>2. TypeOK /\ TeardownInv /\ [Next]_vars => TeardownInv'
    BY TeardownStep
  <1> QED  BY <1>1, <1>2, TypeCorrect, PTL DEF Spec

\* With any number of setup threads, librime's thread is over in the teardown
\* once they are.
THEOREM TeardownIsQuietButForSetup == Spec => []QuietButForSetup
  <1>1. TeardownInv => QuietButForSetup
    BY DEF TeardownInv, QuietButForSetup, JobsOver, Joining
  <1> QED  BY <1>1, TeardownInvariant, PTL

\* And nobody writes what worker_destroy frees.
THEOREM FreedStateIsUntouchedButForSetup == Spec => FreedButForSetup
  <1>1. TeardownInv /\ [Next]_vars =>
            [TearingDown /\ JobsOver => UNCHANGED <<report, deploy_id>>]_vars
    <2> SUFFICES ASSUME TeardownInv, [Next]_vars, TearingDown, JobsOver
                 PROVE  UNCHANGED <<report, deploy_id>>
      OBVIOUS
    <2>1. pc[Main] \in {"freeInstance", "freeEngine", "exited"}
          /\ worker = "idle"
      BY DEF TearingDown, TeardownInv, JobsOver, Joining
    <2>2. ~Worker
      BY <2>1 DEF Worker, NotifyStart, NotifyPreparing, Build, NotifyResult,
         NotifyReady, WorkerEnd
    <2>3. ~Host
      BY <2>1 DEF Host, FocusIn, ProcessKey, Peek, ReloadConfig, Deploy, Setup,
         Deactivate, Shutdown, Detach, Request, At
    <2>4. ASSUME MainStep PROVE FreeInstance \/ FreeEngine
      BY <2>1, <2>4 DEF MainStep, RunMaintenance, LoadDeployId, StoreDeployId,
         StartRefused, StartMaintenance, MarkPending, AnnouncePreparing,
         JoinMaintenance, MarkDone, AnnounceReady, EnsureDeployed, ProbeBuild,
         Returned, LookupHit, LookupMiss, CreateSession, SchemaSelected,
         SchemaRejected, ApplyRuntimeConfig, Quiesce, At
    <2>5. CASE MainStep
      BY <2>4, <2>5 DEF FreeInstance, FreeEngine
    <2>6. CASE Terminated \/ UNCHANGED vars
      BY <2>6 DEF Terminated, vars
    <2>7. \A j \in Jobs : ~Job(j)
      BY DEF JobsOver, Job, BackUp, Install, InvalidateBuild, RunMaintenance,
         LoadDeployId, StoreDeployId, StartRefused, StartMaintenance,
         MarkPending, AnnouncePreparing, JoinMaintenance, MarkDone,
         AnnounceReady, At
    <2> QED  BY <2>2, <2>3, <2>5, <2>6, <2>7 DEF Next
  <1> QED  BY <1>1, TeardownInvariant, PTL DEF Spec, FreedButForSetup

\* Without setup threads, librime's thread is over once deactivate has
\* returned to worker_destroy: nothing runs beside the frees.
THEOREM TeardownIsQuiet == ASSUME Jobs = {} PROVE Spec => []QuietTeardown
  <1>1. QuietButForSetup => QuietTeardown
    BY DEF QuietButForSetup, QuietTeardown, JobsOver
  <1> QED  BY <1>1, TeardownIsQuietButForSetup, PTL

\* Without setup threads, nobody writes what worker_destroy frees.
THEOREM FreedStateIsUntouched ==
    ASSUME Jobs = {} PROVE Spec => FreedStateUntouched
  <1>1. [TearingDown /\ JobsOver => UNCHANGED <<report, deploy_id>>]_vars
            => [TearingDown => UNCHANGED <<report, deploy_id>>]_vars
    BY DEF JobsOver
  <1> QED  BY <1>1, FreedStateIsUntouchedButForSetup, PTL
           DEF FreedButForSetup, FreedStateUntouched

\* What the refinement needs of both.
QuietInv ==
    /\ QuietTeardown
    /\ ret = "freeInstance" => TearingDown \/ pc[Main] = "quiesce"

LEMMA QuietInvariant == ASSUME Jobs = {} PROVE Spec => []QuietInv
  <1>1. TeardownInv => QuietInv
    BY DEF TeardownInv, QuietInv, QuietTeardown
  <1> QED  BY <1>1, TeardownInvariant, PTL

-----------------------------------------------------------------------------
(* Fresh sessions.  A session carries the value deploy_id had when it was   *)
(* created, and generation grows only together with deploy_id; between the *)
(* store and the start no session carries the new value yet.                *)

Aged(s) == /\ s.deploy_id <= deploy_id
           /\ s.deploy_id = deploy_id => s.born = generation

Older(s) == s.deploy_id < deploy_id

FreshInv ==
    /\ session # NoSession => Aged(session)
    /\ fresh # NoSession => Aged(fresh)
    /\ pc[Main] = "store" => reg[Main] = deploy_id
    /\ pc[Main] = "start" => /\ session # NoSession => Older(session)
                             /\ fresh # NoSession => Older(fresh)

\* A step that leaves the counters alone and opens no session, and does not
\* end between the load and the start, keeps the invariant.
LEMMA FreshKept ==
    ASSUME TypeOK, FreshInv, UNCHANGED <<deploy_id, generation>>,
           session' \in {session, NoSession}, fresh' \in {fresh, NoSession},
           pc'[Main] \notin {"store", "start"}
    PROVE  FreshInv'
  BY DEF FreshInv, Aged

\* A session created now carries the counters of now.
LEMMA CreatedIsAged ==
    ASSUME TypeOK, NEW s, s = [deploy_id |-> deploy_id, born |-> generation]
    PROVE  Aged(s)
  BY DEF Aged, TypeOK

\* run_maintenance makes every session older before librime starts.
LEMMA FreshRun ==
    ASSUME TypeOK, FreshInv, RunMaintenance(Main) PROVE FreshInv'
  <1>1. CASE LoadDeployId(Main)
    <2>1. pc'[Main] = "store" /\ reg'[Main] = deploy_id
      BY <1>1, MainMoves, LabelTable DEF LoadDeployId, TypeOK
    <2> QED  BY <1>1, <2>1 DEF LoadDeployId, FreshInv, Aged, librime, sessions
  <1>2. CASE StoreDeployId(Main)
    <2>1. pc'[Main] = "start" /\ deploy_id' = deploy_id + 1
      BY <1>2, MainMoves DEF StoreDeployId, Incremented, FreshInv, At
    <2>2. /\ session' = session /\ fresh' = fresh
          /\ generation' = generation
      BY <1>2 DEF StoreDeployId, sessions, librime
    <2>3. ASSUME NEW s \in Sessions, Aged(s)
          PROVE  s.deploy_id < deploy_id' /\ s.deploy_id <= deploy_id'
                 /\ s.deploy_id # deploy_id'
      BY <2>1, <2>3 DEF Sessions, Aged, TypeOK
    <2>4. session # NoSession => Aged(session)' /\ Older(session)'
      BY <2>2, <2>3 DEF FreshInv, Aged, Older, TypeOK
    <2>5. fresh # NoSession => Aged(fresh)' /\ Older(fresh)'
      BY <2>2, <2>3 DEF FreshInv, Aged, Older, TypeOK
    <2> QED  BY <2>1, <2>2, <2>4, <2>5 DEF FreshInv
  <1>3. CASE StartMaintenance(Main)
    <2>1. pc'[Main] \in {"join", "mark"}
      BY <1>3, MainMoves DEF StartMaintenance
    <2>2. /\ session' = session /\ fresh' = fresh
          /\ deploy_id' = deploy_id /\ pc[Main] = "start"
      BY <1>3 DEF StartMaintenance, sessions, At
    <2>3. ASSUME NEW s \in Sessions, Older(s)
          PROVE  s.deploy_id <= deploy_id' /\ s.deploy_id # deploy_id'
      BY <2>2, <2>3 DEF Sessions, Older, TypeOK
    <2>4. session # NoSession => Aged(session)'
      BY <2>2, <2>3 DEF FreshInv, Aged, TypeOK
    <2>5. fresh # NoSession => Aged(fresh)'
      BY <2>2, <2>3 DEF FreshInv, Aged, TypeOK
    <2> QED  BY <2>1, <2>2, <2>4, <2>5 DEF FreshInv
  <1>4. CASE StartRefused(Main)
    <2>1. pc'[Main] = "idle"  BY <1>4, MainMoves DEF StartRefused, GiveUp
    <2> QED  BY <1>4, <2>1, FreshKept DEF StartRefused, GiveUp
  <1>5. CASE \/ MarkPending(Main) \/ AnnouncePreparing(Main)
             \/ JoinMaintenance(Main) \/ MarkDone(Main) \/ AnnounceReady(Main)
    <2>1. pc'[Main] \in {"announce", "returned", "settle", "done", "settled",
                         "ready", "finish", "foundReady", "end", ret}
      BY <1>5, MainMoves DEF MarkPending, AnnouncePreparing, JoinMaintenance,
         MarkDone, AnnounceReady
    <2>2. /\ UNCHANGED <<deploy_id, generation>>
          /\ session' = session /\ fresh' = fresh
      BY <1>5 DEF MarkPending, AnnouncePreparing, JoinMaintenance,
         MarkDone, AnnounceReady, librime, sessions
    <2>3. pc'[Main] \notin {"store", "start"}  BY <2>1 DEF TypeOK
    <2> QED  BY <2>2, <2>3, FreshKept
  <1> QED  BY <1>1, <1>2, <1>3, <1>4, <1>5 DEF RunMaintenance

\* Main's other steps: CreateSession is the one that opens a session, and
\* SchemaSelected the one that hands it to the context.
LEMMA FreshMain == ASSUME TypeOK, FreshInv, MainStep PROVE FreshInv'
  <1>1. CASE RunMaintenance(Main)  BY <1>1, FreshRun
  <1>2. CASE CreateSession
    <2>1. pc'[Main] \in {"idle", "apply"}
      BY <1>2, MainMoves DEF CreateSession, GiveUp
    <2>2. /\ UNCHANGED <<deploy_id, generation>> /\ session' = session
          /\ fresh' \in {NoSession,
                         [deploy_id |-> deploy_id, born |-> generation]}
      BY <1>2 DEF CreateSession, GiveUp, librime
    <2>3. fresh' # NoSession => Aged(fresh)'
      BY <2>2, CreatedIsAged DEF Aged
    <2> QED  BY <2>1, <2>2, <2>3 DEF FreshInv, Aged
  <1>3. CASE SchemaSelected
    <2>1. pc'[Main] \in {"idle", "apply"}
      BY <1>3, MainMoves DEF SchemaSelected
    <2>2. /\ UNCHANGED <<deploy_id, generation>>
          /\ session' \in {session, fresh} /\ fresh' \in {fresh, NoSession}
      BY <1>3 DEF SchemaSelected, librime, sessions
    <2> QED  BY <2>1, <2>2 DEF FreshInv, Aged
  <1>4. CASE EnsureDeployed \/ ProbeBuild \/ Returned \/ LookupHit
             \/ LookupMiss \/ SchemaRejected \/ ApplyRuntimeConfig
             \/ Quiesce \/ FreeInstance \/ FreeEngine
    <2>1. pc'[Main] \in {"idle", "probe", "found", "load", "apply", "ensure",
                         "lookup", "freeEngine", "exited", ret}
      BY <1>4, MainMoves
      DEF EnsureDeployed, ProbeBuild, Returned, LookupHit, LookupMiss,
         SchemaRejected, ApplyRuntimeConfig, Quiesce, FreeInstance,
         FreeEngine, GiveUp
    <2>2. /\ UNCHANGED <<deploy_id, generation>>
          /\ session' \in {session, NoSession} /\ fresh' \in {fresh, NoSession}
      BY <1>4 DEF EnsureDeployed, ProbeBuild, Returned, LookupHit, LookupMiss,
         SchemaRejected, ApplyRuntimeConfig, Quiesce, FreeInstance,
         FreeEngine, GiveUp, librime, sessions
    <2>3. pc'[Main] \notin {"store", "start"}  BY <2>1 DEF TypeOK
    <2> QED  BY <2>2, <2>3, FreshKept
  <1> QED  BY <1>1, <1>2, <1>3, <1>4 DEF MainStep

\* Every step keeps the sessions' age.
LEMMA FreshStep ==
    ASSUME Jobs = {}, TypeOK, FreshInv, [Next]_vars PROVE FreshInv'
  <1>1. CASE Worker
    BY <1>1 DEF Worker, NotifyStart, NotifyPreparing, Build, NotifyResult,
       NotifyReady, WorkerEnd, control, sessions, FreshInv, Aged, Older
  <1>2. CASE MainStep  BY <1>2, FreshMain
  <1>3. CASE Host
    <2>1. CASE Peek
      <3>1. pc[Main] = "idle" /\ pc' = pc  BY <2>1 DEF Peek, At, control
      <3> QED  BY <2>1, <3>1, FreshKept DEF Peek, librime
    <2>2. CASE FocusIn \/ ProcessKey \/ ReloadConfig \/ Deploy
               \/ Deactivate \/ Shutdown
      <3>1. pc'[Main] \in {"lookup", "reload", "load", "quiesce"}
        BY <2>2, MainMoves DEF FocusIn, ProcessKey, ReloadConfig, Deploy,
           Deactivate, Shutdown, Detach
      <3>2. /\ UNCHANGED <<deploy_id, generation>>
            /\ session' = session /\ fresh' = fresh
        BY <2>2 DEF FocusIn, ProcessKey, ReloadConfig, Deploy, Deactivate,
           Shutdown, Detach, librime, sessions
      <3> QED  BY <3>1, <3>2, FreshKept
    <2> QED  BY <1>3, <2>1, <2>2 DEF Host
  <1>4. CASE Terminated \/ UNCHANGED vars
    BY <1>4 DEF Terminated, vars, librime, sessions, control, FreshInv, Aged,
       Older
  <1> QED  BY <1>1, <1>2, <1>3, <1>4 DEF Next

\* The strengthening holds throughout.
LEMMA FreshInvariant == ASSUME Jobs = {} PROVE Spec => []FreshInv
  <1>1. Init => FreshInv
    BY DEF Init, FreshInv, Threads
  <1>2. TypeOK /\ FreshInv /\ [Next]_vars => FreshInv'
    BY FreshStep
  <1> QED  BY <1>1, <1>2, TypeCorrect, PTL DEF Spec

\* Without setup threads, every session get_session hands out was created on
\* the latest deployment, however deployments, failures and requests come.
THEOREM SessionsAreFresh == ASSUME Jobs = {} PROVE Spec => []FreshSession
  <1>1. FreshInv => FreshSession
    BY DEF FreshInv, FreshSession, Aged
  <1> QED  BY <1>1, FreshInvariant, PTL

-----------------------------------------------------------------------------
(* Synchronous deployment: no asynchronous tail is ever entered, so only    *)
(* the start leads out of librime's idleness, and it leads to the join.     *)

\* The environment is that of the process.
LEMMA SyncStays == ASSUME [Next]_vars PROVE sync' = sync
  <1>1. ASSUME Worker PROVE sync' = sync
    BY <1>1 DEF Worker, NotifyStart, NotifyPreparing, Build, NotifyResult,
       NotifyReady, WorkerEnd
  <1>2. ASSUME NEW t \in Threads, RunMaintenance(t) PROVE sync' = sync
    BY <1>2 DEF RunMaintenance, LoadDeployId, StoreDeployId, StartRefused,
       StartMaintenance, MarkPending, AnnouncePreparing, JoinMaintenance,
       MarkDone, AnnounceReady
  <1>3. ASSUME MainStep PROVE sync' = sync
    BY <1>2, <1>3, LabelTable
    DEF MainStep, EnsureDeployed, ProbeBuild, Returned, LookupHit, LookupMiss,
        CreateSession, SchemaSelected, SchemaRejected, ApplyRuntimeConfig,
        Quiesce, FreeInstance, FreeEngine
  <1>4. ASSUME Host PROVE sync' = sync
    BY <1>4 DEF Host, FocusIn, ProcessKey, Peek, ReloadConfig, Deploy, Setup,
       Deactivate, Shutdown, Detach
  <1>5. ASSUME NEW j \in Jobs, Job(j) PROVE sync' = sync
    BY <1>2, <1>5, LabelTable DEF Job, BackUp, Install, InvalidateBuild
  <1> QED  BY <1>1, <1>3, <1>4, <1>5 DEF Next, Terminated, vars

\* Every step keeps librime idle outside the join.
LEMMA SyncStep ==
    ASSUME Jobs = {}, TypeOK, SyncBlocks, [Next]_vars
    PROVE  SyncBlocks'
  <1> SUFFICES ASSUME sync  PROVE SyncBlocks'
    BY SyncStays DEF SyncBlocks
  <1>1. CASE Worker
    <2>1. worker # "idle" /\ pc' = pc
      BY <1>1 DEF Worker, NotifyStart, NotifyPreparing, Build, NotifyResult,
         NotifyReady, WorkerEnd, control
    <2> QED  BY <2>1 DEF SyncBlocks, Maintaining
  <1>2. CASE StartMaintenance(Main)
    BY <1>2, MainMoves DEF StartMaintenance, Sync, SyncBlocks
  <1>3. CASE MainStep /\ ~StartMaintenance(Main)
    <2>1. worker' = worker
      BY <1>3 DEF MainStep, RunMaintenance, LoadDeployId, StoreDeployId,
         StartRefused, MarkPending, AnnouncePreparing, JoinMaintenance,
         MarkDone, AnnounceReady, EnsureDeployed, ProbeBuild, Returned,
         LookupHit, LookupMiss, CreateSession, SchemaSelected, SchemaRejected,
         ApplyRuntimeConfig, Quiesce, FreeInstance, FreeEngine, librime
    <2>2. Maintaining => pc[Main] # "join"
      BY <1>3 DEF MainStep, RunMaintenance, LoadDeployId, StoreDeployId,
         StartRefused, MarkPending, AnnouncePreparing, JoinMaintenance, Joined,
         MarkDone, AnnounceReady, EnsureDeployed, ProbeBuild, Returned,
         LookupHit, LookupMiss, CreateSession, SchemaSelected, SchemaRejected,
         ApplyRuntimeConfig, Quiesce, FreeInstance, FreeEngine, At, Maintaining
    <2> QED  BY <2>1, <2>2 DEF SyncBlocks, Maintaining
  <1>4. CASE Host
    <2>1. pc[Main] = "idle" /\ worker' = worker
      BY <1>4 DEF Host, FocusIn, ProcessKey, Peek, ReloadConfig, Deploy,
         Deactivate, Shutdown, Detach, Request, At, librime
    <2> QED  BY <2>1 DEF SyncBlocks, Maintaining
  <1>5. CASE Terminated \/ UNCHANGED vars
    BY <1>5 DEF Terminated, vars, librime, control, SyncBlocks, Maintaining
  <1> QED  BY <1>1, <1>2, <1>3, <1>4, <1>5 DEF Next, MainStep

\* Without setup threads and with TYPIO_RIME_SYNC_DEPLOY=1, librime deploys
\* only inside the join.
THEOREM SyncDeployBlocks ==
    ASSUME Jobs = {} PROVE Spec => []SyncBlocks
  <1>1. Init => SyncBlocks  BY DEF Init, SyncBlocks, Maintaining
  <1>2. TypeOK /\ SyncBlocks /\ [Next]_vars => SyncBlocks'
    BY SyncStep
  <1> QED  BY <1>1, <1>2, TypeCorrect, PTL DEF Spec

-----------------------------------------------------------------------------
(* What is reported last.  Both results below are about the moment all is   *)
(* quiet; the invariants say how the reports get there.                     *)

\* The steps of Main that neither report nor ask librime for anything.
Passive ==
    \/ LoadDeployId(Main) \/ StoreDeployId(Main)
    \/ EnsureDeployed \/ ProbeBuild \/ Returned
    \/ LookupHit \/ LookupMiss \/ CreateSession
    \/ SchemaSelected \/ SchemaRejected \/ ApplyRuntimeConfig
    \/ Quiesce \/ FreeInstance \/ FreeEngine
    \/ FocusIn \/ ProcessKey \/ Peek \/ ReloadConfig

\* Without setup threads, these are all the steps there are.
LEMMA StepKinds ==
    ASSUME Jobs = {}, [Next]_vars
    PROVE  \/ Worker \/ Passive
           \/ StartRefused(Main) \/ StartMaintenance(Main)
           \/ MarkPending(Main) \/ AnnouncePreparing(Main)
           \/ JoinMaintenance(Main) \/ MarkDone(Main) \/ AnnounceReady(Main)
           \/ Deploy \/ Deactivate \/ Shutdown
           \/ UNCHANGED vars
  BY DEF Next, MainStep, RunMaintenance, Host, Passive, Terminated

\* A passive step leaves the reports and librime alone; where it leads.
LEMMA PassiveSteps ==
    ASSUME TypeOK, Passive
    PROVE  /\ UNCHANGED <<report, librime, handler>>
           /\ pc'[Main] \notin {"mark", "announce", "join", "done", "ready",
                                "settle", "settled", "finish", "foundReady"}
           /\ pc'[Main] = "probe" => worker = "idle"
           /\ pc'[Main] = "found" => pc[Main] = "probe" /\ build
           /\ pc[Main] \in {"load", "store", "start"} =>
                  pc'[Main] \in {"load", "store", "start"}
  <1>1. UNCHANGED <<report, librime, handler>>
    BY DEF Passive, LoadDeployId, StoreDeployId, EnsureDeployed, ProbeBuild, Returned, LookupHit, LookupMiss,
       CreateSession, SchemaSelected, SchemaRejected, ApplyRuntimeConfig,
       Quiesce, FreeInstance, FreeEngine, FocusIn, ProcessKey, Peek,
       ReloadConfig
  <1>2. CASE LoadDeployId(Main) \/ StoreDeployId(Main)
    <2>1. pc'[Main] \in {"store", "start"}
      BY <1>2, MainMoves DEF LoadDeployId, StoreDeployId
    <2> QED  BY <1>1, <2>1
  <1>3. CASE EnsureDeployed
    <2>1. /\ pc[Main] = "ensure"
          /\ pc'[Main] \in {ret, "idle", "probe"}
          /\ pc'[Main] = "probe" => pc'[Main] = ret \/ worker = "idle"
      BY <1>3, MainMoves DEF EnsureDeployed, At, GiveUp, Maintaining
    <2> QED  BY <1>1, <2>1 DEF TypeOK
  <1>4. CASE ProbeBuild
    <2>1. /\ pc[Main] = "probe" /\ pc'[Main] \in {"found", "load"}
          /\ pc'[Main] = "found" => build
      BY <1>4, MainMoves DEF ProbeBuild, At, BuildExists
    <2> QED  BY <1>1, <2>1
  <1>5. CASE Peek
    <2>1. pc[Main] = "idle" /\ pc' = pc  BY <1>5 DEF Peek, At, control
    <2> QED  BY <1>1, <2>1
  <1>6. CASE \/ Returned \/ LookupHit \/ LookupMiss \/ CreateSession
             \/ SchemaSelected \/ SchemaRejected \/ ApplyRuntimeConfig
             \/ Quiesce \/ FreeInstance \/ FreeEngine
             \/ FocusIn \/ ProcessKey \/ ReloadConfig
    <2>1. pc[Main] \in {"returned", "lookup", "create", "apply", "retry",
                        "reload", "quiesce", "freeInstance", "freeEngine",
                        "idle"}
      BY <1>6 DEF Returned, LookupHit, LookupMiss, CreateSession,
         SchemaSelected, SchemaRejected, ApplyRuntimeConfig, Quiesce,
         FreeInstance, FreeEngine, FocusIn, ProcessKey, ReloadConfig,
         Request, At
    <2>2. pc'[Main] \in {ret, "idle", "apply", "ensure", "lookup", "reload",
                         "freeEngine", "exited"}
      BY <1>6, MainMoves DEF Returned, LookupHit, LookupMiss, CreateSession,
         SchemaSelected, SchemaRejected, ApplyRuntimeConfig, Quiesce,
         FreeInstance, FreeEngine, FocusIn, ProcessKey, ReloadConfig, GiveUp
    <2> QED  BY <1>1, <2>1, <2>2 DEF TypeOK
  <1> QED  BY <1>2, <1>3, <1>4, <1>5, <1>6 DEF Passive

\* A task that was scheduled finds librime's thread running.
QueuedRuns == queued => worker # "idle"

\* But for the race, the stores that follow start_maintenance come before the
\* result of the deployment they announce, and a success that has been
\* notified stands until the next deployment.
StickInv ==
    /\ QueuedRuns
    /\ pc[Main] \in {"mark", "announce"} =>
           queued \/ worker \in {"begin", "preparing", "build", "built",
                                 "broken"}
    /\ worker = "broken" => outcome # "success"
    /\ handler /\ worker = "succeeded" => maintenance_done \/ queued
    /\ handler /\ outcome = "success" /\ worker \in {"reported", "idle"} =>
           queued \/ (maintenance_done /\ availability = "READY")

\* librime's thread: a result notified before both stores is overtaking them.
LEMMA StickWorker ==
    ASSUME ~Overtaken', TypeOK, StickInv, Worker
    PROVE  StickInv'
  <1>1. pc' = pc /\ handler' = handler /\ worker # "idle"
    BY DEF Worker, NotifyStart, NotifyPreparing, Build, NotifyResult,
       NotifyReady, WorkerEnd, control
  <1>2. CASE NotifyStart \/ NotifyPreparing
    <2>1. worker' \in {"preparing", "build"} /\ UNCHANGED <<queued, outcome>>
      BY <1>2 DEF NotifyStart, NotifyPreparing
    <2> QED  BY <1>1, <2>1 DEF StickInv, QueuedRuns
  <1>3. CASE Build
    <2>1. ~queued' /\ \/ worker' = "built" /\ outcome' = "success"
                      \/ worker' = "broken" /\ outcome' = "failure"
      BY <1>3 DEF Build
    <2> QED  BY <1>1, <2>1 DEF StickInv, QueuedRuns
  <1>4. CASE NotifyResult
    <2>1. pc[Main] \in {"mark", "announce"} => queued
      <3>1. worker' \in {"succeeded", "reported"} /\ queued' = queued
        BY <1>4 DEF NotifyResult
      <3> QED  BY <1>1, <3>1, LabelTable DEF Overtaken
    <2>2. /\ UNCHANGED <<queued, outcome>>
          /\ \/ worker' = "succeeded" /\ maintenance_done'
             \/ worker' = "reported" /\ worker = "broken"
             \/ worker' = "reported" /\ ~handler
      BY <1>4 DEF NotifyResult, SetLatch
    <2> QED  BY <1>1, <2>1, <2>2 DEF StickInv, QueuedRuns
  <1>5. CASE NotifyReady
    <2>1. /\ worker = "succeeded" /\ worker' = "reported"
          /\ availability' = "READY"
          /\ UNCHANGED <<queued, outcome, maintenance_done>>
      BY <1>5 DEF NotifyReady
    <2> QED  BY <1>1, <2>1 DEF StickInv, QueuedRuns
  <1>6. CASE WorkerEnd
    <2>1. /\ worker = "reported"
          /\ worker' = IF queued THEN "begin" ELSE "idle"
          /\ UNCHANGED <<queued, outcome, maintenance_done, availability>>
      BY <1>6 DEF WorkerEnd, report
    <2>2. CASE queued
      BY <1>1, <2>1, <2>2 DEF StickInv, QueuedRuns
    <2>3. CASE ~queued
      BY <1>1, <2>1, <2>3 DEF StickInv, QueuedRuns
    <2> QED  BY <2>2, <2>3
  <1> QED  BY <1>2, <1>3, <1>4, <1>5, <1>6 DEF Worker

\* Every step keeps it.
LEMMA StickStep ==
    ASSUME Jobs = {}, ~Overtaken', TypeOK, StickInv, [Next]_vars
    PROVE  StickInv'
  <1>1. CASE Worker  BY <1>1, StickWorker
  <1>2. CASE Passive
    BY <1>2, PassiveSteps DEF StickInv, QueuedRuns, report, librime
  <1>3. CASE StartRefused(Main)
    <2>1. pc'[Main] = "idle"  BY <1>3, MainMoves DEF StartRefused, GiveUp
    <2>2. /\ outcome' = "refused"
          /\ UNCHANGED <<worker, queued, maintenance_done, handler>>
      BY <1>3 DEF StartRefused
    <2> QED  BY <2>1, <2>2 DEF StickInv, QueuedRuns
  <1>4. CASE StartMaintenance(Main)
    <2>1. pc'[Main] \in {"join", "mark"}
      BY <1>4, MainMoves DEF StartMaintenance, Sync
    <2>2. /\ \/ worker # "idle" /\ queued' /\ worker' = worker
             \/ worker' = "begin" /\ ~queued'
          /\ UNCHANGED <<outcome, handler>>
      BY <1>4 DEF StartMaintenance, Maintaining
    <2> QED  BY <2>1, <2>2 DEF StickInv, QueuedRuns
  <1>5. CASE MarkPending(Main) \/ AnnouncePreparing(Main)
    <2>1. pc[Main] \in {"mark", "announce"}
      BY <1>5 DEF MarkPending, AnnouncePreparing, At
    <2>2. pc'[Main] \in {"announce", "returned"} /\ UNCHANGED <<librime, handler>>
      BY <1>5, MainMoves DEF MarkPending, AnnouncePreparing
    <2> QED  BY <2>1, <2>2 DEF StickInv, QueuedRuns, librime
  <1>6. CASE JoinMaintenance(Main) \/ MarkDone(Main) \/ AnnounceReady(Main)
    <2>1. pc'[Main] \notin {"mark", "announce"}
      <3>1. pc'[Main] \in {"done", "settled", "ready", "finish", "foundReady",
                           "returned", "settle", "end", ret}
        BY <1>6, MainMoves DEF JoinMaintenance, MarkDone, AnnounceReady
      <3> QED  BY <3>1 DEF TypeOK
    <2>2. /\ UNCHANGED <<librime, handler>>
          /\ maintenance_done' = TRUE \/ maintenance_done' = maintenance_done
          /\ availability' \in {availability, "READY"}
      BY <1>6 DEF JoinMaintenance, MarkDone, AnnounceReady, report
    <2> QED  BY <2>1, <2>2 DEF StickInv, QueuedRuns, librime
  <1>7. CASE Deploy \/ Deactivate \/ Shutdown
    <2>1. pc'[Main] \in {"load", "quiesce"}
      BY <1>7, MainMoves DEF Deploy, Deactivate, Shutdown, Detach
    <2>2. /\ UNCHANGED <<report, worker, queued, outcome>>
          /\ handler' = handler \/ handler' = FALSE
      BY <1>7 DEF Deploy, Deactivate, Shutdown, Detach, librime
    <2> QED  BY <2>1, <2>2 DEF StickInv, QueuedRuns, report
  <1>8. CASE UNCHANGED vars
    BY <1>8 DEF vars, report, librime, control, StickInv, QueuedRuns
  <1> QED
    BY StepKinds, <1>1, <1>2, <1>3, <1>4, <1>5, <1>6, <1>7, <1>8

\* Without setup threads, the two stores that follow start_maintenance are all
\* that can undo a success, and only in the race of rime_deploy.c:96: in a
\* behaviour without it a deployment that succeeded is what the engine reports
\* once all is quiet.
THEOREM OnlyTheRaceUndoesSuccess ==
    ASSUME Jobs = {} PROVE Spec => SuccessSticksButForRace
  <1>1. Init => StickInv
    BY LabelTable DEF Init, StickInv, QueuedRuns
  <1>2. TypeOK /\ StickInv /\ ~Overtaken' /\ [Next]_vars => StickInv'
    BY StickStep
  <1>3. StickInv => SuccessSticks
    BY DEF StickInv, QueuedRuns, SuccessSticks, Quiet, Maintaining
  <1> QED  BY <1>1, <1>2, <1>3, TypeCorrect, PTL
           DEF Spec, SuccessSticksButForRace

\* A deployment that has not run yet is coming.
Coming == queued \/ worker \in {"begin", "preparing", "build"}

\* The report READY, made already or to be made by the thread that runs.
SaysReady ==
    \/ worker \in {"built", "succeeded"}
    \/ worker \in {"reported", "idle"} /\ availability = "READY"

\* READY rests on a build from the moment the build succeeds, or is found,
\* except while the deploy request that removed it is on its way to librime,
\* and until the deployment librime accepted has run.
BuildInv ==
    /\ QueuedRuns
    /\ pc[Main] \in {"probe", "found", "foundReady"} => worker = "idle"
    /\ pc[Main] \in {"found", "foundReady"} => build
    /\ pc[Main] \notin {"join", "done", "ready", "settle", "settled", "finish"}
    /\ handler /\ SaysReady /\ ~Coming
           /\ pc[Main] \notin {"load", "store", "start"} =>
           build \/ outcome = "refused"

\* librime's thread says READY only after a build it has made.
LEMMA BuildWorker ==
    ASSUME TypeOK, BuildInv, Worker PROVE BuildInv'
  <1>1. pc' = pc /\ handler' = handler /\ worker # "idle"
    BY DEF Worker, NotifyStart, NotifyPreparing, Build, NotifyResult,
       NotifyReady, WorkerEnd, control
  <1>2. CASE NotifyStart \/ NotifyPreparing
    <2>1. worker' \in {"preparing", "build"} /\ UNCHANGED <<queued, build>>
      BY <1>2 DEF NotifyStart, NotifyPreparing
    <2> QED  BY <1>1, <2>1 DEF BuildInv, QueuedRuns, Coming
  <1>3. CASE Build
    <2>1. ~queued' /\ \/ worker' = "broken"
                      \/ worker' = "built" /\ build' = TRUE
      BY <1>3 DEF Build
    <2> QED  BY <1>1, <2>1 DEF BuildInv, QueuedRuns, SaysReady
  <1>4. CASE NotifyResult
    <2>1. /\ UNCHANGED <<queued, build, outcome>>
          /\ worker \in {"built", "broken"}
          /\ \/ worker' = "succeeded" /\ worker = "built"
             \/ worker' = "reported" /\ availability' = "FAILED"
             \/ worker' = "reported" /\ ~handler
      BY <1>4 DEF NotifyResult, ReportFailure
    <2> QED  BY <1>1, <2>1 DEF BuildInv, QueuedRuns, SaysReady, Coming
  <1>5. CASE NotifyReady
    <2>1. /\ worker = "succeeded" /\ worker' = "reported"
          /\ UNCHANGED <<queued, build, outcome>>
      BY <1>5 DEF NotifyReady
    <2> QED  BY <1>1, <2>1 DEF BuildInv, QueuedRuns, SaysReady, Coming
  <1>6. CASE WorkerEnd
    <2>1. /\ worker = "reported"
          /\ worker' = IF queued THEN "begin" ELSE "idle"
          /\ UNCHANGED <<queued, build, outcome, availability>>
      BY <1>6 DEF WorkerEnd, report
    <2>2. CASE queued
      BY <1>1, <2>1, <2>2 DEF BuildInv, QueuedRuns, Coming
    <2>3. CASE ~queued
      BY <1>1, <2>1, <2>3 DEF BuildInv, QueuedRuns, SaysReady, Coming
    <2> QED  BY <2>2, <2>3
  <1> QED  BY <1>2, <1>3, <1>4, <1>5, <1>6 DEF Worker

\* Every step keeps it.
LEMMA BuildStep ==
    ASSUME Jobs = {}, ~sync, TypeOK, BuildInv, [Next]_vars
    PROVE  BuildInv'
  <1>1. CASE Worker  BY <1>1, BuildWorker
  <1>2. CASE Passive
    <2>1. UNCHANGED <<availability, worker, queued, build, outcome, handler>>
      BY <1>2, PassiveSteps DEF report, librime
    <2>2. pc[Main] \in {"load", "store", "start"} =>
              pc'[Main] \in {"load", "store", "start"}
      BY <1>2, PassiveSteps
    <2>3. /\ pc'[Main] \notin {"join", "done", "ready", "settle", "settled",
                               "finish", "foundReady"}
          /\ pc'[Main] = "probe" => worker = "idle"
          /\ pc'[Main] = "found" => pc[Main] = "probe" /\ build
      BY <1>2, PassiveSteps
    <2> QED  BY <2>1, <2>2, <2>3 DEF BuildInv, QueuedRuns, SaysReady, Coming
  <1>3. CASE StartRefused(Main)
    <2>1. pc'[Main] = "idle"  BY <1>3, MainMoves DEF StartRefused, GiveUp
    <2>2. outcome' = "refused" /\ UNCHANGED <<worker, queued>>
      BY <1>3 DEF StartRefused
    <2> QED  BY <2>1, <2>2 DEF BuildInv, QueuedRuns
  <1>4. CASE StartMaintenance(Main)
    <2>1. pc'[Main] = "mark"
      BY <1>4, MainMoves DEF StartMaintenance, Sync
    <2>2. \/ worker # "idle" /\ queued' /\ worker' = worker
          \/ worker' = "begin" /\ ~queued'
      BY <1>4 DEF StartMaintenance, Maintaining
    <2> QED  BY <2>1, <2>2 DEF BuildInv, QueuedRuns, Coming
  <1>5. CASE MarkPending(Main) \/ AnnouncePreparing(Main)
    <2>1. /\ pc[Main] \in {"mark", "announce"}
          /\ availability' \in {availability, "PREPARING"}
          /\ UNCHANGED <<worker, queued, build, outcome, handler>>
      BY <1>5 DEF MarkPending, AnnouncePreparing, At, librime
    <2>2. pc'[Main] \in {"announce", "returned"}
      BY <1>5, MainMoves DEF MarkPending, AnnouncePreparing
    <2> QED  BY <2>1, <2>2 DEF BuildInv, QueuedRuns, SaysReady, Coming
  <1>6. CASE MarkDone(Main)
    <2>1. pc[Main] = "found"
      BY <1>6 DEF MarkDone, At, BuildInv
    <2>2. pc'[Main] = "foundReady"
      BY <1>6, <2>1, MainMoves DEF MarkDone, At
    <2>3. UNCHANGED <<availability, worker, queued, build, outcome, handler>>
      BY <1>6 DEF MarkDone, librime
    <2> QED  BY <2>1, <2>2, <2>3 DEF BuildInv, QueuedRuns, SaysReady, Coming
  <1>7. CASE AnnounceReady(Main)
    <2>1. pc[Main] = "foundReady"
      BY <1>7 DEF AnnounceReady, At, BuildInv
    <2>2. pc'[Main] = ret
      BY <1>7, <2>1, MainMoves DEF AnnounceReady, At
    <2>3. UNCHANGED <<worker, queued, build, outcome, handler>>
      BY <1>7 DEF AnnounceReady, librime
    <2> QED  BY <2>1, <2>2, <2>3 DEF BuildInv, QueuedRuns, TypeOK
  <1>8. CASE Deploy
    <2>1. pc'[Main] = "load" /\ UNCHANGED <<worker, queued>>
      BY <1>8, MainMoves DEF Deploy
    <2> QED  BY <2>1 DEF BuildInv, QueuedRuns
  <1>9. CASE Deactivate \/ Shutdown
    <2>1. pc'[Main] = "quiesce" /\ ~handler' /\ UNCHANGED <<worker, queued>>
      BY <1>9, MainMoves DEF Deactivate, Shutdown, Detach, librime
    <2> QED  BY <2>1 DEF BuildInv, QueuedRuns
  <1>10. CASE UNCHANGED vars
    BY <1>10 DEF vars, report, librime, control, BuildInv, QueuedRuns,
       SaysReady, Coming
  <1> QED
    <2>1. ~JoinMaintenance(Main)  BY DEF JoinMaintenance, At, BuildInv
    <2> QED
      BY StepKinds, <2>1, <1>1, <1>2, <1>3, <1>4, <1>5, <1>6, <1>7, <1>8,
         <1>9, <1>10

\* Without setup threads and deploying asynchronously, READY once all is
\* quiet means that there is a build, or that librime refused the deployment
\* asked for last, whatever succeeded, failed or was deployed again before.
THEOREM ReadyAlwaysHasBuild ==
    ASSUME Jobs = {} PROVE Spec => []ReadyHasBuild
  <1>1. Init => BuildInv
    <2> SUFFICES ASSUME Init  PROVE BuildInv
      OBVIOUS
    <2>1. pc[Main] = "ensure"  BY LabelTable DEF Init
    <2>2. worker = "idle" /\ ~queued /\ availability = "PREPARING"
      BY DEF Init
    <2> QED  BY <2>1, <2>2 DEF BuildInv, QueuedRuns, SaysReady
  <1>2. TypeOK /\ (~sync => BuildInv) /\ [Next]_vars => (~sync => BuildInv)'
    BY BuildStep, SyncStays
  <1>3. (~sync => BuildInv) => ReadyHasBuild
    BY DEF BuildInv, QueuedRuns, SaysReady, Coming, ReadyHasBuild, Quiet,
       Maintaining
  <1> QED  BY <1>1, <1>2, <1>3, TypeCorrect, PTL DEF Spec

-----------------------------------------------------------------------------
(* The engine implements EngineService.  Usable is {} or the epoch of the   *)
(* context's session; FreshInv says that it is {} when a deployment starts, *)
(* and that a session handed over is of the current epoch.                  *)

\* The session in use does not change while these two do not.
LEMMA SameUsable ==
    ASSUME session' = session, deploy_id' = deploy_id
    PROVE  Usable' = Usable
  BY DEF Usable

LEMMA NoneUsable ==
    ASSUME session = NoSession \/ session.deploy_id # deploy_id
    PROVE  Usable = {}
  BY DEF Usable

\* A session is of the current epoch if it can be used.
LEMMA OneUsable ==
    ASSUME session # NoSession, Aged(session)
    PROVE  Usable = {} \/ Usable = {generation}
  BY DEF Usable, Aged

\* A step of librime's thread reports, or does nothing the host can see.
LEMMA ServiceWorker ==
    ASSUME TypeOK, QuietInv, Worker
    PROVE  Service!Report \/ UNCHANGED Service!vars
  <1>1. ~TearingDown /\ ~TearingDown'
    BY DEF Worker, NotifyStart, NotifyPreparing, Build, NotifyResult,
       NotifyReady, WorkerEnd, QuietInv, QuietTeardown, control,
       TearingDown
  <1>2. /\ session' = session /\ deploy_id' = deploy_id
        /\ generation' = generation
    BY DEF Worker, NotifyStart, NotifyPreparing, Build, NotifyResult,
       NotifyReady, WorkerEnd, sessions
  <1>3. availability' \in {availability, "PREPARING", "READY", "FAILED"}
    BY DEF Worker, NotifyStart, NotifyPreparing, Build, NotifyResult,
       NotifyReady, WorkerEnd, ReportFailure, SetLatch, report
  <1>4. Usable' = Usable  BY <1>2, SameUsable
  <1>5. availability' \in {"PREPARING", "READY", "FAILED"}  BY <1>3 DEF TypeOK
  <1> QED
    BY <1>1, <1>2, <1>4, <1>5 DEF Service!Report, Service!vars, TearingDown

\* Nor does a step of Main that leaves these alone.
LEMMA ServiceStutter ==
    ASSUME TypeOK, ~TearingDown, ~TearingDown',
           UNCHANGED <<deploy_id, generation, session>>,
           availability' \in {availability, "PREPARING", "READY", "FAILED"}
    PROVE  Service!Report \/ UNCHANGED Service!vars
  <1>1. Usable' = Usable  BY SameUsable
  <1>2. availability' \in {"PREPARING", "READY", "FAILED"}  BY DEF TypeOK
  <1> QED  BY <1>1, <1>2 DEF Service!Report, Service!vars, TearingDown

\* A deployment closes the session in use before it is accepted.
LEMMA ServiceRun ==
    ASSUME TypeOK, QuietInv, FreshInv, RunMaintenance(Main)
    PROVE  [Service!Next]_Service!vars
  <1>1. ~TearingDown /\ ~TearingDown'
    <2>1. ~TearingDown /\ pc[Main] # "quiesce"
      BY DEF RunMaintenance, LoadDeployId, StoreDeployId, StartRefused,
         StartMaintenance, MarkPending, AnnouncePreparing, JoinMaintenance,
         MarkDone, AnnounceReady, At, TearingDown
    <2>2. ret # "freeInstance"  BY <2>1 DEF QuietInv
    <2>3. pc'[Main] \in {"store", "start", "idle", "settle", "join", "mark",
                          "announce", "returned", "done", "settled", "ready",
                          "finish", "foundReady", "end", ret}
      BY MainMoves
      DEF RunMaintenance, LoadDeployId, StoreDeployId, StartRefused, GiveUp,
         StartMaintenance, MarkPending, AnnouncePreparing, JoinMaintenance,
         MarkDone, AnnounceReady
    <2> QED  BY <2>1, <2>2, <2>3 DEF TearingDown, TypeOK
  <1>2. CASE StoreDeployId(Main)
    <2>1. /\ deploy_id' = deploy_id + 1 /\ session' = session
          /\ generation' = generation /\ availability' = availability
      BY <1>2 DEF StoreDeployId, Incremented, FreshInv, At, sessions, librime,
         report
    <2>2. session # NoSession => session.deploy_id # deploy_id'
      BY <2>1 DEF FreshInv, Aged, TypeOK, Sessions
    <2>3. Usable' = {}  BY <2>1, <2>2 DEF Usable
    <2> QED  BY <1>1, <2>1, <2>3 DEF Service!Next, Service!Close, TearingDown
  <1>3. CASE StartMaintenance(Main)
    <2>1. /\ generation' = generation + 1 /\ session' = session
          /\ deploy_id' = deploy_id /\ availability' = availability
          /\ pc[Main] = "start"
      BY <1>3 DEF StartMaintenance, sessions, report, At
    <2>2. session # NoSession => session.deploy_id # deploy_id
      BY <2>1 DEF FreshInv, Older, TypeOK, Sessions
    <2>3. Usable = {} /\ Usable' = {}
      BY <2>1, <2>2, NoneUsable, SameUsable
    <2> QED  BY <1>1, <2>1, <2>3 DEF Service!Next, Service!Deploy,
         TearingDown
  <1>4. CASE \/ LoadDeployId(Main) \/ StartRefused(Main)
             \/ MarkPending(Main) \/ AnnouncePreparing(Main)
             \/ JoinMaintenance(Main) \/ MarkDone(Main) \/ AnnounceReady(Main)
    <2>1. /\ UNCHANGED <<deploy_id, generation, session>>
          /\ availability' \in {availability, "PREPARING", "READY", "FAILED"}
      BY <1>4 DEF LoadDeployId, StartRefused, GiveUp, MarkPending,
         AnnouncePreparing, JoinMaintenance, MarkDone, AnnounceReady,
         ReportFailure, librime, sessions, report
    <2> QED  BY <1>1, <2>1, ServiceStutter DEF Service!Next
  <1> QED  BY <1>2, <1>3, <1>4 DEF RunMaintenance

\* Main's other steps open the session they created, close a stale one, or
\* begin and carry out the teardown.
LEMMA ServiceMain ==
    ASSUME TypeOK, QuietInv, FreshInv, MainStep
    PROVE  [Service!Next]_Service!vars
  <1>1. CASE RunMaintenance(Main)  BY <1>1, ServiceRun
  <1>2. CASE SchemaSelected \/ LookupMiss
    <2>1. /\ UNCHANGED <<deploy_id, generation, availability>>
          /\ session' \in {session, fresh, NoSession}
      BY <1>2 DEF SchemaSelected, LookupMiss, librime, sessions, report
    <2>2. ~TearingDown /\ ~TearingDown'
      BY <1>2, MainMoves DEF SchemaSelected, LookupMiss, At, TearingDown
    <2>3. CASE session' = session
      BY <2>1, <2>2, <2>3, ServiceStutter DEF Service!Next
    <2>4. CASE session' # session
      <3>1. Usable' = {} \/ Usable' = {generation}
        <4>1. session' # NoSession => Aged(session')
          BY <2>1, <2>4 DEF FreshInv
        <4>2. session' # NoSession => (session'.deploy_id = deploy_id =>
                                          session'.born = generation)
          BY <4>1 DEF Aged
        <4> QED  BY <2>1, <4>2 DEF Usable
      <3> QED  BY <2>1, <2>2, <3>1 DEF Service!Next, Service!Open,
           Service!Close, TearingDown
    <2> QED  BY <2>3, <2>4
  <1>3. CASE FreeInstance
    <2>1. /\ session' = NoSession
          /\ UNCHANGED <<deploy_id, generation, availability>>
      BY <1>3 DEF FreeInstance, librime, report
    <2>2. TearingDown /\ TearingDown'
      BY <1>3, MainMoves DEF FreeInstance, At, TearingDown
    <2>3. Usable' = {}  BY <2>1 DEF Usable
    <2> QED  BY <2>1, <2>2, <2>3 DEF Service!Next, Service!Close, TearingDown
  <1>4. CASE FreeEngine
    <2>1. UNCHANGED <<session, deploy_id, generation, availability>>
      BY <1>4 DEF FreeEngine, librime, sessions, report
    <2>2. TearingDown /\ TearingDown'
      BY <1>4, MainMoves DEF FreeEngine, At, TearingDown
    <2> QED  BY <2>1, <2>2, SameUsable DEF Service!vars, TearingDown
  <1>5. CASE Quiesce
    <2>1. UNCHANGED <<session, deploy_id, generation, availability>>
      BY <1>5 DEF Quiesce, librime, sessions, report
    <2>2. ~TearingDown /\ TearingDown' \in BOOLEAN
      BY <1>5 DEF Quiesce, At, TearingDown
    <2>3. Usable' = Usable  BY <2>1, SameUsable
    <2>4. CASE TearingDown'
      BY <2>1, <2>2, <2>3, <2>4 DEF Service!Next, Service!Stop,
         TearingDown
    <2>5. CASE ~TearingDown'
      BY <2>1, <2>2, <2>3, <2>5 DEF Service!vars, TearingDown
    <2> QED  BY <2>4, <2>5
  <1>6. CASE EnsureDeployed \/ ProbeBuild \/ Returned \/ LookupHit
             \/ CreateSession \/ SchemaRejected \/ ApplyRuntimeConfig
    <2>1. ~TearingDown /\ pc[Main] # "quiesce"
      BY <1>6 DEF EnsureDeployed, ProbeBuild, Returned, LookupHit,
         CreateSession, SchemaRejected, ApplyRuntimeConfig, At, TearingDown
    <2>2. ret # "freeInstance"  BY <2>1 DEF QuietInv
    <2>3. pc'[Main] \in {"idle", "probe", "found", "load", "apply", "ensure",
                          "lookup", ret}
      BY <1>6, MainMoves
      DEF EnsureDeployed, ProbeBuild, Returned, LookupHit, CreateSession,
         SchemaRejected, ApplyRuntimeConfig, GiveUp
    <2>4. ~TearingDown'  BY <2>2, <2>3 DEF TearingDown, TypeOK
    <2>5. UNCHANGED <<deploy_id, generation, session, availability>>
      BY <1>6 DEF EnsureDeployed, ProbeBuild, Returned, LookupHit,
         CreateSession, SchemaRejected, ApplyRuntimeConfig, GiveUp, librime,
         sessions, report
    <2> QED  BY <2>1, <2>4, <2>5, ServiceStutter DEF Service!Next
  <1> QED  BY <1>1, <1>2, <1>3, <1>4, <1>5, <1>6 DEF MainStep

\* Every step of the engine is one of the service, or none.
LEMMA ServiceStep ==
    ASSUME Jobs = {}, TypeOK, QuietInv, FreshInv, [Next]_vars
    PROVE  [Service!Next]_Service!vars
  <1>1. CASE Worker  BY <1>1, ServiceWorker DEF Service!Next
  <1>2. CASE MainStep  BY <1>2, ServiceMain
  <1>3. CASE Host
    <2>1. ~TearingDown  BY <1>3 DEF Host, FocusIn, ProcessKey, Peek,
       ReloadConfig, Deploy, Deactivate, Shutdown, Detach, Request, At,
       TearingDown
    <2>2. CASE Peek
      <3>1. /\ session' = NoSession /\ pc' = pc
            /\ UNCHANGED <<deploy_id, generation, availability>>
        BY <2>2 DEF Peek, control, librime, report
      <3>2. Usable' = {}  BY <3>1 DEF Usable
      <3>3. TearingDown' = TearingDown  BY <3>1 DEF TearingDown
      <3> QED  BY <3>1, <3>2, <3>3 DEF Service!Next, Service!Close, TearingDown
    <2>3. CASE FocusIn \/ ProcessKey \/ ReloadConfig \/ Deploy
               \/ Deactivate \/ Shutdown
      <3>1. pc'[Main] \in {"lookup", "reload", "load", "quiesce"}
        BY <2>3, MainMoves DEF FocusIn, ProcessKey, ReloadConfig, Deploy,
           Deactivate, Shutdown, Detach
      <3>2. UNCHANGED <<deploy_id, generation, session, availability>>
        BY <2>3 DEF FocusIn, ProcessKey, ReloadConfig, Deploy, Deactivate,
           Shutdown, Detach, librime, sessions, report
      <3>3. ~TearingDown'  BY <3>1 DEF TearingDown
      <3> QED  BY <2>1, <3>2, <3>3, ServiceStutter DEF Service!Next
    <2> QED  BY <1>3, <2>2, <2>3 DEF Host
  <1>4. CASE Terminated \/ UNCHANGED vars
    <2>1. /\ UNCHANGED <<deploy_id, generation, session, availability>>
          /\ pc' = pc
      BY <1>4 DEF Terminated, vars, librime, sessions, report, control
    <2>2. Usable' = Usable  BY <2>1, SameUsable
    <2>3. TearingDown' = TearingDown  BY <2>1 DEF TearingDown
    <2> QED  BY <2>1, <2>2, <2>3 DEF Service!vars, TearingDown
  <1> QED  BY <1>1, <1>2, <1>3, <1>4 DEF Next

\* Without setup threads, whatever the threads do looks to the host like the
\* service: deployments only between sessions, sessions only on the latest
\* deployment, silence from the teardown on.
THEOREM EngineImplementsService ==
    ASSUME Jobs = {} PROVE Spec => ImplementsService
  <1>1. Init => Service!Init
    <2> SUFFICES ASSUME Init  PROVE Service!Init
      OBVIOUS
    <2>1. Usable = {}  BY DEF Init, Usable
    <2>2. TearingDown = FALSE
      <3>1. pc[Main] = "ensure"  BY DEF Init, Threads
      <3> QED  BY <3>1 DEF TearingDown
    <2> QED  BY <2>1, <2>2 DEF Init, Service!Init
  <1>2. TypeOK /\ QuietInv /\ FreshInv /\ [Next]_vars =>
            [Service!Next]_Service!vars
    BY ServiceStep
  <1> QED
    BY <1>1, <1>2, TypeCorrect, QuietInvariant, FreshInvariant, PTL
    DEF Spec, ImplementsService, Service!Spec

=============================================================================
