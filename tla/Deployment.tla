----------------------------- MODULE Deployment -----------------------------
(***************************************************************************)
(* How the Rime engine deploys: the availability it reports, the latch     *)
(* maintenance_done, the deployment counter that makes sessions stale, and *)
(* the teardown of the worker.  Three kinds of threads share that state    *)
(* without a lock:                                                         *)
(*   Main    the thread that serves the host's requests (worker_main.c, or *)
(*           an in-process host), running rime_engine.c, rime_session.c    *)
(*           and rime_deploy.c;                                            *)
(*   worker  librime's own deployment thread, which calls back into        *)
(*           typio_rime_notification;                                      *)
(*   Jobs    the detached threads started by the "setup" command           *)
(*           (rime_control.c).                                             *)
(* Every unprotected store to shared state is a step of its own.           *)
(***************************************************************************)
EXTENDS Naturals

CONSTANTS
    Main,        \* the thread that serves requests
    Jobs,        \* setup threads that can be started; {} in the shipped worker
    HostOps,     \* which of "deploy", "setup", "deactivate" the host uses
    SyncModes,   \* what TYPIO_RIME_SYNC_DEPLOY=1 may be
    MaxDeploys,  \* bound: no new request once deploy_id reaches it
    NoSession    \* a null session pointer

ASSUME ThreadsAssumption == Main \notin Jobs
ASSUME HostAssumption ==
    /\ HostOps \subseteq {"deploy", "setup", "deactivate"}
    /\ SyncModes \subseteq BOOLEAN /\ MaxDeploys \in Nat
ASSUME NoSessionAssumption == NoSession \notin [deploy_id : Nat, born : Nat]

VARIABLES
    maintenance_done,  \* state->maintenance_done
    availability,      \* state->availability
    deploy_id,         \* state->deploy_id
    handler,           \* is typio_rime_notification registered with librime?
    sync,              \* is TYPIO_RIME_SYNC_DEPLOY=1 in the environment?
    build,             \* does build/default.yaml exist?
    worker,            \* librime's deployment thread
    queued,            \* tasks scheduled while that thread was running
    outcome,           \* how the latest deployment went
    generation,        \* deployments librime has accepted so far
    session,           \* the context's property "rime.session"
    fresh,             \* the session get_session is still building
    pc,                \* where each of our threads is
    ret,               \* Main: where ensure_deployed or a deploy returns to
    reloading,         \* Main: get_session was called by apply_runtime_config
    reg                \* the value of deploy_id a thread is incrementing

report == <<maintenance_done, availability>>
settings == <<handler, sync>>
librime == <<build, worker, queued, outcome, generation>>
sessions == <<session, fresh>>
control == <<pc, ret, reloading, reg>>
vars == <<report, deploy_id, settings, librime, sessions, control>>

Threads == {Main} \cup Jobs
Sessions == [deploy_id : Nat, born : Nat]

MainLabels == {"idle", "lookup", "ensure", "probe", "found", "foundReady",
               "create", "apply", "retry", "returned", "reload",
               "quiesce", "freeInstance", "freeEngine", "exited"}
RunLabels == {"load", "store", "start", "mark", "announce",
              "join", "done", "ready"}
JobLabels == {"off", "install", "fetch", "await", "settle", "settled",
              "finish", "end"}

TypeOK ==
    /\ maintenance_done \in BOOLEAN
    /\ availability \in {"PREPARING", "READY", "FAILED"}
    /\ deploy_id \in Nat
    /\ handler \in BOOLEAN
    /\ sync \in BOOLEAN
    /\ build \in BOOLEAN
    /\ worker \in {"idle", "begin", "preparing", "build", "built",
                   "broken", "succeeded", "reported"}
    /\ queued \in BOOLEAN
    /\ outcome \in {"none", "success", "failure", "refused"}
    /\ generation \in Nat
    /\ session \in Sessions \cup {NoSession}
    /\ fresh \in Sessions \cup {NoSession}
    /\ pc \in [Threads -> MainLabels \cup RunLabels \cup JobLabels]
    /\ ret \in {"idle", "create", "retry", "reload", "freeInstance"}
    /\ reloading \in BOOLEAN
    /\ reg \in [Threads -> Nat]

\* typio_rime_init up to its call of typio_rime_ensure_deployed.
Init ==
    /\ maintenance_done = FALSE
    /\ availability = "PREPARING"
    /\ deploy_id = 0
    /\ handler = TRUE
    /\ sync \in SyncModes
    /\ build \in BOOLEAN
    /\ worker = "idle"
    /\ queued = FALSE
    /\ outcome = "none"
    /\ generation = 0
    /\ session = NoSession
    /\ fresh = NoSession
    /\ pc = [t \in Threads |-> IF t = Main THEN "ensure" ELSE "off"]
    /\ ret = "idle"
    /\ reloading = FALSE
    /\ reg = [t \in Threads |-> 0]

\* typio_rime_is_maintaining.
Maintaining == worker # "idle"

\* The process is there; every thread dies with main.
Running == pc[Main] # "exited"

\* join_maintenance_thread returns.
JoinIgnored == TRUE
JoinWaitsForLatch == ~Maintaining /\ maintenance_done
Joined == ~Maintaining

\* The stores of typio_rime_notification, and of the failing paths.
LatchForgotten == UNCHANGED maintenance_done
SetLatch == maintenance_done' = TRUE

FailureIgnored == UNCHANGED availability
ReportFailure == availability' = "FAILED"

\* Is TYPIO_RIME_SYNC_DEPLOY=1?
NeverSync == FALSE
Sync == sync

\* deploy_id++; the test for build/default.yaml.
NotIncremented(n) == n
Decremented(n) == n - 1
Incremented(n) == n + 1

AlwaysBuilt == TRUE
BuildExists == build

At(t, label) == pc[t] = label /\ Running
Goto(t, label) == pc' = [pc EXCEPT ![t] = label]

-----------------------------------------------------------------------------
(* librime's deployment thread: an external component, reduced to the      *)
(* notifications it posts and the files it leaves.                         *)

\* The notification "deploy"/"start": two stores of typio_rime_notification.
NotifyStart ==
    /\ Running /\ worker = "begin"
    /\ IF handler
       THEN worker' = "preparing" /\ maintenance_done' = FALSE
       ELSE worker' = "build" /\ UNCHANGED maintenance_done
    /\ UNCHANGED <<availability, deploy_id, settings, build, queued, outcome,
                   generation, sessions, control>>

NotifyPreparing ==
    /\ Running /\ worker = "preparing"
    /\ worker' = "build"
    /\ availability' = "PREPARING"
    /\ UNCHANGED <<maintenance_done, deploy_id, settings, build, queued,
                   outcome, generation, sessions, control>>

\* The tasks run, those queued so far included.  A failed task may or may
\* not leave a build/default.yaml behind.
Build ==
    /\ Running /\ worker = "build"
    /\ queued' = FALSE
    /\ \/ worker' = "built" /\ outcome' = "success" /\ build' = TRUE
       \/ worker' = "broken" /\ outcome' = "failure" /\ build' \in {build, TRUE}
    /\ UNCHANGED <<report, deploy_id, settings, generation, sessions, control>>

\* "deploy"/"success" or "deploy"/"failure", lost when nobody listens.
NotifyResult ==
    /\ Running /\ worker \in {"built", "broken"}
    /\ \/ /\ handler /\ worker = "built"
          /\ SetLatch
          /\ worker' = "succeeded"
          /\ UNCHANGED availability
       \/ /\ handler /\ worker = "broken"
          /\ ReportFailure
          /\ worker' = "reported"
          /\ UNCHANGED maintenance_done
       \/ /\ ~handler
          /\ worker' = "reported"
          /\ UNCHANGED report
    /\ UNCHANGED <<deploy_id, settings, build, queued, outcome, generation,
                   sessions, control>>

NotifyReady ==
    /\ Running /\ worker = "succeeded"
    /\ worker' = "reported"
    /\ availability' = "READY"
    /\ UNCHANGED <<maintenance_done, deploy_id, settings, build, queued,
                   outcome, generation, sessions, control>>

\* Until here librime is in maintenance mode.
WorkerEnd ==
    /\ Running /\ worker = "reported"
    /\ worker' = IF queued THEN "begin" ELSE "idle"
    /\ UNCHANGED <<report, deploy_id, settings, build, queued, outcome,
                   generation, sessions, control>>

Worker == \/ NotifyStart \/ NotifyPreparing \/ Build
          \/ NotifyResult \/ NotifyReady \/ WorkerEnd

-----------------------------------------------------------------------------
(* typio_rime_run_maintenance, on the thread t that calls it.              *)

\* Where a call that failed leaves Main: get_session returns null, the
\* session under construction is freed, the request is over.
GiveUp ==
    /\ Goto(Main, "idle")
    /\ fresh' = NoSession
    /\ reloading' = FALSE
    /\ UNCHANGED <<ret, session>>

\* deploy_id++ is a load and a store; another thread may come between.
LoadDeployId(t) ==
    /\ At(t, "load")
    /\ reg' = [reg EXCEPT ![t] = deploy_id]
    /\ Goto(t, "store")
    /\ UNCHANGED <<report, deploy_id, settings, librime, sessions,
                   ret, reloading>>

StoreDeployId(t) ==
    /\ At(t, "store")
    /\ deploy_id' = Incremented(reg[t])
    /\ Goto(t, "start")
    /\ UNCHANGED <<report, settings, librime, sessions, ret, reloading, reg>>

StartRefused(t) ==
    /\ At(t, "start")
    /\ ReportFailure
    /\ outcome' = "refused"
    /\ IF t = Main THEN GiveUp
       ELSE Goto(t, "settle") /\ UNCHANGED <<ret, reloading, sessions>>
    /\ UNCHANGED <<maintenance_done, deploy_id, settings, build, worker,
                   queued, generation, reg>>

StartMaintenance(t) ==
    /\ At(t, "start")
    /\ generation' = generation + 1
    /\ IF Maintaining
       THEN queued' = TRUE /\ UNCHANGED worker
       ELSE worker' = "begin" /\ queued' = FALSE
    /\ Goto(t, IF Sync THEN "join" ELSE "mark")
    /\ UNCHANGED <<report, deploy_id, settings, build, outcome, sessions,
                   ret, reloading, reg>>

\* The asynchronous tail: both stores come after the thread was started.
MarkPending(t) ==
    /\ At(t, "mark")
    /\ maintenance_done' = FALSE
    /\ Goto(t, "announce")
    /\ UNCHANGED <<availability, deploy_id, settings, librime, sessions,
                   ret, reloading, reg>>

AnnouncePreparing(t) ==
    /\ At(t, "announce")
    /\ availability' = "PREPARING"
    /\ Goto(t, IF t = Main THEN "returned" ELSE "settle")
    /\ UNCHANGED <<maintenance_done, deploy_id, settings, librime, sessions,
                   ret, reloading, reg>>

\* Join, set the latch, report READY: the synchronous tail ("join"), the end
\* of a setup job ("settle") and, without the join, ensure_deployed when the
\* build is there already ("found").
JoinMaintenance(t) ==
    /\ \/ At(t, "join") /\ Goto(t, "done")
       \/ At(t, "settle") /\ Goto(t, "settled")
    /\ Joined
    /\ UNCHANGED <<report, deploy_id, settings, librime, sessions,
                   ret, reloading, reg>>

MarkDone(t) ==
    /\ \/ At(t, "done") /\ Goto(t, "ready")
       \/ At(t, "settled") /\ Goto(t, "finish")
       \/ At(t, "found") /\ Goto(t, "foundReady")
    /\ maintenance_done' = TRUE
    /\ UNCHANGED <<availability, deploy_id, settings, librime, sessions,
                   ret, reloading, reg>>

AnnounceReady(t) ==
    /\ \/ At(t, "ready") /\ Goto(t, IF t = Main THEN "returned" ELSE "settle")
       \/ At(t, "finish") /\ Goto(t, "end")
       \/ At(t, "foundReady") /\ Goto(t, ret)
    /\ availability' = "READY"
    /\ UNCHANGED <<maintenance_done, deploy_id, settings, librime, sessions,
                   ret, reloading, reg>>

RunMaintenance(t) ==
    \/ LoadDeployId(t) \/ StoreDeployId(t)
    \/ StartRefused(t) \/ StartMaintenance(t)
    \/ MarkPending(t) \/ AnnouncePreparing(t)
    \/ JoinMaintenance(t) \/ MarkDone(t) \/ AnnounceReady(t)

-----------------------------------------------------------------------------
(* typio_rime_ensure_deployed, on Main: the caller left where to return    *)
(* when it answers true in ret; false is GiveUp.                           *)

EnsureDeployed ==
    /\ At(Main, "ensure")
    /\ \/ maintenance_done /\ Goto(Main, ret)
          /\ UNCHANGED <<ret, reloading, sessions>>
       \/ ~maintenance_done /\ Maintaining /\ GiveUp
       \/ ~maintenance_done /\ ~Maintaining /\ Goto(Main, "probe")
          /\ UNCHANGED <<ret, reloading, sessions>>
    /\ UNCHANGED <<report, deploy_id, settings, librime, reg>>

ProbeBuild ==
    /\ At(Main, "probe")
    /\ Goto(Main, IF BuildExists THEN "found" ELSE "load")
    /\ UNCHANGED <<report, deploy_id, settings, librime, sessions,
                   ret, reloading, reg>>

\* run_maintenance returned true: to reload_config, which goes on, or to
\* ensure_deployed, which answers the latch.
Returned ==
    /\ At(Main, "returned")
    /\ \/ /\ ret = "reload" \/ maintenance_done
          /\ Goto(Main, ret)
          /\ UNCHANGED <<ret, reloading, sessions>>
       \/ ret # "reload" /\ ~maintenance_done /\ GiveUp
    /\ UNCHANGED <<report, deploy_id, settings, librime, reg>>

-----------------------------------------------------------------------------
(* typio_rime_get_session and typio_rime_apply_schema, on Main.  librime   *)
(* finds no session and creates none while it is in maintenance mode.      *)

Found == session # NoSession /\ ~Maintaining

\* apply_runtime_config goes on to apply_schema on the session it got.
LookupHit ==
    /\ At(Main, "lookup")
    /\ Found /\ session.deploy_id = deploy_id
    /\ Goto(Main, IF reloading THEN "apply" ELSE "idle")
    /\ reloading' = FALSE
    /\ UNCHANGED <<report, deploy_id, settings, librime, sessions, ret, reg>>

LookupMiss ==
    /\ At(Main, "lookup")
    /\ ~(Found /\ session.deploy_id = deploy_id)
    /\ session' = IF Found THEN NoSession ELSE session
    /\ Goto(Main, "ensure")
    /\ ret' = "create"
    /\ UNCHANGED <<report, deploy_id, settings, librime, fresh, reloading, reg>>

CreateSession ==
    /\ At(Main, "create")
    /\ \/ Maintaining /\ GiveUp
       \/ /\ ~Maintaining
          /\ fresh' = [deploy_id |-> deploy_id, born |-> generation]
          /\ Goto(Main, "apply")
          /\ UNCHANGED <<ret, reloading, session>>
    /\ UNCHANGED <<report, deploy_id, settings, librime, reg>>

\* select_schema succeeded on the new session, or on the context's own.
SchemaSelected ==
    /\ At(Main, "apply") \/ At(Main, "retry")
    /\ ~Maintaining
    /\ \/ /\ fresh # NoSession
          /\ session' = fresh
          /\ fresh' = NoSession
          /\ Goto(Main, IF reloading THEN "apply" ELSE "idle")
       \/ /\ fresh = NoSession
          /\ Goto(Main, "idle")
          /\ UNCHANGED sessions
    /\ reloading' = FALSE
    /\ UNCHANGED <<report, deploy_id, settings, librime, ret, reg>>

\* apply_runtime_config gets the focused context's session, then applies the
\* schema to it.
ApplyRuntimeConfig ==
    /\ At(Main, "reload")
    /\ Goto(Main, "lookup")
    /\ reloading' = TRUE
    /\ UNCHANGED <<report, deploy_id, settings, librime, sessions, ret, reg>>

\* No schema to select, or select_schema failed; the first failure is retried
\* after ensure_deployed when maintenance_done is clear.
SchemaRejected ==
    /\ At(Main, "apply") \/ At(Main, "retry")
    /\ \/ GiveUp
       \/ /\ pc[Main] = "apply" /\ ~maintenance_done
          /\ Goto(Main, "ensure")
          /\ ret' = "retry"
          /\ UNCHANGED <<reloading, sessions>>
    /\ UNCHANGED <<report, deploy_id, settings, librime, reg>>

-----------------------------------------------------------------------------
(* The requests of the host.                                               *)

Request == At(Main, "idle") /\ deploy_id < MaxDeploys

\* typio_rime_focus_in and typio_rime_set_active_mode look the session up.
FocusIn ==
    /\ Request
    /\ Goto(Main, "lookup")
    /\ UNCHANGED <<report, deploy_id, settings, librime, sessions,
                   ret, reloading, reg>>

\* typio_rime_process_key does so only when READY; otherwise it swallows
\* the key and changes nothing.
ProcessKey ==
    /\ Request /\ availability = "READY"
    /\ Goto(Main, "lookup")
    /\ UNCHANGED <<report, deploy_id, settings, librime, sessions,
                   ret, reloading, reg>>

\* reset, focus_out, get_active_mode: get_session with create = false drops
\* a stale session, and its destructor destroys the librime session.
Peek ==
    /\ At(Main, "idle")
    /\ Found /\ session.deploy_id # deploy_id
    /\ session' = NoSession
    /\ UNCHANGED <<report, deploy_id, settings, librime, fresh, control>>

\* typio_rime_reload_config without a deploy request.
ReloadConfig ==
    /\ Request
    /\ Goto(Main, "reload")
    /\ UNCHANGED <<report, deploy_id, settings, librime, sessions,
                   ret, reloading, reg>>

\* The command "deploy": reload_config with deploy_requested set.
Deploy ==
    /\ Request /\ "deploy" \in HostOps
    /\ build' = FALSE
    /\ Goto(Main, "load")
    /\ ret' = "reload"
    /\ UNCHANGED <<report, deploy_id, settings, worker, queued, outcome,
                   generation, sessions, reloading, reg>>

\* The command "setup": one thread per call, or none if it cannot start.
Setup(j) ==
    /\ Request /\ "setup" \in HostOps /\ pc[j] = "off"
    /\ \/ availability' = "PREPARING" /\ Goto(j, "install")
       \/ availability' = "FAILED" /\ UNCHANGED pc
    /\ UNCHANGED <<maintenance_done, deploy_id, settings, librime, sessions,
                   ret, reloading, reg>>

\* typio_rime_deactivate, as a request or as the first step of
\* worker_destroy; the handler is never registered again.
Detach(afterwards) ==
    /\ At(Main, "idle")
    /\ handler' = FALSE /\ UNCHANGED sync
    /\ ret' = afterwards
    /\ Goto(Main, "quiesce")
    /\ UNCHANGED <<report, deploy_id, librime, sessions, reloading, reg>>

Deactivate == "deactivate" \in HostOps /\ Detach("idle")

\* The end of the requests: worker_destroy.
Shutdown == Detach("freeInstance")

Host == \/ FocusIn \/ ProcessKey \/ Peek \/ ReloadConfig \/ Deploy
        \/ (\E j \in Jobs : Setup(j)) \/ Deactivate \/ Shutdown

\* The join of typio_rime_deactivate.
Quiesce ==
    /\ At(Main, "quiesce")
    /\ Joined
    /\ Goto(Main, ret)
    /\ UNCHANGED <<report, deploy_id, settings, librime, sessions,
                   ret, reloading, reg>>

\* typio_instance_free runs the destructor of the context's session.
FreeInstance ==
    /\ At(Main, "freeInstance")
    /\ session' = NoSession
    /\ Goto(Main, "freeEngine")
    /\ UNCHANGED <<report, deploy_id, settings, librime, fresh,
                   ret, reloading, reg>>

\* typio_rime_destroy finalizes librime and frees the state; main returns.
FreeEngine ==
    /\ At(Main, "freeEngine")
    /\ Goto(Main, "exited")
    /\ UNCHANGED <<report, deploy_id, settings, librime, sessions,
                   ret, reloading, reg>>

MainStep ==
    \/ RunMaintenance(Main)
    \/ EnsureDeployed \/ ProbeBuild \/ Returned
    \/ LookupHit \/ LookupMiss \/ CreateSession
    \/ SchemaSelected \/ SchemaRejected \/ ApplyRuntimeConfig
    \/ Quiesce \/ FreeInstance \/ FreeEngine

-----------------------------------------------------------------------------
(* A setup thread: setup_thread_func.                                      *)

\* typio_rime_setup_rime_ice first moves a user directory with schemas away,
\* its build included, then downloads and extracts a new one.
BackUp(j) ==
    /\ At(j, "install")
    /\ \/ /\ build' \in {build, FALSE}
          /\ Goto(j, "fetch")
          /\ UNCHANGED availability
       \/ /\ ReportFailure
          /\ Goto(j, "end")
          /\ UNCHANGED build
    /\ UNCHANGED <<maintenance_done, deploy_id, settings, worker, queued,
                   outcome, generation, sessions, ret, reloading, reg>>

Install(j) ==
    /\ At(j, "fetch")
    /\ \/ Goto(j, "await") /\ UNCHANGED availability
       \/ Goto(j, "end") /\ ReportFailure
    /\ UNCHANGED <<maintenance_done, deploy_id, settings, librime, sessions,
                   ret, reloading, reg>>

\* It polls for the end of a running deployment, but for 30 seconds at most,
\* and nothing keeps Main from starting one after the poll: the build may go
\* at any time.
InvalidateBuild(j) ==
    /\ At(j, "await")
    /\ build' = FALSE
    /\ Goto(j, "load")
    /\ UNCHANGED <<report, deploy_id, settings, worker, queued, outcome,
                   generation, sessions, ret, reloading, reg>>

Job(j) == BackUp(j) \/ Install(j) \/ InvalidateBuild(j) \/ RunMaintenance(j)

-----------------------------------------------------------------------------
Terminated == pc[Main] = "exited" /\ UNCHANGED vars

Next == \/ Worker \/ MainStep \/ Host
        \/ (\E j \in Jobs : Job(j))
        \/ Terminated

\* The threads are scheduled; the host need not ask for anything.
Fairness == /\ WF_vars(Worker) /\ WF_vars(MainStep)
            /\ \A j \in Jobs : WF_vars(Job(j))

Spec == Init /\ [][Next]_vars
FairSpec == Spec /\ Fairness

-----------------------------------------------------------------------------
(* Properties.                                                             *)

\* worker_destroy freed the instance, or is about to: deactivate is over.
TearingDown == pc[Main] \in {"freeInstance", "freeEngine", "exited"}

\* No thread of librime is live once deactivate has returned to
\* worker_destroy, so the session destructors and finalize run alone: what
\* the comment at rime_engine.c:144-151 promises.
QuietTeardown == TearingDown => worker = "idle"

\* Nobody writes the engine's state once deactivate has returned to
\* worker_destroy, which is freeing it.
FreedStateUntouched == [][TearingDown => UNCHANGED <<report, deploy_id>>]_vars

\* No setup thread is under way.
JobsOver == \A j \in Jobs : pc[j] \in {"off", "end"}

\* A setup thread that is still under way is all that can disturb the
\* teardown: once those that ran are over, no thread of librime is live and
\* nobody writes the state, whatever they had started or queued when
\* deactivate joined (rime_control.c:54, rime_engine.c:159).
QuietButForSetup == TearingDown /\ JobsOver => worker = "idle"
FreedButForSetup ==
    [][TearingDown /\ JobsOver => UNCHANGED <<report, deploy_id>>]_vars

\* A session get_session would hand out, its deploy_id being the current
\* one, was created on the data of the latest deployment: the counter is
\* bumped with every deployment, before any session could carry its value.
FreshSession ==
    \A s \in {session, fresh} \ {NoSession} :
        (~Maintaining /\ s.deploy_id = deploy_id) => s.born = generation

\* All threads are between requests.
Quiet == pc[Main] = "idle" /\ ~Maintaining /\ JobsOver

\* Once all is quiet after asynchronous deployments, READY means that there is
\* a build to load, unless librime refused the deployment asked for last or
\* nobody listens to it any more: no order of deploys, failures and retries
\* leaves the engine taking keys without data.
ReadyHasBuild == Quiet /\ ~sync /\ handler /\ availability = "READY" =>
                     build \/ outcome = "refused"

\* Once all is quiet, a deployment that succeeded has set maintenance_done and
\* been reported: a store of the thread that started it never comes last.
SuccessSticks == Quiet /\ handler /\ outcome = "success" =>
                     maintenance_done /\ availability = "READY"

\* A deployment has been reported, and none is queued behind it, before the
\* thread that started one has made the two stores of the asynchronous tail
\* (rime_deploy.c:96-97).
Overtaken == /\ \E t \in Threads : pc[t] \in {"mark", "announce"}
             /\ ~queued /\ worker \in {"succeeded", "reported", "idle"}

\* Only that race undoes a success: in a behaviour without it every success
\* sticks, whatever is deployed, queued, refused or deactivated besides.
SuccessSticksButForRace == []~Overtaken => []SuccessSticks

\* Keys are swallowed only while something can still change that: when all
\* is quiet and the engine is not READY maintenance_done is clear, and the
\* next focus-in deploys again.
SwallowingIsRetried == Quiet /\ availability # "READY" => ~maintenance_done

\* With TYPIO_RIME_SYNC_DEPLOY=1 librime deploys only while Main waits in the
\* join: no request is served, and no session opened, in between.
SyncBlocks == sync /\ Maintaining => pc[Main] = "join"

\* A deployment that was announced is eventually reported READY or FAILED,
\* but for that race, and unless the host ends the worker first or, deploying
\* asynchronously, has detached the handler with a deactivate request.
PreparingResolves ==
    []~Overtaken =>
        (availability = "PREPARING" ~>
            (availability # "PREPARING" \/ ret = "freeInstance"
             \/ (~handler /\ ~sync)))

\* The teardown is not blocked for ever by a deployment, whatever was running
\* or queued when it began.
TeardownEnds == ret = "freeInstance" ~> pc[Main] = "exited"

\* The sessions get_session would hand out, by the data they were opened on.
Usable == {s.born : s \in {t \in {session} \ {NoSession} :
                              t.deploy_id = deploy_id}}

Service == INSTANCE EngineService WITH
               epoch <- generation, open <- Usable, down <- TearingDown

\* Without setup threads, the engine implements the service the host counts
\* on: no step of any thread opens a session on old data, starts a deployment
\* under a session in use, or reports anything during the teardown.
ImplementsService == Service!Spec

=============================================================================
