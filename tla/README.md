# Verification of typio-engine-rime

typio-engine-rime is the Rime input engine of Typio: a worker process that
serves a host's requests, an engine that answers them with librime, and
librime's own thread that compiles ("deploys") the schemas.  This directory
models the parts of it that are hard to test, model-checks them with TLC and
proves some results with TLAPS.  File and line references are to the
repository's `src/` directory unless a path says otherwise.

## 1. The system

| Part | Files | State it keeps | Operations | What makes it correct |
|---|---|---|---|---|
| Worker process | `worker_main.c` | one engine, one instance, one context | requests one at a time, teardown | a reply per request; teardown after everything else has stopped |
| Engine life cycle | `rime_engine.c` | `TypioRimeState` | init, deactivate, destroy, availability | nothing runs beside the frees |
| Deployment | `rime_deploy.c`, the notification handler | `maintenance_done`, `availability`, `deploy_id`, the build directory | `run_maintenance`, `ensure_deployed` | sessions are fresh; READY is true; PREPARING ends |
| Commands and setup | `rime_control.c`, `rime_setup.c` | a detached thread per setup and its `unzip`, the user directory | setup, deploy | the job's report agrees with the engine's |
| Sessions | `rime_session.c` | per context: session id, `deploy_id`, `shift_only` | `get_session`, `apply_schema`, destructor | never stale; always a schema that exists |
| Keys | `rime_key.c`, `process_key` | `shift_only` | keys, bare Shift, Escape | Shift toggles only when pressed alone |
| Display | `rime_sync.c` | what the host shows | `sync_context`, `clear_state` | what is shown is what librime composes |
| Modes | `rime_mode.c` | the mode the host was told, the schema in the tree | publish, write-back, get and set | no copy drifts |
| Configuration | `rime_config.c`, `reload_config` | `state->config` | load, reload, change hook | the tree's schema takes effect |
| Path expansion | `path_expand.c` | none | pure | equals its definition |
| Utilities | `rime_utils.c` | none | files, clock | - |
| librime, libtypio | external | sessions, deployment thread; contexts, configuration tree | called, calls back | assumed |

**How they interact.** The worker calls the engine's operations on one thread
("Main" below). librime deploys on its own thread and calls
`typio_rime_notification` on it; that handler writes `maintenance_done` and
`availability`, which Main reads and writes without a lock. librime calls the
same handler on Main, in the middle of a key or a `select_schema`, when an
option or the schema changes; it then publishes the status.  The setup command
starts a detached thread that runs the deployment functions too.  A session
belongs to the input context, whose destructor destroys it.

**What is hard.** Unprotected stores of two or three threads; a deployment that
begins or ends anywhere in a request; a teardown while it runs; four copies of
the same facts (librime's session, the display, the mode the host was told, the
configuration tree); a flag that spans several keys.  `PROJECT.json` lists
every hazard at its line, with the properties that cover it or why none does
yet.

**In the shipped worker** the commands `deploy` and `setup` cannot be reached:
the protocol has no request for them (`worker_main.c:462-526`), only hosts that
load the engine in their own process invoke them (the tests do).  The worker
deploys at init and from `ensure_deployed`.  `path_expand.c` is built into the
worker and tested, but nothing in the worker's sources calls it: its properties
are about the function, not yet about the running system.  Constants select
which of these operations a run or a theorem is about.

## 2. Modules

| Module | Subject |
|---|---|
| `EngineService` | what the engine promises the host about deployments: an abstract specification |
| `Deployment` | availability, `maintenance_done`, `deploy_id`, teardown; all threads; implements `EngineService` |
| `InputSession` | contexts, keys, modes, configuration, display; one request at a time |
| `WorkerProtocol` | the worker process around `InputSession`: requests, the mode the host caches, crash and restart |
| `SetupInstall` | the files of the setup command, its threads, its `unzip`, interruptions |
| `PathExpand` | the scanner of `path_expand.c` |
| `ModeWire` | the mode id as a string: suffix, buffers, hexadecimal, and back |
| `DeploymentProofs`, `InputSessionProofs`, `InputSessionKeyProofs`, `WorkerProtocolProofs`, `SetupInstallProofs`, `ModeWireProofs`, `PathExpandProofs`, `PathExpansionProofs` | the theorems about each |
| `MCDeployment`, `MCInputSession`, `MCWorkerProtocol`, `MCSetupInstall`, `MCText` | what TLC runs |

`WorkerProtocol` extends `InputSession` and uses its actions as the handlers of
its requests.  `Deployment` and `InputSession` see the same deployments at two
grains: the first splits every store of every thread and keeps one context, the
second takes a handler as one step and keeps what is in the sessions.
`SetupInstall` opens up what the first two see of a setup, one step that
succeeds or fails.  `ModeWire` opens up what `InputSession` and
`WorkerProtocol` treat as a pair of schema and `ascii_mode`.

### Deployment

State is the C state (`maintenance_done`, `availability`, `deploy_id`, the
context's session) plus what librime keeps (its thread `worker`, the queue
behind it, the last `outcome`, whether `build/default.yaml` exists, whether a
handler is registered) and a program counter per thread.  An action is a step
between two accesses to shared state: `deploy_id++` is a load and a store, a
notification writes `maintenance_done` and then the availability, the
asynchronous tail of `run_maintenance` does both after the thread was started.
`sync` is the switch `TYPIO_RIME_SYNC_DEPLOY`, fixed when the process starts;
`SyncModes` says which values a run or a theorem allows.  `ret` is the return
address of `ensure_deployed` and of a deploy, so that the functions are
modelled once though they are called from several places.  `generation` counts
the deployments librime accepted and `session.born` remembers it; both exist
only for the properties.

| Code | Actions |
|---|---|
| `typio_rime_run_maintenance` | `LoadDeployId` ... `AnnounceReady` |
| `typio_rime_ensure_deployed` | `EnsureDeployed`, `ProbeBuild`, `MarkDone`, `AnnounceReady`, `Returned` |
| `typio_rime_get_session` | `LookupHit`, `LookupMiss`, `CreateSession`, `SchemaSelected`, `Peek` |
| `typio_rime_apply_schema` | `SchemaSelected`, `SchemaRejected` |
| `typio_rime_notification` (deploy) | `NotifyStart`, `NotifyPreparing`, `NotifyResult`, `NotifyReady` |
| `reload_config`, `apply_runtime_config`, command `deploy` | `ReloadConfig`, `Deploy`, `ApplyRuntimeConfig` |
| command `setup`, `setup_thread_func` | `Setup`, `BackUp`, `Install`, `InvalidateBuild`, then `run_maintenance`, join and report |
| `deactivate`, `worker_destroy` | `Detach`, `Quiesce`, `FreeInstance`, `FreeEngine` |

librime is external: a deployment accepted while another runs is queued behind
it, sessions are neither found nor created in maintenance mode, which lasts
from `start_maintenance` to the end of the thread, and a failed task may or may
not leave a build.  Reads and writes of one variable are atomic, as they are on
the machines this runs on, although C calls the race undefined.  A notification
reads `handler` when it fires.  A build that failed waits as `"broken"`, apart
from `outcome`, until its own notification: a start that librime refuses in
between sets `outcome` and must not turn a finished build's report into
another.

`EngineService` has four variables: what is reported, how many deployments were
accepted, the deployment of the session in use, and whether the engine is being
freed.  `Service` maps `generation`, the session that carries the current
`deploy_id` (`Usable`) and `TearingDown` to them.  Its content is in the
guards: a deployment is accepted only when no session passes for current, a
session is opened on the latest deployment, nothing is reported, accepted or
opened once the engine is being freed.

### InputSession

One action per request, each the whole handler.  `session[c]` is the context's
property together with what librime holds for it: schema, `ascii_mode`, the
kind of composition and the engine's `shift_only`.  `shown`, `reported` and
`tree` are the copies.  A composition is nothing, text, or candidates alone:
that is all `Escape` looks at.  Three variables exist for properties only:
`bare` is the context in which Shift is down with no key but Escape pressed
since, in any context; `escaped` says that Escape was; `aside`, that since the
focus last moved a reset or a switch of mode was asked for a context without
it, which then is the one the host was told of.  A deployment is reduced to the
phases Main can tell apart: in maintenance with `maintenance_done` clear, in
maintenance with it set, after the success was reported, and over; it may be
refused, succeed or fail, and change the set of schemas.  A queued one extends
the running one.  A new session is published as it was found, and again when
the handler changes it while librime has somebody to notify.

| Code | Actions |
|---|---|
| `get_session`, `ensure_deployed`, `apply_schema` | operators `Live`, `Got`, `NotGot`, `Ensured`, `Keep` of the handlers |
| `publish_status`, `rime_writeback_schema` | `Publish`, `WriteBack`, within the handlers |
| `focus_in`, `focus_out`, `reset` | `FocusIn`, `FocusOut`, `Reset` |
| `process_key`, `handle_bare_shift` | `Escape`, `ShiftPress`, `ShiftRelease`, `Key` |
| `set_active_mode`, `get_active_mode` | `SetActiveMode`, `GetActiveMode` |
| `reload_config`, `on_config_change`, `apply_runtime_config` | `ReloadConfig` with `ApplySchema` |
| commands `deploy` and `setup`, the setup thread | `Deploy`, `SetupBegins`, `SetupFails`, `SetupEdits`, `SetupDeploys`, `SetupEnds` |
| `deactivate` | `Deactivate`; after it `handler` is false for good |
| destructor of a context's property | `Destroy` |

Assumed of librime and libtypio: a key librime does not handle changes nothing
in the session, `select_schema` drops the composition and may change
`ascii_mode`, and every change of schema or option is notified before the call
returns, and `get_status` does not fail on a session that was found in the same
handler (so the fallback at `rime_mode.c:58-61` is left out).  The host sends
keys and focus-out to the context that has the focus, and focuses one context
at a time; a reset or a switch of mode may name any.  `TracksFocus` says
whether libtypio knows the focused context; the worker calls the engine's
`focus_in` directly, so there it does not, and a reload reaches no session.
`shift_held` is written and never read by the code and is left out.

### WorkerProtocol

The worker has no channel of its own to the host: the host learns the mode only
from the ACTIVE_MODE lines at the end of some replies and keeps the last one in
`cached`.  `Serve(op)` is `handle_request` up to that line, `EmitActiveMode` is
`emit_active_mode`, which asks the engine again; librime's thread and edits of
the configuration may come between the two.  `End` is any end of the process
(the shutdown request, end of file, a crash), also between the two; what is in
memory is lost, the configuration tree is not.  `Restart` is `typio_rime_init`
in the next process.  `chosen` is for a property: after every step `Choose`
makes it the live session's schema, keeps it while there is no session, across
processes too, and forgets it when somebody edits the tree or when a session
lives on without the handler.

### SetupInstall

`dir` is the user directory: schemas of the user, of rime-ice and of librime,
the archive and the marker, where rime-ice and the archive may be there in
part.  `pc[j]` walks one setup thread through `typio_rime_setup_rime_ice`, one
action per system call that another thread, or the end of the process, may come
before: `CheckMarker`, `LookForSchemas`, `BackUp`, `MakeDir`, `OpenArchive`,
`Download`, `Extract`, `Extracted`, `Mark`.  Each call may fail.  `fork` may
too: the code does not look, and `waitpid(-1)` then waits for the `unzip` of
another setup, taking its status and leaving that one without, or for none
(`WaitAny`); a status that was never written is anything (`StatusUnknown`).
`recent` and `older` are the backups: their name is the second, so that the
rename fails in the second of the last one and `Tick` frees the name.
`here[j]` says whether the file that thread has open, or the directory it
extracts into, is still what the path names.  `Restart` ends all threads but
not their `unzip`, which is a process of its own: `orphan` says that one goes
on writing (`UnzipWrites`) until it ends (`OrphanEnds`).  `overlapped` and
`misread` record, for properties, that a setup began while another or its
`unzip` was running, and that an unwritten status was taken for success.

### PathExpand

One action per way through the loop (`Tilde`, `Braced`, `Bare`, `Copy`,
`Finish`), each with its append to the buffer, and `OutOfMemory` in place of
any of them.  `capacity` is the buffer's size and `Grown` the loop that doubles
it while it is not enough, of which no more turns are needed than bytes are
required.  `NamesAssumption` says that the characters of names are not among
the five signs the scan looks for, as those of `isalnum` and `_` are not.  The
reference is written another way: tokens are the substrings that match a
grammar, `Piece(p, e, i)` is what the i-th character of a path contributes in
an environment, `Expansion(p, e)` their concatenation.

### ModeWire

`Marked` is `rime_fill_status`, `SchemaOf` and `AsciiOf` what
`rime_writeback_schema` and `set_active_mode` read back from the string,
`Truncated` the buffers of 128 bytes, `Hex` and `Decoded` the worker's fields.
The actions follow one id: published by a change of mode and written to the
tree (`Switch`), told to the host (`Tell`), asked for again (`AskAgain`),
damaged on the way (`Garble`), and opened by the next process (`Reopen`).  Here
bytes do matter, because the properties are about them.

## 3. Properties and runs

| Run | Question | Result |
|---|---|---|
| `deploy` | both ways to deploy, every interleaving with requests, `deactivate` and shutdown; the refinement of `EngineService`; liveness | holds, 31 thousand states |
| `setup` | one setup thread, and what the teardown owes to it; with liveness | holds, 172 thousand |
| `contexts` | two contexts, two schemas, two deployments that may be refused or fail, everything the host may ask for | holds, 194 thousand |
| `worker` | the worker with every request, edits of the tree, restarts, up to two deployments | holds, 61 thousand |
| `install` | two setup threads, overlapping or not, every call failing, two restarts; with liveness | holds, 305 thousand |
| `text` | paths of up to five characters; the mode ids of schemas of up to five bytes; with liveness | holds, 857 thousand |
| `race` | does a success stick when librime may be fast? | no |
| `setup_teardown` | is the teardown quiet when a setup thread runs? | no |
| `wedge` | are keys swallowed only while that can still change? | no |
| `stale_display` | is what is shown what librime composes? | no |
| `escape` | does Shift toggle only when no other key came between? | no |
| `fork` | is rime-ice installed when setup says so? | no |

What the properties say is stated at each of them.  The ones that carry most:

- `FreshSession`, `ImplementsService`: a session that carries the current
  `deploy_id` was created on the data of the latest deployment, and none is in
  use when one starts.  Both rest on the increment coming before
  `start_maintenance`.
- `QuietTeardown`, `FreedStateUntouched`, `TeardownEnds`: when `worker_destroy`
  frees the instance no thread of librime is live, nobody writes the state any
  more, and the join does end.  `QuietButForSetup` and `FreedButForSetup` say
  the same of a host that uses the setup command, once the setup threads are
  over.
- `ReadyHasBuild`: what READY claims is true once things are quiet.
- `SuccessSticksButForRace`, `PreparingResolves`: in a behaviour that never has
  librime report before the two stores that follow `start_maintenance`
  (`Overtaken`), no success is lost and every announcement is resolved.  The
  premise is part of the formulas and not of the model: `SuccessSticks` alone
  is finding 1.
- `ReportedIsLive`, `TreeIsLive`, `NothingHidden`: three copies agree with
  librime's session, at every moment between two requests.  The first two speak
  of the context with the focus, and of no time when another was asked for
  since it got it (`aside`).
- `ShiftAloneToggles`: a release of Shift toggles `ascii_mode` only if Shift
  was pressed in the same context and no other key in any context since.  It is
  false for Escape (finding 5); `ShiftAloneTogglesButForEscape` says that it is
  true for every other key, through resets, focus changes and deployments.
- `AsciiSurvives`: `ascii_mode` of a session that lives on changes only by
  what the user did to that context; a reset with the focus kept, focus
  changes, deployments and other contexts leave it alone.
- `CachedIsLive`: the mode the host remembers is the live one after every
  request, although nothing is pushed, a reload tells nothing and the process
  may be another one.
- `SchemaSurvives`: the schema the user switched to last, by set-active-mode or
  in librime's menu, is the one the next focus-in opens, in this process or the
  next.  A switch in the menu after a deactivate request is lost, and left out.
- `SchemasKept`, `MarkerIsTrue`, `SuccessIsInstalled`, `SetupConverges`: a
  setup never loses the user's schemas; its marker and its success are true
  unless setups overlapped (an `unzip` that outlives its worker counts as one)
  or an unwritten status was read as success; and no interruption leaves a
  directory that a later setup cannot repair.  Without the exceptions the
  success is false: `SuccessIsTrue`, finding 6.
- `ExpansionIsRight`, `NulFits`, `ScanEnds`: the expansion equals its
  definition, the buffer always has room for its NUL, and the scan ends.
- `SchemaIsRestored`, `AsciiIsRestored`, `TreeNamesSchema`: a mode the host was
  told, sent back, restores schema and `ascii_mode`; the tree never names
  another schema.  They hold for ids that fit the buffer and do not themselves
  end in `:ascii`; a string cannot tell those apart.

**The six violations** are disagreements between the code and what the
repository says of it; `PROJECT.json` quotes the lines under "findings".

1. `race` (`rime_deploy.c:96`): `maintenance_done = false` and PREPARING are
   stored after librime's thread is running and may overwrite its success.  The
   thread has to finish a deployment, perhaps one that was queued behind a
   running one, before two stores are done: rare.  If its report comes before
   both stores, the engine swallows keys until a focus-in finds the build and
   reports READY.  If it comes between them, `maintenance_done` is true under
   PREPARING, a focus-in changes nothing, and only another deployment does.
2. `setup_teardown` (`rime_control.c:54`): `deactivate` does not know the
   detached setup thread.
3. `wedge` (`rime_control.c:30`): a setup that fails, in its thread or because
   the thread cannot be started (`rime_control.c:100-123`, the shortest trace),
   reports FAILED on an engine whose `maintenance_done` is true, so no request
   deploys or reports READY again; only the commands would.
4. `stale_display` (`rime_engine.c:306`): an asynchronous deployment leaves the
   old composition on display.
5. `escape` (`rime_engine.c:237`): Escape returns before the pending Shift is
   cleared, so that Shift down, Escape, Shift up toggles `ascii_mode`, against
   "no other keys pressed during hold" (`rime_key.c:70`).
6. `fork` (`rime_setup.c:94`): neither `fork` nor `waitpid` is checked; a
   status that was never written, read as 0, writes the marker with nothing
   extracted, and every later setup believes it.

**Bounds.**

- `Deployment`: `MaxDeploys` stops requests once `deploy_id` reaches it.
  Three deployments give one running, one queued and one after both, and every
  property relates at most a session to the deployments around it.  One context
  is enough because the engine's threads share the state and not the sessions.
  With a setup thread, two: one of Main's and one of the thread's can meet.
- `InputSession`: two contexts, since each keeps its own session and they share
  the schema, two schemas, one to have and one to change to, and `MaxDeploys =
  2`: one more can be asked for while the one that init began is running.  The
  theorems are for any number of deployments, contexts and schemas.
- `worker`: one context, as in the worker, `MaxDeploys = 2`: a session may be
  two deployments old.  Restarts are not bounded: nothing counts them.
- `install`: two threads, the least that can overlap, and two restarts: an
  interruption, and one of the setup that repairs it.  `fork` needs one thread
  and no restart.
- `text`: a path of five characters holds a whole `${a}` with a character
  before or after it, two bare variables, and every unfinished token; three
  environments leave everything unset, set everything to texts that look like
  more to expand, or set one name.  `FirstSize` is 2, so the buffer doubles
  twice.  Buffers of five bytes, a suffix of two and ids of up to five bytes
  give ids with room for the suffix, with room for a part of it, with none, and
  too long.  The two models share nothing and are one run; a scan ends, so
  deadlock is not checked there.

Symmetry is used in safety runs only, and contexts and schemas are
interchangeable in every definition.  `contexts` also uses a view, without
which it has some millions of states.  A session whose `deploy_id` is not
current is as good as none: `get_session` looks at nothing else of it before
it drops it, and `deploy_id` never goes back.  Of `bare` the view keeps only
whether it is a context whose session waits for the release, because only the
release that toggles reads it, and of `reported` only what `ReportedIsLive`
looks at; no property of the run reads `escaped`.

**Fairness.** librime's thread, Main within a request, and each setup thread
are scheduled weakly fairly: they are threads of a running process and none
blocks except in the join.  Requests and shutdown are not fair: the host may do
nothing for ever.  `PreparingResolves` excepts in its formula what makes it
false: the race of finding 1, and asynchronous deployments after a `deactivate`
request, since the handler is never registered again and the repository does
not say whether a host may go on.  `install` has each thread's steps, the end
of an `unzip` that was left behind and the clock fair, and `SetupConverges`
assumes in its formula that setup is asked for again and again, that it does
not overlap and that faults end.  `text` has the turns of the scan fair;
running out of memory is not.

## 4. What is proved

Each theorem holds for every value of the constants that satisfies the modules'
named assumptions and the column on the right.

| Module | Theorem | States | Assumes |
|---|---|---|---|
| `DeploymentProofs` | `TypeCorrect` | `[]TypeOK` | - |
| | `TeardownIsQuietButForSetup` | `[]QuietButForSetup` | - |
| | `FreedStateIsUntouchedButForSetup` | `FreedButForSetup` | - |
| | `TeardownIsQuiet` | `[]QuietTeardown` | no setup threads |
| | `FreedStateIsUntouched` | `FreedStateUntouched` | no setup threads |
| | `SessionsAreFresh` | `[]FreshSession` | no setup threads |
| | `SyncDeployBlocks` | `[]SyncBlocks` | no setup threads |
| | `EngineImplementsService` | `ImplementsService` | no setup threads |
| | `OnlyTheRaceUndoesSuccess` | `SuccessSticksButForRace` | no setup threads |
| | `ReadyAlwaysHasBuild` | `[]ReadyHasBuild` | no setup threads |
| `InputSessionProofs` | `TypeCorrect` | `[]TypeOK` | - |
| | `NothingIsHidden` | `[]NothingHidden` | - |
| | `ReportedIsAlwaysLive` | `[]ReportedIsLive` | - |
| | `TreeIsAlwaysLive` | `[]TreeIsLive` | - |
| `InputSessionKeyProofs` | `ShiftAloneAlwaysTogglesButForEscape` | `ShiftAloneTogglesButForEscape` | - |
| | `AsciiAlwaysSurvives` | `AsciiSurvives` | - |
| `WorkerProtocolProofs` | `WorkerTypeCorrect` | `[]WorkerTypeOK` | - |
| | `CachedIsAlwaysLive` | `[]CachedIsLive` | - |
| | `CopiesAgreeAcrossRestarts` | `[](NothingHidden /\ ReportedIsLive /\ TreeIsLive)` | - |
| | `SchemaAlwaysSurvives` | `SchemaSurvives` | - |
| `SetupInstallProofs` | `TypeCorrect` | `[]TypeOK` | - |
| | `SchemasAreKept` | `[]SchemasKept` | - |
| | `MarkerIsAlwaysTrue` | `[]MarkerIsTrue` | - |
| | `SuccessIsAlwaysInstalled` | `SuccessIsInstalled` | - |
| `ModeWireProofs` | `WireTypeCorrect` | `[]WireTypeOK` | - |
| | `TreeAlwaysNamesSchema` | `[]TreeNamesSchema` | - |
| | `SchemaIsAlwaysRestored` | `SchemaIsRestored` | - |
| | `AsciiIsAlwaysRestored` | `AsciiIsRestored` | - |
| `PathExpandProofs` | `PathTypeCorrect` | `[]PathTypeOK` | - |
| | `NulAlwaysFits` | `[]NulFits` | - |
| | `NothingSetNothingChanged` | `[]KeptVerbatim` | - |
| `PathExpansionProofs` | `ExpansionIsAlwaysRight` | `[]ExpansionIsRight` | - |

"No setup threads" is `Jobs = {}`, the shipped worker; with one, the teardown
and the freshness results are false (finding 2, and two increments that race).
Both ways to deploy are covered, whatever `SyncModes` is.  `ReadyHasBuild`
speaks of asynchronous deployments only and is false of the others:
`rime_deploy.c:94` reports READY after the join without looking at the result,
over the FAILED that the notification has just reported.  The switch is a
debugging aid, and no document says what a failed deployment should leave
behind under it.

**Deployment.** `QuietTeardown` is not inductive: from a state in which
`ensure_deployed` runs and `ret` is the teardown's label, returning would enter
the teardown with librime's thread live.  `TeardownInv` adds that `ret` is that
label only from the detach on, and says of a teardown with setup threads that
librime's thread is live only while one of them has yet to join it.  Hence the
two theorems for any `Jobs`: a setup thread still under way is all that can
disturb the teardown (finding 2), and without one nothing does.

`FreshSession` is not inductive because between the increment and the start of
the deployment a session of the new `deploy_id` would be stale at the start;
`FreshInv` says of every session that its `deploy_id` is at most the current
one, and equal only if it was created on the current deployment, and that in
between all are strictly older.  `SyncBlocks` is inductive, `sync` being fixed.
The refinement follows from the two invariants: initial states map to initial
states, and each step of each thread is shown to be a step of `EngineService`
or to leave its four variables alone.

`StickInv` places the two stores of the asynchronous tail before the
notification of the deployment they announce: while Main is at either, a
deployment is queued or has not got as far as its result.  A step that breaks
this clause, and no other, ends in an `Overtaken` state: hence the theorem says
of every behaviour, and not of a restricted model, that it loses a success only
by that race.  `BuildInv` carries READY back to the build it rests on: a report
made or still to be made by librime's thread (`SaysReady`) rests on a build
unless a deployment that has not run yet is `Coming` or Main is in the steps
between deleting the build and handing the deployment to librime, and Main's
own READY comes only after `ensure_deployed` has found the build with librime's
thread over.

**InputSession.** `Agree`, that the copies agree with a live session, is not
inductive: a session that is stale or hidden by maintenance mode may differ
from them, and would be live again if the mode ended under it.  `Fresh`
excludes that: a session that carries the current `deploy_id` was opened when
nothing was left to deploy, so maintenance mode is over, and it can only come
back with a larger `deploy_id`.  `Calm` is what every step does to the counter
and to `maintenance_done`, and `Outcome(c)` what a request about `c` leaves
behind; each request is shown to have that outcome, and the two together keep
`Inv` for the other contexts: a request about another context than the one with
the focus leaves `aside` behind.  For the action properties, `ShiftInv` adds
that a live session's pending Shift is that of the focused context and, while
the engine is READY, `bare` is that context.  While it is not READY keys are
swallowed and the flag can be out of date.  That is harmless because whatever
makes the engine READY again comes after the start of another deployment, with
which the session is no more; of the setup thread `ShiftInv` has to say so.
`AsciiSurvives` goes through the requests one by one (`ModeIsChosen`).

**WorkerProtocol.** While the process runs each of its steps is one of
`InputSession`: a request, a step of librime, an edit, and for the ACTIVE_MODE
line a `GetActiveMode` or nothing.  So `InputSession`'s invariants hold in
every process once they are shown to survive `End`, which leaves no session
(`GoneIsEmpty`), and `Restart`, which opens none.  `CachedIsLive` is inductive
beside them: the requests without a line leave a live session's mode alone or
end without a session that is live, and librime's thread may make a session
stale but never live.  `SchemaSurvives` takes three facts.  `TreeFollows`:
while the handler is registered and no edit waits, the tree is the live
session's schema, so a switch is saved as soon as it is made.  `Choice`: the
schema the user may count on is the tree's; a step that changes the tree
without an edit leaves a live session whose schema it is (`Follows`).
`ShadowIsSaved`: while no session is live and no edit waits, the engine's own
copy of the schema, from which a session is opened, is what the tree holds.  A
schema switched from librime's menu is in the tree and not in the copy, but the
worker's host has no command to deploy with and its reload starts no deployment
(`TracksFocus` is false), so the session lives until the process ends, and the
next one reads the tree.

**SetupInstall.** `KeptInv` adds that from the moment a job found no schemas,
or moved them away, the directory has none of the user's, so that the
extraction overwrites nothing, nor does an `unzip` that outlived its process.
`AloneInv` follows the one job of a history without overlaps: it works only
while there is no marker, extracts into the directory the path names, and comes
to the marker with all of rime-ice there, unless it misread a status; and no
marker is there while an `unzip` is left behind.  Failures of `fork` and
restarts are in the theorems: only the exceptions the formulas name are out.

**ModeWire.** `HexIsUndone` and `SuffixIsUndone` are the two conversions and
their inverses; `WireInv` adds that what the host keeps is the string of the
mode it remembers.

**PathExpand.** Three definitions are recursive functions: the doubling of the
buffer, the tokens of a path, and the text written up to a character.  What
they compute is proved from the least number at which a claim would fail
(`Least`, `Upwards`), and that such a function is what its equation says by
`FiniteRecursion`, which shows that the approximations up to each number exist
and agree.  `GrownIsEnough` says that the size after k doublings is at least k
or enough; with it `BufferInv`, that the text and its NUL fit, is inductive,
for any first size.  `ScanInv` says that with nothing set what was written is
what was scanned.

`ExpandInv` is the invariant of `ExpansionIsRight`: no token that began earlier
reaches the character at hand (`Clear`), and what was written is what the
characters before it contribute (`Written`).  It needs that the code's tokens
are the grammar's: that `BracedEnd` and `BareEnd` are where the longest match
ends (`BracedIsToken`, `BareIsToken`) and that nothing matches where neither
applies (`OtherIsNoToken`); that a token which begins where none reaches is one
of `Tokens`, and those that begin within it are not (`TokenCounts`); and that
the home replaces the first character only of a path that begins with `~` or
`~/` (`HomePiece`).

**Only model-checked:** liveness (`PreparingResolves`, `TeardownEnds`,
`SetupConverges`, `ScanEnds`), which is out of the prover's reach.  Every
invariant and every other action property of a passing run is a theorem.

## 5. Not modelled

- The page arithmetic and labels of the display, the modifier mask, the
  committed text, icons and labels of modes.
- The composition line of the worker's reply, the hello frames, and the numeric
  fields of a request: `strtok_r` merges empty fields, and the host that
  writes them is not in this repository.  The voice half of the protocol, which
  this engine does not have.
- librime's table of sessions: a context freed in maintenance mode does not
  destroy its session, and librime drops its own when it deploys.
- What a user saves while a setup, or an `unzip` it left behind, extracts:
  `unzip -o` overwrites it, by the design of the command.
- A `get_status` that fails on a session just found (`rime_mode.c:58-61`).
- Memory exhaustion, except where the code reports it as FAILED and in
  `PathExpand`.  The error paths of init, which end the process.
- `rime_utils.c` beyond the existence of files and directories: the clock only
  feeds log lines.

## 6. Plan

What is left, in this order:

1. `FreshSession` with a setup thread: the weakest restriction on when it may
   increment `deploy_id` under which it still holds.
2. The page arithmetic of `rime_sync.c` and the modifier mask of `rime_key.c`
   as pure modules against reference definitions.
3. `SchemaSurvives` with several contexts and edits at once: which of the
   copies a new context should be opened with is not said anywhere.
