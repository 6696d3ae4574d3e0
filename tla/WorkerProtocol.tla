--------------------------- MODULE WorkerProtocol ---------------------------
(***************************************************************************)
(* The worker process between the host and the engine (worker_main.c).  It *)
(* has no channel of its own to the host: all the host learns of the mode  *)
(* are the ACTIVE_MODE lines in the replies to some of its requests, which *)
(* it caches.  A request is served in two steps, the engine's handler, an  *)
(* action of InputSession, and the ACTIVE_MODE line, which reads the mode  *)
(* again; librime's thread may come between them.  The process may end at  *)
(* any moment, and the host starts another.                                *)
(***************************************************************************)
EXTENDS InputSession

CONSTANT Ctx    \* the one context of the worker

ASSUME WorkerAssumption == Ctxs = {Ctx} /\ TracksFocus = FALSE

VARIABLES
    stage,   \* "idle", "mode": the ACTIVE_MODE line is still to be written,
             \* "gone": the process has ended
    cached,  \* the mode in the last ACTIVE_MODE line the host has read
    chosen   \* the schema a session was given or switched to last, as long as
             \* the engine answers for it (history)

protocol == <<stage, cached>>
worker == <<vars, protocol, chosen>>

\* typio_rime_default_mode, what there is to tell without a session.
DefaultMode == [schema |-> NoSchema, ascii |-> FALSE]

WorkerTypeOK ==
    /\ TypeOK
    /\ stage \in {"idle", "mode", "gone"}
    /\ cached \in Modes
    /\ chosen \in Schemas \cup {NoSchema}

WorkerInit ==
    Init /\ stage = "idle" /\ cached = DefaultMode /\ chosen = NoSchema

-----------------------------------------------------------------------------
(* handle_request.                                                         *)

\* What the engine does for a request.  A request that is malformed, unknown
\* or only asks does nothing; list-modes looks a stale session up.
Handle(op) ==
    \/ op = "focus-in" /\ FocusIn(Ctx)
    \/ op = "focus-out" /\ FocusOut(Ctx)
    \/ op = "reset" /\ Reset(Ctx)
    \/ /\ op = "process-key"
       /\ \/ Escape(Ctx) \/ ShiftPress(Ctx) \/ ShiftRelease(Ctx)
          \/ \E press \in BOOLEAN : Key(Ctx, press)
    \/ /\ op = "set-active-mode"
       /\ \/ \E s \in Schemas, ascii \in BOOLEAN : SetActiveMode(Ctx, s, ascii)
          \/ UNCHANGED vars
    \/ op = "get-active-mode" /\ UNCHANGED vars
    \/ op = "list-modes" /\ GetActiveMode(Ctx)
    \/ op = "reload-config" /\ ReloadConfig
    \/ op = "deactivate" /\ Deactivate

Ops == {"focus-in", "focus-out", "reset", "process-key", "set-active-mode",
        "get-active-mode", "list-modes", "reload-config", "deactivate"}

\* The requests whose reply ends in an ACTIVE_MODE line.
TellsUnlessKey(op) == op \in {"focus-in", "reset", "set-active-mode",
                              "get-active-mode"}
TellsMode(op) == op \in {"focus-in", "reset", "process-key",
                         "set-active-mode", "get-active-mode"}

Serve(op) ==
    /\ stage = "idle"
    /\ Handle(op)
    /\ stage' = IF TellsMode(op) THEN "mode" ELSE "idle"
    /\ UNCHANGED cached

\* emit_active_mode, the last line of the reply: what get_active_mode says
\* now, which may drop a session that went stale since the handler.
EmitActiveMode ==
    /\ stage = "mode"
    /\ stage' = "idle"
    /\ cached' = IF Live(Ctx) THEN Status(session[Ctx]) ELSE DefaultMode
    /\ IF Live(Ctx) THEN UNCHANGED session ELSE Missed(Ctx)
    /\ UNCHANGED <<deployment, config, shown, reported, focused, history>>

-----------------------------------------------------------------------------
(* The process and its surroundings.                                       *)

\* librime's thread, and whoever edits the configuration.
Background ==
    /\ stage # "gone"
    /\ \/ DeploymentSucceeds \/ DeploymentFails \/ MaintenanceEnds
       \/ \E s \in Schemas : EditConfig(s)
    /\ UNCHANGED protocol

\* "shutdown", the end of the channel, or a crash: a reply being written is
\* lost, and what the process held in memory with it.
End ==
    /\ stage # "gone"
    /\ stage' = "gone"
    /\ session' = [c \in Ctxs |-> NoSession]
    /\ shown' = [c \in Ctxs |-> "none"]
    /\ bare' = NoCtx /\ escaped' = FALSE /\ aside' = FALSE
    /\ focused' = NoCtx
    /\ UNCHANGED <<deployment, config, reported, cached>>

\* The host starts another worker.  The configuration was saved by whoever
\* wrote it last; typio_rime_init reads it, and deploys unless there is a
\* build.  The host keeps its cache.
Restart ==
    /\ stage = "gone"
    /\ stage' = "idle"
    /\ \/ /\ deploy_id' = 0
          /\ maintenance_done' = TRUE /\ ready' = TRUE /\ maintaining' = FALSE
       \/ /\ deploy_id' = 1
          /\ maintenance_done' = FALSE /\ ready' = FALSE
          /\ maintaining' \in BOOLEAN
    /\ handler' = TRUE /\ job' = "none"
    /\ available' \in SUBSET Schemas
    /\ schema' = tree
    /\ edited' = FALSE
    /\ reported' = DefaultMode
    /\ UNCHANGED <<tree, session, shown, focused, history, cached>>

WorkerStep == \/ (\E op \in Ops : Serve(op)) \/ EmitActiveMode
              \/ Background \/ End \/ Restart

\* What the user may count on: the schema of the live session, also when the
\* process is no more.  Not while somebody else's edit waits, and not once the
\* handler is gone, for a switch in librime's menu is then not noticed.
Choose ==
    chosen' = IF edited' \/ (Live(Ctx)' /\ ~handler') THEN NoSchema
              ELSE IF Live(Ctx)' THEN session'[Ctx].schema
              ELSE chosen

WorkerNext == WorkerStep /\ Choose

WorkerSpec == WorkerInit /\ [][WorkerNext]_worker

-----------------------------------------------------------------------------
(* Properties.                                                             *)

\* Between two requests the host's cache is the mode of the live session,
\* whatever changed it and although nothing is ever pushed: also with no
\* handler, in spite of a reload, and after a restart (worker_main.c:394).
CachedIsLive ==
    stage = "idle" /\ Live(Ctx) => cached = Status(session[Ctx])

\* The schema the user switched to last, by set-active-mode or in librime's
\* menu, is the one the next focus-in without a session opens, in this process
\* or the next, as long as it is deployed and nobody edited the configuration
\* (rime_mode.c:95-96).  Nothing is said of a switch after a deactivate
\* request, which librime no longer notifies: one in the menu is lost.
SchemaSurvives ==
    [][/\ focused = NoCtx /\ focused' = Ctx /\ ~Live(Ctx) /\ Live(Ctx)'
       /\ chosen \in available
       => session'[Ctx].schema = chosen]_worker

=============================================================================
