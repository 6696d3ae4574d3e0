---------------------------- MODULE InputSession ----------------------------
(***************************************************************************)
(* What one thread does to the sessions of its input contexts: requests    *)
(* come one at a time (worker_main.c), each handler of rime_engine.c,      *)
(* rime_key.c and rime_mode.c is one action, and a deployment may be       *)
(* running behind them.  Four copies of the same facts have to agree:      *)
(* librime's session, the composition the host displays, the mode the host *)
(* was told, and the schema kept in the configuration tree.                *)
(***************************************************************************)
EXTENDS Naturals

CONSTANTS
    Ctxs,         \* input contexts; the worker has one
    Schemas,      \* schema ids that can ever be deployed
    NoSchema,     \* the empty schema id
    NoSession,    \* a null session pointer
    NoCtx,        \* no context has the focus
    HostOps,      \* which of "deploy", "setup", "deactivate", "set_mode",
                  \* "edit", "reload", "destroy" the host uses
    TracksFocus,  \* the host focuses contexts through libtypio, so that
                  \* typio_instance_get_focused_context knows; not the worker
    MaxDeploys    \* bound on the deployments

ASSUME SchemasAssumption == NoSchema \notin Schemas /\ Schemas # {}
ASSUME NullsAssumption == NoCtx \notin Ctxs
ASSUME HostAssumption ==
    /\ HostOps \subseteq {"deploy", "setup", "deactivate", "set_mode",
                      "edit", "reload", "destroy"}
    /\ TracksFocus \in BOOLEAN /\ MaxDeploys \in Nat

VARIABLES
    maintaining,       \* is librime in maintenance mode?
    maintenance_done,  \* state->maintenance_done
    ready,             \* is state->availability READY?
    handler,    \* is typio_rime_notification registered?
    job,        \* the setup thread
    deploy_id,  \* state->deploy_id
    available,  \* the schemas librime lists
    schema,     \* state->config.schema
    tree,       \* engines.rime.schema in the configuration tree
    edited,     \* somebody wrote tree and no session has been given it yet
    session,    \* per context: its property "rime.session"
    shown,      \* per context: the composition the host displays
    reported,   \* the mode the host was notified of last
    focused,    \* the context the host sends its keys to
    bare,       \* the context in which Shift is down, as long as no key
                \* other than Escape was pressed since, in any (history)
    escaped,    \* Escape was pressed since that Shift was (history)
    aside       \* since it last changed, the focus was not with the context
                \* of some request that may have told the mode (history)

deployment == <<maintaining, maintenance_done, ready, handler, job,
                deploy_id, available>>
config == <<schema, tree, edited>>
shift == <<bare, escaped>>
history == <<shift, aside>>
vars == <<deployment, config, session, shown, reported, focused, history>>

\* A composition: nothing, with preedit text, or candidates alone.
Compositions == {"none", "preedit", "menu"}

Sessions == [deploy_id : Nat, schema : Schemas, ascii : BOOLEAN,
             composition : Compositions, shift_only : BOOLEAN]
ASSUME NoSessionAssumption == NoSession \notin Sessions

Modes == [schema : Schemas \cup {NoSchema}, ascii : BOOLEAN]

\* get_status of a session that get_session has just found does not fail
\* within one handler; the fallback for that case is left out.
Status(s) == [schema |-> s.schema, ascii |-> s.ascii]

TypeOK ==
    /\ maintaining \in BOOLEAN
    /\ maintenance_done \in BOOLEAN
    /\ ready \in BOOLEAN
    /\ handler \in BOOLEAN
    /\ job \in {"none", "installing", "waiting", "deploying"}
    /\ deploy_id \in Nat
    /\ available \subseteq Schemas
    /\ schema \in Schemas \cup {NoSchema}
    /\ tree \in Schemas \cup {NoSchema}
    /\ edited \in BOOLEAN
    /\ session \in [Ctxs -> Sessions \cup {NoSession}]
    /\ shown \in [Ctxs -> Compositions]
    /\ reported \in Modes
    /\ focused \in Ctxs \cup {NoCtx}
    /\ bare \in Ctxs \cup {NoCtx}
    /\ escaped \in BOOLEAN /\ aside \in BOOLEAN

\* typio_rime_load_config reads the tree.  Then either the build was there
\* already, or typio_rime_init has started a deployment, or librime refused it.
Init ==
    /\ \/ /\ deploy_id = 0
          /\ maintenance_done = TRUE /\ ready = TRUE /\ maintaining = FALSE
       \/ /\ deploy_id = 1
          /\ maintenance_done = FALSE /\ ready = FALSE
          /\ maintaining \in BOOLEAN
    /\ handler = TRUE
    /\ job = "none"
    /\ available \in SUBSET Schemas
    /\ tree \in Schemas \cup {NoSchema}
    /\ schema = tree
    /\ edited = FALSE
    /\ session = [c \in Ctxs |-> NoSession]
    /\ shown = [c \in Ctxs |-> "none"]
    /\ reported = [schema |-> NoSchema, ascii |-> FALSE]
    /\ focused = NoCtx
    /\ bare = NoCtx /\ escaped = FALSE /\ aside = FALSE

-----------------------------------------------------------------------------
(* typio_rime_get_session.                                                 *)

\* start_maintenance; a second deployment is queued behind the first.
StartDeployment ==
    /\ deploy_id < MaxDeploys
    /\ deploy_id' = deploy_id + 1
    /\ maintaining' = TRUE /\ maintenance_done' = FALSE /\ ready' = FALSE
    /\ UNCHANGED <<handler, available>>

\* start_maintenance returns false.
RefuseDeployment ==
    /\ deploy_id < MaxDeploys
    /\ deploy_id' = deploy_id + 1
    /\ ready' = FALSE
    /\ UNCHANGED <<maintaining, maintenance_done, handler, available>>

\* The context's session is found in librime, and current.
Live(c) == /\ session[c] # NoSession /\ ~maintaining
           /\ session[c].deploy_id = deploy_id

\* typio_rime_resolve_schema: the wanted schema, or the first one listed.
NoFallback(wanted) == {wanted}
Resolved(wanted) == IF wanted \in available THEN {wanted} ELSE available

\* The schema decides what ascii_mode starts with.
NewSessions(wanted) ==
    {[deploy_id |-> deploy_id, schema |-> s, ascii |-> a,
      composition |-> "none", shift_only |-> FALSE] :
         s \in Resolved(wanted), a \in BOOLEAN}

\* The sessions get_session(create = true) may return for c.
Got(c) == IF Live(c) THEN {session[c]}
          ELSE IF ~maintaining THEN NewSessions(schema)
          ELSE {}

\* On the way typio_rime_ensure_deployed finds the build and reports READY.
Ensured(c) ==
    /\ maintenance_done' = IF Live(c) THEN maintenance_done ELSE TRUE
    /\ ready' = IF Live(c) \/ maintenance_done THEN ready ELSE TRUE
    /\ UNCHANGED <<maintaining, handler, job, deploy_id, available>>

\* It may look only (create = false): a stale session is gone if librime
\* finds it.
Missed(c) ==
    /\ ~Live(c)
    /\ session' = [session EXCEPT ![c] = IF maintaining THEN @ ELSE NoSession]

\* Or get none: in maintenance mode, without a schema, or because
\* ensure_deployed has to deploy first, which librime may refuse.
Deploying == StartDeployment /\ UNCHANGED job
Refused == RefuseDeployment /\ UNCHANGED job

NotGot(c) ==
    /\ Missed(c)
    /\ \/ (maintaining \/ maintenance_done) /\ UNCHANGED deployment
       \/ ~maintaining /\ Ensured(c)
       \/ ~maintaining /\ ~maintenance_done /\ (Deploying \/ Refused)

\* rime_writeback_schema: the configuration tree follows the session.
ComparedToShadow(s) == /\ tree' = IF s.schema = schema THEN tree ELSE s.schema
                       /\ edited' = FALSE
WriteBack(s) == tree' = s.schema /\ edited' = FALSE

\* typio_rime_publish_status: tell the host, mirror the schema in the tree.
Publish(s) == reported' = Status(s) /\ WriteBack(s)

\* What get_session stores, and keeps as the configured schema, when c's
\* session was got as g and is s when the handler is over.
Store(c, g, s) ==
    /\ session' = [session EXCEPT ![c] = s]
    /\ schema' = IF Live(c) THEN schema ELSE g.schema

\* librime notifies a change of schema or option while it has a handler, and
\* get_session publishes a session that is new, as it found it.
Notified(g, s) == handler /\ Status(g) # Status(s)
OnlyChangesPublished(c, g, s) == ~Notified(g, s)
Unpublished(c, g, s) == Live(c) /\ ~Notified(g, s)

Keep(c, g, s) ==
    /\ Store(c, g, s)
    /\ IF Unpublished(c, g, s)
       THEN UNCHANGED <<reported, tree, edited>>
       ELSE Publish(IF Notified(g, s) THEN s ELSE g)

\* The same when the handler itself publishes.
KeepAndPublish(c, g, s) == Store(c, g, s) /\ Publish(s)

Show(c, composition) == shown' = [shown EXCEPT ![c] = composition]

-----------------------------------------------------------------------------
(* Focus and reset.                                                        *)

\* typio_rime_focus_in, for the context that has the focus or once the last
\* one has lost it.
FocusIn(c) ==
    /\ focused \in {NoCtx, c} /\ focused' = c
    /\ \/ /\ NotGot(c)
          /\ UNCHANGED <<config, shown, reported>>
       \/ \E g \in Got(c) :
            /\ Ensured(c)
            /\ KeepAndPublish(c, g, [g EXCEPT !.shift_only = FALSE])
            /\ Show(c, g.composition)
    /\ aside' = FALSE
    /\ UNCHANGED shift

\* What a reset leaves of a session: reset_shift_state, clear_composition.
CompositionKept(s) == [s EXCEPT !.shift_only = FALSE]
AsciiReset(s) == [s EXCEPT !.shift_only = FALSE, !.composition = "none",
                           !.ascii = FALSE]
Cleared(s) == [s EXCEPT !.shift_only = FALSE, !.composition = "none"]

\* typio_rime_reset.
ResetSession(c) ==
    /\ \/ /\ Missed(c)
          /\ UNCHANGED <<config, reported>>
       \/ /\ Live(c)
          /\ KeepAndPublish(c, session[c], Cleared(session[c]))
    /\ Show(c, "none")
    /\ UNCHANGED deployment

\* Nothing makes the host ask this of the context with the focus alone.
MayBeAside(c) == aside' = (aside \/ focused \notin {NoCtx, c})

Reset(c) == ResetSession(c) /\ MayBeAside(c) /\ UNCHANGED <<focused, shift>>

\* typio_rime_focus_out.
FocusOut(c) ==
    /\ focused = c /\ focused' = NoCtx
    /\ ResetSession(c)
    /\ aside' = FALSE
    /\ UNCHANGED shift

\* typio_rime_get_active_mode reads the status of a live session, and drops
\* a stale one.
GetActiveMode(c) ==
    /\ session[c] # NoSession /\ Missed(c)
    /\ UNCHANGED <<deployment, config, shown, reported, focused, history>>

-----------------------------------------------------------------------------
(* typio_rime_process_key.                                                 *)

\* A key that is swallowed, or has no session to go to, changes nothing but
\* the history.
Swallowed(c) ==
    /\ \/ ~ready /\ UNCHANGED <<deployment, session>>
       \/ ready /\ NotGot(c)
    /\ UNCHANGED <<config, shown, reported>>

\* Escape is for the engine only while it displays preedit text; otherwise it
\* returns before the pending Shift is looked at.
Escape(c) ==
    /\ focused = c
    /\ IF ready /\ shown[c] = "preedit"
       THEN ResetSession(c)
       ELSE UNCHANGED <<deployment, config, session, shown, reported>>
    /\ escaped' = TRUE
    /\ UNCHANGED <<focused, bare, aside>>

\* The Shift keys: typio_rime_handle_bare_shift.
ShiftPress(c) ==
    /\ focused = c
    /\ bare' = c /\ escaped' = FALSE
    /\ \/ Swallowed(c)
       \/ /\ ready /\ Ensured(c)
          /\ \E g \in Got(c) : Keep(c, g, [g EXCEPT !.shift_only = TRUE])
          /\ UNCHANGED shown
    /\ UNCHANGED <<focused, aside>>

ShiftRelease(c) ==
    /\ focused = c
    /\ bare' = NoCtx /\ escaped' = FALSE
    /\ \/ Swallowed(c)
       \/ \E g \in Got(c) :
            /\ ready /\ Ensured(c)
            /\ IF g.shift_only
               THEN /\ KeepAndPublish(c, g, [Cleared(g) EXCEPT !.ascii = ~@])
                    /\ Show(c, "none")
               ELSE Keep(c, g, g) /\ UNCHANGED shown
    /\ UNCHANGED <<focused, aside>>

\* A press of any other key ends the bare Shift.
ShiftStillBare(s) == s
Interrupted(s) == [s EXCEPT !.shift_only = FALSE]

\* Any other key goes to librime, which may change the composition, the
\* schema (its menu, a hotkey) and ascii_mode; what it does not handle is
\* left to the application and not synchronised.
Key(c, press) ==
    /\ focused = c
    /\ bare' = IF press THEN NoCtx ELSE bare
    /\ \/ Swallowed(c)
       \/ \E g \in Got(c) :
            LET h == IF press THEN Interrupted(g) ELSE g
            IN  /\ ready /\ Ensured(c)
                /\ \/ Keep(c, g, h) /\ UNCHANGED shown
                   \/ \E s \in available, a \in BOOLEAN, k \in Compositions :
                        /\ Keep(c, g, [h EXCEPT !.schema = s, !.ascii = a,
                                                !.composition = k])
                        /\ Show(c, k)
    /\ UNCHANGED <<focused, escaped, aside>>

-----------------------------------------------------------------------------
(* Modes, configuration and deployments.                                   *)

\* typio_rime_set_active_mode.  librime may refuse the schema; selecting one
\* drops its composition, and the display is left as it is.
SetActiveMode(c, s, ascii) ==
    /\ "set_mode" \in HostOps
    /\ MayBeAside(c)
    /\ \/ NotGot(c) /\ UNCHANGED <<config, reported>>
       \/ \E g \in Got(c) :
            /\ Ensured(c)
            /\ \/ KeepAndPublish(c, g,
                    [g EXCEPT !.schema = s, !.ascii = ascii,
                              !.composition = "none"])
               \/ Keep(c, g, g)
    /\ UNCHANGED <<shown, focused, shift>>

\* Somebody writes engines.rime.schema, a settings panel say.
EditConfig(s) ==
    /\ "edit" \in HostOps
    /\ tree' = s
    /\ edited' = TRUE
    /\ UNCHANGED <<deployment, schema, session, shown, reported, focused,
                   history>>

\* typio_rime_apply_runtime_config on c: its composition is cleared, then its
\* schema selected anew, which may change ascii_mode; when that fails the
\* display is left as it is.
ApplySchema(c, wanted) ==
    /\ ~maintaining
    /\ Ensured(c)
    /\ \/ /\ Live(c)
          /\ session' = [session EXCEPT ![c].composition = "none"]
          /\ schema' = wanted
          /\ UNCHANGED <<tree, edited, shown, reported>>
       \/ \E n \in NewSessions(wanted) :
            /\ session' = [session EXCEPT ![c] =
                   IF Live(c)
                   THEN [n EXCEPT !.shift_only = session[c].shift_only]
                   ELSE n]
            /\ schema' = n.schema
            /\ IF Live(c) /\ ~handler THEN UNCHANGED <<reported, tree, edited>>
               ELSE Publish(n)
            /\ Show(c, "none")

\* typio_rime_reload_config, and typio_rime_on_config_change through it: the
\* schema is read from the tree and given to the focused context, if libtypio
\* knows of one and it has, or gets, a session.
ReloadConfig ==
    /\ "reload" \in HostOps
    /\ \/ /\ ~TracksFocus \/ focused = NoCtx
          /\ schema' = tree
          /\ UNCHANGED <<deployment, tree, edited, session, shown, reported>>
       \/ /\ TracksFocus /\ focused # NoCtx
          /\ NotGot(focused)
          /\ schema' = tree
          /\ UNCHANGED <<tree, edited, shown, reported>>
       \/ TracksFocus /\ focused # NoCtx /\ ApplySchema(focused, tree)
    /\ UNCHANGED <<focused, history>>

\* The command "deploy": run_maintenance, then the rest of reload_config,
\* which finds librime in maintenance mode and gets no session; when librime
\* refuses there is no rest.
Deploy ==
    /\ "deploy" \in HostOps
    /\ \/ Deploying /\ schema' = tree
       \/ Refused /\ UNCHANGED schema
    /\ UNCHANGED <<tree, edited, session, shown, reported, focused, history>>

requests == <<schema, session, shown, reported, focused, history>>

\* The command "setup" and its thread: it installs, or fails; selects a
\* schema in the tree without reloading; waits for librime, but not for ever;
\* deploys; joins, and reports READY, whether librime deployed or refused.
SetupBegins ==
    /\ "setup" \in HostOps /\ job = "none"
    /\ job' = "installing" /\ ready' = FALSE
    /\ UNCHANGED <<maintaining, maintenance_done, handler, deploy_id,
                   available, tree, edited, requests>>

SetupFails ==
    /\ job = "installing"
    /\ job' = "none" /\ ready' = FALSE
    /\ UNCHANGED <<maintaining, maintenance_done, handler, deploy_id,
                   available, tree, edited, requests>>

SetupEdits(s) ==
    /\ job = "installing"
    /\ job' = "waiting"
    /\ tree' = s /\ edited' = TRUE
    /\ UNCHANGED <<maintaining, maintenance_done, ready, handler, deploy_id,
                   available, requests>>

SetupDeploys ==
    /\ job = "waiting"
    /\ job' = "deploying"
    /\ StartDeployment \/ RefuseDeployment
    /\ UNCHANGED <<tree, edited, requests>>

SetupEnds ==
    /\ job = "deploying" /\ ~maintaining
    /\ job' = "none" /\ maintenance_done' = TRUE /\ ready' = TRUE
    /\ UNCHANGED <<maintaining, handler, deploy_id, available, tree, edited,
                   requests>>

\* librime reports success, and leaves maintenance mode a little later.
DeploymentSucceeds ==
    /\ maintaining /\ ~maintenance_done /\ handler
    /\ maintenance_done' = TRUE /\ ready' = TRUE
    /\ available' \in SUBSET Schemas
    /\ UNCHANGED <<maintaining, handler, job, deploy_id, tree, edited,
                   requests>>

\* It reports a failure, or nobody listens.
DeploymentFails ==
    /\ maintaining /\ ~maintenance_done
    /\ maintaining' = FALSE /\ ready' = FALSE
    /\ available' \in SUBSET Schemas
    /\ UNCHANGED <<maintenance_done, handler, job, deploy_id, tree, edited,
                   requests>>

MaintenanceEnds ==
    /\ maintaining /\ maintenance_done
    /\ maintaining' = FALSE
    /\ UNCHANGED <<maintenance_done, ready, handler, job, deploy_id,
                   available, tree, edited, requests>>

\* typio_rime_deactivate: nobody listens any more to the deployment whose end
\* it waits for.
Deactivate ==
    /\ "deactivate" \in HostOps
    /\ handler' = FALSE
    /\ maintaining' = FALSE
    /\ available' \in IF maintaining THEN SUBSET Schemas ELSE {available}
    /\ UNCHANGED <<maintenance_done, ready, job, deploy_id, tree, edited,
                   requests>>

\* The context is freed, with its session; another takes its place.
Destroy(c) ==
    /\ "destroy" \in HostOps /\ focused # c
    /\ session' = [session EXCEPT ![c] = NoSession]
    /\ Show(c, "none")
    /\ bare' = IF bare = c THEN NoCtx ELSE bare
    /\ UNCHANGED <<deployment, config, reported, focused, escaped, aside>>

Next ==
    \/ \E c \in Ctxs :
         \/ FocusIn(c) \/ FocusOut(c) \/ Reset(c) \/ GetActiveMode(c)
         \/ Destroy(c)
         \/ Escape(c) \/ ShiftPress(c) \/ ShiftRelease(c)
         \/ \E press \in BOOLEAN : Key(c, press)
         \/ \E s \in Schemas, ascii \in BOOLEAN : SetActiveMode(c, s, ascii)
    \/ \E s \in Schemas : EditConfig(s) \/ SetupEdits(s)
    \/ ReloadConfig \/ Deploy \/ Deactivate
    \/ SetupBegins \/ SetupFails \/ SetupDeploys \/ SetupEnds
    \/ DeploymentSucceeds \/ DeploymentFails \/ MaintenanceEnds

Spec == Init /\ [][Next]_vars

-----------------------------------------------------------------------------
(* Properties.                                                             *)

\* The composition librime holds in a live session is on display: nobody
\* types into text that cannot be seen, and a context without the focus has
\* none (focus_out ends the composition and not the session,
\* rime_engine.c:203).
NothingHidden ==
    \A c \in Ctxs : Live(c) =>
        /\ session[c].composition # "none" =>
               shown[c] = session[c].composition
        /\ focused # c => session[c].composition = "none"

\* What the host displays is what librime composes: no text stays on display
\* whose session is gone or has dropped it.
NothingStale ==
    \A c \in Ctxs : ~maintaining /\ maintenance_done /\ shown[c] # "none" =>
        Live(c) /\ shown[c] = session[c].composition

\* As long as the handler is registered, the mode the host was told last is
\* the live mode of the context that has the focus, whichever path changed
\* it: key, command, notification, reload.  A reset or a switch asked for
\* another context tells of that one, until the focus moves.
ReportedIsLive ==
    handler /\ ~aside => \A c \in Ctxs : focused = c /\ Live(c) =>
                             reported = Status(session[c])

\* With the same proviso, and unless an edit is waiting to be loaded, the
\* configuration tree names the schema of the context that has the focus.
TreeIsLive ==
    handler /\ ~aside => \A c \in Ctxs : focused = c /\ Live(c) /\ ~edited =>
                             tree = session[c].schema

\* Releasing Shift toggles ascii_mode of c.
Toggles(c) == /\ ShiftRelease(c) /\ Live(c) /\ session'[c] # NoSession
              /\ session'[c].ascii # session[c].ascii

\* It does only if Shift was pressed in the same context and no key was
\* pressed since (rime_key.c:70), there or anywhere else, whatever happened
\* to the focus and the session meanwhile.
ShiftAloneToggles == [][\A c \in Ctxs : Toggles(c) => bare = c /\ ~escaped]_vars

\* The same for the keys that get as far as the pending Shift: all but Escape,
\* which the engine looks at first (rime_engine.c:237).
ShiftAloneTogglesButForEscape ==
    [][\A c \in Ctxs : Toggles(c) => bare = c]_vars

\* ascii_mode of a live session lasts as long as the session
\* (rime_session.c:5-8): only the user changes it, by a key or a released
\* Shift in that very context, a mode chosen for it, or a reload that gives
\* it a schema; no focus change, reset, deployment or other context does.
AsciiSurvives ==
    [][\A c \in Ctxs :
           /\ Live(c) /\ session'[c] # NoSession
           /\ session'[c].deploy_id = session[c].deploy_id
           /\ session'[c].ascii # session[c].ascii
           => \/ focused = c /\ (ShiftRelease(c) \/ ReloadConfig)
              \/ \E press \in BOOLEAN : focused = c /\ Key(c, press)
              \/ \E s \in Schemas : SetActiveMode(c, s, session'[c].ascii)]_vars

=============================================================================
