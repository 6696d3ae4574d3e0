------------------------ MODULE WorkerProtocolProofs ------------------------
(***************************************************************************)
(* Theorems about the worker and its host, for any schemas, any number of  *)
(* deployments and any ends of the process.  While the process runs every  *)
(* step of WorkerProtocol is a step of InputSession, so that the invariants *)
(* proved about that module serve here too.                                *)
(***************************************************************************)
EXTENDS WorkerProtocol, InputSessionKeyProofs

LEMMA TheContext == Ctx \in Ctxs /\ Ctxs = {Ctx} /\ TracksFocus = FALSE /\ NoCtx # Ctx
  BY WorkerAssumption, NullsAssumption

\* The process is there: everything but its end and its restart.
Running == (\E op \in Ops : Serve(op)) \/ EmitActiveMode \/ Background

LEMMA HandleSteps ==
  ASSUME NEW op, Handle(op)
  PROVE  [Next]_vars
  <1>1. CASE Request(Ctx)  BY <1>1, TheContext DEF Request, Next
  <1>2. CASE ReloadConfig \/ Deactivate \/ UNCHANGED vars  BY <1>2 DEF Next
  <1>3. ASSUME NEW press \in BOOLEAN, Key(Ctx, press)  PROVE Request(Ctx)
    BY <1>3 DEF Request
  <1>4. ASSUME NEW s \in Schemas, NEW ascii \in BOOLEAN,
               SetActiveMode(Ctx, s, ascii)
        PROVE  Request(Ctx)
    BY <1>4 DEF Request
  <1>5. CASE \/ FocusIn(Ctx) \/ FocusOut(Ctx) \/ Reset(Ctx) \/ GetActiveMode(Ctx)
             \/ Escape(Ctx) \/ ShiftPress(Ctx) \/ ShiftRelease(Ctx)
    BY <1>1, <1>5 DEF Request
  <1> QED  BY <1>1, <1>2, <1>3, <1>4, <1>5 DEF Handle

\* The line at the end of a reply reads the mode like get_active_mode.
LEMMA EmitSteps ==
  ASSUME TypeOK, EmitActiveMode
  PROVE  [Next]_vars
  <1>1. CASE Live(Ctx)  BY <1>1 DEF EmitActiveMode, vars
  <1>2. CASE ~Live(Ctx) /\ session[Ctx] # NoSession
    <2>1. GetActiveMode(Ctx)  BY <1>2 DEF EmitActiveMode, GetActiveMode
    <2> QED  BY <2>1, TheContext DEF Next
  <1>3. CASE ~Live(Ctx) /\ session[Ctx] = NoSession
    <2>1. session' = session  BY <1>3 DEF EmitActiveMode, Missed, TypeOK
    <2> QED  BY <1>3, <2>1 DEF EmitActiveMode, vars
  <1> QED  BY <1>1, <1>2, <1>3

LEMMA BackgroundSteps ==
  ASSUME Background
  PROVE  [Next]_vars
  BY DEF Background, Next

LEMMA RunningSteps ==
  ASSUME TypeOK, Running
  PROVE  [Next]_vars
  BY HandleSteps, EmitSteps, BackgroundSteps DEF Running, Serve

-----------------------------------------------------------------------------
(* What becomes of the session.                                            *)

\* With a handler, and no edit waiting, the tree follows the live session,
\* whether or not the context has the focus.
TreeFollows ==
    Live(Ctx) /\ handler /\ ~edited => tree = session[Ctx].schema

\* A request that ends with a live session.
Opens == Live(Ctx)' /\ TreeFollows'

\* What a handler got is live when it is over, and in the tree.
LEMMA Opened ==
  ASSUME Inv, TreeFollows, NEW g \in Got(Ctx), Ensured(Ctx),
         NEW s \in Sessions, s.deploy_id = g.deploy_id,
         Keep(Ctx, g, s) \/ KeepAndPublish(Ctx, g, s)
  PROVE  Opens
  <1>1. /\ g \in Sessions /\ g.deploy_id = deploy_id' /\ ~maintaining'
        /\ handler' = handler /\ (Live(Ctx) => g = session[Ctx])
        /\ session \in [Ctxs -> Sessions \cup {NoSession}] /\ TypeOK
    BY TheContext, GotIsLive DEF Inv, TypeOK
  <1>2. session'[Ctx] = s  BY <1>1, TheContext, KeepStores
  <1>3. s # NoSession  BY NoSessionAssumption
  <1>4. Live(Ctx)'  BY <1>1, <1>2, <1>3 DEF Live
  <1>5. handler /\ ~edited' => tree' = s.schema
    <2>1. CASE KeepAndPublish(Ctx, g, s)
      BY <1>1, <2>1, Published DEF KeepAndPublish
    <2>2. CASE Keep(Ctx, g, s)
      <3>1. Status(g) = Status(s) => g.schema = s.schema  BY DEF Status
      <3>2. CASE Unpublished(Ctx, g, s)
        BY <1>1, <2>2, <3>1, <3>2 DEF Keep, Unpublished, Notified, TreeFollows
      <3>3. CASE ~Unpublished(Ctx, g, s) /\ Notified(g, s)
        <4>1. Publish(s)  BY <2>2, <3>3 DEF Keep
        <4> QED  BY <1>1, <4>1, Published
      <3>4. CASE ~Unpublished(Ctx, g, s) /\ ~Notified(g, s)
        <4>1. Publish(g)  BY <2>2, <3>4 DEF Keep
        <4>2. tree' = g.schema  BY <1>1, <4>1, Published
        <4> QED  BY <3>1, <3>4, <4>2 DEF Notified
      <3> QED  BY <3>2, <3>3, <3>4
    <2> QED  BY <2>1, <2>2
  <1> QED  BY <1>1, <1>2, <1>4, <1>5 DEF Opens, TreeFollows

LEMMA StepIsCalm ==
  ASSUME Inv, [Next]_vars
  PROVE  Calm
  <1>1. TypeOK  BY DEF Inv
  <1>2. CASE UNCHANGED vars  BY <1>1, <1>2, NoChange DEF vars
  <1>3. ASSUME NEW c \in Ctxs, Request(c)  PROVE Calm
    BY <1>1, <1>3, RequestIsCalm
  <1> QED  BY <1>2, <1>3, BackgroundIsCalm DEF Next, Request

\* A session that was not found, or is stale, does not come back.
LEMMA MissedIsGone ==
  ASSUME Inv, Calm, NEW c \in Ctxs, Missed(c)
  PROVE  ~Live(c)'
  <1>1. ~Live(c) /\ session \in [Ctxs -> Sessions \cup {NoSession}] /\ Fresh(c)
    BY DEF Missed, Inv, TypeOK, Synchronised
  <1>2. session'[c] = session[c] \/ session'[c] = NoSession
    BY <1>1 DEF Missed
  <1> QED  BY <1>1, <1>2, StillFresh DEF Live, Inv

\* A handler that got no session, and librime's own steps: the configuration
\* is left alone, and so is a session that is live.
NothingGained ==
    /\ UNCHANGED config
    /\ \/ Missed(Ctx)
       \/ /\ UNCHANGED session
          /\ Live(Ctx) => deploy_id' = deploy_id /\ ~maintaining'

LEMMA LiveStays ==
  ASSUME Live(Ctx), NothingGained
  PROVE  Live(Ctx)'
  BY DEF NothingGained, Missed, Live

\* Each request ends with a live session, or gains nothing, or loads the
\* configuration.
LEMMA ResetCases ==
  ASSUME Inv, TreeFollows, ResetSession(Ctx)
  PROVE  Opens \/ NothingGained
  <1>1. CASE Missed(Ctx) /\ UNCHANGED <<config, reported>>
    BY <1>1 DEF NothingGained
  <1>2. CASE Live(Ctx) /\ KeepAndPublish(Ctx, session[Ctx], Cleared(session[Ctx]))
    <2>1. session[Ctx] \in Sessions /\ session[Ctx] \in Got(Ctx)
      BY <1>2, TheContext DEF Live, Got, Inv, TypeOK
    <2>2. Ensured(Ctx)
      BY <1>2 DEF ResetSession, Ensured, deployment
    <2>3. /\ Cleared(session[Ctx]) \in Sessions
          /\ Cleared(session[Ctx]).deploy_id = session[Ctx].deploy_id
      BY <2>1, ClearedFields
    <2> QED  BY <1>2, <2>1, <2>2, <2>3, Opened
  <1> QED  BY <1>1, <1>2 DEF ResetSession

LEMMA SwallowedCases ==
  ASSUME Swallowed(Ctx)
  PROVE  NothingGained
  <1>1. UNCHANGED config  BY DEF Swallowed
  <1>2. CASE UNCHANGED <<deployment, session>>
    BY <1>1, <1>2 DEF NothingGained, deployment, Live
  <1>3. CASE NotGot(Ctx)  BY <1>1, <1>3 DEF NothingGained, NotGot
  <1> QED  BY <1>2, <1>3 DEF Swallowed

LEMMA FocusInCases ==
  ASSUME Inv, TreeFollows, FocusIn(Ctx)
  PROVE  Opens \/ NothingGained
  <1>1. CASE NotGot(Ctx) /\ UNCHANGED <<config, shown, reported>>
    BY <1>1 DEF NothingGained, NotGot
  <1>2. ASSUME NEW g \in Got(Ctx), Ensured(Ctx),
               KeepAndPublish(Ctx, g, [g EXCEPT !.shift_only = FALSE])
        PROVE  Opens
    <2>1. g \in Sessions  BY <1>2, TheContext, GotIsLive DEF Inv
    <2> DEFINE s == [g EXCEPT !.shift_only = FALSE]
    <2>2. s \in Sessions /\ s.deploy_id = g.deploy_id  BY <2>1, ShiftFields
    <2>3. KeepAndPublish(Ctx, g, s)  BY <1>2
    <2> HIDE DEF s
    <2> QED  BY <1>2, <2>2, <2>3, Opened
  <1> QED  BY <1>1, <1>2 DEF FocusIn

LEMMA ShiftCases ==
  ASSUME Inv, TreeFollows, ShiftPress(Ctx) \/ ShiftRelease(Ctx)
  PROVE  Opens \/ NothingGained
  <1>1. CASE Swallowed(Ctx)  BY <1>1, SwallowedCases
  <1>2. ASSUME NEW g \in Got(Ctx), Ensured(Ctx),
               \/ Keep(Ctx, g, [g EXCEPT !.shift_only = TRUE])
               \/ KeepAndPublish(Ctx, g, [Cleared(g) EXCEPT !.ascii = ~@])
               \/ Keep(Ctx, g, g)
        PROVE  Opens
    <2>1. g \in Sessions  BY <1>2, TheContext, GotIsLive DEF Inv
    <2> DEFINE s == [g EXCEPT !.shift_only = TRUE]
               t == [Cleared(g) EXCEPT !.ascii = ~@]
    <2>2. s \in Sessions /\ s.deploy_id = g.deploy_id  BY <2>1, ShiftFields
    <2>3. t \in Sessions /\ t.deploy_id = g.deploy_id  BY <2>1, ToggledFields
    <2>4. Keep(Ctx, g, s) \/ KeepAndPublish(Ctx, g, t) \/ Keep(Ctx, g, g)
      BY <1>2
    <2> HIDE DEF s, t
    <2> QED  BY <1>2, <2>1, <2>2, <2>3, <2>4, Opened
  <1> QED  BY <1>1, <1>2 DEF ShiftPress, ShiftRelease

LEMMA KeyCases ==
  ASSUME Inv, TreeFollows, NEW press \in BOOLEAN, Key(Ctx, press)
  PROVE  Opens \/ NothingGained
  <1>1. CASE Swallowed(Ctx)  BY <1>1, SwallowedCases
  <1>2. ASSUME NEW g \in Got(Ctx), Ensured(Ctx), NEW h,
               h = IF press THEN Interrupted(g) ELSE g,
               \/ Keep(Ctx, g, h)
               \/ \E s \in available, a \in BOOLEAN, k \in Compositions :
                    Keep(Ctx, g, [h EXCEPT !.schema = s, !.ascii = a,
                                           !.composition = k])
        PROVE  Opens
    <2>1. g \in Sessions /\ available \subseteq Schemas
      BY <1>2, TheContext, GotIsLive DEF Inv, TypeOK
    <2>2. h \in Sessions /\ h.deploy_id = g.deploy_id
      BY <1>2, <2>1, ShiftFields DEF Interrupted
    <2>3. CASE Keep(Ctx, g, h)  BY <1>2, <2>2, <2>3, Opened
    <2>4. ASSUME NEW s \in available, NEW a \in BOOLEAN, NEW k \in Compositions,
                 NEW t, t = [h EXCEPT !.schema = s, !.ascii = a,
                                      !.composition = k],
                 Keep(Ctx, g, t)
          PROVE  Opens
      <3>1. s \in Schemas  BY <2>1
      <3>2. t \in Sessions /\ t.deploy_id = g.deploy_id
        BY <2>2, <2>4, <3>1 DEF Sessions
      <3> QED  BY <1>2, <2>4, <3>2, Opened
    <2> QED  BY <1>2, <2>3, <2>4
  <1>3. \/ Swallowed(Ctx)
        \/ \E g \in Got(Ctx) :
             LET h == IF press THEN Interrupted(g) ELSE g
             IN  /\ Ensured(Ctx)
                 /\ \/ Keep(Ctx, g, h)
                    \/ \E s \in available, a \in BOOLEAN, k \in Compositions :
                         Keep(Ctx, g, [h EXCEPT !.schema = s, !.ascii = a,
                                                !.composition = k])
    BY DEF Key
  <1> QED  BY <1>1, <1>2, <1>3

LEMMA SetActiveModeCases ==
  ASSUME Inv, TreeFollows, NEW wanted \in Schemas, NEW ascii \in BOOLEAN,
         SetActiveMode(Ctx, wanted, ascii)
  PROVE  Opens \/ NothingGained
  <1>1. CASE NotGot(Ctx) /\ UNCHANGED <<config, reported>>
    BY <1>1 DEF NothingGained, NotGot
  <1>2. ASSUME NEW g \in Got(Ctx), Ensured(Ctx),
               \/ KeepAndPublish(Ctx, g,
                    [g EXCEPT !.schema = wanted, !.ascii = ascii,
                              !.composition = "none"])
               \/ Keep(Ctx, g, g)
        PROVE  Opens
    <2>1. g \in Sessions  BY <1>2, TheContext, GotIsLive DEF Inv
    <2> DEFINE s == [g EXCEPT !.schema = wanted, !.ascii = ascii,
                              !.composition = "none"]
    <2>2. s \in Sessions /\ s.deploy_id = g.deploy_id
      BY <2>1 DEF Sessions, Compositions
    <2>3. KeepAndPublish(Ctx, g, s) \/ Keep(Ctx, g, g)  BY <1>2
    <2> HIDE DEF s
    <2> QED  BY <1>2, <2>1, <2>2, <2>3, Opened
  <1> QED  BY <1>1, <1>2 DEF SetActiveMode

\* A reload finds no focused context in the worker.
Loaded ==
    /\ schema' = tree
    /\ UNCHANGED <<deployment, tree, edited, session, shown, reported>>

LEMMA HandleCases ==
  ASSUME Inv, TreeFollows, NEW op \in Ops, Handle(op)
  PROVE  Opens \/ NothingGained \/ Loaded
  <1>1. CASE FocusIn(Ctx)  BY <1>1, FocusInCases
  <1>2. CASE FocusOut(Ctx) \/ Reset(Ctx)
    BY <1>2, ResetCases DEF FocusOut, Reset
  <1>3. CASE Escape(Ctx)
    <2>1. CASE ResetSession(Ctx)  BY <2>1, ResetCases
    <2>2. CASE UNCHANGED <<deployment, config, session, shown, reported>>
      BY <2>2 DEF NothingGained, deployment, Live
    <2> QED  BY <1>3, <2>1, <2>2 DEF Escape
  <1>4. CASE ShiftPress(Ctx) \/ ShiftRelease(Ctx)  BY <1>4, ShiftCases
  <1>5. ASSUME NEW press \in BOOLEAN, Key(Ctx, press)
        PROVE  Opens \/ NothingGained
    BY <1>5, KeyCases
  <1>6. ASSUME NEW s \in Schemas, NEW ascii \in BOOLEAN,
               SetActiveMode(Ctx, s, ascii)
        PROVE  Opens \/ NothingGained
    BY <1>6, SetActiveModeCases
  <1>7. CASE GetActiveMode(Ctx)
    BY <1>7 DEF GetActiveMode, NothingGained
  <1>8. CASE UNCHANGED vars
    BY <1>8 DEF vars, NothingGained, deployment, Live
  <1>9. CASE ReloadConfig
    BY <1>9, TheContext DEF ReloadConfig, Loaded
  <1>10. CASE Deactivate
    <2>1. UNCHANGED <<config, session, deploy_id>> /\ ~maintaining'
      BY <1>10 DEF Deactivate, requests, config
    <2> QED  BY <2>1 DEF NothingGained
  <1> QED  BY <1>1, <1>2, <1>3, <1>4, <1>5, <1>6, <1>7, <1>8, <1>9, <1>10
           DEF Handle

\* librime's thread runs beside no live session.
LEMMA BackgroundCases ==
  ASSUME Background
  PROVE  /\ UNCHANGED <<session, focused, protocol>>
         /\ Live(Ctx) => Live(Ctx)'
         /\ UNCHANGED config \/ edited' = TRUE
  <1>1. UNCHANGED protocol  BY DEF Background
  <1>2. CASE DeploymentSucceeds \/ DeploymentFails \/ MaintenanceEnds
    <2>1. UNCHANGED <<session, focused, config>> /\ ~Live(Ctx)
      BY <1>2 DEF DeploymentSucceeds, DeploymentFails, MaintenanceEnds,
                  requests, config, Live
    <2> QED  BY <1>1, <2>1
  <1>3. ASSUME NEW s \in Schemas, EditConfig(s)
        PROVE  /\ UNCHANGED <<session, focused>> /\ edited' = TRUE
               /\ Live(Ctx) => Live(Ctx)'
    BY <1>3 DEF EditConfig, deployment, Live
  <1> QED  BY <1>1, <1>2, <1>3 DEF Background

-----------------------------------------------------------------------------
(* The invariant.                                                          *)

\* A process that has ended holds nothing.
GoneIsEmpty == stage = "gone" => \A c \in Ctxs : session[c] = NoSession

\* Without a live session, and with no edit waiting, the engine's copy of the
\* configured schema is the saved one: only while a session lives may a
\* schema chosen in it be in the tree alone.
ShadowIsSaved ==
    stage # "gone" /\ ~Live(Ctx) /\ ~edited => schema = tree

\* The schema the user may count on is the saved one.
Choice ==
    /\ chosen \in Schemas \cup {NoSchema}
    /\ edited => chosen = NoSchema
    /\ chosen # NoSchema => tree = chosen

ProtocolOK == stage \in {"idle", "mode", "gone"} /\ cached \in Modes

WorkerInv ==
    /\ Inv /\ ShiftInv
    /\ ProtocolOK
    /\ GoneIsEmpty
    /\ ShadowIsSaved
    /\ CachedIsLive
    /\ TreeFollows /\ Choice

\* The tree is left alone, edited, or made to follow a live session.
Follows == TreeFollows' /\ (Live(Ctx)' \/ tree' = tree \/ edited')

LEMMA ChoiceKept ==
  ASSUME Inv', Choice, Choose, Follows
  PROVE  Choice'
  <1>1. session' \in [Ctxs -> Sessions \cup {NoSession}]
    BY DEF Inv, TypeOK
  <1>2. Live(Ctx)' => session'[Ctx].schema \in Schemas
    <2>1. Live(Ctx)' => session'[Ctx] \in Sessions
      BY <1>1, TheContext DEF Live
    <2> QED  BY <2>1, SessionFields
  <1>3. CASE edited' \/ (Live(Ctx)' /\ ~handler')
    BY <1>3 DEF Choose, Choice
  <1>4. CASE ~edited' /\ Live(Ctx)' /\ handler'
    BY <1>2, <1>4 DEF Choose, Choice, Follows, TreeFollows
  <1>5. CASE ~edited' /\ ~Live(Ctx)'
    BY <1>5 DEF Choose, Choice, Follows
  <1> QED  BY <1>3, <1>4, <1>5

\* The end and the restart of the process, on the invariants of InputSession:
\* there is no session.
LEMMA EndKeeps ==
  ASSUME Inv, End
  PROVE  Inv' /\ ShiftInv' /\ \A c \in Ctxs : session'[c] = NoSession
  <1>1. DeploymentOK /\ RestOK  BY TypeParts DEF Inv
  <1>2. DeploymentOK'  BY <1>1 DEF DeploymentOK, End, deployment
  <1>3. RestOK'
    BY <1>1 DEF RestOK, HistoryOK, End, deployment, config, Compositions
  <1>4. TypeOK'  BY <1>2, <1>3, TypeParts, PTL
  <1>5. \A c \in Ctxs : session'[c] = NoSession  BY DEF End
  <1>6. Synchronised' /\ ShiftInv'
    BY <1>5 DEF Synchronised, Fresh, Agree, ShiftInv, Alone, Live
  <1> QED  BY <1>4, <1>5, <1>6 DEF Inv

LEMMA RestartKeeps ==
  ASSUME Inv, GoneIsEmpty, Restart
  PROVE  Inv' /\ ShiftInv' /\ \A c \in Ctxs : session'[c] = NoSession
  <1>1. DeploymentOK /\ RestOK  BY TypeParts DEF Inv
  <1>2. DeploymentOK'
    <2>1. /\ maintenance_done' \in BOOLEAN /\ ready' \in BOOLEAN
          /\ maintaining' \in BOOLEAN /\ handler' \in BOOLEAN
      BY Zenon DEF Restart
    <2>2. deploy_id' \in Nat /\ job' = "none" /\ available' \subseteq Schemas
      BY DEF Restart
    <2> QED  BY <2>1, <2>2 DEF DeploymentOK
  <1>3. RestOK'
    <2>1. reported' \in Modes  BY DEF Restart, DefaultMode, Modes
    <2>2. schema' = tree /\ edited' = FALSE
          /\ UNCHANGED <<tree, session, shown, focused, history>>
      BY DEF Restart
    <2> QED  BY <1>1, <2>1, <2>2 DEF RestOK, HistoryOK, history, shift
  <1>4. TypeOK'  BY <1>2, <1>3, TypeParts, PTL
  <1>5. \A c \in Ctxs : session'[c] = NoSession
    BY DEF Restart, GoneIsEmpty
  <1>6. Synchronised' /\ ShiftInv'
    BY <1>5 DEF Synchronised, Fresh, Agree, ShiftInv, Alone, Live
  <1> QED  BY <1>4, <1>5, <1>6 DEF Inv

\* A request: what the host has cached is only to be right after its reply.
LEMMA ServeKeeps ==
  ASSUME WorkerInv, NEW op \in Ops, Serve(op)
  PROVE  ProtocolOK' /\ GoneIsEmpty' /\ ShadowIsSaved' /\ CachedIsLive'
         /\ Follows
  <1>1. Inv /\ stage = "idle" /\ Handle(op) /\ cached' = cached
        /\ stage' = IF TellsMode(op) THEN "mode" ELSE "idle"
    BY DEF WorkerInv, Serve
  <1>2. ProtocolOK' /\ GoneIsEmpty'
    BY <1>1 DEF ProtocolOK, GoneIsEmpty, WorkerInv
  <1>3. Calm  BY <1>1, HandleSteps, StepIsCalm
  <1>4. ShadowIsSaved'
    <2>1. CASE Opens  BY <2>1 DEF Opens, ShadowIsSaved
    <2>2. CASE NothingGained
      <3>1. Live(Ctx) => Live(Ctx)'  BY <2>2, LiveStays
      <3> QED  BY <1>1, <2>2, <3>1
               DEF WorkerInv, ShadowIsSaved, NothingGained, config
    <2>3. CASE Loaded  BY <2>3 DEF Loaded, ShadowIsSaved
    <2> QED  BY <1>1, <2>1, <2>2, <2>3, HandleCases DEF WorkerInv
  <1>5. CachedIsLive'
    <2> SUFFICES ASSUME ~TellsMode(op), Live(Ctx)'
                 PROVE  cached = Status(session'[Ctx])
      BY <1>1 DEF CachedIsLive, Status
    <2>1. \/ FocusOut(Ctx) \/ GetActiveMode(Ctx) \/ ReloadConfig \/ Deactivate
      BY <1>1 DEF Handle, TellsMode
    <2>2. ~Missed(Ctx)  BY <1>1, <1>3, TheContext, MissedIsGone
    <2>3. CASE FocusOut(Ctx)
      <3>1. Live(Ctx) /\ KeepAndPublish(Ctx, session[Ctx], Cleared(session[Ctx]))
        BY <2>2, <2>3 DEF FocusOut, ResetSession
      <3>2. session[Ctx] \in Sessions /\ session \in [Ctxs -> Sessions \cup {NoSession}]
        BY <1>1, <3>1, TheContext DEF Live, Inv, TypeOK
      <3>3. session'[Ctx] = Cleared(session[Ctx])
        BY <3>1, <3>2, TheContext, KeepStores
      <3>4. Status(session'[Ctx]) = Status(session[Ctx])
        BY <3>2, <3>3, ClearedFields
      <3> QED  BY <1>1, <3>1, <3>4 DEF WorkerInv, CachedIsLive
    <2>4. CASE ReloadConfig \/ Deactivate
      <3>1. session' = session
        BY <2>4, TheContext DEF ReloadConfig, Deactivate, requests
      <3>2. Live(Ctx)
        BY <1>1, <1>3, <3>1, TheContext, StillFresh DEF Inv, Synchronised
      <3> QED  BY <1>1, <3>1, <3>2 DEF WorkerInv, CachedIsLive
    <2> QED  BY <2>1, <2>2, <2>3, <2>4 DEF GetActiveMode
  <1>6. Follows
    <2>1. TreeFollows  BY DEF WorkerInv
    <2>2. CASE Opens  BY <2>2 DEF Opens, Follows
    <2>3. CASE NothingGained \/ Loaded
      <3>1. tree' = tree /\ edited' = edited
        BY <2>3 DEF NothingGained, Loaded, config
      <3>2. handler' => handler  BY <1>3 DEF Calm
      <3>3. Live(Ctx)' => Live(Ctx) /\ session'[Ctx] = session[Ctx]
        <4>1. CASE Missed(Ctx)  BY <1>1, <1>3, <4>1, TheContext, MissedIsGone
        <4>2. CASE session' = session
          BY <1>1, <1>3, <4>2, TheContext, StillFresh DEF Inv, Synchronised
        <4> QED  BY <2>3, <4>1, <4>2 DEF NothingGained, Loaded
      <3> QED  BY <2>1, <3>1, <3>2, <3>3 DEF TreeFollows, Follows
    <2> QED  BY <1>1, <2>1, <2>2, <2>3, HandleCases
  <1> QED  BY <1>2, <1>4, <1>5, <1>6

\* The line that tells the mode.
LEMMA EmitKeeps ==
  ASSUME WorkerInv, EmitActiveMode
  PROVE  ProtocolOK' /\ GoneIsEmpty' /\ ShadowIsSaved' /\ CachedIsLive'
         /\ Follows
  <1>1. Inv /\ stage = "mode" /\ stage' = "idle" /\ UNCHANGED config
        /\ UNCHANGED deployment
    BY DEF WorkerInv, EmitActiveMode
  <1>2. Calm  BY <1>1, NoChange DEF Inv
  <1>3. ASSUME Live(Ctx)
        PROVE  ProtocolOK' /\ GoneIsEmpty' /\ ShadowIsSaved' /\ CachedIsLive'
    <2>1. session' = session /\ cached' = Status(session[Ctx]) /\ Live(Ctx)'
      BY <1>1, <1>3 DEF EmitActiveMode, Live, deployment
    <2>2. session[Ctx] \in Sessions  BY <1>1, <1>3, TheContext DEF Live, Inv, TypeOK
    <2>3. cached' \in Modes  BY <2>1, <2>2, SessionFields
    <2> QED  BY <1>1, <2>1, <2>3
             DEF ProtocolOK, GoneIsEmpty, ShadowIsSaved, CachedIsLive, Status
  <1>4. ASSUME ~Live(Ctx)
        PROVE  ProtocolOK' /\ GoneIsEmpty' /\ ShadowIsSaved' /\ CachedIsLive'
    <2>1. Missed(Ctx) /\ cached' = DefaultMode
      BY <1>4 DEF EmitActiveMode
    <2>2. ~Live(Ctx)'  BY <1>1, <1>2, <2>1, TheContext, MissedIsGone
    <2>3. cached' \in Modes  BY <2>1 DEF DefaultMode, Modes
    <2> QED  BY <1>1, <1>4, <2>2, <2>3
             DEF WorkerInv, ProtocolOK, GoneIsEmpty, ShadowIsSaved,
                 CachedIsLive, config
  <1>5. Follows
    <2>1. Live(Ctx)' => Live(Ctx) /\ session' = session
      <3>1. CASE Live(Ctx)  BY <3>1 DEF EmitActiveMode
      <3>2. CASE ~Live(Ctx)
        BY <1>1, <1>2, <3>2, TheContext, MissedIsGone DEF EmitActiveMode
      <3> QED  BY <3>1, <3>2
    <2> QED  BY <1>1, <2>1
             DEF WorkerInv, TreeFollows, Follows, config, deployment
  <1> QED  BY <1>3, <1>4, <1>5

LEMMA BackgroundKeeps ==
  ASSUME WorkerInv, Background
  PROVE  ProtocolOK' /\ GoneIsEmpty' /\ ShadowIsSaved' /\ CachedIsLive'
         /\ Follows
  <1>1. Inv /\ stage' = stage /\ cached' = cached /\ session' = session
    BY BackgroundCases DEF WorkerInv, protocol
  <1>2. Live(Ctx)' => Live(Ctx)
    <2>1. Calm  BY <1>1, BackgroundSteps, StepIsCalm
    <2> QED  BY <1>1, <2>1, TheContext, StillFresh DEF Inv, Synchronised
  <1>3. ProtocolOK' /\ GoneIsEmpty'
    BY <1>1 DEF WorkerInv, ProtocolOK, GoneIsEmpty
  <1>4. ShadowIsSaved'
    BY <1>1, BackgroundCases DEF WorkerInv, ShadowIsSaved, config
  <1>5. CachedIsLive'
    BY <1>1, <1>2 DEF WorkerInv, CachedIsLive, Status
  <1>6. Follows
    <2>1. handler' => handler
      <3>1. Calm  BY <1>1, BackgroundSteps, StepIsCalm
      <3> QED  BY <3>1 DEF Calm
    <2>2. UNCHANGED config \/ edited' = TRUE  BY BackgroundCases
    <2> QED  BY <1>1, <1>2, <2>1, <2>2
             DEF WorkerInv, TreeFollows, Follows, config
  <1> QED  BY <1>3, <1>4, <1>5, <1>6

LEMMA WorkerInvInit == WorkerInit => WorkerInv
  <1> SUFFICES ASSUME WorkerInit  PROVE WorkerInv
    OBVIOUS
  <1>1. Init /\ stage = "idle" /\ cached = DefaultMode /\ chosen = NoSchema
    BY DEF WorkerInit
  <1>2. Inv  BY <1>1, InvInit
  <1>3. ~Live(Ctx) /\ schema = tree /\ ShiftInv
    BY <1>1, TheContext DEF Init, Live, ShiftInv, Alone
  <1>4. ProtocolOK  BY <1>1 DEF ProtocolOK, DefaultMode, Modes
  <1> QED  BY <1>1, <1>2, <1>3, <1>4
           DEF WorkerInv, GoneIsEmpty, ShadowIsSaved, CachedIsLive, TreeFollows,
               Choice

LEMMA WorkerInvStep ==
  WorkerInv /\ [WorkerNext]_worker => WorkerInv'
  <1> SUFFICES ASSUME WorkerInv, [WorkerNext]_worker
               PROVE  WorkerInv'
    OBVIOUS
  <1>1. Inv /\ ShiftInv /\ TypeOK  BY DEF WorkerInv, Inv
  <1>2. ASSUME Follows, Choose, Inv'  PROVE TreeFollows' /\ Choice'
    BY <1>2, ChoiceKept DEF WorkerInv, Follows
  <1>3. CASE Running /\ Choose
    <2>1. Inv' /\ ShiftInv'
      BY <1>1, <1>3, RunningSteps, InvStep, ShiftInvStep
    <2>2. /\ ProtocolOK' /\ GoneIsEmpty' /\ ShadowIsSaved' /\ CachedIsLive'
          /\ Follows
      BY <1>3, ServeKeeps, EmitKeeps, BackgroundKeeps DEF Running
    <2> QED  BY <1>2, <1>3, <2>1, <2>2 DEF WorkerInv
  <1>4. CASE End /\ Choose
    <2>1. Inv' /\ ShiftInv' /\ GoneIsEmpty' /\ ~Live(Ctx)'
      BY <1>1, <1>4, EndKeeps, TheContext DEF GoneIsEmpty, Live
    <2>2. stage' = "gone" /\ cached' = cached /\ tree' = tree
      BY <1>4 DEF End, config
    <2>3. Follows  BY <2>1, <2>2 DEF Follows, TreeFollows
    <2> QED  BY <1>2, <1>4, <2>1, <2>2, <2>3
             DEF WorkerInv, ProtocolOK, ShadowIsSaved, CachedIsLive
  <1>5. CASE Restart /\ Choose
    <2>1. Inv' /\ ShiftInv' /\ \A c \in Ctxs : session'[c] = NoSession
      BY <1>1, <1>5, RestartKeeps DEF WorkerInv
    <2>2. ~Live(Ctx)'  BY <2>1, TheContext DEF Live
    <2>3. stage' = "idle" /\ cached' = cached /\ schema' = tree' /\ ~edited'
          /\ tree' = tree
      BY <1>5 DEF Restart
    <2>4. Follows  BY <2>2, <2>3 DEF Follows, TreeFollows
    <2> QED  BY <1>2, <1>5, <2>1, <2>2, <2>3, <2>4
             DEF WorkerInv, ProtocolOK, GoneIsEmpty, ShadowIsSaved, CachedIsLive
  <1>6. CASE UNCHANGED worker
    <2>1. Inv' /\ ShiftInv'
      BY <1>1, <1>6, InvStep, ShiftInvStep DEF worker
    <2> QED  BY <1>6, <2>1
             DEF WorkerInv, worker, vars, protocol, deployment, config,
                 ProtocolOK, GoneIsEmpty, ShadowIsSaved, CachedIsLive, Live,
                 Status, TreeFollows, Choice
  <1> QED
    BY <1>3, <1>4, <1>5, <1>6 DEF WorkerNext, WorkerStep, Running

LEMMA WorkerInvAlways == WorkerSpec => []WorkerInv
  BY WorkerInvInit, WorkerInvStep, PTL DEF WorkerSpec

-----------------------------------------------------------------------------
(* The theorems.                                                           *)

\* Every variable keeps its type, the host's cache included.
THEOREM WorkerTypeCorrect == WorkerSpec => []WorkerTypeOK
  <1>1. WorkerInv => WorkerTypeOK
    BY DEF WorkerInv, Inv, ProtocolOK, Choice, WorkerTypeOK
  <1> QED  BY <1>1, WorkerInvAlways, PTL

\* What the host has cached is the mode of the live session between any two
\* requests, after any number of restarts (worker_main.c:394).
THEOREM CachedIsAlwaysLive == WorkerSpec => []CachedIsLive
  <1>1. WorkerInv => CachedIsLive  BY DEF WorkerInv
  <1> QED  BY <1>1, WorkerInvAlways, PTL

\* InputSession's copies agree in every process of the worker, although a
\* process begins with the tree the last one left.
THEOREM CopiesAgreeAcrossRestarts ==
    WorkerSpec => [](NothingHidden /\ ReportedIsLive /\ TreeIsLive)
  <1>1. WorkerInv => NothingHidden /\ ReportedIsLive /\ TreeIsLive
    BY DEF WorkerInv, Inv, Synchronised, Agree, NothingHidden, ReportedIsLive,
           TreeIsLive
  <1> QED  BY <1>1, WorkerInvAlways, PTL

\* A focus-in without a session opens the schema of the last live session, in
\* this process or a later one: the schema that was switched to last, unless
\* somebody edited the configuration or the handler is gone.
THEOREM SchemaAlwaysSurvives == WorkerSpec => SchemaSurvives
  <1>1. ASSUME WorkerInv, [WorkerNext]_worker,
               focused = NoCtx, focused' = Ctx, ~Live(Ctx), Live(Ctx)',
               chosen \in available
        PROVE  session'[Ctx].schema = chosen
    <2>1. Inv  BY <1>1 DEF WorkerInv
    <2>2. FocusIn(Ctx) /\ stage = "idle"
      <3>1. focused' # focused  BY <1>1, TheContext
      <3>2. ~UNCHANGED worker /\ ~EmitActiveMode /\ ~Background
            /\ ~End /\ ~Restart
        BY <1>1, <3>1, TheContext, BackgroundCases
        DEF worker, vars, EmitActiveMode, End, Restart
      <3>3. PICK op \in Ops : Serve(op)
        BY <1>1, <3>2 DEF WorkerNext, WorkerStep
      <3>4. stage = "idle" /\ Handle(op)  BY <3>3 DEF Serve
      <3>5. \A press \in BOOLEAN : ~Key(Ctx, press)  BY <3>1 DEF Key
      <3>6. \A s \in Schemas, ascii \in BOOLEAN : ~SetActiveMode(Ctx, s, ascii)
        BY <3>1 DEF SetActiveMode
      <3>7. ~FocusOut(Ctx) /\ ~Reset(Ctx) /\ ~Escape(Ctx) /\ ~ShiftPress(Ctx)
            /\ ~ShiftRelease(Ctx) /\ ~UNCHANGED vars /\ ~GetActiveMode(Ctx)
            /\ ~ReloadConfig /\ ~Deactivate
        BY <1>1, <3>1, TheContext
        DEF FocusOut, Reset, Escape, ShiftPress, ShiftRelease, vars,
            GetActiveMode, ReloadConfig, Deactivate, requests
      <3> QED  BY <3>4, <3>5, <3>6, <3>7 DEF Handle
    <2>3. schema = chosen
      <3>1. chosen # NoSchema
        BY <1>1, <2>1, SchemasAssumption DEF Inv, TypeOK
      <3>2. ~edited /\ tree = chosen  BY <1>1, <3>1 DEF WorkerInv, Choice
      <3> QED  BY <1>1, <2>2, <3>2 DEF WorkerInv, ShadowIsSaved
    <2>4. ~NotGot(Ctx)
      <3>1. Calm
        BY <2>1, <2>2, TheContext, RequestIsCalm DEF Request, Inv
      <3> QED  BY <1>1, <2>1, <3>1, TheContext, MissedIsGone DEF NotGot
    <2>5. PICK g \in Got(Ctx) :
            /\ Ensured(Ctx)
            /\ KeepAndPublish(Ctx, g, [g EXCEPT !.shift_only = FALSE])
      BY <2>2, <2>4 DEF FocusIn
    <2>6. g \in NewSessions(chosen)  BY <1>1, <2>3, <2>5 DEF Got
    <2>7. g.schema = chosen  BY <1>1, <2>6 DEF NewSessions, Resolved
    <2>8. g \in Sessions  BY <2>1, <2>5, TheContext, GotIsLive DEF Inv
    <2>9. session'[Ctx] = [g EXCEPT !.shift_only = FALSE]
      BY <2>1, <2>5, TheContext, KeepStores DEF Inv, TypeOK
    <2> QED  BY <2>7, <2>8, <2>9 DEF Sessions
  <1>2. WorkerInv /\ [WorkerNext]_worker =>
          [/\ focused = NoCtx /\ focused' = Ctx /\ ~Live(Ctx) /\ Live(Ctx)'
           /\ chosen \in available
           => session'[Ctx].schema = chosen]_worker
    BY <1>1
  <1> QED  BY <1>2, WorkerInvAlways, PTL DEF WorkerSpec, SchemaSurvives

=============================================================================
