----------------------- MODULE InputSessionKeyProofs -----------------------
(***************************************************************************)
(* Theorems about the bare Shift and ascii_mode, on the invariant of       *)
(* InputSessionProofs: action properties of every step, for any contexts,  *)
(* schemas, host and number of deployments.                                *)
(***************************************************************************)
EXTENDS InputSessionProofs

\* A live session's pending Shift is that of the context with the focus, and
\* was pressed there last.  While the engine is not READY keys are swallowed
\* and the flag may be out of date; the setup thread, which makes it READY
\* again, has then started a deployment, so that the session is no more.
Alone(c) ==
    Live(c) /\ session[c].shift_only =>
        /\ focused = c
        /\ ready => bare = c
        /\ job = "deploying" => ready

ShiftInv == \A c \in Ctxs : Alone(c)

\* The requests that are about one context.
Request(c) ==
    \/ FocusIn(c) \/ FocusOut(c) \/ Reset(c) \/ GetActiveMode(c) \/ Destroy(c)
    \/ Escape(c) \/ ShiftPress(c) \/ ShiftRelease(c)
    \/ \E press \in BOOLEAN : Key(c, press)
    \/ \E s \in Schemas, ascii \in BOOLEAN : SetActiveMode(c, s, ascii)

-----------------------------------------------------------------------------
(* One context at a time.                                                  *)

\* What a handler stores, or drops, is its own context's.
LEMMA OnlyItsOwn ==
  ASSUME TypeOK, NEW c \in Ctxs, NEW d \in Ctxs, d # c,
         \/ UNCHANGED session
         \/ \E v : session' = [session EXCEPT ![c] = v]
  PROVE  session'[d] = session[d]
  BY DEF TypeOK

LEMMA MissedStores ==
  ASSUME NEW c \in Ctxs, Missed(c)
  PROVE  \E v : session' = [session EXCEPT ![c] = v]
  <1>1. session' = [session EXCEPT ![c] = IF maintaining THEN session[c]
                                          ELSE NoSession]
    BY DEF Missed
  <1> QED  BY <1>1

LEMMA KeepStores ==
  ASSUME NEW c \in Ctxs, NEW g, NEW s, Keep(c, g, s) \/ KeepAndPublish(c, g, s)
  PROVE  session' = [session EXCEPT ![c] = s]
  BY DEF Keep, KeepAndPublish, Store

LEMMA ResetStores ==
  ASSUME NEW c \in Ctxs, ResetSession(c)
  PROVE  \E v : session' = [session EXCEPT ![c] = v]
  BY MissedStores, KeepStores DEF ResetSession

LEMMA SwallowedStores ==
  ASSUME NEW c \in Ctxs, Swallowed(c)
  PROVE  UNCHANGED session \/ \E v : session' = [session EXCEPT ![c] = v]
  BY MissedStores DEF Swallowed, NotGot

LEMMA RequestStores ==
  ASSUME NEW c \in Ctxs, Request(c)
  PROVE  UNCHANGED session \/ \E v : session' = [session EXCEPT ![c] = v]
  <1>1. CASE FocusIn(c)
    BY <1>1, MissedStores, KeepStores DEF FocusIn, NotGot
  <1>2. CASE FocusOut(c) \/ Reset(c)
    BY <1>2, ResetStores DEF FocusOut, Reset
  <1>3. CASE GetActiveMode(c)  BY <1>3, MissedStores DEF GetActiveMode
  <1>4. CASE Destroy(c)  BY <1>4 DEF Destroy
  <1>5. CASE Escape(c)  BY <1>5, ResetStores DEF Escape
  <1>6. CASE ShiftPress(c)
    BY <1>6, SwallowedStores, KeepStores DEF ShiftPress
  <1>7. CASE ShiftRelease(c)
    BY <1>7, SwallowedStores, KeepStores DEF ShiftRelease
  <1>8. ASSUME NEW press \in BOOLEAN, Key(c, press)
        PROVE  UNCHANGED session \/ \E v : session' = [session EXCEPT ![c] = v]
    BY <1>8, SwallowedStores, KeepStores DEF Key
  <1>9. ASSUME NEW s \in Schemas, NEW ascii \in BOOLEAN,
               SetActiveMode(c, s, ascii)
        PROVE  UNCHANGED session \/ \E v : session' = [session EXCEPT ![c] = v]
    BY <1>9, MissedStores, KeepStores DEF SetActiveMode, NotGot
  <1> QED
    BY <1>1, <1>2, <1>3, <1>4, <1>5, <1>6, <1>7, <1>8, <1>9 DEF Request

LEMMA RequestIsCalm ==
  ASSUME TypeOK, NEW c \in Ctxs, Request(c)
  PROVE  Calm
  <1>1. CASE FocusIn(c)
    BY <1>1, NotGotIsCalm, EnsuredIsCalm DEF FocusIn
  <1>2. CASE FocusOut(c) \/ Reset(c)
    BY <1>2, NoChange DEF FocusOut, Reset, ResetSession
  <1>3. CASE GetActiveMode(c)  BY <1>3, NoChange DEF GetActiveMode
  <1>4. CASE Destroy(c)  BY <1>4, NoChange DEF Destroy
  <1>5. CASE Escape(c)  BY <1>5, NoChange DEF Escape, ResetSession
  <1>6. ASSUME Swallowed(c)  PROVE Calm
    BY <1>6, NotGotIsCalm, NoChange DEF Swallowed
  <1>7. CASE ShiftPress(c)
    BY <1>6, <1>7, EnsuredIsCalm DEF ShiftPress
  <1>8. CASE ShiftRelease(c)
    BY <1>6, <1>8, EnsuredIsCalm DEF ShiftRelease
  <1>9. ASSUME NEW press \in BOOLEAN, Key(c, press)  PROVE Calm
    BY <1>6, <1>9, EnsuredIsCalm DEF Key
  <1>10. ASSUME NEW s \in Schemas, NEW ascii \in BOOLEAN,
                SetActiveMode(c, s, ascii)
         PROVE  Calm
    BY <1>10, NotGotIsCalm, EnsuredIsCalm DEF SetActiveMode
  <1> QED
    BY <1>1, <1>2, <1>3, <1>4, <1>5, <1>7, <1>8, <1>9, <1>10 DEF Request

-----------------------------------------------------------------------------
(* The pending Shift.                                                      *)

\* Of a context that keeps its session: nothing makes the engine READY.
LEMMA AloneStays ==
  ASSUME Inv, Calm, NEW c \in Ctxs, Alone(c), session'[c] = session[c],
         focused' = focused,
         Live(c) => /\ ready' /\ session[c].shift_only => ready /\ bare' = bare
                    /\ job' = "deploying" => (job = "deploying" /\ ready' = ready)
  PROVE  Alone(c)'
  <1>1. Live(c)' => Live(c)  BY StillFresh DEF Inv, Synchronised
  <1> QED  BY <1>1 DEF Alone

\* Of the others, while one context has the focus or is given it.
LEMMA OthersStay ==
  ASSUME Inv, ShiftInv, Calm, NEW c \in Ctxs, NEW d \in Ctxs, d # c,
         focused \in {NoCtx, c}, session'[d] = session[d]
  PROVE  Alone(d)'
  <1>1. Live(d)' => Live(d)  BY StillFresh DEF Inv, Synchronised
  <1>2. focused # d  BY NullsAssumption
  <1> QED  BY <1>1, <1>2 DEF ShiftInv, Alone

LEMMA AloneLost ==
  ASSUME Inv, Calm, NEW c \in Ctxs, Missed(c)
  PROVE  Alone(c)'
  <1>1. ~Live(c) /\ (session'[c] = session[c] \/ session'[c] = NoSession)
    BY DEF Missed, Inv, TypeOK
  <1>2. CASE session'[c] = session[c]
    BY <1>1, <1>2, StillFresh DEF Inv, Synchronised, Alone
  <1>3. CASE session'[c] = NoSession  BY <1>3 DEF Alone, Live
  <1> QED  BY <1>1, <1>2, <1>3

LEMMA AloneStored ==
  ASSUME Inv, NEW c \in Ctxs, NEW s, session' = [session EXCEPT ![c] = s],
         s.shift_only => /\ focused' = c /\ (ready' => bare' = c)
                         /\ job' = "deploying" => ready'
  PROVE  Alone(c)'
  <1>1. session'[c] = s  BY DEF Inv, TypeOK
  <1> QED  BY <1>1 DEF Alone

\* The session get_session returns has a pending Shift only if it had one.
LEMMA GotShift ==
  ASSUME Inv, ShiftInv, NEW c \in Ctxs, NEW g \in Got(c), Ensured(c),
         g.shift_only
  PROVE  /\ Live(c) /\ g = session[c] /\ focused = c
         /\ ready' = ready /\ job' = job
         /\ ready => bare = c
         /\ job = "deploying" => ready
  <1>1. Live(c)
    <2>1. ASSUME NEW n \in NewSessions(schema)  PROVE n.shift_only = FALSE
      BY DEF NewSessions
    <2> QED  BY <2>1 DEF Got
  <1>2. g = session[c]  BY <1>1 DEF Got
  <1> QED  BY <1>1, <1>2 DEF ShiftInv, Alone, Ensured

\* A handler that leaves the flag alone.
LEMMA GotStays ==
  ASSUME Inv, ShiftInv, NEW c \in Ctxs, NEW g \in Got(c), Ensured(c),
         NEW s, s.shift_only => g.shift_only,
         session' = [session EXCEPT ![c] = s],
         focused' = focused, bare' = bare
  PROVE  Alone(c)'
  <1>1. s.shift_only => /\ focused' = c /\ (ready' => bare' = c)
                        /\ job' = "deploying" => ready'
    <2>1. SUFFICES ASSUME g.shift_only
                   PROVE  /\ focused' = c /\ (ready' => bare' = c)
                          /\ job' = "deploying" => ready'
      OBVIOUS
    <2> QED  BY <2>1, GotShift
  <1> QED  BY <1>1, AloneStored

LEMMA SwallowedStays ==
  ASSUME Inv, ShiftInv, Calm, NEW c \in Ctxs, Swallowed(c), focused' = focused
  PROVE  Alone(c)'
  <1>1. CASE ~ready /\ UNCHANGED <<deployment, session>>
    BY <1>1, AloneStays DEF deployment, ShiftInv
  <1>2. CASE NotGot(c)  BY <1>2, AloneLost DEF NotGot
  <1> QED  BY <1>1, <1>2 DEF Swallowed

LEMMA ResetStays ==
  ASSUME Inv, Calm, NEW c \in Ctxs, ResetSession(c)
  PROVE  Alone(c)'
  <1>1. CASE Missed(c)  BY <1>1, AloneLost
  <1>2. CASE Live(c) /\ KeepAndPublish(c, session[c], Cleared(session[c]))
    <2>1. session[c] \in Sessions  BY <1>2 DEF Live, Inv, TypeOK
    <2>2. ~Cleared(session[c]).shift_only  BY <2>1 DEF Cleared, Sessions
    <2> QED  BY <1>2, <2>2, KeepStores, AloneStored
  <1> QED  BY <1>1, <1>2 DEF ResetSession

LEMMA KeyStays ==
  ASSUME Inv, ShiftInv, Calm, NEW c \in Ctxs, NEW press \in BOOLEAN,
         Key(c, press)
  PROVE  Alone(c)'
  <1>1. focused' = focused /\ bare' = IF press THEN NoCtx ELSE bare  BY DEF Key
  <1>2. CASE Swallowed(c)  BY <1>1, <1>2, SwallowedStays
  <1>3. CASE ~Swallowed(c)
    <2>1. PICK g \in Got(c) :
            /\ Ensured(c)
            /\ \E t : /\ Keep(c, g, t)
                      /\ t.shift_only =
                           (IF press THEN Interrupted(g) ELSE g).shift_only
      <3>1. PICK g \in Got(c) :
              LET h == IF press THEN Interrupted(g) ELSE g
              IN  /\ ready /\ Ensured(c)
                  /\ \/ Keep(c, g, h) /\ UNCHANGED shown
                     \/ \E s \in available, a \in BOOLEAN, k \in Compositions :
                          /\ Keep(c, g, [h EXCEPT !.schema = s, !.ascii = a,
                                                  !.composition = k])
                          /\ Show(c, k)
        BY <1>3 DEF Key
      <3> DEFINE h == IF press THEN Interrupted(g) ELSE g
      <3>2. ASSUME NEW s, NEW a, NEW k
            PROVE  [h EXCEPT !.schema = s, !.ascii = a,
                             !.composition = k].shift_only = h.shift_only
        <4>1. g \in Sessions  BY <3>1, GotIsLive DEF Inv
        <4>2. h \in Sessions  BY <4>1, ShiftFields DEF Interrupted
        <4> HIDE DEF h
        <4> QED  BY <4>2 DEF Sessions
      <3>3. Ensured(c)  BY <3>1
      <3>4. \/ Keep(c, g, h)
            \/ \E s \in available, a \in BOOLEAN, k \in Compositions :
                 Keep(c, g, [h EXCEPT !.schema = s, !.ascii = a,
                                      !.composition = k])
        BY <3>1
      <3> HIDE DEF h
      <3>5. \E t : Keep(c, g, t) /\ t.shift_only = h.shift_only
        <4>1. CASE Keep(c, g, h)  BY <4>1
        <4>2. CASE \E s \in available, a \in BOOLEAN, k \in Compositions :
                     Keep(c, g, [h EXCEPT !.schema = s, !.ascii = a,
                                          !.composition = k])
          <5>1. PICK s \in available, a \in BOOLEAN, k \in Compositions :
                  Keep(c, g, [h EXCEPT !.schema = s, !.ascii = a,
                                       !.composition = k])
            BY <4>2
          <5>2. [h EXCEPT !.schema = s, !.ascii = a,
                          !.composition = k].shift_only = h.shift_only
            BY <3>2
          <5> QED  BY <5>1, <5>2
        <4> QED  BY <3>4, <4>1, <4>2
      <3> QED  BY <3>3, <3>5 DEF h
    <2>2. PICK t : /\ Keep(c, g, t)
                   /\ t.shift_only =
                        (IF press THEN Interrupted(g) ELSE g).shift_only
      BY <2>1
    <2>3. session' = [session EXCEPT ![c] = t]  BY <2>2, KeepStores
    <2>4. CASE press
      <3>1. g \in Sessions  BY <2>1, GotIsLive DEF Inv
      <3>2. ~Interrupted(g).shift_only  BY <3>1 DEF Interrupted, Sessions
      <3> QED  BY <2>2, <2>3, <2>4, <3>2, AloneStored
    <2>5. CASE ~press
      BY <1>1, <2>1, <2>2, <2>3, <2>5, GotStays
    <2> QED  BY <2>4, <2>5
  <1> QED  BY <1>2, <1>3

LEMMA SetActiveModeStays ==
  ASSUME Inv, ShiftInv, Calm, NEW c \in Ctxs, NEW wanted \in Schemas,
         NEW ascii \in BOOLEAN, SetActiveMode(c, wanted, ascii)
  PROVE  Alone(c)'
  <1>1. focused' = focused /\ bare' = bare  BY DEF SetActiveMode, shift
  <1>2. CASE NotGot(c)  BY <1>2, AloneLost DEF NotGot
  <1>3. ASSUME NEW g \in Got(c), Ensured(c),
               \/ KeepAndPublish(c, g,
                     [g EXCEPT !.schema = wanted, !.ascii = ascii,
                               !.composition = "none"])
               \/ Keep(c, g, g)
        PROVE  Alone(c)'
    <2>1. g \in Sessions  BY <1>3, GotIsLive DEF Inv
    <2> DEFINE t == [g EXCEPT !.schema = wanted, !.ascii = ascii,
                              !.composition = "none"]
    <2>2. t.shift_only = g.shift_only  BY <2>1 DEF Sessions
    <2>3. KeepAndPublish(c, g, t) \/ Keep(c, g, g)  BY <1>3
    <2> HIDE DEF t
    <2>4. session' = [session EXCEPT ![c] = t] \/ session' = [session EXCEPT ![c] = g]
      BY <2>3, KeepStores
    <2> QED  BY <1>1, <1>3, <2>2, <2>4, GotStays
  <1> QED  BY <1>2, <1>3 DEF SetActiveMode

LEMMA RequestStays ==
  ASSUME Inv, ShiftInv, Calm, NEW c \in Ctxs, Request(c)
  PROVE  Alone(c)'
  <1>1. CASE FocusIn(c)
    <2>1. ASSUME NEW g \in Got(c), Ensured(c),
                 KeepAndPublish(c, g, [g EXCEPT !.shift_only = FALSE])
          PROVE  Alone(c)'
      <3>1. g \in Sessions  BY <2>1, GotIsLive DEF Inv
      <3>2. ~[g EXCEPT !.shift_only = FALSE].shift_only  BY <3>1 DEF Sessions
      <3> QED  BY <2>1, <3>2, KeepStores, AloneStored
    <2> QED  BY <1>1, <2>1, AloneLost DEF FocusIn, NotGot
  <1>2. CASE FocusOut(c) \/ Reset(c)
    BY <1>2, ResetStays DEF FocusOut, Reset
  <1>3. CASE GetActiveMode(c)  BY <1>3, AloneLost DEF GetActiveMode
  <1>4. CASE Destroy(c)
    <2>1. session'[c] = NoSession  BY <1>4 DEF Destroy, Inv, TypeOK
    <2> QED  BY <2>1 DEF Alone, Live
  <1>5. CASE Escape(c)
    BY <1>5, ResetStays, AloneStays DEF Escape, deployment, ShiftInv
  <1>6. CASE ShiftPress(c)
    <2>1. focused = c /\ focused' = focused /\ bare' = c
      BY <1>6 DEF ShiftPress
    <2>2. ASSUME NEW g \in Got(c), ready, Ensured(c),
                 Keep(c, g, [g EXCEPT !.shift_only = TRUE])
          PROVE  Alone(c)'
      <3>1. ready'  BY <2>2 DEF Ensured
      <3> QED  BY <2>1, <2>2, <3>1, KeepStores, AloneStored
    <2> QED  BY <1>6, <2>1, <2>2, SwallowedStays DEF ShiftPress
  <1>7. CASE ShiftRelease(c)
    <2>1. focused' = focused  BY <1>7 DEF ShiftRelease
    <2>2. ASSUME NEW g \in Got(c), Ensured(c),
                 IF g.shift_only
                 THEN KeepAndPublish(c, g, [Cleared(g) EXCEPT !.ascii = ~@])
                 ELSE Keep(c, g, g)
          PROVE  Alone(c)'
      <3>1. g \in Sessions  BY <2>2, GotIsLive DEF Inv
      <3>2. ~[Cleared(g) EXCEPT !.ascii = ~@].shift_only
        BY <3>1 DEF Cleared, Sessions
      <3> QED  BY <2>2, <3>2, KeepStores, AloneStored
    <2> QED  BY <1>7, <2>1, <2>2, SwallowedStays DEF ShiftRelease
  <1>8. ASSUME NEW press \in BOOLEAN, Key(c, press)  PROVE Alone(c)'
    BY <1>8, KeyStays
  <1>9. ASSUME NEW s \in Schemas, NEW ascii \in BOOLEAN,
               SetActiveMode(c, s, ascii)
        PROVE  Alone(c)'
    BY <1>9, SetActiveModeStays
  <1> QED
    BY <1>1, <1>2, <1>3, <1>4, <1>5, <1>6, <1>7, <1>8, <1>9 DEF Request

-----------------------------------------------------------------------------
(* Every step.                                                             *)

LEMMA ReloadStays ==
  ASSUME Inv, ShiftInv, Calm, ReloadConfig
  PROVE  ShiftInv'
  <1>1. focused' = focused /\ bare' = bare
    BY DEF ReloadConfig, history, shift
  <1>2. CASE UNCHANGED <<deployment, session>>
    BY <1>1, <1>2, AloneStays DEF ShiftInv, deployment
  <1>3. ASSUME NEW c \in Ctxs, focused = c, NotGot(c) \/ ApplySchema(c, tree)
        PROVE  ShiftInv'
    <2>1. UNCHANGED session \/ \E v : session' = [session EXCEPT ![c] = v]
      <3>1. CASE NotGot(c)  BY <3>1, MissedStores DEF NotGot
      <3>2. CASE ApplySchema(c, tree)
        <4>1. ASSUME session' = [session EXCEPT ![c].composition = "none"]
              PROVE  session' =
                  [session EXCEPT ![c] = [session[c] EXCEPT !.composition = "none"]]
          BY <4>1
        <4> QED  BY <3>2, <4>1 DEF ApplySchema
      <3> QED  BY <1>3, <3>1, <3>2
    <2>2. ASSUME NEW d \in Ctxs, d # c  PROVE Alone(d)'
      <3>1. session'[d] = session[d]  BY <2>1, <2>2, OnlyItsOwn DEF Inv
      <3> QED  BY <1>3, <2>2, <3>1, OthersStay
    <2>3. Alone(c)'
      <3>1. CASE NotGot(c)  BY <3>1, AloneLost DEF NotGot
      <3>2. CASE ApplySchema(c, tree) /\ Live(c)
        <4>1. session[c] \in Sessions /\ session[c] \in Got(c) /\ Ensured(c)
          BY <3>2 DEF ApplySchema, Live, Got, Inv, TypeOK
        <4>2. PICK s : /\ session' = [session EXCEPT ![c] = s]
                       /\ s.shift_only = session[c].shift_only
          <5>1. CASE session' = [session EXCEPT ![c].composition = "none"]
            <6>1. [session[c] EXCEPT !.composition = "none"].shift_only =
                     session[c].shift_only
              BY <4>1 DEF Sessions
            <6>2. session' = [session EXCEPT
                     ![c] = [session[c] EXCEPT !.composition = "none"]]
              BY <5>1
            <6> QED  BY <6>1, <6>2
          <5>2. ASSUME NEW n \in NewSessions(tree),
                       session' = [session EXCEPT ![c] =
                           [n EXCEPT !.shift_only = session[c].shift_only]]
                PROVE  \E s : /\ session' = [session EXCEPT ![c] = s]
                              /\ s.shift_only = session[c].shift_only
            <6>1. n \in Sessions  BY NewFields DEF Inv, TypeOK
            <6>2. [n EXCEPT !.shift_only = session[c].shift_only].shift_only =
                     session[c].shift_only
              BY <6>1 DEF Sessions
            <6> QED  BY <5>2, <6>2
          <5> QED  BY <3>2, <5>1, <5>2 DEF ApplySchema
        <4> QED  BY <1>1, <4>1, <4>2, GotStays
      <3>3. CASE ApplySchema(c, tree) /\ ~Live(c)
        <4>1. PICK n \in NewSessions(tree) : session' = [session EXCEPT ![c] = n]
          BY <3>3 DEF ApplySchema
        <4>2. n.shift_only = FALSE  BY DEF NewSessions
        <4> QED  BY <4>1, <4>2, AloneStored
      <3> QED  BY <1>3, <3>1, <3>2, <3>3
    <2> QED  BY <2>2, <2>3 DEF ShiftInv
  <1> QED
    <2>1. focused = NoCtx \/ focused \in Ctxs  BY DEF Inv, TypeOK
    <2> QED  BY <1>2, <1>3, <2>1 DEF ReloadConfig

\* What happens behind the requests: no session is given back to a context
\* that lost it, and the engine is made READY only by the end of a deployment.
LEMMA BackgroundIsQuiet ==
  ASSUME Inv, \/ Deploy \/ SetupBegins \/ SetupFails \/ SetupDeploys
              \/ SetupEnds
              \/ DeploymentSucceeds \/ DeploymentFails \/ MaintenanceEnds
              \/ Deactivate
              \/ \E s \in Schemas : EditConfig(s) \/ SetupEdits(s)
  PROVE  UNCHANGED <<session, focused, bare>>
  BY DEF Deploy, SetupBegins, SetupFails, SetupEnds, DeploymentSucceeds,
         DeploymentFails, MaintenanceEnds, Deactivate, EditConfig,
         SetupEdits, SetupDeploys, requests, history, shift

LEMMA SetupStays ==
  ASSUME Inv, ShiftInv, Calm, SetupBegins \/ SetupFails \/ SetupEnds
  PROVE  ShiftInv'
  <1>1. UNCHANGED <<session, focused, bare>>  BY BackgroundIsQuiet
  <1>2. ASSUME NEW c \in Ctxs  PROVE Alone(c)'
    <2>1. Live(c)' => Live(c)
      BY <1>1, StillFresh DEF Inv, Synchronised
    <2>2. job' # "deploying" /\ (ready' => ready \/ job = "deploying")
      BY DEF SetupBegins, SetupFails, SetupEnds
    <2> QED  BY <1>1, <2>1, <2>2 DEF ShiftInv, Alone
  <1> QED  BY <1>2 DEF ShiftInv

LEMMA DeploymentStays ==
  ASSUME Inv, ShiftInv, Calm,
         \/ Deploy \/ DeploymentSucceeds \/ DeploymentFails \/ MaintenanceEnds
         \/ Deactivate \/ SetupDeploys
         \/ \E s \in Schemas : EditConfig(s) \/ SetupEdits(s)
  PROVE  ShiftInv'
  <1>1. UNCHANGED <<session, focused, bare>>  BY BackgroundIsQuiet
  <1>2. ASSUME NEW c \in Ctxs  PROVE Alone(c)'
    <2>1. Live(c)' => Live(c)
      BY <1>1, StillFresh DEF Inv, Synchronised
    <2>2. deploy_id \in Nat  BY DEF Inv, TypeOK
    <2>3. CASE Deploy \/ SetupDeploys
      <3>1. deploy_id' = deploy_id + 1
        BY <2>3 DEF Deploy, Deploying, Refused, StartDeployment,
                    RefuseDeployment, SetupDeploys
      <3>2. ~(Live(c) /\ Live(c)')  BY <1>1, <2>2, <3>1 DEF Live
      <3> QED  BY <2>1, <3>2 DEF Alone
    <2>4. CASE DeploymentSucceeds \/ DeploymentFails \/ MaintenanceEnds
      <3>1. ~Live(c)
        BY <2>4 DEF Live, DeploymentSucceeds, DeploymentFails, MaintenanceEnds
      <3> QED  BY <2>1, <3>1 DEF Alone
    <2>5. CASE Deactivate \/ \E s \in Schemas : EditConfig(s)
      <3>1. UNCHANGED <<ready, job>>
        BY <2>5 DEF Deactivate, EditConfig, deployment
      <3> QED  BY <1>1, <2>1, <3>1 DEF ShiftInv, Alone
    <2>6. CASE \E s \in Schemas : SetupEdits(s)
      <3>1. ready' = ready /\ job' # "deploying"  BY <2>6 DEF SetupEdits
      <3> QED  BY <1>1, <2>1, <3>1 DEF ShiftInv, Alone
    <2> QED  BY <2>3, <2>4, <2>5, <2>6
  <1> QED  BY <1>2 DEF ShiftInv

LEMMA BackgroundIsCalm ==
  ASSUME Inv, \/ SetupBegins \/ SetupFails \/ SetupDeploys \/ SetupEnds
              \/ Deploy \/ DeploymentSucceeds \/ DeploymentFails
              \/ MaintenanceEnds \/ Deactivate \/ ReloadConfig
              \/ \E s \in Schemas : EditConfig(s) \/ SetupEdits(s)
  PROVE  Calm
  <1>1. TypeOK /\ deploy_id \in Nat  BY DEF Inv, TypeOK
  <1>2. CASE SetupBegins \/ SetupFails \/ SetupEnds
    BY <1>1, <1>2 DEF SetupBegins, SetupFails, SetupEnds, Calm
  <1>3. CASE Deploy  BY <1>1, <1>3, Starting DEF Deploy
  <1>4. CASE DeploymentSucceeds \/ DeploymentFails \/ MaintenanceEnds \/ Deactivate
    BY <1>1, <1>4 DEF DeploymentSucceeds, DeploymentFails, MaintenanceEnds,
                      Deactivate, Calm
  <1>5. ASSUME NEW s \in Schemas, EditConfig(s)  PROVE Calm
    BY <1>1, <1>5, NoChange DEF EditConfig
  <1>6. ASSUME NEW s \in Schemas, SetupEdits(s)  PROVE Calm
    BY <1>1, <1>6 DEF SetupEdits, Calm
  <1>7. CASE ReloadConfig
    <2>1. ASSUME NEW c \in Ctxs, NotGot(c) \/ Ensured(c)  PROVE Calm
      BY <1>1, <2>1, NotGotIsCalm, EnsuredIsCalm
    <2>2. focused = NoCtx \/ focused \in Ctxs  BY <1>1 DEF TypeOK
    <2> QED  BY <1>1, <1>7, <2>1, <2>2, NoChange DEF ReloadConfig, ApplySchema
  <1>8. CASE SetupDeploys
    BY <1>1, <1>8 DEF SetupDeploys, StartDeployment, RefuseDeployment, Calm
  <1> QED  BY <1>2, <1>3, <1>4, <1>5, <1>6, <1>7, <1>8

LEMMA RequestsStay ==
  ASSUME Inv, ShiftInv, NEW c \in Ctxs, Request(c)
  PROVE  ShiftInv'
  <1>1. Calm  BY RequestIsCalm DEF Inv
  <1>2. Alone(c)'  BY <1>1, RequestStays
  <1>3. ASSUME NEW d \in Ctxs, d # c  PROVE Alone(d)'
    <2>1. session'[d] = session[d]  BY <1>3, RequestStores, OnlyItsOwn DEF Inv
    <2>2. CASE focused \in {NoCtx, c}  BY <1>1, <1>3, <2>1, <2>2, OthersStay
    <2>3. CASE GetActiveMode(c) \/ Destroy(c)
      <3>1. UNCHANGED <<deployment, focused>>
        BY <2>3 DEF GetActiveMode, Destroy
      <3>2. bare' = bare \/ bare = c
        BY <2>3 DEF GetActiveMode, Destroy, history, shift
      <3>3. Live(d)' => Live(d)
        BY <1>1, <2>1, StillFresh DEF Inv, Synchronised
      <3> QED  BY <1>3, <2>1, <3>1, <3>2, <3>3 DEF ShiftInv, Alone, deployment
    <2>4. CASE Reset(c) \/ \E s \in Schemas, ascii \in BOOLEAN :
                               SetActiveMode(c, s, ascii)
      <3>1. UNCHANGED <<focused, bare>>
        BY <2>4 DEF Reset, SetActiveMode, shift
      <3>2. Live(d)' => Live(d)
        BY <1>1, <2>1, StillFresh DEF Inv, Synchronised
      <3>3. Live(d) => ~maintaining /\ maintenance_done
        BY DEF Inv, Synchronised, Fresh, Live
      <3>4. UNCHANGED deployment \/ NotGot(c) \/ Ensured(c)
        BY <2>4 DEF Reset, ResetSession, SetActiveMode
      <3>5. Live(d) => ready' = ready /\ job' = job
        BY <3>3, <3>4 DEF NotGot, Ensured, deployment
      <3> QED  BY <2>1, <3>1, <3>2, <3>5 DEF ShiftInv, Alone
    <2> QED
      BY <2>2, <2>3, <2>4 DEF Request, FocusIn, FocusOut, Escape, ShiftPress,
                              ShiftRelease, Key
  <1> QED  BY <1>2, <1>3 DEF ShiftInv

LEMMA ShiftInvStep == Inv /\ ShiftInv /\ [Next]_vars => ShiftInv'
  <1> SUFFICES ASSUME Inv, ShiftInv, [Next]_vars  PROVE ShiftInv'
    OBVIOUS
  <1>1. ASSUME NEW c \in Ctxs, Request(c)  PROVE ShiftInv'
    BY <1>1, RequestsStay
  <1>2. CASE ReloadConfig  BY <1>2, BackgroundIsCalm, ReloadStays
  <1>3. CASE SetupBegins \/ SetupFails \/ SetupEnds
    BY <1>3, BackgroundIsCalm, SetupStays
  <1>4. CASE \/ Deploy \/ DeploymentSucceeds \/ DeploymentFails
             \/ MaintenanceEnds \/ Deactivate \/ SetupDeploys
             \/ \E s \in Schemas : EditConfig(s) \/ SetupEdits(s)
    BY <1>4, BackgroundIsCalm, DeploymentStays
  <1>5. CASE UNCHANGED vars
    BY <1>5 DEF vars, history, shift, deployment, ShiftInv, Alone, Live
  <1> QED  BY <1>1, <1>2, <1>3, <1>4, <1>5 DEF Next, Request

LEMMA ShiftInvAlways == Spec => []ShiftInv
  <1>1. Init => ShiftInv  BY DEF Init, ShiftInv, Alone, Live
  <1> QED  BY <1>1, InvAlways, ShiftInvStep, PTL DEF Spec

-----------------------------------------------------------------------------
(* The theorems.                                                           *)

\* A Shift toggles ascii_mode only if it was pressed in the same context and
\* no key but Escape was pressed since, in any.
THEOREM ShiftAloneAlwaysTogglesButForEscape ==
    Spec => ShiftAloneTogglesButForEscape
  <1>1. ASSUME Inv, ShiftInv, NEW c \in Ctxs, Toggles(c)
        PROVE  bare = c
    <2>1. ~Swallowed(c)
      BY <1>1 DEF Toggles, Swallowed, NotGot, Missed
    <2>2. ready /\ session[c] \in Got(c)
          /\ IF session[c].shift_only THEN TRUE
             ELSE Keep(c, session[c], session[c])
      BY <1>1, <2>1 DEF Toggles, ShiftRelease, Got
    <2>3. session[c].shift_only
      <3>1. ASSUME session' = [session EXCEPT ![c] = session[c]]
            PROVE  session'[c] = session[c]
        BY <3>1 DEF Inv, TypeOK
      <3> QED  BY <1>1, <2>2, <3>1, KeepStores DEF Toggles
    <2> QED  BY <1>1, <2>2, <2>3 DEF Toggles, ShiftInv, Alone
  <1>2. Inv /\ ShiftInv => [\A c \in Ctxs : Toggles(c) => bare = c]_vars
    BY <1>1
  <1> QED
    BY <1>2, InvAlways, ShiftInvAlways, PTL DEF ShiftAloneTogglesButForEscape

\* The steps that may change ascii_mode of a live session of c.
MayChange(c) ==
    \/ focused = c /\ (ShiftRelease(c) \/ ReloadConfig)
    \/ \E press \in BOOLEAN : focused = c /\ Key(c, press)
    \/ \E s \in Schemas : SetActiveMode(c, s, session'[c].ascii)

LEMMA ReloadStores ==
  ASSUME Inv, ReloadConfig
  PROVE  \/ UNCHANGED session
         \/ \E v : session' = [session EXCEPT ![focused] = v]
  <1>1. ASSUME session' = [session EXCEPT ![focused].composition = "none"]
        PROVE  session' = [session EXCEPT ![focused] =
                   [session[focused] EXCEPT !.composition = "none"]]
    BY <1>1
  <1>2. focused = NoCtx \/ focused \in Ctxs  BY DEF Inv, TypeOK
  <1> QED  BY <1>1, <1>2, MissedStores DEF ReloadConfig, NotGot, ApplySchema

\* A mode chosen for c is the one it gets, if any.
LEMMA ModeIsChosen ==
  ASSUME Inv, NEW c \in Ctxs, NEW s \in Schemas, NEW ascii \in BOOLEAN,
         SetActiveMode(c, s, ascii), Live(c), session'[c] # NoSession,
         session'[c].ascii # session[c].ascii
  PROVE  session'[c].ascii = ascii
  <1>1. session[c] \in Sessions  BY DEF Live, Inv, TypeOK
  <1> DEFINE t == [session[c] EXCEPT !.schema = s, !.ascii = ascii,
                                     !.composition = "none"]
  <1>2. t.ascii = ascii  BY <1>1 DEF Sessions
  <1>3. ~NotGot(c) /\ \A g \in Got(c) : g = session[c]
    BY DEF NotGot, Missed, Got
  <1>4. KeepAndPublish(c, session[c], t) \/ Keep(c, session[c], session[c])
    BY <1>3 DEF SetActiveMode
  <1>5. ASSUME NEW v, session' = [session EXCEPT ![c] = v]
        PROVE  session'[c] = v
    BY <1>5 DEF Inv, TypeOK
  <1> HIDE DEF t
  <1>6. session' = [session EXCEPT ![c] = t]
        \/ session' = [session EXCEPT ![c] = session[c]]
    BY <1>4, KeepStores
  <1> QED  BY <1>2, <1>5, <1>6

\* ascii_mode of a live session is changed by the user alone, in that very
\* context: by no focus change, no reset, and nothing done to another.
THEOREM AsciiAlwaysSurvives == Spec => AsciiSurvives
  <1>1. ASSUME Inv, [Next]_vars, NEW c \in Ctxs, Live(c),
               session'[c] # NoSession, session'[c].ascii # session[c].ascii
        PROVE  MayChange(c)
    <2>1. session[c] \in Sessions  BY <1>1 DEF Live, Inv, TypeOK
    <2>2. ASSUME NEW s, session' = [session EXCEPT ![c] = s]
          PROVE  session'[c] = s
      BY <1>1, <2>2 DEF Inv, TypeOK
    <2>3. ASSUME NEW d \in Ctxs, d # c, Request(d)
          PROVE  FALSE
      BY <1>1, <2>3, RequestStores, OnlyItsOwn DEF Inv
    <2>4. ~FocusIn(c)
      <3>1. SUFFICES ASSUME FocusIn(c)  PROVE FALSE
        OBVIOUS
      <3>2. KeepAndPublish(c, session[c], [session[c] EXCEPT !.shift_only = FALSE])
        BY <1>1, <3>1 DEF FocusIn, NotGot, Missed, Got
      <3>3. [session[c] EXCEPT !.shift_only = FALSE].ascii = session[c].ascii
        BY <2>1 DEF Sessions
      <3> QED  BY <1>1, <2>2, <3>2, <3>3, KeepStores
    <2>5. ~ResetSession(c)
      <3>1. SUFFICES ASSUME ResetSession(c)  PROVE FALSE
        OBVIOUS
      <3>2. KeepAndPublish(c, session[c], Cleared(session[c]))
        BY <1>1, <3>1 DEF ResetSession, Missed
      <3>3. Cleared(session[c]).ascii = session[c].ascii
        BY <2>1 DEF Cleared, Sessions
      <3> QED  BY <1>1, <2>2, <3>2, <3>3, KeepStores
    <2>6. ~(FocusOut(c) \/ Reset(c) \/ Escape(c))
      BY <1>1, <2>5 DEF FocusOut, Reset, Escape
    <2>7. ~(GetActiveMode(c) \/ Destroy(c))
      BY <1>1, <2>2 DEF GetActiveMode, Missed, Destroy
    <2>8. ~ShiftPress(c)
      <3>1. SUFFICES ASSUME ShiftPress(c)  PROVE FALSE
        OBVIOUS
      <3>2. ~Swallowed(c)  BY <1>1 DEF Swallowed, NotGot, Missed
      <3>3. Keep(c, session[c], [session[c] EXCEPT !.shift_only = TRUE])
        BY <1>1, <3>1, <3>2 DEF ShiftPress, Got
      <3>4. [session[c] EXCEPT !.shift_only = TRUE].ascii = session[c].ascii
        BY <2>1 DEF Sessions
      <3> QED  BY <1>1, <2>2, <3>3, <3>4, KeepStores
    <2>9. CASE ShiftRelease(c)  BY <2>9 DEF MayChange, ShiftRelease
    <2>10. ASSUME NEW press \in BOOLEAN, Key(c, press)  PROVE MayChange(c)
      BY <2>10 DEF MayChange, Key
    <2>11. ASSUME NEW s \in Schemas, NEW ascii \in BOOLEAN,
                  SetActiveMode(c, s, ascii)
           PROVE  MayChange(c)
      BY <1>1, <2>11, ModeIsChosen DEF MayChange
    <2>12. CASE Request(c)
      BY <2>4, <2>6, <2>7, <2>8, <2>9, <2>10, <2>11, <2>12 DEF Request
    <2>13. CASE ReloadConfig
      <3>1. CASE focused = c  BY <2>13, <3>1 DEF MayChange
      <3>2. CASE focused # c
        BY <1>1, <2>13, <3>2, ReloadStores DEF Inv, TypeOK
      <3> QED  BY <3>1, <3>2
    <2>14. CASE \/ Deploy \/ SetupBegins \/ SetupFails \/ SetupDeploys
                \/ SetupEnds
                \/ DeploymentSucceeds \/ DeploymentFails \/ MaintenanceEnds
                \/ Deactivate
                \/ \E s \in Schemas : EditConfig(s) \/ SetupEdits(s)
      BY <1>1, <2>14, BackgroundIsQuiet
    <2>15. CASE UNCHANGED vars  BY <1>1, <2>15 DEF vars
    <2> QED
      BY <1>1, <2>3, <2>12, <2>13, <2>14, <2>15 DEF Next, Request
  <1>2. Inv /\ [Next]_vars =>
          [\A c \in Ctxs :
             /\ Live(c) /\ session'[c] # NoSession
             /\ session'[c].deploy_id = session[c].deploy_id
             /\ session'[c].ascii # session[c].ascii
             => \/ focused = c /\ (ShiftRelease(c) \/ ReloadConfig)
                \/ \E press \in BOOLEAN : focused = c /\ Key(c, press)
                \/ \E s \in Schemas :
                     SetActiveMode(c, s, session'[c].ascii)]_vars
    BY <1>1 DEF MayChange
  <1> QED  BY <1>2, InvAlways, PTL DEF Spec, AsciiSurvives

=============================================================================
