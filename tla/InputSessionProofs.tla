------------------------- MODULE InputSessionProofs -------------------------
(***************************************************************************)
(* Theorems about InputSession, for any set of contexts and schemas, any   *)
(* use the host makes of the engine, and any number of deployments.        *)
(***************************************************************************)
EXTENDS InputSession, TLAPS

\* A session is never newer than the deployment counter, and one that carries
\* its value was opened when there was nothing left to deploy.
Fresh(c) ==
    session[c] # NoSession =>
        /\ session[c].deploy_id <= deploy_id
        /\ session[c].deploy_id = deploy_id => ~maintaining /\ maintenance_done

\* The copies of what a live session holds: the display, the mode the host
\* was told, the configuration tree.
Agree(c) ==
    Live(c) =>
        /\ session[c].composition # "none" => shown[c] = session[c].composition
        /\ focused # c => session[c].composition = "none"
        /\ handler /\ ~aside /\ focused = c =>
               /\ reported = Status(session[c])
               /\ ~edited => tree = session[c].schema

Synchronised == \A c \in Ctxs : Fresh(c) /\ Agree(c)

\* What every step does to the deployment: the counter never goes back, a
\* handler never comes back, and only a step that increments the counter
\* begins a deployment once one is done.
Calm ==
    /\ deploy_id' \in Nat /\ deploy_id' >= deploy_id
    /\ handler' => handler
    /\ deploy_id' = deploy_id /\ ~maintaining /\ maintenance_done =>
           ~maintaining' /\ maintenance_done'

DeploymentOK ==
    /\ maintaining \in BOOLEAN /\ maintenance_done \in BOOLEAN
    /\ ready \in BOOLEAN /\ handler \in BOOLEAN
    /\ job \in {"none", "installing", "waiting", "deploying"}
    /\ deploy_id \in Nat /\ available \subseteq Schemas

HistoryOK ==
    bare \in Ctxs \cup {NoCtx} /\ escaped \in BOOLEAN /\ aside \in BOOLEAN

RestOK ==
    /\ schema \in Schemas \cup {NoSchema} /\ tree \in Schemas \cup {NoSchema}
    /\ edited \in BOOLEAN
    /\ session \in [Ctxs -> Sessions \cup {NoSession}]
    /\ shown \in [Ctxs -> Compositions] /\ reported \in Modes
    /\ focused \in Ctxs \cup {NoCtx} /\ HistoryOK

LEMMA TypeParts == TypeOK <=> DeploymentOK /\ RestOK
  BY DEF TypeOK, DeploymentOK, RestOK, HistoryOK

-----------------------------------------------------------------------------
(* Sessions as records.                                                    *)

LEMMA SessionFields ==
  ASSUME NEW s \in Sessions
  PROVE  /\ s.deploy_id \in Nat /\ s.schema \in Schemas
         /\ s.ascii \in BOOLEAN /\ s.composition \in Compositions
         /\ s.shift_only \in BOOLEAN
         /\ Status(s) \in Modes
  <1>1. s.schema \in Schemas /\ s.ascii \in BOOLEAN  BY DEF Sessions
  <1>2. Status(s) \in Modes  BY <1>1 DEF Status, Modes
  <1> QED  BY <1>2 DEF Sessions

LEMMA NewFields ==
  ASSUME NEW wanted, available \subseteq Schemas, deploy_id \in Nat,
         NEW n \in NewSessions(wanted)
  PROVE  /\ n \in Sessions
         /\ n.deploy_id = deploy_id
         /\ n.composition = "none"
  <1>1. PICK s \in Resolved(wanted), a \in BOOLEAN :
          n = [deploy_id |-> deploy_id, schema |-> s, ascii |-> a,
               composition |-> "none", shift_only |-> FALSE]
    BY DEF NewSessions
  <1>2. s \in Schemas  BY DEF Resolved
  <1> QED  BY <1>1, <1>2 DEF Sessions, Compositions

\* The updates the handlers make.
LEMMA ShiftFields ==
  ASSUME NEW s \in Sessions, NEW b \in BOOLEAN,
         NEW t, t = [s EXCEPT !.shift_only = b]
  PROVE  /\ t \in Sessions /\ t.deploy_id = s.deploy_id
         /\ t.composition = s.composition /\ Status(t) = Status(s)
  BY DEF Sessions, Status

LEMMA ClearedFields ==
  ASSUME NEW s \in Sessions
  PROVE  /\ Cleared(s) \in Sessions /\ Cleared(s).deploy_id = s.deploy_id
         /\ Cleared(s).composition = "none"
         /\ Status(Cleared(s)) = Status(s)
  BY DEF Sessions, Status, Cleared, Compositions

LEMMA ToggledFields ==
  ASSUME NEW s \in Sessions, NEW t,
         t = [Cleared(s) EXCEPT !.ascii = ~@]
  PROVE  /\ t \in Sessions /\ t.deploy_id = s.deploy_id
         /\ t.composition = "none"
  <1>1. Cleared(s) \in Sessions  BY ClearedFields
  <1>2. (~Cleared(s).ascii) \in BOOLEAN  OBVIOUS
  <1>3. t = [Cleared(s) EXCEPT !.ascii = ~Cleared(s).ascii]  OBVIOUS
  <1>4. ASSUME NEW u \in Sessions, NEW b \in BOOLEAN
        PROVE  /\ [u EXCEPT !.ascii = b] \in Sessions
               /\ [u EXCEPT !.ascii = b].deploy_id = u.deploy_id
               /\ [u EXCEPT !.ascii = b].composition = u.composition
    BY DEF Sessions
  <1> QED  BY <1>1, <1>2, <1>3, <1>4, ClearedFields

-----------------------------------------------------------------------------
(* What keeps the copies together.                                         *)

\* A session nobody touched does not become live by what happens behind it.
LEMMA StillFresh ==
  ASSUME TypeOK, Calm, NEW c \in Ctxs, Fresh(c), session'[c] = session[c]
  PROVE  Fresh(c)' /\ (Live(c)' => Live(c))
  <1>1. session[c] # NoSession => session[c].deploy_id \in Nat
    BY DEF TypeOK, Sessions
  <1>2. deploy_id \in Nat  BY DEF TypeOK
  <1> QED  BY <1>1, <1>2 DEF Fresh, Live, Calm

\* A step that is about no context at all.
LEMMA Behind ==
  ASSUME TypeOK, Synchronised, Calm,
         UNCHANGED <<session, shown, reported, focused, aside>>,
         edited' = TRUE \/ (tree' = tree /\ edited' = edited)
  PROVE  Synchronised'
  <1> SUFFICES ASSUME NEW c \in Ctxs  PROVE Fresh(c)' /\ Agree(c)'
    BY DEF Synchronised
  <1>1. Fresh(c) /\ Agree(c)  BY DEF Synchronised
  <1>2. Fresh(c)' /\ (Live(c)' => Live(c))  BY <1>1, StillFresh
  <1>3. Status(session[c])' = Status(session[c])  BY DEF Status
  <1>4. handler' => handler  BY DEF Calm
  <1> QED  BY <1>1, <1>2, <1>3, <1>4 DEF Agree

\* A step that is about one context, while no other has the focus, or gets
\* it, unless the history says so.
LEMMA OneContext ==
  ASSUME TypeOK, Synchronised, Calm, NEW c \in Ctxs,
         focused \in {NoCtx, c} \/ (focused' = focused /\ aside'),
         focused' \in {NoCtx, c} \/ (focused' = focused /\ aside'),
         \A d \in Ctxs \ {c} : session'[d] = session[d] /\ shown'[d] = shown[d],
         Fresh(c)' /\ Agree(c)'
  PROVE  Synchronised'
  <1> SUFFICES ASSUME NEW d \in Ctxs, d # c  PROVE Fresh(d)' /\ Agree(d)'
    BY DEF Synchronised
  <1>1. Fresh(d) /\ Agree(d)  BY DEF Synchronised
  <1>2. session'[d] = session[d] /\ shown'[d] = shown[d]  OBVIOUS
  <1>3. Fresh(d)' /\ (Live(d)' => Live(d))  BY <1>1, <1>2, StillFresh
  <1>4. \/ focused # d /\ focused' # d
        \/ focused' = focused /\ aside'
    BY NullsAssumption
  <1> QED  BY <1>1, <1>2, <1>3, <1>4 DEF Agree

\* The session is left as it is, or dropped, and is not live.
LEMMA Missing ==
  ASSUME TypeOK, Synchronised, Calm, NEW c \in Ctxs, Missed(c)
  PROVE  /\ session' \in [Ctxs -> Sessions \cup {NoSession}]
         /\ \A d \in Ctxs \ {c} : session'[d] = session[d]
         /\ Fresh(c)' /\ Agree(c)'
  <1>1. Fresh(c)  BY DEF Synchronised
  <1>2. session' = [session EXCEPT ![c] = IF maintaining THEN @ ELSE NoSession]
        /\ ~Live(c)
    BY DEF Missed
  <1>3. session \in [Ctxs -> Sessions \cup {NoSession}]  BY DEF TypeOK
  <1>4. session'[c] = session[c] \/ session'[c] = NoSession  BY <1>2, <1>3
  <1>5. Fresh(c)' /\ ~Live(c)'
    <2>1. CASE session'[c] = session[c]  BY <2>1, <1>1, <1>2, StillFresh
    <2>2. CASE session'[c] = NoSession  BY <2>2 DEF Fresh, Live
    <2> QED  BY <1>4, <2>1, <2>2
  <1> QED  BY <1>2, <1>3, <1>5 DEF Agree

\* A handler that got a session stores it as s.
LEMMA Stored ==
  ASSUME TypeOK, NEW c \in Ctxs, NEW s \in Sessions,
         session' = [session EXCEPT ![c] = s],
         s.deploy_id = deploy_id', deploy_id' \in Nat,
         ~maintaining', maintenance_done',
         s.composition # "none" => shown'[c] = s.composition,
         focused' # c => s.composition = "none",
         handler' /\ focused' = c /\ ~aside' =>
             reported' = Status(s) /\ (~edited' => tree' = s.schema)
  PROVE  /\ session' \in [Ctxs -> Sessions \cup {NoSession}]
         /\ \A d \in Ctxs \ {c} : session'[d] = session[d]
         /\ Fresh(c)' /\ Agree(c)'
  <1>1. session \in [Ctxs -> Sessions \cup {NoSession}]  BY DEF TypeOK
  <1>2. session'[c] = s  BY <1>1
  <1>3. Status(session[c])' = Status(s)  BY <1>2 DEF Status
  <1>4. Fresh(c)'  BY <1>2 DEF Fresh
  <1>5. Agree(c)'  BY <1>2, <1>3 DEF Agree
  <1> QED  BY <1>1, <1>4, <1>5

-----------------------------------------------------------------------------
(* get_session.                                                            *)

LEMMA NoChange ==
  ASSUME TypeOK, UNCHANGED deployment
  PROVE  DeploymentOK' /\ Calm
  BY DEF TypeOK, DeploymentOK, deployment, Calm

LEMMA Starting ==
  ASSUME TypeOK, Deploying \/ Refused
  PROVE  DeploymentOK' /\ Calm
  <1>1. DeploymentOK /\ deploy_id \in Nat  BY DEF TypeOK, DeploymentOK
  <1>2. deploy_id' = deploy_id + 1 /\ UNCHANGED <<handler, job, available>>
    BY DEF Deploying, StartDeployment, Refused, RefuseDeployment
  <1>3. /\ maintaining' \in BOOLEAN /\ maintenance_done' \in BOOLEAN
        /\ ready' \in BOOLEAN
    BY <1>1, Zenon DEF Deploying, StartDeployment, Refused, RefuseDeployment,
                      DeploymentOK
  <1>4. DeploymentOK'  BY <1>1, <1>2, <1>3 DEF DeploymentOK
  <1>5. deploy_id' \in Nat /\ deploy_id' >= deploy_id /\ deploy_id' # deploy_id
    BY <1>1, <1>2
  <1>6. handler' = handler  BY <1>2
  <1> QED  BY <1>4, <1>5, <1>6 DEF Calm

LEMMA EnsuredIsCalm ==
  ASSUME TypeOK, NEW c \in Ctxs, Ensured(c)
  PROVE  DeploymentOK' /\ Calm /\ deploy_id' = deploy_id
         /\ maintaining' = maintaining
  <1>1. DeploymentOK /\ deploy_id \in Nat  BY DEF TypeOK, DeploymentOK
  <1>2. /\ maintenance_done' \in BOOLEAN /\ ready' \in BOOLEAN
        /\ maintenance_done => maintenance_done'
        /\ UNCHANGED <<maintaining, handler, job, deploy_id, available>>
    BY <1>1 DEF Ensured, DeploymentOK
  <1> QED  BY <1>1, <1>2 DEF DeploymentOK, Calm

LEMMA NotGotIsCalm ==
  ASSUME TypeOK, NEW c \in Ctxs, NotGot(c)
  PROVE  DeploymentOK' /\ Calm /\ Missed(c)
  BY NoChange, Starting, EnsuredIsCalm DEF NotGot

\* What get_session returns is live: the context's own session or a new one.
LEMMA GotIsLive ==
  ASSUME TypeOK, Synchronised, NEW c \in Ctxs, NEW g \in Got(c), Ensured(c)
  PROVE  /\ g \in Sessions /\ g.deploy_id = deploy_id'
         /\ ~maintaining' /\ maintenance_done'
         /\ deploy_id' \in Nat /\ handler' = handler
         /\ Live(c) => g = session[c]
         /\ ~Live(c) => g.composition = "none"
  <1>1. deploy_id' = deploy_id /\ maintaining' = maintaining /\ handler' = handler
    BY EnsuredIsCalm DEF Ensured
  <1>2. deploy_id \in Nat /\ available \subseteq Schemas
        /\ session \in [Ctxs -> Sessions \cup {NoSession}]
    BY DEF TypeOK
  <1>3. CASE Live(c)
    <2>1. g = session[c]  BY <1>3 DEF Got
    <2>2. g \in Sessions  BY <1>2, <1>3, <2>1 DEF Live
    <2>3. ~maintaining /\ maintenance_done /\ g.deploy_id = deploy_id
      BY <1>3, <2>1 DEF Live, Synchronised, Fresh
    <2>4. maintenance_done' = maintenance_done  BY <1>3 DEF Ensured
    <2> QED  BY <1>1, <1>2, <1>3, <2>1, <2>2, <2>3, <2>4
  <1>4. CASE ~Live(c)
    <2>1. ~maintaining /\ g \in NewSessions(schema)  BY <1>4 DEF Got
    <2>2. g \in Sessions /\ g.deploy_id = deploy_id /\ g.composition = "none"
      BY <1>2, <2>1, NewFields
    <2>3. maintenance_done' = TRUE  BY <1>4 DEF Ensured
    <2> QED  BY <1>1, <1>2, <1>4, <2>1, <2>2, <2>3
  <1> QED  BY <1>3, <1>4

LEMMA StoreTypes ==
  ASSUME TypeOK, NEW c \in Ctxs, NEW g \in Sessions, NEW s \in Sessions,
         Store(c, g, s)
  PROVE  /\ schema' \in Schemas \cup {NoSchema}
         /\ session' = [session EXCEPT ![c] = s]
  <1>1. g.schema \in Schemas  BY SessionFields
  <1> QED  BY <1>1 DEF Store, TypeOK

LEMMA Published ==
  ASSUME TypeOK, NEW s \in Sessions, Publish(s)
  PROVE  /\ tree' \in Schemas \cup {NoSchema} /\ edited' \in BOOLEAN
         /\ reported' \in Modes
         /\ reported' = Status(s) /\ tree' = s.schema
  BY SessionFields DEF Publish, WriteBack

\* A handler that does not publish itself: librime's notification does, or
\* the copies were right before and still are.
LEMMA Kept ==
  ASSUME TypeOK, Synchronised, NEW c \in Ctxs, NEW g \in Sessions,
         NEW s \in Sessions, Keep(c, g, s),
         Live(c) => g = session[c], handler' = handler
  PROVE  /\ schema' \in Schemas \cup {NoSchema}
         /\ session' = [session EXCEPT ![c] = s]
         /\ tree' \in Schemas \cup {NoSchema} /\ edited' \in BOOLEAN
         /\ reported' \in Modes
         /\ handler' /\ focused = c /\ ~aside =>
                reported' = Status(s) /\ (~edited' => tree' = s.schema)
  <1>1. schema' \in Schemas \cup {NoSchema} /\ session' = [session EXCEPT ![c] = s]
    BY StoreTypes DEF Keep
  <1>2. CASE Unpublished(c, g, s)
    <2>1. UNCHANGED <<reported, tree, edited>> /\ Live(c)
      BY <1>2 DEF Keep, Unpublished
    <2>2. handler => Status(g) = Status(s)  BY <1>2 DEF Unpublished, Notified
    <2>3. handler /\ focused = c /\ ~aside =>
            reported = Status(g) /\ (~edited => tree = g.schema)
      BY <2>1 DEF Synchronised, Agree
    <2>4. Status(g) = Status(s) => g.schema = s.schema  BY DEF Status
    <2> QED  BY <1>1, <2>1, <2>2, <2>3, <2>4 DEF TypeOK
  <1>3. CASE ~Unpublished(c, g, s) /\ Notified(g, s)
    <2>1. Publish(s)  BY <1>3 DEF Keep
    <2> QED  BY <1>1, <2>1, Published
  <1>4. CASE ~Unpublished(c, g, s) /\ ~Notified(g, s)
    <2>1. Publish(g)  BY <1>4 DEF Keep
    <2>2. handler => Status(g) = Status(s)  BY <1>4 DEF Notified
    <2>3. Status(g) = Status(s) => g.schema = s.schema  BY DEF Status
    <2> QED  BY <1>1, <2>1, <2>2, <2>3, Published
  <1> QED  BY <1>2, <1>3, <1>4

-----------------------------------------------------------------------------
(* The requests, one by one.                                               *)

Inv == TypeOK /\ Synchronised

\* What a request that concerns c leaves behind, apart from the types of the
\* variables it does not touch.
Outcome(c) ==
    /\ DeploymentOK' /\ Calm
    /\ schema' \in Schemas \cup {NoSchema} /\ tree' \in Schemas \cup {NoSchema}
    /\ edited' \in BOOLEAN /\ reported' \in Modes
    /\ session' \in [Ctxs -> Sessions \cup {NoSession}]
    /\ \A d \in Ctxs \ {c} : session'[d] = session[d]
    /\ Fresh(c)' /\ Agree(c)'

LEMMA Concluded ==
  ASSUME Inv, NEW c \in Ctxs, Outcome(c),
         focused \in {NoCtx, c} \/ (focused' = focused /\ aside'),
         focused' \in {NoCtx, c} \/ (focused' = focused /\ aside'),
         focused' \in Ctxs \cup {NoCtx},
         shown' = shown \/ (\E k \in Compositions : Show(c, k)),
         HistoryOK'
  PROVE  Inv'
  <1>1. shown \in [Ctxs -> Compositions]  BY DEF Inv, TypeOK
  <1>2. /\ shown' \in [Ctxs -> Compositions]
        /\ \A d \in Ctxs \ {c} : shown'[d] = shown[d]
    BY <1>1 DEF Show
  <1>3. RestOK'  BY <1>2 DEF Outcome, RestOK
  <1>4. TypeOK'  BY <1>3, TypeParts, PTL DEF Outcome
  <1>5. Synchronised'  BY <1>2, OneContext DEF Outcome, Inv
  <1> QED  BY <1>4, <1>5 DEF Inv

LEMMA ShownIs ==
  ASSUME TypeOK, NEW c \in Ctxs, NEW k \in Compositions, Show(c, k)
  PROVE  shown'[c] = k
  BY DEF TypeOK, Show

\* get_session returned null.
LEMMA NothingGot ==
  ASSUME Inv, NEW c \in Ctxs, Missed(c), DeploymentOK', Calm,
         schema' \in Schemas \cup {NoSchema}, UNCHANGED <<tree, edited, reported>>
  PROVE  Outcome(c)
  BY Missing DEF Outcome, Inv, TypeOK

\* It returned g, and the handler leaves it as s.
LEMMA SomethingKept ==
  ASSUME Inv, NEW c \in Ctxs, NEW g \in Got(c), Ensured(c),
         NEW s \in Sessions, s.deploy_id = g.deploy_id,
         \/ Keep(c, g, s) /\ focused' = focused /\ (aside => aside')
         \/ KeepAndPublish(c, g, s),
         s.composition # "none" => shown'[c] = s.composition,
         focused' # c => s.composition = "none"
  PROVE  Outcome(c)
  <1>1. TypeOK /\ Synchronised  BY DEF Inv
  <1>2. DeploymentOK' /\ Calm  BY <1>1, EnsuredIsCalm
  <1>3. /\ g \in Sessions /\ g.deploy_id = deploy_id'
        /\ ~maintaining' /\ maintenance_done' /\ deploy_id' \in Nat
        /\ handler' = handler /\ (Live(c) => g = session[c])
    BY <1>1, GotIsLive
  <1>4. /\ schema' \in Schemas \cup {NoSchema}
        /\ session' = [session EXCEPT ![c] = s]
        /\ tree' \in Schemas \cup {NoSchema} /\ edited' \in BOOLEAN
        /\ reported' \in Modes
        /\ handler' /\ focused' = c /\ ~aside' =>
               reported' = Status(s) /\ (~edited' => tree' = s.schema)
    <2>1. CASE Keep(c, g, s) /\ focused' = focused /\ (aside => aside')
      BY <2>1, <1>1, <1>3, Kept
    <2>2. CASE KeepAndPublish(c, g, s)
      BY <2>2, <1>1, <1>3, StoreTypes, Published DEF KeepAndPublish
    <2> QED  BY <2>1, <2>2
  <1>5. /\ session' \in [Ctxs -> Sessions \cup {NoSession}]
        /\ \A d \in Ctxs \ {c} : session'[d] = session[d]
        /\ Fresh(c)' /\ Agree(c)'
    BY <1>1, <1>3, <1>4, Stored
  <1> QED  BY <1>2, <1>4, <1>5 DEF Outcome

LEMMA FocusInKeeps ==
  ASSUME Inv, NEW c \in Ctxs, FocusIn(c)
  PROVE  Inv'
  <1>1. /\ focused \in {NoCtx, c} /\ focused' \in {NoCtx, c} /\ focused' = c
        /\ focused' \in Ctxs \cup {NoCtx} /\ HistoryOK'
    BY DEF FocusIn, Inv, TypeOK, HistoryOK, shift
  <1>2. CASE NotGot(c) /\ UNCHANGED <<config, shown, reported>>
    <2>1. Outcome(c)
      BY <1>2, NotGotIsCalm, NothingGot DEF Inv, TypeOK, config
    <2> QED  BY <1>1, <1>2, <2>1, Concluded
  <1>3. CASE \E g \in Got(c) :
               /\ Ensured(c)
               /\ KeepAndPublish(c, g, [g EXCEPT !.shift_only = FALSE])
               /\ Show(c, g.composition)
    <2>1. PICK g \in Got(c) :
            /\ Ensured(c)
            /\ KeepAndPublish(c, g, [g EXCEPT !.shift_only = FALSE])
            /\ Show(c, g.composition)
      BY <1>3
    <2>2. g \in Sessions  BY <2>1, GotIsLive DEF Inv
    <2> DEFINE s == [g EXCEPT !.shift_only = FALSE]
    <2>3. /\ s \in Sessions /\ s.deploy_id = g.deploy_id
          /\ s.composition = g.composition
      BY <2>2, ShiftFields
    <2>4. g.composition \in Compositions  BY <2>2, SessionFields
    <2>5. shown'[c] = g.composition  BY <2>1, <2>4, ShownIs DEF Inv
    <2> HIDE DEF s
    <2>6. Outcome(c)
      BY <1>1, <2>1, <2>3, <2>5, SomethingKept DEF s
    <2> QED  BY <1>1, <2>1, <2>4, <2>6, Concluded
  <1> QED  BY <1>2, <1>3 DEF FocusIn

LEMMA ResetKeeps ==
  ASSUME Inv, NEW c \in Ctxs, ResetSession(c), HistoryOK',
         focused \in {NoCtx, c} \/ (focused' = focused /\ aside'),
         focused' \in {NoCtx, c} \/ (focused' = focused /\ aside')
  PROVE  Inv'
  <1>1. focused' \in Ctxs \cup {NoCtx}  BY DEF Inv, TypeOK
  <1>2. Show(c, "none") /\ "none" \in Compositions
    BY DEF ResetSession, Compositions
  <1>3. shown'[c] = "none"  BY <1>2, ShownIs DEF Inv
  <1>4. DeploymentOK' /\ Calm  BY NoChange DEF ResetSession, Inv
  <1>5. CASE Missed(c) /\ UNCHANGED <<config, reported>>
    <2>1. Outcome(c)  BY <1>4, <1>5, NothingGot DEF Inv, TypeOK, config
    <2> QED  BY <1>1, <1>2, <2>1, Concluded
  <1>6. CASE Live(c) /\ KeepAndPublish(c, session[c], Cleared(session[c]))
    <2>1. session[c] \in Sessions  BY <1>6 DEF Live, Inv, TypeOK
    <2>2. session[c] \in Got(c)  BY <1>6 DEF Got
    <2>3. Ensured(c)
      BY <1>6 DEF ResetSession, Ensured, deployment
    <2>4. /\ Cleared(session[c]) \in Sessions
          /\ Cleared(session[c]).deploy_id = session[c].deploy_id
          /\ Cleared(session[c]).composition = "none"
      BY <2>1, ClearedFields
    <2>5. Outcome(c)  BY <1>6, <2>2, <2>3, <2>4, SomethingKept
    <2> QED  BY <1>1, <1>2, <2>5, Concluded
  <1> QED  BY <1>5, <1>6 DEF ResetSession

LEMMA PeekKeeps ==
  ASSUME Inv, NEW c \in Ctxs, GetActiveMode(c)
  PROVE  Inv'
  <1>1. Missed(c) /\ UNCHANGED <<deployment, config, shown, reported, focused, history>>
    BY DEF GetActiveMode
  <1>2. TypeOK /\ Synchronised  BY DEF Inv
  <1>3. DeploymentOK' /\ Calm  BY <1>1, <1>2, NoChange
  <1>4. /\ session' \in [Ctxs -> Sessions \cup {NoSession}]
        /\ \A d \in Ctxs \ {c} : session'[d] = session[d]
        /\ Fresh(c)' /\ Agree(c)'
    BY <1>1, <1>2, <1>3, Missing
  <1>5. TypeOK'
    <2>1. RestOK'
      BY <1>1, <1>2, <1>4 DEF RestOK, TypeOK, HistoryOK, config, history, shift
    <2> QED  BY <1>3, <2>1, TypeParts, PTL
  <1>6. ASSUME NEW d \in Ctxs, d # c  PROVE Fresh(d)' /\ Agree(d)'
    <2>1. Fresh(d) /\ Agree(d) /\ session'[d] = session[d]
      BY <1>2, <1>4, <1>6 DEF Synchronised
    <2>2. Fresh(d)' /\ (Live(d)' => Live(d))  BY <1>2, <1>3, <2>1, StillFresh
    <2>3. Status(session[d])' = Status(session[d])  BY <2>1 DEF Status
    <2>4. UNCHANGED <<shown, focused, reported, tree, edited, handler, aside>>
      BY <1>1 DEF config, deployment, history
    <2> QED  BY <2>1, <2>2, <2>3, <2>4 DEF Agree
  <1> QED  BY <1>4, <1>5, <1>6 DEF Inv, Synchronised

\* Nothing but the history changes.
LEMMA IdleKeeps ==
  ASSUME Inv, HistoryOK', aside' = aside,
         UNCHANGED <<deployment, config, session, shown, reported, focused>>
  PROVE  Inv'
  <1>1. TypeOK /\ Synchronised  BY DEF Inv
  <1>2. DeploymentOK' /\ Calm  BY <1>1, NoChange
  <1>3. UNCHANGED <<schema, tree, edited>>  BY DEF config
  <1>4. RestOK'  BY <1>1, <1>3 DEF RestOK, TypeOK
  <1>5. TypeOK'  BY <1>2, <1>4, TypeParts, PTL
  <1>6. Synchronised'  BY <1>1, <1>2, <1>3, Behind
  <1> QED  BY <1>5, <1>6 DEF Inv

LEMMA SwallowedKeeps ==
  ASSUME Inv, NEW c \in Ctxs, focused = c, focused' = focused, Swallowed(c),
         HistoryOK', aside' = aside
  PROVE  Inv'
  <1>1. UNCHANGED <<config, shown, reported>>  BY DEF Swallowed
  <1>2. CASE UNCHANGED <<deployment, session>>  BY <1>1, <1>2, IdleKeeps
  <1>3. CASE NotGot(c)
    <2>1. Outcome(c)
      BY <1>1, <1>3, NotGotIsCalm, NothingGot DEF Inv, TypeOK, config
    <2> QED  BY <1>1, <2>1, Concluded
  <1> QED  BY <1>2, <1>3 DEF Swallowed

LEMMA EscapeKeeps ==
  ASSUME Inv, NEW c \in Ctxs, Escape(c)
  PROVE  Inv'
  <1>1. focused = c /\ focused' = focused /\ HistoryOK' /\ aside' = aside
    BY DEF Escape, Inv, TypeOK, HistoryOK
  <1>2. CASE ResetSession(c)  BY <1>1, <1>2, ResetKeeps
  <1>3. CASE UNCHANGED <<deployment, config, session, shown, reported>>
    BY <1>1, <1>3, IdleKeeps
  <1> QED  BY <1>2, <1>3 DEF Escape

LEMMA ShiftPressKeeps ==
  ASSUME Inv, NEW c \in Ctxs, ShiftPress(c)
  PROVE  Inv'
  <1>1. focused = c /\ focused' = focused /\ HistoryOK' /\ aside' = aside
    BY DEF ShiftPress, Inv, TypeOK, HistoryOK
  <1>2. CASE Swallowed(c)  BY <1>1, <1>2, SwallowedKeeps
  <1>3. CASE ~Swallowed(c)
    <2>1. PICK g \in Got(c) :
            Ensured(c) /\ Keep(c, g, [g EXCEPT !.shift_only = TRUE])
      BY <1>3 DEF ShiftPress
    <2>2. shown' = shown  BY <1>3 DEF ShiftPress
    <2>3. /\ g \in Sessions /\ (Live(c) => g = session[c])
          /\ ~Live(c) => g.composition = "none"
      BY <2>1, GotIsLive DEF Inv
    <2> DEFINE s == [g EXCEPT !.shift_only = TRUE]
    <2>4. /\ s \in Sessions /\ s.deploy_id = g.deploy_id
          /\ s.composition = g.composition
      BY <2>3, ShiftFields
    <2>5. g.composition # "none" => shown'[c] = g.composition
      BY <2>2, <2>3 DEF Inv, Synchronised, Agree
    <2> HIDE DEF s
    <2>6. Outcome(c)  BY <1>1, <2>1, <2>4, <2>5, SomethingKept DEF s
    <2> QED  BY <1>1, <2>2, <2>6, Concluded
  <1> QED  BY <1>2, <1>3

LEMMA ShiftReleaseKeeps ==
  ASSUME Inv, NEW c \in Ctxs, ShiftRelease(c)
  PROVE  Inv'
  <1>1. focused = c /\ focused' = focused /\ HistoryOK' /\ aside' = aside
    BY DEF ShiftRelease, Inv, TypeOK, HistoryOK
  <1>2. CASE Swallowed(c)  BY <1>1, <1>2, SwallowedKeeps
  <1>3. CASE ~Swallowed(c)
    <2>1. PICK g \in Got(c) :
            /\ Ensured(c)
            /\ IF g.shift_only
               THEN /\ KeepAndPublish(c, g, [Cleared(g) EXCEPT !.ascii = ~@])
                    /\ Show(c, "none")
               ELSE Keep(c, g, g) /\ UNCHANGED shown
      BY <1>3 DEF ShiftRelease
    <2>2. /\ g \in Sessions /\ (Live(c) => g = session[c])
          /\ ~Live(c) => g.composition = "none"
      BY <2>1, GotIsLive DEF Inv
    <2>3. CASE g.shift_only
      <3> DEFINE s == [Cleared(g) EXCEPT !.ascii = ~@]
      <3>1. KeepAndPublish(c, g, s) /\ Show(c, "none")  BY <2>1, <2>3
      <3>2. /\ s \in Sessions /\ s.deploy_id = g.deploy_id
            /\ s.composition = "none"
        BY <2>2, ToggledFields
      <3> HIDE DEF s
      <3>3. Outcome(c)  BY <1>1, <2>1, <3>1, <3>2, SomethingKept
      <3> QED  BY <1>1, <3>1, <3>3, Concluded DEF Compositions
    <2>4. CASE ~g.shift_only
      <3>1. Keep(c, g, g) /\ shown' = shown  BY <2>1, <2>4
      <3>2. g.composition # "none" => shown'[c] = g.composition
        BY <2>2, <3>1 DEF Inv, Synchronised, Agree
      <3>3. Outcome(c)  BY <1>1, <2>1, <2>2, <3>1, <3>2, SomethingKept
      <3> QED  BY <1>1, <3>1, <3>3, Concluded
    <2> QED  BY <2>3, <2>4
  <1> QED  BY <1>2, <1>3

LEMMA KeyKeeps ==
  ASSUME Inv, NEW c \in Ctxs, NEW press \in BOOLEAN, Key(c, press)
  PROVE  Inv'
  <1>1. focused = c /\ focused' = focused /\ aside' = aside  BY DEF Key
  <1>2. HistoryOK'
    BY DEF Key, Inv, TypeOK, HistoryOK
  <1>3. CASE Swallowed(c)  BY <1>1, <1>2, <1>3, SwallowedKeeps
  <1>4. CASE ~Swallowed(c)
    <2>1. PICK g \in Got(c) :
            LET h == IF press THEN Interrupted(g) ELSE g
            IN  /\ ready /\ Ensured(c)
                /\ \/ Keep(c, g, h) /\ UNCHANGED shown
                   \/ \E s \in available, a \in BOOLEAN, k \in Compositions :
                        /\ Keep(c, g, [h EXCEPT !.schema = s, !.ascii = a,
                                                !.composition = k])
                        /\ Show(c, k)
      BY <1>4 DEF Key
    <2> DEFINE h == IF press THEN Interrupted(g) ELSE g
    <2>2. /\ g \in Sessions /\ (Live(c) => g = session[c])
          /\ ~Live(c) => g.composition = "none"
      BY <2>1, GotIsLive DEF Inv
    <2>3. /\ h \in Sessions /\ h.deploy_id = g.deploy_id
          /\ h.composition = g.composition
      BY <2>2, ShiftFields DEF Interrupted
    <2>4. Ensured(c)  BY <2>1
    <2>5. \/ Keep(c, g, h) /\ UNCHANGED shown
          \/ \E s \in available, a \in BOOLEAN, k \in Compositions :
               /\ Keep(c, g, [h EXCEPT !.schema = s, !.ascii = a,
                                       !.composition = k])
               /\ Show(c, k)
      BY <2>1
    <2> HIDE DEF h
    <2>6. CASE Keep(c, g, h) /\ UNCHANGED shown
      <3>1. g.composition # "none" => shown'[c] = g.composition
        BY <2>2, <2>6 DEF Inv, Synchronised, Agree
      <3>2. Outcome(c)  BY <1>1, <2>3, <2>4, <2>6, <3>1, SomethingKept
      <3> QED  BY <1>1, <1>2, <2>6, <3>2, Concluded
    <2>7. ASSUME NEW s \in available, NEW a \in BOOLEAN, NEW k \in Compositions,
                 Keep(c, g, [h EXCEPT !.schema = s, !.ascii = a,
                                      !.composition = k]),
                 Show(c, k)
          PROVE  Inv'
      <3> DEFINE t == [h EXCEPT !.schema = s, !.ascii = a, !.composition = k]
      <3>1. s \in Schemas  BY DEF Inv, TypeOK
      <3>2. /\ t \in Sessions /\ t.deploy_id = h.deploy_id
            /\ t.composition = k
        BY <2>3, <3>1 DEF Sessions
      <3>3. Keep(c, g, t)  BY <2>7
      <3>4. shown'[c] = k  BY <2>7, ShownIs DEF Inv
      <3> HIDE DEF t
      <3>5. Outcome(c)  BY <1>1, <2>3, <2>4, <3>2, <3>3, <3>4, SomethingKept
      <3> QED  BY <1>1, <1>2, <2>7, <3>5, Concluded
    <2> QED  BY <2>5, <2>6, <2>7
  <1> QED  BY <1>3, <1>4

LEMMA SetActiveModeKeeps ==
  ASSUME Inv, NEW c \in Ctxs, NEW wanted \in Schemas, NEW ascii \in BOOLEAN,
         SetActiveMode(c, wanted, ascii)
  PROVE  Inv'
  <1>1. /\ focused \in {NoCtx, c} \/ aside'
        /\ focused' = focused /\ focused \in Ctxs \cup {NoCtx}
        /\ shown' = shown /\ HistoryOK' /\ (aside => aside')
    BY DEF SetActiveMode, MayBeAside, Inv, TypeOK, HistoryOK, shift
  <1>2. CASE NotGot(c) /\ UNCHANGED <<config, reported>>
    <2>1. Outcome(c)
      BY <1>2, NotGotIsCalm, NothingGot DEF Inv, TypeOK, config
    <2> QED  BY <1>1, <2>1, Concluded
  <1>3. ASSUME NEW g \in Got(c), Ensured(c),
               \/ KeepAndPublish(c, g,
                     [g EXCEPT !.schema = wanted, !.ascii = ascii,
                               !.composition = "none"])
               \/ Keep(c, g, g)
        PROVE  Inv'
    <2>1. /\ g \in Sessions /\ (Live(c) => g = session[c])
          /\ ~Live(c) => g.composition = "none"
      BY <1>3, GotIsLive DEF Inv
    <2> DEFINE t == [g EXCEPT !.schema = wanted, !.ascii = ascii,
                              !.composition = "none"]
    <2>2. /\ t \in Sessions /\ t.deploy_id = g.deploy_id
          /\ t.composition = "none"
      BY <2>1 DEF Sessions, Compositions
    <2>3. KeepAndPublish(c, g, t) \/ Keep(c, g, g)  BY <1>3
    <2> HIDE DEF t
    <2>4. CASE KeepAndPublish(c, g, t)
      <3>1. Outcome(c)  BY <1>3, <2>2, <2>4, SomethingKept
      <3> QED  BY <1>1, <3>1, Concluded
    <2>5. CASE Keep(c, g, g)
      <3>1. /\ g.composition # "none" => shown'[c] = g.composition
            /\ focused' # c => g.composition = "none"
        BY <1>1, <2>1 DEF Inv, Synchronised, Agree
      <3>2. Outcome(c)  BY <1>1, <1>3, <2>1, <2>5, <3>1, SomethingKept
      <3> QED  BY <1>1, <3>2, Concluded
    <2> QED  BY <2>3, <2>4, <2>5
  <1> QED  BY <1>2, <1>3 DEF SetActiveMode

\* The first half of ApplySchema: the schema could not be selected.
LEMMA RejectedKeeps ==
  ASSUME Inv, NEW c \in Ctxs, focused = c, Ensured(c), Live(c),
         session' = [session EXCEPT ![c].composition = "none"],
         schema' \in Schemas \cup {NoSchema},
         UNCHANGED <<tree, edited, shown, reported, focused, history>>
  PROVE  Inv'
  <1> DEFINE s == [session[c] EXCEPT !.composition = "none"]
  <1>1. TypeOK /\ Synchronised  BY DEF Inv
  <1>2. DeploymentOK' /\ Calm  BY <1>1, EnsuredIsCalm
  <1>3. session[c] \in Sessions /\ session[c] \in Got(c)
    BY <1>1 DEF Live, TypeOK, Got
  <1>4. /\ session[c].deploy_id = deploy_id' /\ ~maintaining' /\ maintenance_done'
        /\ deploy_id' \in Nat /\ handler' = handler
    BY <1>1, <1>3, GotIsLive
  <1>5. /\ s \in Sessions /\ s.deploy_id = session[c].deploy_id
        /\ s.composition = "none" /\ Status(s) = Status(session[c])
        /\ s.schema = session[c].schema
    BY <1>3 DEF Sessions, Compositions, Status
  <1>6. session' = [session EXCEPT ![c] = s]  BY <1>1 DEF TypeOK
  <1>7. handler' /\ ~aside' =>
            reported' = Status(s) /\ (~edited' => tree' = s.schema)
    BY <1>1, <1>4, <1>5 DEF Synchronised, Agree, history
  <1> HIDE DEF s
  <1>8. /\ session' \in [Ctxs -> Sessions \cup {NoSession}]
        /\ \A d \in Ctxs \ {c} : session'[d] = session[d]
        /\ Fresh(c)' /\ Agree(c)'
    BY <1>1, <1>4, <1>5, <1>6, <1>7, Stored
  <1>9. Outcome(c)  BY <1>1, <1>2, <1>8 DEF Outcome, TypeOK
  <1>10. HistoryOK'  BY <1>1 DEF TypeOK, HistoryOK, history, shift
  <1> QED  BY <1>9, <1>10, Concluded

\* The second half: n is what the session is now, but for its shift_only.
LEMMA SelectedKeeps ==
  ASSUME Inv, NEW c \in Ctxs, focused = c, ~maintaining, Ensured(c),
         NEW wanted, NEW n \in NewSessions(wanted),
         session' = [session EXCEPT ![c] =
             IF Live(c) THEN [n EXCEPT !.shift_only = session[c].shift_only]
             ELSE n],
         schema' = n.schema,
         IF Live(c) /\ ~handler THEN UNCHANGED <<reported, tree, edited>>
         ELSE Publish(n),
         Show(c, "none"), UNCHANGED <<focused, history>>
  PROVE  Inv'
  <1> DEFINE s == IF Live(c) THEN [n EXCEPT !.shift_only = session[c].shift_only]
                  ELSE n
  <1>1. TypeOK /\ Synchronised  BY DEF Inv
  <1>2. /\ DeploymentOK' /\ Calm /\ deploy_id' = deploy_id /\ ~maintaining'
        /\ deploy_id' \in Nat /\ handler' = handler
    BY <1>1, EnsuredIsCalm DEF Ensured, DeploymentOK
  <1>3. maintenance_done'
    <2>1. Live(c) => maintenance_done  BY <1>1 DEF Synchronised, Fresh, Live
    <2> QED  BY <2>1 DEF Ensured
  <1>4. /\ n \in Sessions /\ n.deploy_id = deploy_id /\ n.composition = "none"
        /\ n.schema \in Schemas /\ Status(n) \in Modes
    <2>1. deploy_id \in Nat /\ available \subseteq Schemas  BY <1>1 DEF TypeOK
    <2> QED  BY <2>1, NewFields, SessionFields
  <1>5. /\ s \in Sessions /\ s.deploy_id = n.deploy_id
        /\ s.composition = n.composition /\ Status(s) = Status(n)
        /\ s.schema = n.schema
    <2>1. Live(c) => session[c] \in Sessions  BY <1>1 DEF Live, TypeOK
    <2>2. Live(c) => session[c].shift_only \in BOOLEAN  BY <2>1 DEF Sessions
    <2>3. ASSUME NEW b \in BOOLEAN
          PROVE  LET t == [n EXCEPT !.shift_only = b]
                 IN  /\ t \in Sessions /\ t.deploy_id = n.deploy_id
                     /\ t.composition = n.composition /\ Status(t) = Status(n)
                     /\ t.schema = n.schema
      BY <1>4 DEF Sessions, Status
    <2> QED  BY <1>4, <2>2, <2>3
  <1>6. session' = [session EXCEPT ![c] = s]  OBVIOUS
  <1>7. /\ tree' \in Schemas \cup {NoSchema} /\ edited' \in BOOLEAN
        /\ reported' \in Modes
        /\ handler' => reported' = Status(s) /\ (~edited' => tree' = s.schema)
    <2>1. CASE Live(c) /\ ~handler  BY <2>1, <1>1, <1>2 DEF TypeOK
    <2>2. CASE ~(Live(c) /\ ~handler)
      <3>1. Publish(n)  BY <2>2
      <3> QED  BY <3>1, <1>1, <1>4, <1>5, Published
    <2> QED  BY <2>1, <2>2
  <1> HIDE DEF s
  <1>8. /\ session' \in [Ctxs -> Sessions \cup {NoSession}]
        /\ \A d \in Ctxs \ {c} : session'[d] = session[d]
        /\ Fresh(c)' /\ Agree(c)'
    BY <1>1, <1>2, <1>3, <1>4, <1>5, <1>6, <1>7, Stored
  <1>9. Outcome(c)  BY <1>2, <1>4, <1>7, <1>8 DEF Outcome
  <1>10. HistoryOK'  BY <1>1 DEF TypeOK, HistoryOK, history, shift
  <1> QED  BY <1>9, <1>10, Concluded DEF Compositions

\* A step of librime's thread, of a setup job, or of whoever edits the tree.
LEMMA BehindKeeps ==
  ASSUME Inv, DeploymentOK', Calm,
         UNCHANGED <<schema, session, shown, reported, focused, history>>,
         tree' \in Schemas \cup {NoSchema}, edited' \in BOOLEAN,
         edited' = TRUE \/ (tree' = tree /\ edited' = edited)
  PROVE  Inv'
  <1>1. TypeOK /\ Synchronised  BY DEF Inv
  <1>2. RestOK'  BY <1>1 DEF RestOK, TypeOK, HistoryOK, history, shift
  <1>3. TypeOK'  BY <1>2, TypeParts, PTL
  <1>4. Synchronised'  BY <1>1, Behind DEF history
  <1> QED  BY <1>3, <1>4 DEF Inv

LEMMA EditConfigKeeps ==
  ASSUME Inv, NEW s \in Schemas, EditConfig(s)
  PROVE  Inv'
  <1>1. DeploymentOK' /\ Calm  BY NoChange DEF EditConfig, Inv
  <1>2. tree' = s /\ edited' = TRUE
        /\ UNCHANGED <<schema, session, shown, reported, focused, history>>
    BY DEF EditConfig
  <1> QED  BY <1>1, <1>2, BehindKeeps

LEMMA ReloadConfigKeeps ==
  ASSUME Inv, ReloadConfig
  PROVE  Inv'
  <1>1. /\ focused' = focused /\ UNCHANGED history /\ HistoryOK' /\ aside' = aside
        /\ focused \in Ctxs \cup {NoCtx} /\ tree \in Schemas \cup {NoSchema}
        /\ edited \in BOOLEAN /\ TypeOK
    BY DEF ReloadConfig, Inv, TypeOK, HistoryOK, history, shift
  <1>2. CASE /\ schema' = tree
             /\ UNCHANGED <<deployment, tree, edited, session, shown, reported>>
    <2>1. DeploymentOK' /\ Calm  BY <1>1, <1>2, NoChange
    <2>2. TypeOK'
      <3>1. RestOK'  BY <1>1, <1>2 DEF RestOK, TypeOK
      <3> QED  BY <2>1, <3>1, TypeParts, PTL
    <2>3. Synchronised'  BY <1>1, <1>2, <2>1, Behind DEF Inv
    <2> QED  BY <2>2, <2>3 DEF Inv
  <1>3. CASE /\ focused # NoCtx /\ NotGot(focused) /\ schema' = tree
             /\ UNCHANGED <<tree, edited, shown, reported>>
    <2>1. focused \in Ctxs  BY <1>1, <1>3
    <2>2. DeploymentOK' /\ Calm /\ Missed(focused)  BY <1>1, <1>3, <2>1, NotGotIsCalm
    <2>3. Outcome(focused)  BY <1>1, <1>3, <2>1, <2>2, NothingGot
    <2> QED  BY <1>1, <1>3, <2>1, <2>3, Concluded
  <1>4. CASE focused # NoCtx /\ ApplySchema(focused, tree)
    <2>1. focused \in Ctxs /\ ~maintaining /\ Ensured(focused)
      BY <1>1, <1>4 DEF ApplySchema
    <2>2. CASE /\ Live(focused)
               /\ session' = [session EXCEPT ![focused].composition = "none"]
               /\ schema' = tree
               /\ UNCHANGED <<tree, edited, shown, reported>>
      BY <1>1, <2>1, <2>2, RejectedKeeps
    <2>3. CASE \E n \in NewSessions(tree) :
            /\ session' = [session EXCEPT ![focused] =
                   IF Live(focused)
                   THEN [n EXCEPT !.shift_only = session[focused].shift_only]
                   ELSE n]
            /\ schema' = n.schema
            /\ IF Live(focused) /\ ~handler
               THEN UNCHANGED <<reported, tree, edited>> ELSE Publish(n)
            /\ Show(focused, "none")
      BY <1>1, <2>1, <2>3, SelectedKeeps
    <2> QED  BY <1>4, <2>2, <2>3 DEF ApplySchema
  <1> QED  BY <1>2, <1>3, <1>4 DEF ReloadConfig

LEMMA DeployKeeps ==
  ASSUME Inv, Deploy
  PROVE  Inv'
  <1>1. TypeOK /\ Synchronised  BY DEF Inv
  <1>2. DeploymentOK' /\ Calm  BY <1>1, Starting DEF Deploy
  <1>3. /\ schema' \in Schemas \cup {NoSchema}
        /\ UNCHANGED <<tree, edited, session, shown, reported, focused, history>>
    BY <1>1 DEF Deploy, TypeOK
  <1>4. TypeOK'
    <2>1. RestOK'  BY <1>1, <1>3 DEF RestOK, TypeOK, HistoryOK, history, shift
    <2> QED  BY <1>2, <2>1, TypeParts, PTL
  <1>5. Synchronised'  BY <1>1, <1>2, <1>3, Behind DEF history
  <1> QED  BY <1>4, <1>5 DEF Inv

LEMMA SetupKeeps ==
  ASSUME Inv, \/ SetupBegins \/ SetupFails \/ SetupDeploys \/ SetupEnds
              \/ \E s \in Schemas : SetupEdits(s)
  PROVE  Inv'
  <1>1. DeploymentOK /\ TypeOK /\ deploy_id \in Nat
    BY DEF Inv, TypeOK, DeploymentOK
  <1>2. CASE SetupBegins \/ SetupFails \/ SetupEnds
    <2>1. /\ ready' \in BOOLEAN /\ maintenance_done' \in BOOLEAN
          /\ maintenance_done => maintenance_done'
      BY <1>1, <1>2, Zenon DEF SetupBegins, SetupFails, SetupEnds, DeploymentOK
    <2>2. /\ job' \in {"none", "installing", "waiting", "deploying"}
          /\ UNCHANGED <<maintaining, handler, deploy_id, available, tree,
                         edited, schema, session, shown, reported, focused,
                         history>>
      BY <1>2 DEF SetupBegins, SetupFails, SetupEnds, requests
    <2>3. DeploymentOK'  BY <1>1, <2>1, <2>2 DEF DeploymentOK
    <2>4. Calm  BY <1>1, <2>1, <2>2 DEF Calm
    <2> QED  BY <1>1, <2>2, <2>3, <2>4, BehindKeeps DEF TypeOK
  <1>3. ASSUME NEW s \in Schemas, SetupEdits(s)  PROVE Inv'
    <2>1. /\ tree' = s /\ edited' = TRUE /\ job' = "waiting"
          /\ UNCHANGED <<maintaining, maintenance_done, ready, handler,
                         deploy_id, available, schema, session, shown,
                         reported, focused, history>>
      BY <1>3 DEF SetupEdits, requests
    <2>2. DeploymentOK' /\ Calm  BY <1>1, <2>1 DEF DeploymentOK, Calm
    <2> QED  BY <2>1, <2>2, BehindKeeps
  <1>4. CASE SetupDeploys
    <2>1. /\ maintaining' \in BOOLEAN /\ maintenance_done' \in BOOLEAN
          /\ ready' \in BOOLEAN
      BY <1>1, <1>4, Zenon
      DEF SetupDeploys, StartDeployment, RefuseDeployment, DeploymentOK
    <2>2. /\ deploy_id' = deploy_id + 1 /\ job' = "deploying"
          /\ UNCHANGED <<handler, available, tree, edited, schema, session,
                         shown, reported, focused, history>>
      BY <1>4 DEF SetupDeploys, StartDeployment, RefuseDeployment, requests
    <2>3. DeploymentOK'  BY <1>1, <2>1, <2>2 DEF DeploymentOK
    <2>4. Calm
      <3>1. deploy_id' \in Nat /\ deploy_id' >= deploy_id /\ deploy_id' # deploy_id
        BY <1>1, <2>2
      <3>2. handler' = handler  BY <2>2
      <3> QED  BY <3>1, <3>2 DEF Calm
    <2> QED  BY <1>1, <2>2, <2>3, <2>4, BehindKeeps DEF TypeOK
  <1> QED  BY <1>2, <1>3, <1>4

LEMMA LibrimeKeeps ==
  ASSUME Inv, DeploymentSucceeds \/ DeploymentFails \/ MaintenanceEnds \/ Deactivate
  PROVE  Inv'
  <1>1. DeploymentOK /\ TypeOK /\ deploy_id \in Nat
    BY DEF Inv, TypeOK, DeploymentOK
  <1>2. /\ ready' \in BOOLEAN /\ maintenance_done' \in BOOLEAN
        /\ maintaining' \in BOOLEAN /\ handler' \in BOOLEAN
        /\ handler' => handler
        /\ maintenance_done => maintenance_done'
        /\ ~maintaining => ~maintaining'
    <2>1. CASE DeploymentSucceeds
      BY <1>1, <2>1, Zenon DEF DeploymentSucceeds, DeploymentOK
    <2>2. CASE DeploymentFails
      BY <1>1, <2>2, Zenon DEF DeploymentFails, DeploymentOK
    <2>3. CASE MaintenanceEnds
      BY <1>1, <2>3, Zenon DEF MaintenanceEnds, DeploymentOK
    <2>4. CASE Deactivate
      BY <1>1, <2>4, Zenon DEF Deactivate, requests, DeploymentOK
    <2> QED  BY <2>1, <2>2, <2>3, <2>4
  <1>3. /\ available' \subseteq Schemas
        /\ UNCHANGED <<job, deploy_id, tree, edited, schema, session, shown,
                       reported, focused, history>>
    BY <1>1 DEF DeploymentSucceeds, DeploymentFails, MaintenanceEnds,
                Deactivate, requests, DeploymentOK
  <1>4. DeploymentOK'  BY <1>1, <1>2, <1>3 DEF DeploymentOK
  <1>5. Calm  BY <1>1, <1>2, <1>3 DEF Calm
  <1> QED  BY <1>1, <1>3, <1>4, <1>5, BehindKeeps DEF TypeOK

\* A context without the focus goes, with its session.
LEMMA DestroyKeeps ==
  ASSUME Inv, NEW c \in Ctxs, Destroy(c)
  PROVE  Inv'
  <1>1. TypeOK /\ Synchronised  BY DEF Inv
  <1>2. DeploymentOK' /\ Calm  BY <1>1, NoChange DEF Destroy
  <1>3. /\ session' = [session EXCEPT ![c] = NoSession] /\ Show(c, "none")
        /\ bare' = IF bare = c THEN NoCtx ELSE bare
        /\ UNCHANGED <<schema, tree, edited, reported, focused, handler,
                       escaped, aside>>
    BY DEF Destroy, config, deployment
  <1>4. TypeOK'
    <2>1. RestOK'
      BY <1>1, <1>3 DEF RestOK, TypeOK, HistoryOK, Show, Compositions
    <2> QED  BY <1>2, <2>1, TypeParts, PTL
  <1>5. ASSUME NEW d \in Ctxs  PROVE Fresh(d)' /\ Agree(d)'
    <2>1. CASE d = c
      <3>1. session'[d] = NoSession  BY <1>1, <1>3, <2>1 DEF TypeOK
      <3> QED  BY <3>1 DEF Fresh, Agree, Live
    <2>2. CASE d # c
      <3>1. Fresh(d) /\ Agree(d) /\ session'[d] = session[d] /\ shown'[d] = shown[d]
        BY <1>1, <1>3, <2>2 DEF Synchronised, TypeOK, Show
      <3>2. Fresh(d)' /\ (Live(d)' => Live(d))  BY <1>1, <1>2, <3>1, StillFresh
      <3>3. Status(session[d])' = Status(session[d])  BY <3>1 DEF Status
      <3> QED  BY <1>3, <3>1, <3>2, <3>3 DEF Agree
    <2> QED  BY <2>1, <2>2
  <1> QED  BY <1>4, <1>5 DEF Inv, Synchronised

-----------------------------------------------------------------------------
(* The theorems.                                                           *)

LEMMA InvInit == Init => Inv
  <1> SUFFICES ASSUME Init  PROVE TypeOK /\ Synchronised
    BY DEF Inv
  <1>1. DeploymentOK
    <2>1. maintenance_done \in BOOLEAN /\ ready \in BOOLEAN /\ maintaining \in BOOLEAN
      BY Zenon DEF Init
    <2> QED  BY <2>1 DEF Init, DeploymentOK
  <1>2. RestOK
    <2>1. reported \in Modes  BY DEF Init, Modes
    <2> QED  BY <2>1 DEF Init, RestOK, HistoryOK, Compositions
  <1>3. Synchronised  BY DEF Init, Synchronised, Fresh, Agree, Live
  <1> QED  BY <1>1, <1>2, <1>3, TypeParts

LEMMA InvStep == Inv /\ [Next]_vars => Inv'
  <1> SUFFICES ASSUME Inv, [Next]_vars  PROVE Inv'
    OBVIOUS
  <1>1. ASSUME NEW c \in Ctxs, FocusOut(c) \/ Reset(c)  PROVE Inv'
    <2>1. /\ HistoryOK'
          /\ focused \in {NoCtx, c} \/ (focused' = focused /\ aside')
          /\ focused' \in {NoCtx, c} \/ (focused' = focused /\ aside')
          /\ ResetSession(c)
      BY <1>1 DEF FocusOut, Reset, MayBeAside, Inv, TypeOK, HistoryOK, shift
    <2> QED  BY <2>1, ResetKeeps
  <1>2. ASSUME NEW c \in Ctxs, FocusIn(c)  PROVE Inv'
    BY <1>2, FocusInKeeps
  <1>3. ASSUME NEW c \in Ctxs, GetActiveMode(c)  PROVE Inv'
    BY <1>3, PeekKeeps
  <1>4. ASSUME NEW c \in Ctxs, Destroy(c)  PROVE Inv'
    BY <1>4, DestroyKeeps
  <1>5. ASSUME NEW c \in Ctxs, Escape(c)  PROVE Inv'
    BY <1>5, EscapeKeeps
  <1>6. ASSUME NEW c \in Ctxs, ShiftPress(c) \/ ShiftRelease(c)  PROVE Inv'
    BY <1>6, ShiftPressKeeps, ShiftReleaseKeeps
  <1>7. ASSUME NEW c \in Ctxs, NEW press \in BOOLEAN, Key(c, press)  PROVE Inv'
    BY <1>7, KeyKeeps
  <1>8. ASSUME NEW c \in Ctxs, NEW s \in Schemas, NEW ascii \in BOOLEAN,
               SetActiveMode(c, s, ascii)
        PROVE  Inv'
    BY <1>8, SetActiveModeKeeps
  <1>9. ASSUME NEW s \in Schemas, EditConfig(s)  PROVE Inv'
    BY <1>9, EditConfigKeeps
  <1>10. CASE ReloadConfig  BY <1>10, ReloadConfigKeeps
  <1>11. CASE Deploy  BY <1>11, DeployKeeps
  <1>12. CASE \/ SetupBegins \/ SetupFails \/ SetupDeploys \/ SetupEnds
              \/ \E s \in Schemas : SetupEdits(s)
    BY <1>12, SetupKeeps
  <1>13. CASE DeploymentSucceeds \/ DeploymentFails \/ MaintenanceEnds \/ Deactivate
    BY <1>13, LibrimeKeeps
  <1>14. CASE UNCHANGED vars
    BY <1>14, IdleKeeps DEF vars, history, shift, Inv, TypeOK, HistoryOK
  <1> QED
    BY <1>1, <1>2, <1>3, <1>4, <1>5, <1>6, <1>7, <1>8, <1>9, <1>10, <1>11,
       <1>12, <1>13, <1>14 DEF Next

LEMMA InvAlways == Spec => []Inv
  BY InvInit, InvStep, PTL DEF Spec

\* Every variable keeps its type.
THEOREM TypeCorrect == Spec => []TypeOK
  <1>1. Inv => TypeOK  BY DEF Inv
  <1> QED  BY <1>1, InvAlways, PTL

\* librime's composition is always on display, and a context without the
\* focus has none.
THEOREM NothingIsHidden == Spec => []NothingHidden
  <1>1. Inv => NothingHidden
    BY DEF Inv, Synchronised, Agree, NothingHidden
  <1> QED  BY <1>1, InvAlways, PTL

\* The mode the host was told last is the live mode of the focused context.
THEOREM ReportedIsAlwaysLive == Spec => []ReportedIsLive
  <1>1. Inv => ReportedIsLive
    BY DEF Inv, Synchronised, Agree, ReportedIsLive
  <1> QED  BY <1>1, InvAlways, PTL

\* The configuration tree names the schema of the focused context.
THEOREM TreeIsAlwaysLive == Spec => []TreeIsLive
  <1>1. Inv => TreeIsLive
    BY DEF Inv, Synchronised, Agree, TreeIsLive
  <1> QED  BY <1>1, InvAlways, PTL

=============================================================================
