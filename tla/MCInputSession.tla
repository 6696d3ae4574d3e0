--------------------------- MODULE MCInputSession ---------------------------
(* InputSession for TLC.  Contexts and schemas are interchangeable, and the  *)
(* runs check safety only.                                                  *)
EXTENDS InputSession, TLC

Symmetry == Permutations(Ctxs) \cup Permutations(Schemas)

\* States that no step and no property tells apart are visited once.  A
\* session that is not current is as good as none, but for being dropped; bare
\* is read only when a Shift is released that may be a bare one, reported only
\* while ReportedIsLive says something of it, and escaped by no property of
\* the run that has this view.
Current(c) == session[c] # NoSession /\ session[c].deploy_id = deploy_id
Told(c) == IF Current(c) THEN session[c] ELSE NoSession
BareShift(c) == Current(c) /\ session[c].shift_only /\ bare = c
Reported == IF handler /\ ~aside /\ \E c \in Ctxs : focused = c /\ Live(c)
            THEN reported ELSE NoSession

View == <<deployment, config, shown, Reported, focused, handler /\ aside,
          [c \in Ctxs |-> Told(c)], [c \in Ctxs |-> BareShift(c)]>>

=============================================================================
