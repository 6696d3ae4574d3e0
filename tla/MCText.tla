------------------------------- MODULE MCText -------------------------------
(* PathExpand and ModeWire for TLC.  They share nothing: a behaviour is one *)
(* scan of a path, or the life of the ids of one set of schemas.            *)
EXTENDS PathExpand, ModeWire

\* Nothing set; everything set, to values that look like more to expand; a
\* name only braces can hold.
MCEnvs ==
    {[home |-> <<>>, value |-> <<"a">> :> <<>>],
     [home |-> <<"/", "~">>,
      value |-> (<<"a">> :> <<"/", "$", "a">>) @@ (<<"a", "1">> :> <<"}">>)],
     [home |-> <<>>, value |-> <<"$", "a">> :> <<"a">>]}

Colon == 58
A == 97
MCSuffix == <<Colon, A>>

\* One of the two rests in a state of its own.
NoScan ==
    /\ path = <<>> /\ env = CHOOSE e \in Envs : TRUE
    /\ at = 1 /\ expanded = <<>> /\ capacity = 0 /\ scan = "done"
NoWire ==
    /\ deployed = {<<A>>} /\ schema = <<A>> /\ ascii = FALSE
    /\ tree = Null /\ told = Null /\ asked = Null

TextInit == (PathInit /\ NoWire) \/ (WireInit /\ NoScan)
TextNext == \/ PathNext /\ UNCHANGED wire
            \/ path = <<>> /\ scan = "done" /\ WireNext /\ UNCHANGED scanner
TextSpec == /\ TextInit /\ [][TextNext]_<<scanner, wire>>
            /\ WF_scanner(Turns /\ UNCHANGED wire)

=============================================================================
