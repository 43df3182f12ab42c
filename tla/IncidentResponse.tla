-------------------------- MODULE IncidentResponse --------------------------
(***************************************************************************)
(* What the agent promises about the incidents it handles: every incident  *)
(* is closed once and for all; it is reported as contained only if each of *)
(* the measures it calls for has taken effect; and a measure, once it is   *)
(* in effect, is never undone.                                             *)
(***************************************************************************)
CONSTANTS Incidents, Measures

VARIABLES
    state,      \* "unknown", "open", "contained", "escalated" or "aborted"
    needs,      \* the measures each open or closed incident calls for
    inEffect    \* the measures taken so far

incidentVars == <<state, needs, inEffect>>

Init ==
    /\ state = [i \in Incidents |-> "unknown"]
    /\ needs = [i \in Incidents |-> {}]
    /\ inEffect = {}

Open(i) ==
    /\ state[i] = "unknown"
    /\ state' = [state EXCEPT ![i] = "open"]
    /\ UNCHANGED <<needs, inEffect>>

Assess(i, measures) ==
    /\ state[i] = "open" /\ needs[i] = {}
    /\ needs' = [needs EXCEPT ![i] = measures]
    /\ UNCHANGED <<state, inEffect>>

\* Only a measure that some open incident calls for is taken.
Take(i, measure) ==
    /\ state[i] = "open" /\ measure \in needs[i]
    /\ inEffect' = inEffect \cup {measure}
    /\ UNCHANGED <<state, needs>>

Close(i) ==
    /\ state[i] = "open"
    /\ \/ needs[i] \subseteq inEffect /\ state' = [state EXCEPT ![i] = "contained"]
       \/ \E verdict \in {"escalated", "aborted"} : state' = [state EXCEPT ![i] = verdict]
    /\ UNCHANGED <<needs, inEffect>>

Next ==
    \E i \in Incidents :
        \/ Open(i)
        \/ \E measures \in SUBSET Measures : Assess(i, measures)
        \/ \E measure \in Measures : Take(i, measure)
        \/ Close(i)

Spec == Init /\ [][Next]_incidentVars
===========================================================================
