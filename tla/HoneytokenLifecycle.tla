------------------------ MODULE HoneytokenLifecycle ------------------------
(***************************************************************************)
(* What deployment promises about each honeytoken: it is placed in the     *)
(* cluster before it is armed (registered and watched), armed before it is *)
(* reported to Dynatrace, and once armed it is never withdrawn.  Only a    *)
(* honeytoken that was never armed is given up, and then its Secret may be *)
(* left behind.                                                            *)
(***************************************************************************)
CONSTANTS Honeytokens

VARIABLES
    stage,      \* "absent", "placed", "armed" or "reported"
    present     \* honeytokens whose Secret is in the cluster

lifecycleVars == <<stage, present>>

Init ==
    /\ stage = [t \in Honeytokens |-> "absent"]
    /\ present = {}

Place(t) ==
    /\ stage[t] = "absent" /\ t \notin present
    /\ stage' = [stage EXCEPT ![t] = "placed"]
    /\ present' = present \cup {t}

\* Its Secret was created although the agent was told that it was not.
Leak(t) ==
    /\ stage[t] = "absent"
    /\ present' = present \cup {t}
    /\ UNCHANGED stage

GiveUp(t) ==
    /\ stage[t] = "placed"
    /\ stage' = [stage EXCEPT ![t] = "absent"]
    /\ present' \in {present, present \ {t}}

Arm(t) ==
    /\ stage[t] = "placed" /\ t \in present
    /\ stage' = [stage EXCEPT ![t] = "armed"]
    /\ UNCHANGED present

Report(t) ==
    /\ stage[t] = "armed"
    /\ stage' = [stage EXCEPT ![t] = "reported"]
    /\ UNCHANGED present

Next ==
    \E t \in Honeytokens :
        Place(t) \/ Leak(t) \/ GiveUp(t) \/ Arm(t) \/ Report(t)

Spec == Init /\ [][Next]_lifecycleVars
===========================================================================
