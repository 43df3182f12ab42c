---------------------------- MODULE TetragonFeed ----------------------------
(***************************************************************************)
(* From an access to a honeytoken to the agent's callbacks: the kernel     *)
(* reports accesses to the paths of the policy (PolicyManager) on every    *)
(* open stream (TetragonClient).  The two components share no state in the *)
(* agent; they meet in Tetragon.                                           *)
(***************************************************************************)
EXTENDS PolicyManager, TetragonClient

feedVars == <<policyVars, clientVars>>

Init == PolicyInit /\ ClientInit

Next ==
    \/ PolicyNext /\ UNCHANGED clientVars
    \/ ClientNext /\ UNCHANGED policyVars

\* The timer fires, and grpcConnect does not throw forever.
Fairness == WF_feedVars(TimerConnects /\ UNCHANGED policyVars)

Spec == Init /\ [][Next]_feedVars

FairSpec == Spec /\ Fairness

\* How often each callback is invoked for one access to the path: the handler of
\* every open stream invokes all callbacks, and catches what one of them throws.
Invocations(p) == IF p \in policy THEN Cardinality(Live) ELSE 0

---------------------------------------------------------------------------
\* Type invariant of both components.
TypeOK == PolicyTypeOK /\ ClientTypeOK

\* While the client is connected, an access to a path that was added undisturbed
\* is heard, and heard once unless a stream reported after it was over.
AccessesAreHeard ==
    connected => \A p \in settled :
        /\ Invocations(p) >= 1
        /\ ~lateReport => Invocations(p) = 1

\* A client that is to be connected gets connected again and again.
Reconnects ==
    wanted ~> (connected \/ ~wanted)
===========================================================================
