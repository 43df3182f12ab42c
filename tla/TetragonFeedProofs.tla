------------------------- MODULE TetragonFeedProofs -------------------------
(***************************************************************************)
(* For every set of paths, every number of overlapping calls and of        *)
(* streams: what the policy manager and the stream client guarantee, and   *)
(* what follows for an access to a honeytoken.                             *)
(***************************************************************************)
EXTENDS TetragonFeed, FiniteSetTheorems, TLAPS

LEMMA FeedInit == Init => PolicyInv /\ ClientInv
<1> SUFFICES ASSUME Init PROVE PolicyInv /\ ClientInv
  OBVIOUS
<1>1. PolicyTypeOK
  BY DEF Init, PolicyInit, PolicyTypeOK, Proper, Active
<1>2. /\ UndisturbedPathsStay /\ WritesKeepSettled /\ RemovalsSpareSettled
      /\ WritesContainGiven /\ AloneIsAlone
  BY DEF Init, PolicyInit, UndisturbedPathsStay, WritesKeepSettled,
         RemovalsSpareSettled, WritesContainGiven, AloneIsAlone
<1>3. ClientInv
  BY StreamAssumption DEF Init, ClientInit, ClientInv, ClientTypeOK, LostConnectionIsRetried,
                          ConnectedIsLive, OneStream, Live
<1> QED BY <1>1, <1>2, <1>3 DEF PolicyInv

---------------------------------------------------------------------------
\* The calls of the policy manager.

\* A call that begins is alone only if no other is suspended.
LEMMA BeginStep ==
  ASSUME PolicyInv, NEW c \in Calls, Begin(c),
         NEW next \in {"reading", "applying"}, stage' = [stage EXCEPT ![c] = next]
  PROVE  /\ c \notin Active /\ Active' = Active \cup {c}
         /\ alone' \subseteq Active' /\ AloneIsAlone'
<1>1. stage \in [Calls -> {"idle", "reading", "applying"}]
  BY DEF PolicyInv, PolicyTypeOK
<1>2. c \notin Active /\ Active' = Active \cup {c}
  BY <1>1 DEF Begin, Active
<1> HIDE DEF Active
<1> QED BY <1>2 DEF Begin, AloneIsAlone

LEMMA ReturnStep ==
  ASSUME PolicyInv, NEW c \in Calls, Return(c)
  PROVE  /\ Active' = Active \ {c}
         /\ alone' \subseteq Active' /\ AloneIsAlone'
         /\ stage' \in [Calls -> {"idle", "reading", "applying"}]
         /\ operation' \in [Calls -> {"add", "remove", "sync"}]
         /\ \A d \in Calls : stage'[d] = "reading" => operation'[d] # "sync"
         /\ given' \in [Calls -> SUBSET Paths]
         /\ DOMAIN toApply' = Calls /\ \A d \in Calls : Proper(toApply[d])'
         /\ stage'[c] = "idle"
         /\ \A d \in Calls \ {c} : /\ stage'[d] = stage[d] /\ operation'[d] = operation[d]
                                   /\ given'[d] = given[d] /\ toApply'[d] = toApply[d]
<1>1. PolicyTypeOK
  BY DEF PolicyInv
<1>2. Active' = Active \ {c}
  BY <1>1 DEF PolicyTypeOK, Return, Active
<1>3. alone' \subseteq Active' /\ AloneIsAlone'
  <2>1. alone \subseteq Active /\ AloneIsAlone
    BY DEF PolicyInv, PolicyTypeOK
  <2> HIDE DEF Active
  <2> QED BY <1>2, <2>1 DEF Return, AloneIsAlone
<1>4. \A d \in Calls : toApply'[d] = IF d = c THEN {} ELSE toApply[d]
  BY <1>1 DEF PolicyTypeOK, Return
<1>5. DOMAIN toApply' = Calls /\ \A d \in Calls : Proper(toApply[d])'
  BY <1>1, <1>4 DEF PolicyTypeOK, Return, Proper
<1> QED BY <1>1, <1>2, <1>3, <1>4, <1>5 DEF PolicyTypeOK, Return

LEMMA AddPathsStep ==
  ASSUME PolicyInv, NEW c \in Calls, NEW entries \in SUBSET Entries, AddPaths(c, entries)
  PROVE  PolicyInv'
<1>1. /\ Active' = Active \cup {c} /\ alone' \subseteq Active' /\ AloneIsAlone'
  BY BeginStep DEF AddPaths
<1>2. ExtractPaths(entries) \subseteq Paths
  BY DEF ExtractPaths, Entries
<1>3. PolicyTypeOK'
  BY <1>1, <1>2 DEF AddPaths, PolicyInv, PolicyTypeOK, Proper
<1>4. (UndisturbedPathsStay /\ WritesKeepSettled /\ RemovalsSpareSettled /\ WritesContainGiven)'
  BY DEF AddPaths, PolicyInv, PolicyTypeOK, UndisturbedPathsStay, WritesKeepSettled,
         RemovalsSpareSettled, WritesContainGiven
<1> QED BY <1>1, <1>3, <1>4 DEF PolicyInv

LEMMA RemovePathsStep ==
  ASSUME PolicyInv, NEW c \in Calls, NEW entries \in SUBSET Entries, RemovePaths(c, entries)
  PROVE  PolicyInv'
<1>1. /\ Active' = Active \cup {c} /\ alone' \subseteq Active' /\ AloneIsAlone'
  BY BeginStep DEF RemovePaths
<1>2. {e.path : e \in entries} \subseteq Paths
  BY DEF Entries
<1>3. PolicyTypeOK'
  BY <1>1, <1>2 DEF RemovePaths, PolicyInv, PolicyTypeOK, Proper
<1>4. settled' \subseteq settled /\ settled' \cap given'[c] = {}
  BY DEF RemovePaths
<1>5. (UndisturbedPathsStay /\ WritesKeepSettled /\ RemovalsSpareSettled /\ WritesContainGiven)'
  BY <1>4 DEF RemovePaths, PolicyInv, PolicyTypeOK, UndisturbedPathsStay, WritesKeepSettled,
              RemovalsSpareSettled, WritesContainGiven
<1> QED BY <1>1, <1>3, <1>5 DEF PolicyInv

LEMMA SyncStep ==
  ASSUME PolicyInv, NEW c \in Calls, NEW entries \in SUBSET Entries,
         SyncWithRegistry(c, entries)
  PROVE  PolicyInv'
<1> DEFINE paths == ExtractPaths(entries)
<1>1. /\ Active' = Active \cup {c} /\ alone' \subseteq Active' /\ AloneIsAlone'
  BY BeginStep DEF SyncWithRegistry
<1>2. paths \subseteq Paths
  BY DEF ExtractPaths, Entries
<1>3. paths \subseteq OrPlaceholder(paths) /\ Proper(OrPlaceholder(paths))
  BY <1>2 DEF OrPlaceholder, Proper
<1>4. /\ given' = [given EXCEPT ![c] = paths]
      /\ toApply' = [toApply EXCEPT ![c] = OrPlaceholder(paths)]
      /\ settled' = settled \cap paths
  BY DEF SyncWithRegistry
<1> HIDE DEF paths
<1>5. PolicyTypeOK'
  <2>1. \A d \in Calls : Proper(toApply'[d])
    BY <1>3, <1>4 DEF PolicyInv, PolicyTypeOK
  <2>2. \A d \in Calls : Proper(toApply[d])'
    BY <2>1 DEF Proper
  <2> QED BY <1>1, <1>2, <1>4, <2>2 DEF SyncWithRegistry, PolicyInv, PolicyTypeOK, Proper
<1>6. (UndisturbedPathsStay /\ WritesKeepSettled /\ RemovalsSpareSettled /\ WritesContainGiven)'
  BY <1>3, <1>4 DEF SyncWithRegistry, PolicyInv, PolicyTypeOK, UndisturbedPathsStay,
                    WritesKeepSettled, RemovalsSpareSettled, WritesContainGiven
<1> QED BY <1>1, <1>5, <1>6 DEF PolicyInv

\* What addPaths and removePaths compute keeps the settled paths.
LEMMA MergedKeeps ==
  ASSUME PolicyInv, NEW c \in Calls, stage[c] = "reading"
  PROVE  /\ Proper(Merged(c)) /\ settled \subseteq Merged(c)
         /\ operation[c] # "remove" => given[c] \subseteq Merged(c)
<1>1. /\ Proper(policy) /\ given[c] \subseteq Paths
      /\ settled \subseteq Paths /\ Placeholder \notin Paths
      /\ operation[c] \in {"add", "remove", "sync"}
      /\ settled \subseteq policy
      /\ operation[c] = "remove" => settled \cap given[c] = {}
  BY PolicyAssumption DEF PolicyInv, PolicyTypeOK, UndisturbedPathsStay, RemovalsSpareSettled
<1>2. CASE operation[c] = "add"
  BY <1>1, <1>2 DEF Merged, Proper
<1>3. CASE operation[c] = "remove"
  BY <1>1, <1>3 DEF Merged, OrPlaceholder, Proper
<1>4. operation[c] # "sync"
  BY DEF PolicyInv, PolicyTypeOK
<1> QED BY <1>1, <1>2, <1>3, <1>4

LEMMA ReadAnsweredStep ==
  ASSUME PolicyInv, NEW c \in Calls, ReadAnswered(c)
  PROVE  PolicyInv'
<1> DEFINE paths == Merged(c)
<1>1. /\ Proper(paths) /\ settled \subseteq paths
      /\ operation[c] # "remove" => given[c] \subseteq paths
  BY MergedKeeps DEF ReadAnswered
<1>2. /\ toApply' = [toApply EXCEPT ![c] = paths]
      /\ stage[c] = "reading" /\ stage' = [stage EXCEPT ![c] = "applying"]
      /\ UNCHANGED <<policy, operation, given, alone, settled>>
  BY DEF ReadAnswered
<1> HIDE DEF paths
<1>3. Active' = Active
  BY <1>2 DEF Active, PolicyInv, PolicyTypeOK
<1>4. PolicyTypeOK'
  <2>1. \A d \in Calls : Proper(toApply'[d])
    BY <1>1, <1>2 DEF PolicyInv, PolicyTypeOK
  <2>2. \A d \in Calls : Proper(toApply[d])'
    BY <2>1 DEF Proper
  <2> QED BY <1>2, <1>3, <2>2 DEF PolicyInv, PolicyTypeOK, Proper
<1>5. (UndisturbedPathsStay /\ WritesKeepSettled /\ RemovalsSpareSettled /\ WritesContainGiven)'
  BY <1>1, <1>2 DEF PolicyInv, PolicyTypeOK, UndisturbedPathsStay,
                    WritesKeepSettled, RemovalsSpareSettled, WritesContainGiven
<1>6. AloneIsAlone'
  BY <1>2, <1>3 DEF PolicyInv, AloneIsAlone
<1> QED BY <1>4, <1>5, <1>6 DEF PolicyInv

\* A call that ends, whatever it leaves in the policy.
LEMMA EndStep ==
  ASSUME PolicyInv, NEW c \in Calls, Return(c),
         policy' = policy \/ (stage[c] = "applying" /\ policy' = toApply[c]),
         \/ settled' = settled
         \/ /\ c \in alone /\ stage[c] = "applying" /\ operation[c] # "remove"
            /\ policy' = toApply[c] /\ settled' = settled \cup given[c]
  PROVE  PolicyInv'
<1>1. PolicyTypeOK'
  <2>1. Proper(policy)' /\ settled' \subseteq Paths
    BY DEF PolicyInv, PolicyTypeOK, Proper
  <2> QED BY <2>1, ReturnStep DEF PolicyTypeOK
<1>2. UndisturbedPathsStay'
  BY DEF PolicyInv, UndisturbedPathsStay, WritesKeepSettled, WritesContainGiven
<1>3. \A d \in Calls : stage'[d] # "idle" => settled' = settled
  <2>1. SUFFICES ASSUME c \in alone, NEW d \in Calls, stage'[d] # "idle" PROVE FALSE
    OBVIOUS
  <2>2. Active = {c} /\ d \in Active'
    BY <2>1 DEF PolicyInv, AloneIsAlone, Active
  <2> QED BY <2>2, ReturnStep
<1>4. \A d \in Calls : stage'[d] # "idle" =>
         /\ stage'[d] = stage[d] /\ operation'[d] = operation[d]
         /\ given'[d] = given[d] /\ toApply'[d] = toApply[d]
  BY ReturnStep
<1>5. (WritesKeepSettled /\ RemovalsSpareSettled /\ WritesContainGiven)'
  BY <1>3, <1>4 DEF PolicyInv, WritesKeepSettled, RemovalsSpareSettled, WritesContainGiven
<1> QED BY <1>1, <1>2, <1>5, ReturnStep DEF PolicyInv

LEMMA PolicyStep ==
  ASSUME PolicyInv, [PolicyNext]_policyVars
  PROVE  PolicyInv'
<1>1. ASSUME NEW c \in Calls, ReadEndsCall(c) PROVE PolicyInv'
  BY <1>1, EndStep DEF ReadEndsCall
<1>2. ASSUME NEW c \in Calls, ApplyFails(c) PROVE PolicyInv'
  BY <1>2, EndStep DEF ApplyFails
<1>3. ASSUME NEW c \in Calls, ApplySucceeds(c) PROVE PolicyInv'
  BY <1>3, EndStep DEF ApplySucceeds
<1>4. CASE UNCHANGED policyVars
  BY <1>4 DEF policyVars, PolicyInv, PolicyTypeOK, Proper, Active, UndisturbedPathsStay,
              WritesKeepSettled, RemovalsSpareSettled, WritesContainGiven, AloneIsAlone
<1> QED BY <1>1, <1>2, <1>3, <1>4, AddPathsStep, RemovePathsStep, SyncStep,
           ReadAnsweredStep DEF PolicyNext

---------------------------------------------------------------------------
\* The streams.
LEMMA ClientStep ==
  ASSUME ClientInv, [ClientNext]_clientVars
  PROVE  ClientInv'
<1> USE DEF ClientInv, ClientTypeOK, LostConnectionIsRetried, ConnectedIsLive, OneStream, Live
<1>1. ASSUME ~connected, OpenStream, wanted' \in {wanted, TRUE}, UNCHANGED lateReport,
             wanted' \/ lateReport, reconnectTimer' \in BOOLEAN
      PROVE  ClientInv'
  BY <1>1 DEF OpenStream
<1>2. CASE Connect
  BY <1>1, <1>2 DEF Connect
<1>3. CASE Disconnect
  BY <1>3, StreamAssumption DEF Disconnect
<1>4. ASSUME NEW s \in Streams, StreamEnds(s) PROVE ClientInv'
  BY <1>4, StreamAssumption DEF StreamEnds, LoseConnection
<1>5. ASSUME NEW s \in Streams, ReportsAgain(s) PROVE ClientInv'
  BY <1>5 DEF ReportsAgain, LoseConnection
<1>6. CASE TimerConnects
  BY <1>1, <1>6 DEF TimerConnects
<1>7. CASE TimerFindsConnection
  BY <1>7 DEF TimerFindsConnection
<1>8. CASE UNCHANGED clientVars
  BY <1>8 DEF clientVars
<1> QED BY <1>2, <1>3, <1>4, <1>5, <1>6, <1>7, <1>8 DEF ClientNext

---------------------------------------------------------------------------
\* The inductive invariant of both components.
THEOREM InductiveInvariant == Spec => [](PolicyInv /\ ClientInv)
<1>1. PolicyInv /\ ClientInv /\ [Next]_feedVars => (PolicyInv /\ ClientInv)'
  BY PolicyStep, ClientStep DEF Next, feedVars
<1> QED BY <1>1, FeedInit, PTL DEF Spec

\* The policy, the calls and the streams keep their types.
THEOREM TypeCorrect == Spec => []TypeOK
<1>1. PolicyInv /\ ClientInv => TypeOK
  BY DEF PolicyInv, ClientInv, TypeOK
<1> QED BY <1>1, InductiveInvariant, PTL

\* However the calls of policy-manager.ts overlap and fail, they drop no path that
\* was added by a call without others beside it, unless they are called to.
THEOREM NoUndisturbedPathIsLost == Spec => []UndisturbedPathsStay
<1>1. PolicyInv => UndisturbedPathsStay
  BY DEF PolicyInv
<1> QED BY <1>1, InductiveInvariant, PTL

\* The client of tetragon-client.ts never waits for a connection without a timer.
THEOREM NoConnectionIsGivenUp == Spec => []LostConnectionIsRetried
<1>1. ClientInv => LostConnectionIsRetried
  BY DEF ClientInv
<1> QED BY <1>1, InductiveInvariant, PTL

\* Without late reports one stream at most is live, and none once it is not wanted.
THEOREM LateReportsAddStreams == Spec => []OnlyLateReportsAddStreams
<1>1. ASSUME ClientInv, ~lateReport PROVE Cardinality(Live) <= 1
  <2>1. Live \subseteq {stream}
    BY <1>1 DEF ClientInv, OneStream
  <2>2. Live = {} \/ Live = {stream}
    BY <2>1
  <2> QED BY <2>2, FS_EmptySet, FS_Singleton
<1>2. ASSUME ClientInv, ~lateReport, ~wanted PROVE Live = {} /\ ~reconnectTimer
  BY <1>2 DEF ClientInv, OneStream
<1>3. ClientInv => OnlyLateReportsAddStreams
  BY <1>1, <1>2 DEF OnlyLateReportsAddStreams
<1> QED BY <1>3, InductiveInvariant, PTL

\* An access to an undisturbed path reaches the callbacks of a connected client,
\* once unless a stream has reported late.
THEOREM EveryAccessIsHeard == Spec => []AccessesAreHeard
<1>1. ASSUME PolicyInv, ClientInv, connected, NEW p \in settled
      PROVE  /\ Invocations(p) >= 1
             /\ ~lateReport => Invocations(p) = 1
  <2>1. p \in policy
    BY <1>1 DEF PolicyInv, UndisturbedPathsStay
  <2>2. stream \in Live
    BY <1>1 DEF ClientInv, ConnectedIsLive
  <2>3. IsFiniteSet(Live)
    BY StreamAssumption, FS_Subset DEF Live
  <2>4. Cardinality(Live) \in Nat /\ Cardinality(Live) # 0
    BY <2>2, <2>3, FS_CardinalityType, FS_EmptySet
  <2>5. ~lateReport => Cardinality(Live) = 1
    <3>1. ~lateReport => Live = {stream}
      BY <1>1, <2>2 DEF ClientInv, OneStream
    <3> QED BY <3>1, FS_Singleton
  <2> QED BY <2>1, <2>4, <2>5 DEF Invocations
<1>2. PolicyInv /\ ClientInv => AccessesAreHeard
  BY <1>1 DEF AccessesAreHeard
<1> QED BY <1>2, InductiveInvariant, PTL
===========================================================================
