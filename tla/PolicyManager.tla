--------------------------- MODULE PolicyManager ---------------------------
(***************************************************************************)
(* The manager of the dynamic TracingPolicy (tetragon/policy-manager.ts).  *)
(* addPaths and removePaths read the policy, await the answer, compute the *)
(* new paths and replace the policy; syncWithRegistry replaces it at once. *)
(* Nothing serialises the calls, and the policy carries no version.        *)
(*                                                                         *)
(* A call is free for reuse when it has returned or rejected.  A write     *)
(* that is reported as failed may have been carried out.                   *)
(***************************************************************************)
EXTENDS FiniteSets

CONSTANTS
    Calls,          \* calls that may be suspended at the same time
    Paths,          \* paths of honeytokens
    Placeholder     \* '/ebeecontrol/placeholder'

ASSUME PolicyAssumption == Placeholder \notin Paths

VARIABLES
    policy,         \* paths of the policy in the cluster, {} if there is none
    stage,          \* the await each call is suspended at
    operation,      \* "add", "remove" or "sync"
    given,          \* newPaths or pathsToRemove
    toApply,        \* the paths a call is writing
    alone,          \* history: calls that have overlapped with no other so far
    settled         \* history: paths a call added alone, and none was to drop since

policyVars == <<policy, stage, operation, given, toApply, alone, settled>>

---------------------------------------------------------------------------
\* Registry entries.  Active and triggered entries are treated alike.
Entries == [path : Paths, status : {"active", "decommissioned"}]

ExtractPaths(entries) == {e.path : e \in {x \in entries : x.status = "active"}}

\* applyPaths never writes an empty list.
OrPlaceholder(paths) == IF paths = {} THEN {Placeholder} ELSE paths

PolicyInit ==
    /\ policy = {}
    /\ stage = [c \in Calls |-> "idle"]
    /\ operation = [c \in Calls |-> "add"]
    /\ given = [c \in Calls |-> {}]
    /\ toApply = [c \in Calls |-> {}]
    /\ alone = {} /\ settled = {}

Active == {c \in Calls : stage[c] # "idle"}

\* A call is made while others may be suspended.
Begin(c) ==
    /\ stage[c] = "idle"
    /\ alone' = IF Active = {} THEN {c} ELSE {}

AddPaths(c, entries) ==
    /\ Begin(c)
    /\ ExtractPaths(entries) # {}
    /\ stage' = [stage EXCEPT ![c] = "reading"]
    /\ operation' = [operation EXCEPT ![c] = "add"]
    /\ given' = [given EXCEPT ![c] = ExtractPaths(entries)]
    /\ UNCHANGED <<policy, toApply, settled>>

\* removePaths does not look at the status of the entries.
RemovePaths(c, entries) ==
    /\ Begin(c)
    /\ stage' = [stage EXCEPT ![c] = "reading"]
    /\ operation' = [operation EXCEPT ![c] = "remove"]
    /\ given' = [given EXCEPT ![c] = {e.path : e \in entries}]
    /\ settled' = settled \ given'[c]
    /\ UNCHANGED <<policy, toApply>>

SyncWithRegistry(c, entries) ==
    /\ Begin(c)
    /\ stage' = [stage EXCEPT ![c] = "applying"]
    /\ operation' = [operation EXCEPT ![c] = "sync"]
    /\ given' = [given EXCEPT ![c] = ExtractPaths(entries)]
    /\ toApply' = [toApply EXCEPT ![c] = OrPlaceholder(ExtractPaths(entries))]
    /\ settled' = settled \cap ExtractPaths(entries)
    /\ UNCHANGED policy

\* A call is over.  Its locals no longer matter.
Return(c) ==
    /\ stage' = [stage EXCEPT ![c] = "idle"]
    /\ operation' = [operation EXCEPT ![c] = "add"]
    /\ given' = [given EXCEPT ![c] = {}]
    /\ toApply' = [toApply EXCEPT ![c] = {}]
    /\ alone' = alone \ {c}

\* Fault: the policy is replaced by the new paths alone.
MergedAnew(c) ==
    IF operation[c] = "add" THEN given[c] ELSE OrPlaceholder(policy \ given[c])

\* The paths addPaths and removePaths compute from the answer.
Merged(c) ==
    IF operation[c] = "add" THEN (policy \ {Placeholder}) \cup given[c]
                            ELSE OrPlaceholder(policy \ given[c])

ReadAnswered(c) ==
    /\ stage[c] = "reading"
    /\ policy # {} \/ operation[c] = "add"
    /\ toApply' = [toApply EXCEPT ![c] = Merged(c)]
    /\ stage' = [stage EXCEPT ![c] = "applying"]
    /\ UNCHANGED <<policy, operation, given, alone, settled>>

\* removePaths returns if there is no policy; a failed read rejects the call.
ReadEndsCall(c) ==
    /\ stage[c] = "reading"
    /\ Return(c)
    /\ UNCHANGED <<policy, settled>>

ApplySucceeds(c) ==
    /\ stage[c] = "applying"
    /\ policy' = toApply[c]
    /\ settled' = IF c \in alone /\ operation[c] \in {"add", "sync"}
                  THEN settled \cup given[c] ELSE settled
    /\ Return(c)

ApplyFails(c) ==
    /\ stage[c] = "applying"
    /\ policy' \in {policy, toApply[c]}
    /\ Return(c)
    /\ UNCHANGED settled

PolicyNext ==
    \E c \in Calls :
        \/ \E entries \in SUBSET Entries :
               AddPaths(c, entries) \/ RemovePaths(c, entries) \/ SyncWithRegistry(c, entries)
        \/ ReadAnswered(c) \/ ReadEndsCall(c) \/ ApplySucceeds(c) \/ ApplyFails(c)

---------------------------------------------------------------------------
\* The placeholder stands alone, in the policy and in what is written to it.
Proper(paths) == paths \subseteq Paths \/ paths = {Placeholder}

PolicyTypeOK ==
    /\ Proper(policy)
    /\ stage \in [Calls -> {"idle", "reading", "applying"}]
    /\ operation \in [Calls -> {"add", "remove", "sync"}]
    /\ \A c \in Calls : stage[c] = "reading" => operation[c] # "sync"
    /\ given \in [Calls -> SUBSET Paths]
    /\ DOMAIN toApply = Calls /\ \A c \in Calls : Proper(toApply[c])
    /\ alone \subseteq Active /\ settled \subseteq Paths

\* A path that was added while no other call was suspended stays watched until a
\* call is made that drops it, however calls overlap and fail afterwards.
UndisturbedPathsStay ==
    settled \subseteq policy

---------------------------------------------------------------------------
\* What UndisturbedPathsStay rests on: no write under way drops a settled path,
WritesKeepSettled ==
    \A c \in Calls : stage[c] = "applying" => settled \subseteq toApply[c]

\* no removal that has yet to compute its paths drops one either,
RemovalsSpareSettled ==
    \A c \in Calls : stage[c] = "reading" /\ operation[c] = "remove" =>
        settled \cap given[c] = {}

\* a write contains what its call was given to watch,
WritesContainGiven ==
    \A c \in Calls : stage[c] = "applying" /\ operation[c] # "remove" =>
        given[c] \subseteq toApply[c]

\* and only a call without others beside it settles paths.
AloneIsAlone ==
    \A c \in alone : Active = {c}

PolicyInv ==
    /\ PolicyTypeOK
    /\ UndisturbedPathsStay
    /\ WritesKeepSettled /\ RemovalsSpareSettled /\ WritesContainGiven
    /\ AloneIsAlone
===========================================================================
