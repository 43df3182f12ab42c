--------------------------- MODULE MemoryDeployer ---------------------------
(***************************************************************************)
(* createKoneyDeployer (koney/deployer.ts), the deployer that is wired     *)
(* outside a Kubernetes cluster, as operators on its map of deployed       *)
(* honeytokens: a function from ids to honeytokens.  Every method runs     *)
(* without an await, so a call is one step of its callers.                 *)
(*                                                                         *)
(* The ids of a batch are those that uuid would generate for it, and a     *)
(* simulated failure is a set with at most one record: the first position  *)
(* at which the predicate fails, and its reason.                           *)
(***************************************************************************)
EXTENDS Integers, Sequences, Functions

CONSTANT Blank      \* an empty or missing text

MinHoneytokens == 1
MaxHoneytokens == 5

NothingDeployed == << >>

ValidateDeploymentRequest(request) ==
    /\ request.podId # Blank /\ request.namespace # Blank
    /\ Len(request.honeytokens) \in MinHoneytokens .. MaxHoneytokens

\* Which remedies are proposed for a failure, by the kind of its reason.
SelectRemediationActions(reason) ==
    CASE reason \in {"permission", "resource"} ->
           <<"select_alternative_pod", "escalate_to_operator">>
      [] reason = "network" -> <<"retry_deployment", "select_alternative_pod">>
      [] OTHER -> <<"retry_deployment", "escalate_to_operator">>

Honeytoken(request, id, k) ==
    [honeytokenId |-> id, podId |-> request.podId, namespace |-> request.namespace,
     type |-> request.honeytokens[k].type, filePath |-> request.honeytokens[k].placement]

BatchIds(ids, n) == {ids[k] : k \in 1 .. n}

\* The map after the first n honeytokens of the request were placed in it.
Place(deployed, request, ids, n) ==
    [id \in DOMAIN deployed \cup BatchIds(ids, n) |->
        IF id \in BatchIds(ids, n)
        THEN Honeytoken(request, id, CHOOSE k \in 1 .. n : ids[k] = id)
        ELSE deployed[id]]

\* The clean-up after n honeytokens of the batch.
CleanUp(deployed, ids, n) == Restrict(deployed, DOMAIN deployed \ BatchIds(ids, n))

Failed(deployed, remedies) ==
    [success |-> FALSE, deployed |-> deployed, placed |-> << >>, remedies |-> remedies]

\* All honeytokens of the request are placed.
PlaceBatch(deployed, request, ids) ==
    LET n == Len(request.honeytokens)
    IN  [success |-> TRUE,
         deployed |-> Place(deployed, request, ids, n),
         placed |-> [k \in 1 .. n |-> Honeytoken(request, ids[k], k)],
         remedies |-> << >>]

\* What was placed before the failure is taken out again.
FailBatch(deployed, request, ids, failure) ==
    LET before == failure.position - 1
    IN  Failed(CleanUp(Place(deployed, request, ids, before), ids, before),
               SelectRemediationActions(failure.reason))

\* deploy: the answer, and the map it leaves.
Deploy(deployed, request, ids, failures) ==
    IF ~ValidateDeploymentRequest(request)
    THEN Failed(deployed, <<"retry_deployment">>)
    ELSE IF failures = {} THEN PlaceBatch(deployed, request, ids)
    ELSE FailBatch(deployed, request, ids, CHOOSE failure \in failures : TRUE)

Undeploy(deployed, id) == Restrict(deployed, DOMAIN deployed \ {id})

GetDeploymentStatus(deployed, id) ==
    IF id \in DOMAIN deployed THEN "active" ELSE "not_found"
=============================================================================
