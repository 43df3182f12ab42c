-------------------------- MODULE BoundedDelivery --------------------------
(***************************************************************************)
(* What an ingestion client promises about the items pushed to it,         *)
(* whatever its buffers, batches and timers do: an item is held until an   *)
(* attempt is acknowledged or until Limit attempts have failed; a failed   *)
(* attempt may still have reached the API, so up to Limit copies of an     *)
(* item arrive; an acknowledged item has arrived; a settled item is never  *)
(* attempted again.                                                        *)
(***************************************************************************)
EXTENDS Integers

CONSTANTS Items, Limit

VARIABLES
    status,     \* where each item is: "new", "held", "confirmed", "discarded"
    failures,   \* failed attempts of each item
    copies      \* copies of each item that arrived

deliveryVars == <<status, failures, copies>>

Init ==
    /\ status = [i \in Items |-> "new"]
    /\ failures = [i \in Items |-> 0]
    /\ copies = [i \in Items |-> 0]

Accept(i) ==
    /\ status[i] = "new"
    /\ status' = [status EXCEPT ![i] = "held"]
    /\ UNCHANGED <<failures, copies>>

\* One copy of each item of a batch arrives, one per attempt.
Arrive(batch) ==
    /\ \A i \in batch : status[i] = "held" /\ copies[i] <= failures[i]
    /\ copies' = [i \in Items |-> copies[i] + IF i \in batch THEN 1 ELSE 0]
    /\ UNCHANGED <<status, failures>>

Acknowledge(batch) ==
    /\ \A i \in batch : status[i] = "held" /\ copies[i] > 0
    /\ status' = [i \in Items |-> IF i \in batch THEN "confirmed" ELSE status[i]]
    /\ UNCHANGED <<failures, copies>>

\* An attempt failed; the items that have used up Limit attempts are given up.
Fail(batch) ==
    /\ \A i \in batch : status[i] = "held"
    /\ failures' = [i \in Items |-> failures[i] + IF i \in batch THEN 1 ELSE 0]
    /\ status' = [i \in Items |->
                    IF i \in batch /\ failures[i] + 1 >= Limit
                    THEN "discarded" ELSE status[i]]
    /\ UNCHANGED copies

Next ==
    \/ \E i \in Items : Accept(i)
    \/ \E batch \in SUBSET Items :
          Arrive(batch) \/ Acknowledge(batch) \/ Fail(batch)

Spec == Init /\ [][Next]_deliveryVars
===========================================================================
