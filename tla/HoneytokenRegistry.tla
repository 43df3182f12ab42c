------------------------- MODULE HoneytokenRegistry -------------------------
(***************************************************************************)
(* createHoneytokenRegistry (agent/registry.ts).  The registry is a Map:   *)
(* its entries stay in the order in which their ids were first added, and  *)
(* an id has one entry.  It is represented by the sequence that getAll     *)
(* returns; the operators give the registry after a call, or the answer    *)
(* of a query.                                                             *)
(***************************************************************************)
EXTENDS SequenceFilter

Ids(entries) == {entries[i].id : i \in DOMAIN entries}

EmptyRegistry == << >>

\* Map.set: a known id keeps its place.
AddEntry(entries, entry) ==
    IF entry.id \in Ids(entries)
    THEN [i \in DOMAIN entries |-> IF entries[i].id = entry.id THEN entry ELSE entries[i]]
    ELSE Append(entries, entry)

UpdateStatus(entries, id, status) ==
    [i \in DOMAIN entries |->
        IF entries[i].id = id THEN [entries[i] EXCEPT !.status = status] ELSE entries[i]]

RecordAccess(entries, id, timestamp) ==
    [i \in DOMAIN entries |->
        IF entries[i].id = id
        THEN [entries[i] EXCEPT !.lastAccess = timestamp, !.accessCount = @ + 1]
        ELSE entries[i]]

Remove(entries, id) ==
    KeepIn(entries, {entry \in Range(entries) : entry.id # id})

GetById(entries, id) == {entry \in Range(entries) : entry.id = id}

GetByPod(entries, pod) ==
    KeepIn(entries, {entry \in Range(entries) : entry.pod = pod})

GetByNamespace(entries, namespace) ==
    KeepIn(entries, {entry \in Range(entries) : entry.namespace = namespace})

GetActive(entries) ==
    KeepIn(entries, {entry \in Range(entries) : entry.status = "active"})

---------------------------------------------------------------------------
\* Where an access is looked up: the entries for a path of a pod.
PlacedAt(entries, pod, path) ==
    {i \in DOMAIN entries : entries[i].pod = pod /\ entries[i].path = path}

\* registry.getAll().find: the first of them.
FirstPlacedAt(entries, pod, path) ==
    CHOOSE i \in PlacedAt(entries, pod, path) :
        \A j \in PlacedAt(entries, pod, path) : i <= j
===========================================================================
