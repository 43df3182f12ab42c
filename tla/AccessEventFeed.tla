-------------------------- MODULE AccessEventFeed --------------------------
(***************************************************************************)
(* createAccessEventFeed (dynatrace-ingestion/access-event-feed.ts): the   *)
(* most recent access events, in a circular array of fixed capacity, which *)
(* the constructor requires to be a positive integer.                      *)
(***************************************************************************)
EXTENDS Integers, Sequences

CONSTANTS Capacity, Vacant

Feeds(Events) ==
    [buffer : [0 .. Capacity - 1 -> Events \cup {Vacant}],
     head : 0 .. Capacity - 1,  \* where the oldest event is
     size : 0 .. Capacity]

CreateAccessEventFeed ==
    [buffer |-> [i \in 0 .. Capacity - 1 |-> Vacant], head |-> 0, size |-> 0]

AddEvent(feed, event) ==
    IF feed.size < Capacity
    THEN [feed EXCEPT !.buffer[(feed.head + feed.size) % Capacity] = event, !.size = @ + 1]
    ELSE [feed EXCEPT !.buffer[feed.head] = event, !.head = (@ + 1) % Capacity]

GetRecentEvents(feed, count) ==
    [i \in 1 .. IF count <= feed.size THEN count ELSE feed.size |->
        feed.buffer[(feed.head + feed.size - i) % Capacity]]
=============================================================================
