---------------------------- MODULE EventBuffer ----------------------------
(***************************************************************************)
(* createEventBuffer (tetragon/event-buffer.ts): a circular buffer of      *)
(* access events.  Its methods are synchronous; the operators below are    *)
(* the state changes that EventForwarder makes inside its own steps.       *)
(***************************************************************************)
EXTENDS Integers, Sequences

CONSTANTS
    Events,     \* access events
    Capacity,   \* maxCapacity
    Undefined   \* an empty slot

\* The constructor throws unless the capacity is a positive integer.
ASSUME BufferAssumption == Capacity \in Nat \ {0} /\ Undefined \notin Events

VARIABLES
    buffer,         \* the circular array
    head,           \* index of the oldest element
    size,           \* number of elements
    overflowCount   \* elements overwritten since the last clear()

bufferVars == <<buffer, head, size, overflowCount>>

BufferTypeOK ==
    /\ buffer \in [0 .. Capacity - 1 -> Events \cup {Undefined}]
    /\ head \in 0 .. Capacity - 1
    /\ size \in 0 .. Capacity
    /\ overflowCount \in Nat

BufferInit ==
    /\ buffer = [i \in 0 .. Capacity - 1 |-> Undefined]
    /\ head = 0
    /\ size = 0
    /\ overflowCount = 0

IsFull == size = Capacity

\* Fault: the newest element goes one slot too far.
InsertIndexTooFar == (head + size + 1) % Capacity

InsertIndex == (head + size) % Capacity

\* Fault: overwriting the oldest element still makes the buffer larger.
OverwriteGrowing(e) ==
    /\ IsFull
    /\ buffer' = [buffer EXCEPT ![head] = e]
    /\ head' = (head + 1) % Capacity
    /\ size' = size + 1
    /\ overflowCount' = overflowCount + 1

InsertIntoFree(e) ==
    /\ ~IsFull
    /\ buffer' = [buffer EXCEPT ![InsertIndex] = e]
    /\ size' = size + 1
    /\ UNCHANGED <<head, overflowCount>>

OverwriteOldest(e) ==
    /\ IsFull
    /\ buffer' = [buffer EXCEPT ![head] = e]
    /\ head' = (head + 1) % Capacity
    /\ overflowCount' = overflowCount + 1
    /\ UNCHANGED size

Add(e) == InsertIntoFree(e) \/ OverwriteOldest(e)

Clear ==
    /\ buffer' = [i \in 0 .. Capacity - 1 |-> Undefined]
    /\ head' = 0
    /\ size' = 0
    /\ overflowCount' = 0

\* The elements from the oldest to the newest.
GetAll == [k \in 1 .. size |-> buffer[(head + k - 1) % Capacity]]

Fifo == INSTANCE BoundedFifo WITH queue <- GetAll, dropped <- overflowCount

\* The circular array with its head and size is a bounded first-in first-out
\* queue that gives up its oldest element when it is full.
ImplementsBoundedFifo == Fifo!Spec
===========================================================================
