-------------------------- MODULE TetragonMonitor --------------------------
(***************************************************************************)
(* createTetragonMonitor and validateAccessEvent (tetragon/monitor.ts), as *)
(* operators on the set of registered paths.  The key under which a path   *)
(* is kept names all of its fields, so a path is its own key.  The running *)
(* flag is never read, and getBufferStatus is a constant.                  *)
(*                                                                         *)
(* A text is Blank or not, and of a timestamp the text, the date it parses *)
(* to and its milliseconds may be missing.                                 *)
(***************************************************************************)
EXTENDS Integers

CONSTANTS
    Texts,      \* texts that hold more than white space
    Blank       \* any other text

AccessTypes == {"open", "read", "write", "stat"}

Timestamps == [isDate : BOOLEAN, hasMilliseconds : BOOLEAN]

AccessEventParams ==
    [processId : Int, processBinaryPath : Texts \cup {Blank}, userId : Int,
     podId : Texts \cup {Blank}, namespace : Texts \cup {Blank},
     honeytokenPath : Texts \cup {Blank}, accessType : AccessTypes]

---------------------------------------------------------------------------
RegisterHoneytokenPath(paths, path) == paths \cup {path}

UnregisterHoneytokenPath(paths, path) == paths \ {path}

\* The id is a fresh uuid, and toISOString always gives milliseconds.
GenerateAccessEvent(params, uuid) ==
    [eventId |-> uuid,
     processId |-> params.processId,
     processBinaryPath |-> params.processBinaryPath,
     userId |-> params.userId,
     podId |-> params.podId,
     namespace |-> params.namespace,
     honeytokenPath |-> params.honeytokenPath,
     accessType |-> params.accessType,
     timestamp |-> [isDate |-> TRUE, hasMilliseconds |-> TRUE]]

IsValidIso8601WithMs(timestamp) == timestamp.isDate /\ timestamp.hasMilliseconds

ValidateAccessEvent(event) ==
    /\ event.processId > 0
    /\ event.userId >= 0
    /\ Blank \notin {event.eventId, event.processBinaryPath, event.podId,
                     event.namespace, event.honeytokenPath}
    /\ event.accessType \in AccessTypes
    /\ IsValidIso8601WithMs(event.timestamp)
=============================================================================
