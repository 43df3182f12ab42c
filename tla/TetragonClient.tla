-------------------------- MODULE TetragonClient ---------------------------
(***************************************************************************)
(* The client of Tetragon's event stream (tetragon/tetragon-client.ts).    *)
(* An error or the end of a stream schedules one reconnection; the         *)
(* handlers of a stream are never detached, so a stream that was replaced  *)
(* or cancelled may report once more.  maxReconnectAttempts is not used.   *)
(*                                                                         *)
(* The gRPC stream is injected: what it may report, and when, is external. *)
(* The mode without one (simulation) has no events and is left out.        *)
(***************************************************************************)
EXTENDS Naturals, FiniteSets

CONSTANTS
    Streams,        \* names for streams; a stream that is over gives its name back
    NoStream

ASSUME StreamAssumption ==
    NoStream \notin Streams /\ IsFiniteSet(Streams)

VARIABLES
    connected,
    stream,
    reconnectTimer,     \* the timer is pending
    streamState,        \* "unopened", "live", "over" or "cancelled"
    wanted,             \* history: connect() returned and disconnect() was not called since
    lateReport          \* history: a stream reported after it was over or cancelled

clientVars == <<connected, stream, reconnectTimer, streamState, wanted, lateReport>>

---------------------------------------------------------------------------
ClientInit ==
    /\ connected = FALSE
    /\ stream = NoStream
    /\ reconnectTimer = FALSE
    /\ streamState = [s \in Streams |-> "unopened"]
    /\ wanted = FALSE /\ lateReport = FALSE

Live == {s \in Streams : streamState[s] = "live"}

\* connect() when not connected and grpcConnect returns a stream.
OpenStream ==
    \E s \in Streams \ Live :
        /\ stream' = s
        /\ streamState' = [streamState EXCEPT ![s] = "live"]
        /\ connected' = TRUE

\* Fault: connect() does not look whether there is a connection.
ConnectAgain ==
    /\ OpenStream
    /\ wanted' = TRUE
    /\ UNCHANGED <<reconnectTimer, lateReport>>

\* connect() by its user; it rejects and changes nothing if grpcConnect throws.
Connect ==
    /\ IF connected THEN UNCHANGED <<connected, stream, streamState>> ELSE OpenStream
    /\ wanted' = TRUE
    /\ UNCHANGED <<reconnectTimer, lateReport>>

\* Fault: the timer is cleared but the stream is left open.
DisconnectLeavingStream ==
    /\ connected' = FALSE
    /\ reconnectTimer' = FALSE
    /\ stream' = NoStream
    /\ wanted' = FALSE
    /\ UNCHANGED <<streamState, lateReport>>

\* Only the current stream is cancelled.
Disconnect ==
    /\ connected' = FALSE
    /\ reconnectTimer' = FALSE
    /\ streamState' = [s \in Streams |-> IF s = stream THEN "cancelled" ELSE streamState[s]]
    /\ stream' = NoStream
    /\ wanted' = FALSE
    /\ UNCHANGED lateReport

\* Fault: no reconnection is scheduled.
LoseConnectionQuietly ==
    /\ connected' = FALSE
    /\ UNCHANGED reconnectTimer

\* The handlers of onError and onEnd.
LoseConnection ==
    /\ connected' = FALSE
    /\ reconnectTimer' = TRUE

StreamEnds(s) ==
    /\ s \in Live
    /\ LoseConnection
    /\ streamState' = [streamState EXCEPT ![s] = "over"]
    /\ UNCHANGED <<stream, wanted, lateReport>>

\* A stream emits its end after its error, or the error of its cancellation.
ReportsAgain(s) ==
    /\ streamState[s] \in {"over", "cancelled"}
    /\ LoseConnection
    /\ lateReport' = TRUE
    /\ UNCHANGED <<stream, streamState, wanted>>

TimerConnects ==
    /\ reconnectTimer /\ ~connected
    /\ reconnectTimer' = FALSE
    /\ OpenStream
    /\ UNCHANGED <<wanted, lateReport>>

\* Fault: a reconnection that fails is not tried again.
ReconnectGivesUp ==
    /\ reconnectTimer
    /\ reconnectTimer' = FALSE
    /\ UNCHANGED <<connected, stream, streamState, wanted, lateReport>>

\* A user connected meanwhile and the timer finds nothing to do, or grpcConnect
\* throws and the timer is set again, which changes nothing.
TimerFindsConnection ==
    /\ reconnectTimer /\ connected
    /\ reconnectTimer' = FALSE
    /\ UNCHANGED <<connected, stream, streamState, wanted, lateReport>>

ClientNext ==
    \/ Connect \/ Disconnect
    \/ \E s \in Streams : StreamEnds(s) \/ ReportsAgain(s)
    \/ TimerConnects \/ TimerFindsConnection

---------------------------------------------------------------------------
ClientTypeOK ==
    /\ connected \in BOOLEAN /\ reconnectTimer \in BOOLEAN
    /\ stream \in Streams \cup {NoStream}
    /\ streamState \in [Streams -> {"unopened", "live", "over", "cancelled"}]
    /\ wanted \in BOOLEAN /\ lateReport \in BOOLEAN

\* A client that is to be connected is connected or will try again: no order of
\* failures, reconnections and calls of connect() leaves it without both.
LostConnectionIsRetried ==
    wanted => connected \/ reconnectTimer

\* A second live stream, or any stream or timer after disconnect(), goes back to a
\* stream that reported after it was over.
OnlyLateReportsAddStreams ==
    ~lateReport => /\ Cardinality(Live) <= 1
                   /\ ~wanted => Live = {} /\ ~reconnectTimer

---------------------------------------------------------------------------
\* connected is never said of a stream that is over.
ConnectedIsLive ==
    connected => stream \in Live

\* Without late reports, the current stream is the only one that can be live, it
\* is while the client is connected, and both end with disconnect().
OneStream ==
    ~lateReport => /\ Live \subseteq {stream}
                   /\ ~connected => Live = {}
                   /\ ~wanted => ~connected /\ ~reconnectTimer

ClientInv ==
    /\ ClientTypeOK
    /\ LostConnectionIsRetried
    /\ ConnectedIsLive
    /\ OneStream
===========================================================================
