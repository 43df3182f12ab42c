------------------------ MODULE EventForwarderProofs ------------------------
(***************************************************************************)
(* For every capacity of the buffer and any number of events, calls and    *)
(* retries: the circular array is a bounded queue, and the forwarder loses *)
(* an event only where OnlyClearLosesEvents says.                          *)
(***************************************************************************)
EXTENDS EventForwarder, SequenceFilterLemmas

---------------------------------------------------------------------------
(* The circular buffer                                                     *)

LEMMA AsFunction ==
  ASSUME NEW S, NEW s \in Seq(S), NEW n, Len(s) = n
  PROVE  s = [k \in 1 .. n |-> s[k]]
OBVIOUS

\* The elements of the array, from head on, are in slots of their own.
LEMMA Slots ==
  ASSUME NEW h \in 0 .. Capacity - 1, NEW i \in 1 .. Capacity, NEW j \in 1 .. Capacity
  PROVE  /\ (h + i - 1) % Capacity \in 0 .. Capacity - 1
         /\ (h + i - 1) % Capacity = (h + j - 1) % Capacity => i = j
<1>1. Capacity \in Nat \ {0} /\ h \in Nat /\ i \in Nat /\ j \in Nat
  BY BufferAssumption
<1>2. h + i - 1 \in 0 .. (2 * Capacity - 1) /\ h + j - 1 \in 0 .. (2 * Capacity - 1)
  BY <1>1
<1>3. (h + i - 1) % Capacity = IF h + i - 1 < Capacity THEN h + i - 1
                               ELSE h + i - 1 - Capacity
  BY <1>1, <1>2, SMT
<1>4. (h + j - 1) % Capacity = IF h + j - 1 < Capacity THEN h + j - 1
                               ELSE h + j - 1 - Capacity
  BY <1>1, <1>2, SMT
<1> QED BY <1>1, <1>3, <1>4

\* Besides its types, every slot in use holds an event.
BufferInv == BufferTypeOK /\ GetAll \in Seq(Events)

LEMMA QueueLength ==
  ASSUME BufferInv
  PROVE  /\ Len(GetAll) = size /\ size \in Nat /\ size <= Capacity /\ DOMAIN GetAll = 1 .. size
         /\ \A k \in 1 .. size : GetAll[k] = buffer[(head + k - 1) % Capacity]
<1>1. size \in Nat /\ size <= Capacity
  BY BufferAssumption DEF BufferInv, BufferTypeOK
<1>2. GetAll = [k \in 1 .. size |-> buffer[(head + k - 1) % Capacity]]
  BY DEF GetAll
<1> HIDE DEF GetAll
<1>3. DOMAIN GetAll = 1 .. size /\ Len(GetAll) = size
  <2>1. DOMAIN GetAll = 1 .. size
    BY <1>2
  <2>2. Len(GetAll) \in Nat /\ DOMAIN GetAll = 1 .. Len(GetAll)
    BY DEF BufferInv
  <2> QED BY <1>1, <2>1, <2>2
<1> QED BY <1>1, <1>2, <1>3

LEMMA InsertAppends ==
  ASSUME BufferInv, NEW e \in Events, InsertIntoFree(e)
  PROVE  BufferInv' /\ GetAll' = Append(GetAll, e)
<1>1. /\ Capacity \in Nat \ {0} /\ head \in 0 .. Capacity - 1
      /\ size \in Nat /\ size + 1 \in 1 .. Capacity
  BY BufferAssumption DEF BufferInv, BufferTypeOK, InsertIntoFree, IsFull
<1>2. (head + (size + 1)) - 1 = head + size
  BY <1>1
<1>3. InsertIndex = (head + (size + 1) - 1) % Capacity /\ InsertIndex \in 0 .. Capacity - 1
  BY <1>1, <1>2, Slots DEF InsertIndex
<1>4. /\ buffer' = [buffer EXCEPT ![InsertIndex] = e] /\ size' = size + 1
      /\ head' = head /\ overflowCount' = overflowCount
  BY DEF InsertIntoFree
<1>5. BufferTypeOK'
  BY <1>1, <1>3, <1>4 DEF BufferInv, BufferTypeOK
<1>6. ASSUME NEW k \in 1 .. size + 1
      PROVE  buffer'[(head + k - 1) % Capacity] = Append(GetAll, e)[k]
  <2>1. k \in 1 .. Capacity /\ k \in Nat
    BY <1>1
  <2>2. (head + k - 1) % Capacity \in 0 .. Capacity - 1
    BY <1>1, <2>1, Slots
  <2>3. CASE k = size + 1
    <3>1. buffer'[(head + k - 1) % Capacity] = e
      BY <1>3, <1>4, <2>3 DEF BufferInv, BufferTypeOK
    <3>2. Append(GetAll, e)[k] = e
      BY <2>3, QueueLength DEF BufferInv
    <3> QED BY <3>1, <3>2
  <2>4. CASE k # size + 1
    <3>1. k \in 1 .. size
      BY <1>1, <2>1, <2>4
    <3>2. (head + k - 1) % Capacity # InsertIndex
      BY <1>1, <1>3, <2>1, <2>4, Slots
    <3>3. buffer'[(head + k - 1) % Capacity] = buffer[(head + k - 1) % Capacity]
      BY <1>4, <2>2, <3>2 DEF BufferInv, BufferTypeOK
    <3>4. Append(GetAll, e)[k] = GetAll[k]
      BY <3>1, QueueLength DEF BufferInv
    <3> QED BY <3>1, <3>3, <3>4, QueueLength
  <2> QED BY <2>3, <2>4
<1>7. GetAll' = [k \in 1 .. size + 1 |-> Append(GetAll, e)[k]]
  <2>1. GetAll' = [k \in 1 .. size + 1 |-> buffer'[(head + k - 1) % Capacity]]
    BY <1>4 DEF GetAll
  <2> QED BY <1>6, <2>1
<1>8. Append(GetAll, e) \in Seq(Events) /\ Len(Append(GetAll, e)) = size + 1
  BY QueueLength DEF BufferInv
<1>9. Append(GetAll, e) = [k \in 1 .. size + 1 |-> Append(GetAll, e)[k]]
  BY <1>8, AsFunction
<1> QED BY <1>5, <1>7, <1>8, <1>9 DEF BufferInv

LEMMA OverwriteRotates ==
  ASSUME BufferInv, NEW e \in Events, OverwriteOldest(e)
  PROVE  BufferInv' /\ GetAll' = Append(Tail(GetAll), e)
<1>1. /\ Capacity \in Nat \ {0} /\ head \in 0 .. Capacity - 1 /\ size = Capacity
      /\ overflowCount \in Nat
  BY BufferAssumption DEF BufferInv, BufferTypeOK, OverwriteOldest, IsFull
<1>2. head + 1 \in 0 .. (2 * Capacity - 1)
  BY <1>1
<1>3. (head + 1) % Capacity = IF head + 1 < Capacity THEN head + 1 ELSE head + 1 - Capacity
  BY <1>1, <1>2, SMT
<1>4. /\ buffer' = [buffer EXCEPT ![head] = e] /\ head' = (head + 1) % Capacity
      /\ overflowCount' = overflowCount + 1 /\ size' = size
  BY DEF OverwriteOldest
<1>5. head' \in 0 .. Capacity - 1
  BY <1>1, <1>3, <1>4
<1>6. BufferTypeOK'
  BY <1>1, <1>4, <1>5 DEF BufferInv, BufferTypeOK
<1>7. /\ Tail(GetAll) \in Seq(Events) /\ Len(Tail(GetAll)) = Capacity - 1
      /\ \A k \in 1 .. Capacity - 1 : Tail(GetAll)[k] = GetAll[k + 1]
  <2>1. GetAll \in Seq(Events) /\ Len(GetAll) = Capacity /\ Capacity >= 1
    BY <1>1, QueueLength DEF BufferInv
  <2> QED BY <2>1
<1>8. ASSUME NEW k \in 1 .. Capacity
      PROVE  buffer'[(head' + k - 1) % Capacity] = Append(Tail(GetAll), e)[k]
  <2>1. PICK h \in 0 .. Capacity - 1 : h = head'
    BY <1>5
  <2>2. k \in Nat /\ h + k - 1 \in 0 .. (2 * Capacity - 1) /\ h \in Nat
    BY <1>1
  <2>3. (h + k - 1) % Capacity = IF h + k - 1 < Capacity THEN h + k - 1
                                     ELSE h + k - 1 - Capacity
    BY <1>1, <2>2, SMT
  <2>4. CASE k = Capacity
    <3>1. (h + k - 1) % Capacity = head
      BY <1>1, <1>3, <1>4, <2>1, <2>2, <2>3, <2>4
    <3>2. Append(Tail(GetAll), e)[k] = e
      BY <1>1, <1>7, <2>4
    <3> QED BY <1>1, <1>4, <2>1, <3>1, <3>2 DEF BufferInv, BufferTypeOK
  <2>5. CASE k # Capacity
    <3>1. k + 1 \in 1 .. Capacity /\ k \in 1 .. Capacity - 1 /\ head + (k + 1) - 1 \in 0 .. (2 * Capacity - 1)
      BY <1>1, <2>2, <2>5
    <3>2. (head + (k + 1) - 1) % Capacity =
            IF head + (k + 1) - 1 < Capacity THEN head + (k + 1) - 1
            ELSE head + (k + 1) - 1 - Capacity
      BY <1>1, <3>1, SMT
    <3>3. (h + k - 1) % Capacity = (head + (k + 1) - 1) % Capacity
      BY <1>1, <1>3, <1>4, <2>1, <2>2, <2>3, <2>5, <3>2
    <3>4. (head + (k + 1) - 1) % Capacity # head /\ (head + (k + 1) - 1) % Capacity \in 0 .. Capacity - 1
      BY <1>1, <2>2, <3>1, <3>2
    <3>5. buffer'[(head' + k - 1) % Capacity] = buffer[(head + (k + 1) - 1) % Capacity]
      BY <1>4, <2>1, <3>3, <3>4 DEF BufferInv, BufferTypeOK
    <3>6. GetAll[k + 1] = buffer[(head + (k + 1) - 1) % Capacity]
      BY <1>1, <3>1, QueueLength
    <3>7. Append(Tail(GetAll), e)[k] = Tail(GetAll)[k]
      BY <1>7, <3>1
    <3> QED BY <1>7, <3>1, <3>5, <3>6, <3>7
  <2> QED BY <2>4, <2>5
<1>9. GetAll' = [k \in 1 .. Capacity |-> Append(Tail(GetAll), e)[k]]
  <2>1. GetAll' = [k \in 1 .. Capacity |-> buffer'[(head' + k - 1) % Capacity]]
    BY <1>1, <1>4 DEF GetAll
  <2> QED BY <1>8, <2>1
<1>10. Append(Tail(GetAll), e) \in Seq(Events) /\ Len(Append(Tail(GetAll), e)) = Capacity
  BY <1>1, <1>7
<1>11. Append(Tail(GetAll), e) = [k \in 1 .. Capacity |-> Append(Tail(GetAll), e)[k]]
  BY <1>10, AsFunction
<1> QED BY <1>6, <1>9, <1>10, <1>11 DEF BufferInv

LEMMA ClearEmpties ==
  ASSUME BufferInv, Clear
  PROVE  BufferInv' /\ GetAll' = << >>
<1>1. Capacity \in Nat \ {0}
  BY BufferAssumption
<1>2. BufferTypeOK'
  BY <1>1 DEF Clear, BufferTypeOK
<1>3. GetAll' = << >>
  BY DEF Clear, GetAll
<1> QED BY <1>2, <1>3 DEF BufferInv

LEMMA InitEmpty ==
  ASSUME BufferInit
  PROVE  BufferInv /\ GetAll = << >>
<1>1. Capacity \in Nat \ {0}
  BY BufferAssumption
<1>2. BufferTypeOK
  BY <1>1 DEF BufferInit, BufferTypeOK
<1>3. GetAll = << >>
  BY DEF BufferInit, GetAll
<1> QED BY <1>2, <1>3 DEF BufferInv

LEMMA BufferStays ==
  ASSUME BufferInv, UNCHANGED bufferVars
  PROVE  BufferInv' /\ GetAll' = GetAll
BY DEF BufferInv, BufferTypeOK, GetAll, bufferVars

\* A full buffer's oldest element is the one under head.
LEMMA OldestIsHead ==
  ASSUME BufferInv, IsFull
  PROVE  GetAll # << >> /\ Head(GetAll) = buffer[head] /\ buffer[head] \in Events
<1>1. Capacity \in Nat \ {0} /\ size = Capacity /\ head \in 0 .. Capacity - 1
  BY BufferAssumption DEF IsFull, BufferInv, BufferTypeOK
<1>2. Len(GetAll) = Capacity /\ GetAll \in Seq(Events)
  BY <1>1, QueueLength DEF BufferInv
<1>3. GetAll # << >> /\ Head(GetAll) = GetAll[1] /\ GetAll[1] \in Events
  BY <1>1, <1>2
<1>4. GetAll[1] = buffer[(head + 1 - 1) % Capacity]
  BY <1>1, QueueLength
<1>5. head \in 0 .. (2 * Capacity - 1) /\ head + 1 - 1 = head
  BY <1>1
<1>6. head % Capacity = head
  BY <1>1, <1>5, SMT
<1> QED BY <1>3, <1>4, <1>5, <1>6

\* add() stores its event and gives up at most the oldest of a full buffer.
LEMMA AddKeeps ==
  ASSUME BufferInv, NEW e \in Events, Add(e)
  PROVE  /\ BufferInv'
         /\ e \in Range(GetAll')
         /\ \A x \in Range(GetAll) : x \in Range(GetAll') \/ (IsFull /\ x = buffer[head])
<1>1. CASE InsertIntoFree(e)
  <2>1. BufferInv' /\ GetAll' = Append(GetAll, e) /\ GetAll \in Seq(Events)
    BY <1>1, InsertAppends DEF BufferInv
  <2>2. Range(GetAll') = Range(GetAll) \cup {e}
    BY <2>1, AppendElements
  <2> QED BY <2>1, <2>2
<1>2. CASE OverwriteOldest(e)
  <2>1. BufferInv' /\ GetAll' = Append(Tail(GetAll), e) /\ IsFull /\ GetAll \in Seq(Events)
    BY <1>2, OverwriteRotates DEF BufferInv, OverwriteOldest
  <2>2. GetAll # << >> /\ Head(GetAll) = buffer[head]
    BY <2>1, OldestIsHead
  <2>3. Tail(GetAll) \in Seq(Events) /\ Range(GetAll) = {buffer[head]} \cup Range(Tail(GetAll))
    BY <2>1, <2>2, TailElements
  <2>4. Range(GetAll') = Range(Tail(GetAll)) \cup {e}
    <3>1. PICK t \in Seq(Events) : t = Tail(GetAll)
      BY <2>3
    <3>2. Range(Append(t, e)) = Range(t) \cup {e}
      BY AppendElements
    <3> QED BY <2>1, <3>1, <3>2
  <2> QED BY <2>1, <2>3, <2>4
<1> QED BY <1>1, <1>2 DEF Add

---------------------------------------------------------------------------
(* The parts of a step                                                     *)

PcValues == {"idle", "first", "warn", "drain", "retry", "sleep", "done"}

CallsOK ==
    /\ pc \in [Events -> PcValues]
    /\ tries \in [Events -> 0 .. MaxRetries]
    /\ toDrain \in [Events -> Seq(Events)]
    /\ \A c \in Events : pc[c] = "drain" <=> toDrain[c] # << >>
    /\ \A c \in Events : pc[c] = "sleep" => tries[c] < MaxRetries

HistoryOK ==
    /\ pendingOverflowWarning \in BOOLEAN
    /\ arrived \subseteq Events
    /\ evicted \subseteq Events
    /\ wiped \subseteq Events
    /\ unreported \in BOOLEAN
    /\ overlapped \in BOOLEAN

Accounted == arrived \cup Range(GetAll) \cup evicted \cup wiped

LEMMA PartsOfIInv ==
  IInv <=> BufferInv /\ CallsOK /\ HistoryOK /\ EventsAreAccountedFor /\ CallsTakeTurns
BY DEF IInv, TypeOK, BufferInv, CallsOK, HistoryOK, PcValues

LEMMA PartsOfIInvNext ==
  IInv' <=> BufferInv' /\ CallsOK' /\ HistoryOK' /\ EventsAreAccountedFor' /\ CallsTakeTurns'
BY DEF IInv, TypeOK, BufferInv, CallsOK, HistoryOK, PcValues

\* One call moves on, the others stay.
LEMMA CallMoves ==
  ASSUME CallsOK, NEW c \in Events, NEW p \in PcValues, NEW n \in 0 .. MaxRetries,
         NEW s \in Seq(Events),
         p = "drain" <=> s # << >>, p = "sleep" => n < MaxRetries,
         pc' = [pc EXCEPT ![c] = p], tries' = [tries EXCEPT ![c] = n],
         toDrain' = [toDrain EXCEPT ![c] = s]
  PROVE  CallsOK'
BY DEF CallsOK

\* What was accounted for stays so.
LEMMA AccountsKept ==
  ASSUME CallsOK, EventsAreAccountedFor, NEW c \in Events, NEW p,
         pc' = [pc EXCEPT ![c] = p], Accounted \subseteq Accounted',
         p \in {"idle", "first"} \/ c \in Accounted'
  PROVE  EventsAreAccountedFor'
BY DEF CallsOK, EventsAreAccountedFor, Accounted

\* When calls do not overlap, a call that moves on is the only active one.
LEMMA TurnsKept ==
  ASSUME CallsOK, CallsTakeTurns, NEW c \in Active, NEW p, overlapped' = overlapped,
         pc' = [pc EXCEPT ![c] = p],
         ~overlapped =>
            /\ wiped' = {}
            /\ unreported' => pendingOverflowWarning'
            /\ p = "warn" => ~unreported'
            /\ p = "drain" => Range(GetAll') \subseteq arrived' \cup Range(toDrain'[c])
  PROVE  CallsTakeTurns'
<1> SUFFICES ASSUME ~overlapped'
             PROVE  /\ \A d, e \in Active' : d = e
                    /\ wiped' = {}
                    /\ unreported' => pendingOverflowWarning'
                    /\ \A d \in Events :
                          /\ pc'[d] = "warn" => ~unreported'
                          /\ pc'[d] = "drain" => Range(GetAll') \subseteq arrived' \cup Range(toDrain'[d])
  BY Zenon DEF CallsTakeTurns
<1>1. ~overlapped
  OBVIOUS
<1>2. \A d \in Events : d # c => pc'[d] \in {"idle", "done"}
  <2>1. \A d, e \in Active : d = e
    BY <1>1 DEF CallsTakeTurns
  <2>2. \A d \in Events : d # c => pc[d] \in {"idle", "done"}
    BY <2>1 DEF Active
  <2> QED BY <2>2 DEF CallsOK, Active
<1>3. c \in Events /\ pc'[c] = p
  BY DEF Active, CallsOK
<1>4. \A d, e \in Active' : d = e
  BY <1>2 DEF Active
<1> QED BY <1>1, <1>2, <1>3, <1>4

---------------------------------------------------------------------------
(* The inductive invariant                                                 *)

THEOREM InitIInv == Init => IInv
<1> SUFFICES ASSUME Init PROVE IInv
  OBVIOUS
<1>1. BufferInv /\ GetAll = << >>
  BY InitEmpty DEF Init
<1>2. CallsOK
  BY ForwarderAssumption DEF Init, CallsOK, PcValues
<1>3. HistoryOK /\ EventsAreAccountedFor /\ CallsTakeTurns
  BY DEF Init, HistoryOK, EventsAreAccountedFor, CallsTakeTurns, Active
<1> QED BY <1>1, <1>2, <1>3, PartsOfIInv

LEMMA ForwardKeepsIInv ==
  ASSUME IInv, NEW c \in Events, Forward(c)
  PROVE  IInv'
<1>1. BufferInv /\ CallsOK /\ HistoryOK /\ EventsAreAccountedFor /\ CallsTakeTurns
  BY PartsOfIInv
<1>2. /\ pc' = [pc EXCEPT ![c] = "first"]
      /\ overlapped' = (overlapped \/ Active # {})
      /\ UNCHANGED <<bufferVars, pendingOverflowWarning, tries, toDrain,
                     arrived, evicted, wiped, unreported>>
  BY DEF Forward
<1>3. BufferInv' /\ GetAll' = GetAll
  BY <1>1, <1>2, BufferStays
<1>4. CallsOK'
  BY <1>1, <1>2 DEF CallsOK, PcValues, Forward
<1>5. overlapped' \in BOOLEAN
  BY <1>2
<1>6. HistoryOK'
  BY <1>1, <1>2, <1>5 DEF HistoryOK
<1>7. EventsAreAccountedFor'
  <2>1. Accounted' = Accounted
    BY <1>2, <1>3 DEF Accounted
  <2> QED BY <1>1, <1>2, <2>1, AccountsKept
<1>8. CallsTakeTurns'
  <2>1. SUFFICES ASSUME ~overlapped' PROVE CallsTakeTurns'
    BY DEF CallsTakeTurns
  <2>2. ~overlapped /\ Active = {}
    BY <1>2, <2>1
  <2>3. \A d \in Events : d # c => pc'[d] \in {"idle", "done"}
    BY <1>1, <1>2, <2>2 DEF CallsOK, Active
  <2>4. pc'[c] = "first"
    BY <1>1, <1>2 DEF CallsOK
  <2>5. \A d, e \in Active' : d = e
    BY <2>3 DEF Active
  <2>6. wiped' = {} /\ (unreported' => pendingOverflowWarning')
    BY <1>1, <1>2, <2>2 DEF CallsTakeTurns
  <2> QED BY <2>3, <2>4, <2>5, <2>6 DEF CallsTakeTurns
<1> QED BY <1>3, <1>4, <1>6, <1>7, <1>8, PartsOfIInvNext

\* drainBuffer's start: where the call goes, and what it has to send.
LEMMA DrainStarts ==
  ASSUME BufferInv, CallsOK, NEW c \in Events, StartDrain(c), UNCHANGED tries
  PROVE  \E p \in {"done", "drain"} :
            /\ pc' = [pc EXCEPT ![c] = p]
            /\ toDrain'[c] = GetAll
            /\ CallsOK'
<1> DEFINE p == IF size = 0 THEN "done" ELSE "drain"
<1>1. pc' = [pc EXCEPT ![c] = p] /\ toDrain' = [toDrain EXCEPT ![c] = GetAll]
  BY DEF StartDrain
<1>2. p \in PcValues /\ p \in {"done", "drain"} /\ p # "sleep"
  BY DEF PcValues
<1>3. p = "drain" <=> GetAll # << >>
  <2>1. size \in Nat /\ Len(GetAll) = size /\ GetAll \in Seq(Events)
    BY QueueLength DEF BufferInv
  <2>2. GetAll = << >> <=> size = 0
    BY <2>1, EmptySeq
  <2> QED BY <2>2
<1>4. tries[c] \in 0 .. MaxRetries /\ tries' = [tries EXCEPT ![c] = tries[c]]
  BY DEF CallsOK
<1>5. GetAll \in Seq(Events)
  BY DEF BufferInv
<1> HIDE DEF p
<1>6. CallsOK'
  BY <1>1, <1>2, <1>3, <1>4, <1>5, CallMoves
<1>7. toDrain'[c] = GetAll
  BY <1>1 DEF CallsOK
<1> QED BY <1>1, <1>2, <1>6, <1>7

LEMMA AttemptSucceedsKeepsIInv ==
  ASSUME IInv, NEW c \in Events, AttemptSucceeds(c)
  PROVE  IInv'
<1>1. BufferInv /\ CallsOK /\ HistoryOK /\ EventsAreAccountedFor /\ CallsTakeTurns
  BY PartsOfIInv
<1>2. /\ pc[c] \in {"first", "retry"}
      /\ arrived' = arrived \cup {c}
      /\ AfterSuccess(c)
      /\ UNCHANGED <<bufferVars, pendingOverflowWarning, tries, evicted, wiped, overlapped>>
  BY DEF AttemptSucceeds
<1>3. BufferInv' /\ GetAll' = GetAll
  BY <1>1, <1>2, BufferStays
<1>4. c \in Active
  BY <1>2 DEF Active
<1>5. Accounted \subseteq Accounted' /\ c \in Accounted'
  BY <1>2, <1>3 DEF Accounted
<1>6. ASSUME pendingOverflowWarning, pc' = [pc EXCEPT ![c] = "warn"],
             unreported' = FALSE, UNCHANGED toDrain
      PROVE  IInv'
  <2>1. CallsOK'
    BY <1>1, <1>2, <1>6 DEF CallsOK, PcValues
  <2>2. HistoryOK'
    BY <1>1, <1>2, <1>6 DEF HistoryOK
  <2>3. EventsAreAccountedFor'
    BY <1>1, <1>5, <1>6, AccountsKept
  <2>4. ~overlapped => wiped' = {}
    BY <1>1, <1>2 DEF CallsTakeTurns
  <2>5. CallsTakeTurns'
    BY <1>1, <1>2, <1>4, <1>6, <2>4, TurnsKept
  <2> QED BY <1>3, <2>1, <2>2, <2>3, <2>5, PartsOfIInvNext
<1>7. ASSUME ~pendingOverflowWarning, StartDrain(c), UNCHANGED unreported
      PROVE  IInv'
  <2>1. PICK p \in {"done", "drain"} :
           pc' = [pc EXCEPT ![c] = p] /\ toDrain'[c] = GetAll /\ CallsOK'
    BY <1>1, <1>2, <1>7, DrainStarts
  <2>2. HistoryOK'
    BY <1>1, <1>2, <1>7 DEF HistoryOK
  <2>3. EventsAreAccountedFor'
    BY <1>1, <1>5, <2>1, AccountsKept
  <2>4. ~overlapped =>
           wiped' = {} /\ (unreported' => pendingOverflowWarning')
    BY <1>1, <1>2, <1>7 DEF CallsTakeTurns
  <2>5. Range(GetAll') \subseteq arrived' \cup Range(toDrain'[c])
    BY <1>3, <2>1
  <2>6. CallsTakeTurns'
    BY <1>1, <1>2, <1>4, <2>1, <2>4, <2>5, TurnsKept
  <2> QED BY <1>3, <2>1, <2>2, <2>3, <2>6, PartsOfIInvNext
<1> QED BY <1>2, <1>6, <1>7 DEF AfterSuccess

LEMMA FirstAttemptFailsKeepsIInv ==
  ASSUME IInv, NEW c \in Events, FirstAttemptFails(c)
  PROVE  IInv'
<1>1. BufferInv /\ CallsOK /\ HistoryOK /\ EventsAreAccountedFor /\ CallsTakeTurns
  BY PartsOfIInv
<1>2. /\ pc[c] = "first" /\ MayArrive(c) /\ Add(c) /\ FlagOverflow
      /\ evicted' = IF IsFull THEN evicted \cup {buffer[head]} ELSE evicted
      /\ unreported' = (unreported \/ IsFull)
      /\ pc' = [pc EXCEPT ![c] = "retry"]
      /\ tries' = [tries EXCEPT ![c] = 1]
      /\ UNCHANGED <<toDrain, wiped, overlapped>>
  BY DEF FirstAttemptFails
<1>3. /\ BufferInv'
      /\ c \in Range(GetAll')
      /\ \A x \in Range(GetAll) : x \in Range(GetAll') \/ (IsFull /\ x = buffer[head])
  BY <1>1, <1>2, AddKeeps
<1>4. CallsOK'
  BY <1>1, <1>2, ForwarderAssumption DEF CallsOK, PcValues
<1>5. arrived \subseteq arrived' /\ arrived' \subseteq Events
  BY <1>1, <1>2 DEF MayArrive, HistoryOK
<1>6. evicted' \subseteq Events /\ evicted \subseteq evicted'
  BY <1>1, <1>2, OldestIsHead DEF HistoryOK
<1>7. unreported' \in BOOLEAN /\ pendingOverflowWarning' \in BOOLEAN
  BY <1>2 DEF FlagOverflow
<1>8. HistoryOK'
  BY <1>1, <1>2, <1>5, <1>6, <1>7 DEF HistoryOK
<1>9. EventsAreAccountedFor'
  <2>1. c \in Accounted'
    BY <1>3 DEF Accounted
  <2>2. Accounted \subseteq Accounted'
    BY <1>2, <1>3, <1>5, <1>6 DEF Accounted
  <2> QED BY <1>1, <1>2, <2>1, <2>2, AccountsKept
<1>10. CallsTakeTurns'
  <2>1. c \in Active
    BY <1>2 DEF Active
  <2>2. ~overlapped => wiped' = {} /\ (unreported => pendingOverflowWarning)
    BY <1>1, <1>2 DEF CallsTakeTurns
  <2>3. ~overlapped => (unreported' => pendingOverflowWarning')
    BY <1>2, <2>2 DEF FlagOverflow
  <2> QED BY <1>1, <1>2, <2>1, <2>2, <2>3, TurnsKept
<1> QED BY <1>3, <1>4, <1>8, <1>9, <1>10, PartsOfIInvNext

LEMMA RetryFailsKeepsIInv ==
  ASSUME IInv, NEW c \in Events, RetryFails(c)
  PROVE  IInv'
<1>1. BufferInv /\ CallsOK /\ HistoryOK /\ EventsAreAccountedFor /\ CallsTakeTurns
  BY PartsOfIInv
<1>2. /\ pc[c] = "retry" /\ MayArrive(c)
      /\ UNCHANGED <<bufferVars, tries, toDrain, evicted, wiped, unreported, overlapped>>
  BY DEF RetryFails
<1>3. PICK p \in {"sleep", "done"} :
         /\ pc' = [pc EXCEPT ![c] = p]
         /\ p = "sleep" => tries[c] < MaxRetries
         /\ pendingOverflowWarning' \in BOOLEAN
         /\ pendingOverflowWarning => pendingOverflowWarning'
  <2>1. CASE /\ tries[c] < MaxRetries
             /\ pc' = [pc EXCEPT ![c] = "sleep"]
             /\ UNCHANGED pendingOverflowWarning
    BY <1>1, <2>1 DEF HistoryOK
  <2>2. CASE /\ pc' = [pc EXCEPT ![c] = "done"]
             /\ pendingOverflowWarning' = (pendingOverflowWarning \/ overflowCount > 0)
    <3>1. pendingOverflowWarning' \in BOOLEAN /\ (pendingOverflowWarning => pendingOverflowWarning')
      BY <2>2
    <3> QED BY <2>2, <3>1
  <2> QED BY <2>1, <2>2 DEF RetryFails
<1>4. BufferInv' /\ GetAll' = GetAll
  BY <1>1, <1>2, BufferStays
<1>5. CallsOK'
  BY <1>1, <1>2, <1>3 DEF CallsOK, PcValues
<1>6. arrived \subseteq arrived' /\ arrived' \subseteq Events
  BY <1>1, <1>2 DEF MayArrive, HistoryOK
<1>7. HistoryOK'
  BY <1>1, <1>2, <1>3, <1>6 DEF HistoryOK
<1>8. EventsAreAccountedFor'
  <2>1. Accounted \subseteq Accounted'
    BY <1>2, <1>4, <1>6 DEF Accounted
  <2>2. c \in Accounted
    BY <1>1, <1>2 DEF EventsAreAccountedFor, Accounted
  <2> QED BY <1>1, <1>3, <2>1, <2>2, AccountsKept
<1>9. CallsTakeTurns'
  <2>1. c \in Active
    BY <1>2 DEF Active
  <2>2. ~overlapped => wiped' = {} /\ (unreported' => pendingOverflowWarning')
    BY <1>1, <1>2, <1>3 DEF CallsTakeTurns
  <2> QED BY <1>1, <1>2, <1>3, <2>1, <2>2, TurnsKept
<1> QED BY <1>4, <1>5, <1>7, <1>8, <1>9, PartsOfIInvNext

LEMMA WakeUpKeepsIInv ==
  ASSUME IInv, NEW c \in Events, WakeUp(c)
  PROVE  IInv'
<1>1. BufferInv /\ CallsOK /\ HistoryOK /\ EventsAreAccountedFor /\ CallsTakeTurns
  BY PartsOfIInv
<1>2. /\ pc[c] = "sleep"
      /\ pc' = [pc EXCEPT ![c] = "retry"]
      /\ tries' = [tries EXCEPT ![c] = tries[c] + 1]
      /\ UNCHANGED <<bufferVars, pendingOverflowWarning, toDrain,
                     arrived, evicted, wiped, unreported, overlapped>>
  BY DEF WakeUp, history
<1>3. BufferInv' /\ GetAll' = GetAll
  BY <1>1, <1>2, BufferStays
<1>4. CallsOK'
  <2>1. tries[c] + 1 \in 0 .. MaxRetries
    BY <1>1, <1>2, ForwarderAssumption DEF CallsOK
  <2> QED BY <1>1, <1>2, <2>1 DEF CallsOK, PcValues
<1>5. HistoryOK'
  BY <1>1, <1>2 DEF HistoryOK
<1>6. EventsAreAccountedFor'
  <2>1. Accounted' = Accounted
    BY <1>2, <1>3 DEF Accounted
  <2>2. c \in Accounted
    BY <1>1, <1>2 DEF EventsAreAccountedFor, Accounted
  <2> QED BY <1>1, <1>2, <2>1, <2>2, AccountsKept
<1>7. CallsTakeTurns'
  <2>1. c \in Active
    BY <1>2 DEF Active
  <2>2. ~overlapped => wiped' = {} /\ (unreported' => pendingOverflowWarning')
    BY <1>1, <1>2 DEF CallsTakeTurns
  <2> QED BY <1>1, <1>2, <2>1, <2>2, TurnsKept
<1> QED BY <1>3, <1>4, <1>5, <1>6, <1>7, PartsOfIInvNext

LEMMA WarningSettlesKeepsIInv ==
  ASSUME IInv, NEW c \in Events, WarningSettles(c)
  PROVE  IInv'
<1>1. BufferInv /\ CallsOK /\ HistoryOK /\ EventsAreAccountedFor /\ CallsTakeTurns
  BY PartsOfIInv
<1>2. /\ pc[c] = "warn" /\ pendingOverflowWarning' = FALSE /\ StartDrain(c)
      /\ UNCHANGED <<bufferVars, tries, arrived, evicted, wiped, unreported, overlapped>>
  BY DEF WarningSettles, history
<1>3. BufferInv' /\ GetAll' = GetAll
  BY <1>1, <1>2, BufferStays
<1>4. PICK p \in {"done", "drain"} :
         pc' = [pc EXCEPT ![c] = p] /\ toDrain'[c] = GetAll /\ CallsOK'
  BY <1>1, <1>2, DrainStarts
<1>5. HistoryOK'
  BY <1>1, <1>2 DEF HistoryOK
<1>6. EventsAreAccountedFor'
  <2>1. Accounted' = Accounted
    BY <1>2, <1>3 DEF Accounted
  <2>2. c \in Accounted
    BY <1>1, <1>2 DEF EventsAreAccountedFor, Accounted
  <2> QED BY <1>1, <1>4, <2>1, <2>2, AccountsKept
<1>7. CallsTakeTurns'
  <2>1. c \in Active
    BY <1>2 DEF Active
  <2>2. ~overlapped => wiped' = {} /\ ~unreported'
    BY <1>1, <1>2 DEF CallsTakeTurns
  <2>3. Range(GetAll') \subseteq arrived' \cup Range(toDrain'[c])
    BY <1>3, <1>4
  <2> QED BY <1>1, <1>2, <1>4, <2>1, <2>2, <2>3, TurnsKept
<1> QED BY <1>3, <1>4, <1>5, <1>6, <1>7, PartsOfIInvNext

LEMMA DrainFailsKeepsIInv ==
  ASSUME IInv, NEW c \in Events, DrainFails(c)
  PROVE  IInv'
<1>1. BufferInv /\ CallsOK /\ HistoryOK /\ EventsAreAccountedFor /\ CallsTakeTurns
  BY PartsOfIInv
<1>2. /\ pc[c] = "drain" /\ MayArrive(Head(toDrain[c]))
      /\ toDrain' = [toDrain EXCEPT ![c] = << >>]
      /\ pc' = [pc EXCEPT ![c] = "done"]
      /\ UNCHANGED <<bufferVars, pendingOverflowWarning, tries, evicted, wiped,
                     unreported, overlapped>>
  BY DEF DrainFails
<1>3. BufferInv' /\ GetAll' = GetAll
  BY <1>1, <1>2, BufferStays
<1>4. CallsOK'
  BY <1>1, <1>2 DEF CallsOK, PcValues
<1>5. arrived \subseteq arrived' /\ arrived' \subseteq Events
  <2>1. Head(toDrain[c]) \in Events
    BY <1>1, <1>2, TailElements DEF CallsOK
  <2> QED BY <1>1, <1>2, <2>1 DEF MayArrive, HistoryOK
<1>6. HistoryOK'
  BY <1>1, <1>2, <1>5 DEF HistoryOK
<1>7. EventsAreAccountedFor'
  <2>1. Accounted \subseteq Accounted'
    BY <1>2, <1>3, <1>5 DEF Accounted
  <2>2. c \in Accounted
    BY <1>1, <1>2 DEF EventsAreAccountedFor, Accounted
  <2> QED BY <1>1, <1>2, <2>1, <2>2, AccountsKept
<1>8. CallsTakeTurns'
  <2>1. c \in Active
    BY <1>2 DEF Active
  <2>2. ~overlapped => wiped' = {} /\ (unreported' => pendingOverflowWarning')
    BY <1>1, <1>2 DEF CallsTakeTurns
  <2> QED BY <1>1, <1>2, <2>1, <2>2, TurnsKept
<1> QED BY <1>3, <1>4, <1>6, <1>7, <1>8, PartsOfIInvNext

LEMMA DrainSucceedsKeepsIInv ==
  ASSUME IInv, NEW c \in Events, DrainSucceeds(c)
  PROVE  IInv'
<1> DEFINE s == toDrain[c]
<1>1. BufferInv /\ CallsOK /\ HistoryOK /\ EventsAreAccountedFor /\ CallsTakeTurns
  BY PartsOfIInv
<1>2. /\ pc[c] = "drain" /\ arrived' = arrived \cup {Head(s)}
      /\ toDrain' = [toDrain EXCEPT ![c] = Tail(s)]
      /\ UNCHANGED <<pendingOverflowWarning, tries, evicted, unreported, overlapped>>
  BY DEF DrainSucceeds
<1>3. s \in Seq(Events) /\ s # << >> /\ c \in Active
  BY <1>1, <1>2 DEF CallsOK, Active
<1>4. /\ Head(s) \in Events /\ Tail(s) \in Seq(Events)
      /\ Range(s) = {Head(s)} \cup Range(Tail(s))
  BY <1>3, TailElements
<1>5. (Len(s) = 1 => Tail(s) = << >>) /\ (Len(s) > 1 => Tail(s) # << >>)
  BY <1>3, TailIsEmpty
<1>6. c \in Accounted
  BY <1>1, <1>2 DEF EventsAreAccountedFor, Accounted
<1>7. ~overlapped =>
         /\ wiped = {} /\ (unreported' => pendingOverflowWarning')
         /\ Range(GetAll) \subseteq arrived' \cup Range(Tail(s))
  BY <1>1, <1>2, <1>4 DEF CallsTakeTurns
<1>8. toDrain'[c] = Tail(s) /\ tries[c] \in 0 .. MaxRetries
      /\ tries' = [tries EXCEPT ![c] = tries[c]]
  BY <1>1, <1>2 DEF CallsOK
<1> HIDE DEF s
<1>9. ASSUME Len(s) > 1, UNCHANGED <<pc, bufferVars, wiped>>
      PROVE  IInv'
  <2>1. BufferInv' /\ GetAll' = GetAll
    BY <1>1, <1>9, BufferStays
  <2>2. pc' = [pc EXCEPT ![c] = "drain"]
    BY <1>1, <1>2, <1>9 DEF CallsOK
  <2>3. CallsOK'
    <3>1. Tail(s) # << >>
      BY <1>5, <1>9, Zenon
    <3>2. "drain" \in PcValues
      BY DEF PcValues
    <3> QED BY <1>1, <1>2, <1>4, <1>8, <2>2, <3>1, <3>2, CallMoves
  <2>4. HistoryOK'
    BY <1>1, <1>2, <1>4, <1>9 DEF HistoryOK
  <2>5. EventsAreAccountedFor'
    <3>1. Accounted \subseteq Accounted'
      BY <1>2, <1>9, <2>1 DEF Accounted
    <3> QED BY <1>1, <1>6, <2>2, <3>1, AccountsKept
  <2>6. CallsTakeTurns'
    BY <1>1, <1>2, <1>3, <1>7, <1>8, <1>9, <2>1, <2>2, TurnsKept
  <2> QED BY <2>1, <2>3, <2>4, <2>5, <2>6, PartsOfIInvNext
<1>10. ASSUME Len(s) = 1, pc' = [pc EXCEPT ![c] = "done"], Clear,
              wiped' = wiped \cup (Range(GetAll) \ arrived')
       PROVE  IInv'
  <2>1. BufferInv' /\ GetAll' = << >>
    BY <1>1, <1>10, ClearEmpties
  <2>2. Tail(s) = << >> /\ Range(Tail(s)) = {}
    <3>1. Tail(s) = << >>
      BY <1>5, <1>10, Zenon
    <3> QED BY <3>1 DEF Range
  <2>3. CallsOK'
    <3>1. "done" \in PcValues
      BY DEF PcValues
    <3> QED BY <1>1, <1>2, <1>4, <1>8, <1>10, <2>2, <3>1, CallMoves
  <2>4. HistoryOK'
    <3>1. Range(GetAll) \subseteq Events
      BY <1>1 DEF BufferInv, Range
    <3> QED BY <1>1, <1>2, <1>4, <1>10, <3>1 DEF HistoryOK
  <2>5. EventsAreAccountedFor'
    <3>1. Accounted \subseteq Accounted'
      BY <1>2, <1>10 DEF Accounted
    <3> QED BY <1>1, <1>6, <1>10, <3>1, AccountsKept
  <2>6. CallsTakeTurns'
    <3>1. ~overlapped => wiped' = {}
      BY <1>7, <1>10, <2>2
    <3> QED BY <1>1, <1>2, <1>3, <1>7, <1>10, <3>1, TurnsKept
  <2> QED BY <2>1, <2>3, <2>4, <2>5, <2>6, PartsOfIInvNext
<1> QED BY <1>9, <1>10 DEF DrainSucceeds, s

\* Whatever step is taken, the inductive invariant survives it.
LEMMA NextKeepsIInv ==
  ASSUME IInv, [Next]_vars
  PROVE  IInv'
<1>1. CASE UNCHANGED vars
  BY <1>1 DEF vars, bufferVars, callVars, history, IInv, TypeOK, BufferTypeOK, GetAll,
              EventsAreAccountedFor, CallsTakeTurns, Active
<1>2. ASSUME NEW c \in Events, Forward(c) PROVE IInv'
  BY <1>2, ForwardKeepsIInv
<1>3. ASSUME NEW c \in Events, Settle(c) PROVE IInv'
  BY <1>3, AttemptSucceedsKeepsIInv, FirstAttemptFailsKeepsIInv, RetryFailsKeepsIInv,
     DrainSucceedsKeepsIInv, DrainFailsKeepsIInv DEF Settle
<1>4. ASSUME NEW c \in Events, WakeUp(c) PROVE IInv'
  BY <1>4, WakeUpKeepsIInv
<1>5. ASSUME NEW c \in Events, WarningSettles(c) PROVE IInv'
  BY <1>5, WarningSettlesKeepsIInv
<1> QED BY <1>1, <1>2, <1>3, <1>4, <1>5 DEF Next, Finished

(***************************************************************************)
(* The inductive invariant holds throughout: besides the types, an event   *)
(* past its first attempt is somewhere, and calls that take turns find the *)
(* buffer and the flag as they left them.                                  *)
(***************************************************************************)
THEOREM ForwarderInvariant == Spec => []IInv
<1>1. Init => IInv
  BY InitIInv
<1>2. IInv /\ [Next]_vars => IInv'
  BY NextKeepsIInv
<1> QED BY <1>1, <1>2, PTL DEF Spec

\* Buffer, calls and histories keep their types, for every capacity and bound.
THEOREM ForwarderTypeCorrect == Spec => []TypeOK
<1>1. IInv => TypeOK
  BY DEF IInv
<1> QED BY <1>1, ForwarderInvariant, PTL

\* However the calls interleave, only a completed drain's clear() loses events:
\* not a partial drain, not an overflow, not an exhausted retry.
THEOREM LossIsOnlyByClear == Spec => []OnlyClearLosesEvents
<1>1. IInv => OnlyClearLosesEvents
  BY DEF IInv, EventsAreAccountedFor, OnlyClearLosesEvents, Lost
<1> QED BY <1>1, ForwarderInvariant, PTL

\* Calls of forward() that do not overlap lose no event silently.
THEOREM SequentialCallsAreSafe == Spec => []SequentialCallsLoseNothing
<1>1. IInv => SequentialCallsLoseNothing
  BY DEF IInv, EventsAreAccountedFor, CallsTakeTurns, SequentialCallsLoseNothing, Lost
<1> QED BY <1>1, ForwarderInvariant, PTL

\* Calls of forward() that do not overlap never forget an overflow to report.
THEOREM SequentialOverflowIsFlagged == Spec => []SequentialOverflowIsReported
<1>1. IInv => SequentialOverflowIsReported
  BY DEF IInv, CallsTakeTurns, SequentialOverflowIsReported
<1> QED BY <1>1, ForwarderInvariant, PTL

---------------------------------------------------------------------------
(* The refinement of the bounded queue                                     *)

LEMMA AddIsFifo ==
  ASSUME BufferInv, NEW e \in Events, Add(e)
  PROVE  Fifo!Next
<1>1. Len(GetAll) = size /\ size \in Nat /\ size <= Capacity /\ Capacity \in Nat \ {0}
  BY QueueLength, BufferAssumption
<1>2. CASE InsertIntoFree(e)
  <2>1. GetAll' = Append(GetAll, e) /\ overflowCount' = overflowCount /\ size # Capacity
    BY <1>2, InsertAppends DEF InsertIntoFree, IsFull
  <2>2. Len(GetAll) < Capacity
    BY <1>1, <2>1
  <2> QED BY <2>1, <2>2 DEF Fifo!Next, Fifo!AddWithRoom
<1>3. CASE OverwriteOldest(e)
  <2>1. /\ GetAll' = Append(Tail(GetAll), e) /\ overflowCount' = overflowCount + 1
        /\ size = Capacity
    BY <1>3, OverwriteRotates DEF OverwriteOldest, IsFull
  <2> QED BY <1>1, <2>1 DEF Fifo!Next, Fifo!AddDroppingOldest
<1> QED BY <1>2, <1>3 DEF Add

\* The circular array of the forwarder, under every interleaving of its calls,
\* is the bounded first-in first-out queue that drops its oldest element.
THEOREM BufferIsBoundedFifo == Spec => ImplementsBoundedFifo
<1>1. Init => Fifo!Init
  BY InitEmpty DEF Init, BufferInit, Fifo!Init
<1>2. IInv /\ [Next]_vars => [Fifo!Next]_<<GetAll, overflowCount>>
  <2> SUFFICES ASSUME IInv, [Next]_vars
               PROVE  [Fifo!Next]_<<GetAll, overflowCount>>
    OBVIOUS
  <2>1. BufferInv
    BY PartsOfIInv
  <2>2. UNCHANGED bufferVars \/ Clear \/ \E e \in Events : Add(e)
    BY DEF Next, Settle, Finished, Forward, AttemptSucceeds, FirstAttemptFails, RetryFails,
           WakeUp, WarningSettles, DrainSucceeds, DrainFails, vars
  <2>3. CASE UNCHANGED bufferVars
    <3>1. GetAll' = GetAll /\ overflowCount' = overflowCount
      BY <2>1, <2>3, BufferStays DEF bufferVars
    <3> QED BY <3>1
  <2>4. CASE Clear
    <3>1. GetAll' = << >> /\ overflowCount' = 0
      BY <2>1, <2>4, ClearEmpties DEF Clear
    <3> QED BY <3>1 DEF Fifo!Next, Fifo!Empty
  <2>5. CASE \E e \in Events : Add(e)
    BY <2>1, <2>5, AddIsFifo
  <2> QED BY <2>2, <2>3, <2>4, <2>5
<1> QED BY <1>1, <1>2, ForwarderInvariant, PTL DEF Spec, ImplementsBoundedFifo, Fifo!Spec

---------------------------------------------------------------------------
(* How long a call of forward() can last                                   *)

\* The steps a call still takes at most: an attempt and a pause for each retry,
\* the warning about an overflow, and one for each event of its snapshot.
MostSteps == 2 * MaxRetries + Capacity + 2

StepsLeft(stage, attempt, unsent) ==
    IF stage = "idle" THEN MostSteps
    ELSE IF stage = "first" THEN MostSteps - 1
    ELSE IF stage = "retry" THEN 2 * (MaxRetries - attempt) + Capacity + 2
    ELSE IF stage = "sleep" THEN 2 * (MaxRetries - attempt) + Capacity + 1
    ELSE IF stage = "warn" THEN Capacity + 1
    ELSE unsent

CallState(c) == <<pc[c], tries[c], toDrain[c]>>

CallStepsLeft(c) == StepsLeft(pc[c], tries[c], Len(toDrain[c]))

\* However calls interleave and whatever they add to the buffer meanwhile, each
\* step of a call brings it closer to its end: a drain sends its own snapshot
\* and not what is buffered behind it, and retries are counted
\* (event-forwarder.ts:121).
CallsWindDown ==
    [][\A c \in Events : CallState(c)' # CallState(c) =>
           0 <= CallStepsLeft(c)' /\ CallStepsLeft(c)' < CallStepsLeft(c)]_vars

\* The arithmetic of the stages a call goes through.
LEMMA StagesShrink ==
  ASSUME NEW n \in 0 .. MaxRetries, NEW k \in Nat, NEW u \in Nat, k <= Capacity
  PROVE  /\ 0 <= StepsLeft("first", n, u) /\ StepsLeft("first", n, u) < StepsLeft("idle", n, u)
         /\ \A b \in {"first", "retry"}, s \in {"warn", "drain", "done"} :
               0 <= StepsLeft(s, n, k) /\ StepsLeft(s, n, k) < StepsLeft(b, n, u)
         /\ 0 <= StepsLeft("retry", 1, u) /\ StepsLeft("retry", 1, u) < StepsLeft("first", n, u)
         /\ 0 <= StepsLeft("sleep", n, u) /\ StepsLeft("sleep", n, u) < StepsLeft("retry", n, u)
         /\ n < MaxRetries =>
               /\ 0 <= StepsLeft("retry", n + 1, u)
               /\ StepsLeft("retry", n + 1, u) < StepsLeft("sleep", n, u)
         /\ \A s \in {"drain", "done"} :
               0 <= StepsLeft(s, n, k) /\ StepsLeft(s, n, k) < StepsLeft("warn", n, u)
BY ForwarderAssumption, BufferAssumption DEF StepsLeft, MostSteps

\* A step of one call leaves the others where they are.
LEMMA OthersWait ==
  ASSUME CallsOK, NEW c \in Events, NEW d \in Events, d # c,
         Forward(c) \/ Settle(c) \/ WakeUp(c) \/ WarningSettles(c)
  PROVE  CallState(d)' = CallState(d)
BY DEF CallsOK, CallState, Settle, Forward, AttemptSucceeds, AfterSuccess, StartDrain,
       FirstAttemptFails, RetryFails, WakeUp, WarningSettles, DrainSucceeds, DrainFails,
       callVars, history

\* The snapshot a drain starts with is no longer than the buffer.
LEMMA SnapshotFits ==
  ASSUME BufferInv, CallsOK, NEW c \in Events, StartDrain(c), UNCHANGED tries
  PROVE  /\ pc'[c] \in {"drain", "done"}
         /\ Len(toDrain'[c]) \in Nat /\ Len(toDrain'[c]) <= Capacity
<1>1. PICK p \in {"done", "drain"} : pc' = [pc EXCEPT ![c] = p] /\ toDrain'[c] = GetAll
  BY DrainStarts
<1>2. pc'[c] = p
  BY <1>1 DEF CallsOK
<1> QED BY <1>1, <1>2, QueueLength

\* Each step of a call brings it closer to its end.
LEMMA CallComesCloser ==
  ASSUME IInv, NEW c \in Events,
         Forward(c) \/ Settle(c) \/ WakeUp(c) \/ WarningSettles(c)
  PROVE  0 <= CallStepsLeft(c)' /\ CallStepsLeft(c)' < CallStepsLeft(c)
<1>1. BufferInv /\ CallsOK /\ tries[c] \in 0 .. MaxRetries /\ toDrain[c] \in Seq(Events)
  BY PartsOfIInv DEF CallsOK
<1> DEFINE n == tries[c]
           u == Len(toDrain[c])
           v == Len(toDrain'[c])
<1>2. /\ n \in 0 .. MaxRetries /\ u \in Nat /\ 0 \in Nat /\ 0 <= Capacity
      /\ Capacity \in Nat
  BY <1>1, BufferAssumption
<1>3. /\ CallStepsLeft(c) = StepsLeft(pc[c], n, u)
      /\ CallStepsLeft(c)' = StepsLeft(pc'[c], tries'[c], v)
  BY DEF CallStepsLeft
<1> HIDE DEF n, u, v
<1>4. CASE Forward(c)
  <2>1. pc[c] = "idle" /\ pc'[c] = "first" /\ tries'[c] = n /\ v = u
    BY <1>1, <1>4 DEF Forward, CallsOK, n, u, v
  <2> QED BY <1>2, <1>3, <2>1, StagesShrink
<1>5. CASE AttemptSucceeds(c)
  <2>1. pc[c] \in {"first", "retry"} /\ UNCHANGED tries /\ tries'[c] = n
    BY <1>5 DEF AttemptSucceeds, n
  <2>2. CASE pc' = [pc EXCEPT ![c] = "warn"] /\ UNCHANGED toDrain
    <3>1. pc'[c] = "warn" /\ v = u
      BY <1>1, <2>2 DEF CallsOK, u, v
    <3>2. StepsLeft("warn", n, u) = StepsLeft("warn", n, 0)
      BY DEF StepsLeft
    <3> QED BY <1>2, <1>3, <2>1, <3>1, <3>2, StagesShrink
  <2>3. CASE StartDrain(c)
    <3>1. pc'[c] \in {"drain", "done"} /\ v \in Nat /\ v <= Capacity
      BY <1>1, <2>1, <2>3, SnapshotFits DEF v
    <3> QED BY <1>2, <1>3, <2>1, <3>1, StagesShrink
  <2> QED BY <1>5, <2>2, <2>3 DEF AttemptSucceeds, AfterSuccess
<1>6. CASE FirstAttemptFails(c)
  <2>1. pc[c] = "first" /\ pc'[c] = "retry" /\ tries'[c] = 1 /\ v = u
    BY <1>1, <1>6 DEF FirstAttemptFails, CallsOK, u, v
  <2> QED BY <1>2, <1>3, <2>1, StagesShrink
<1>7. CASE RetryFails(c)
  <2>1. /\ pc[c] = "retry" /\ pc'[c] \in {"sleep", "done"} /\ tries'[c] = n /\ v = u
        /\ pc'[c] = "done" => v = 0
    <3>1. /\ pc[c] = "retry" /\ pc'[c] \in {"sleep", "done"} /\ UNCHANGED <<tries, toDrain>>
      BY <1>1, <1>7 DEF RetryFails, CallsOK
    <3>2. toDrain[c] = << >>
      BY <1>1, <3>1 DEF CallsOK
    <3> QED BY <3>1, <3>2 DEF n, u, v
  <2> QED BY <1>2, <1>3, <2>1, StagesShrink
<1>8. CASE WakeUp(c)
  <2>1. pc[c] = "sleep" /\ pc'[c] = "retry" /\ tries'[c] = n + 1 /\ v = u /\ n < MaxRetries
    BY <1>1, <1>8 DEF WakeUp, CallsOK, n, u, v
  <2> QED BY <1>2, <1>3, <2>1, StagesShrink
<1>9. CASE WarningSettles(c)
  <2>1. pc[c] = "warn" /\ tries'[c] = n /\ StartDrain(c) /\ UNCHANGED tries
    BY <1>9 DEF WarningSettles, n
  <2>2. pc'[c] \in {"drain", "done"} /\ v \in Nat /\ v <= Capacity
    BY <1>1, <2>1, SnapshotFits DEF v
  <2> QED BY <1>2, <1>3, <2>1, <2>2, StagesShrink
<1>10. CASE DrainSucceeds(c)
  <2>1. /\ pc[c] = "drain" /\ toDrain'[c] = Tail(toDrain[c]) /\ toDrain[c] # << >>
        /\ pc'[c] \in {"drain", "done"}
    BY <1>1, <1>10 DEF DrainSucceeds, CallsOK
  <2>2. u \in Nat \ {0} /\ v = u - 1
    BY <1>1, <2>1, EmptySeq DEF u, v
  <2> QED BY <1>3, <2>1, <2>2 DEF StepsLeft
<1>11. CASE DrainFails(c)
  <2>1. /\ pc[c] = "drain" /\ toDrain'[c] = << >> /\ toDrain[c] # << >> /\ pc'[c] = "done"
    BY <1>1, <1>11 DEF DrainFails, CallsOK
  <2>2. u \in Nat \ {0} /\ v = 0
    BY <1>1, <2>1, EmptySeq DEF u, v
  <2> QED BY <1>3, <2>1, <2>2 DEF StepsLeft
<1> QED BY <1>4, <1>5, <1>6, <1>7, <1>8, <1>9, <1>10, <1>11 DEF Settle

\* A call of forward() takes at most MostSteps steps, for every capacity and any
\* number of retries and interleaved calls: one that does not return waits for
\* its overflow warning, the only call without a timeout.
THEOREM EveryForwardWindsDown == Spec => CallsWindDown
<1> DEFINE Closer == \A c \in Events : CallState(c)' # CallState(c) =>
                        0 <= CallStepsLeft(c)' /\ CallStepsLeft(c)' < CallStepsLeft(c)
<1>1. IInv /\ [Next]_vars => [Closer]_vars
  <2> SUFFICES ASSUME IInv, Next
               PROVE  Closer
    BY Zenon
  <2>1. CallsOK
    BY PartsOfIInv
  <2> SUFFICES ASSUME NEW d \in Events, CallState(d)' # CallState(d)
               PROVE  0 <= CallStepsLeft(d)' /\ CallStepsLeft(d)' < CallStepsLeft(d)
    BY Zenon
  <2>2. CASE Finished
    <3>1. CallState(d)' = CallState(d)
      BY <2>2 DEF Finished, vars, callVars, CallState
    <3> QED BY <3>1
  <2>3. ASSUME NEW c \in Events, Forward(c) \/ Settle(c) \/ WakeUp(c) \/ WarningSettles(c)
        PROVE  0 <= CallStepsLeft(d)' /\ CallStepsLeft(d)' < CallStepsLeft(d)
    <3>1. d = c
      BY <2>1, <2>3, OthersWait
    <3> QED BY <2>3, <3>1, CallComesCloser
  <2> QED BY <2>2, <2>3 DEF Next
<1>2. CallsWindDown <=> [][Closer]_vars
  BY DEF CallsWindDown
<1> QED BY <1>1, <1>2, ForwarderInvariant, PTL DEF Spec

=============================================================================
