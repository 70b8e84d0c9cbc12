---------------------------- MODULE BufferProofs ----------------------------
(* Proofs about the triple buffer, for every number of puts. *)
EXTENDS Buffer, TLAPS

\* Every variable of the triple buffer keeps its type, whatever put() and
\* get() do to the three pointers.
THEOREM TypeCorrect == Spec => []TypeOK
<1>1. Init => TypeOK
  <2> SUFFICES ASSUME Init PROVE TypeOK
    OBVIOUS
  <2>1. 0 \in Value
    BY MaxPutsAssumption DEF Value
  <2>2. cells \in [Cell -> Value]
    BY <2>1 DEF Init, Junk
  <2>3. back \in Cell /\ middle \in Cell /\ front \in Cell
    BY DEF Init, Cell
  <2>4. prevPut \in Cell /\ prevGet \in Cell
    BY DEF Init, Cell
  <2>5. queued \in BOOLEAN /\ delivered \subseteq Value
    BY DEF Init
  <2>6. sent \in Value /\ got \in Value
    BY <2>1 DEF Init, Junk
  <2> QED
    BY <2>2, <2>3, <2>4, <2>5, <2>6 DEF Init, TypeOK
<1>2. TypeOK /\ [Next]_vars => TypeOK'
  <2> SUFFICES ASSUME TypeOK, [Next]_vars
               PROVE  TypeOK'
    OBVIOUS
  <2> USE MaxPutsAssumption DEF TypeOK, Cell, Value, putVars, getVars
  <2>1. CASE PutBegin
    BY <2>1 DEF PutBegin
  <2>2. CASE PutCopy
    BY <2>2 DEF PutCopy
  <2>3. CASE PutSwap
    BY <2>3 DEF PutSwap
  <2>4. CASE PutStore
    BY <2>4 DEF PutStore
  <2>5. CASE PutFlag
    BY <2>5 DEF PutFlag
  <2>6. CASE GetFlag
    BY <2>6 DEF GetFlag
  <2>7. CASE GetSwap
    BY <2>7 DEF GetSwap
  <2>8. CASE GetStore
    BY <2>8 DEF GetStore
  <2>9. CASE GetCopy
    BY <2>9 DEF GetCopy
  <2>10. CASE UNCHANGED vars
    BY <2>10 DEF vars
  <2> QED
    BY <2>1, <2>2, <2>3, <2>4, <2>5, <2>6, <2>7, <2>8, <2>9, <2>10
    DEF Next, Put, Get, Done
<1> QED
  BY <1>1, <1>2, PTL DEF Spec

-----------------------------------------------------------------------------
\* The three blocks are exclusively owned: the exchanges only permute them.
THEOREM Exclusivity == Spec => []Exclusive
<1>1. Init => Exclusive
  BY DEF Init, Exclusive, ProducerCell, ConsumerCell
<1>2. Exclusive /\ [Next]_vars => Exclusive'
  <2> SUFFICES ASSUME Exclusive, [Next]_vars
               PROVE  Exclusive'
    OBVIOUS
  <2> USE DEF Exclusive, ProducerCell, ConsumerCell, putVars, getVars
  <2>1. CASE PutBegin \/ PutCopy \/ PutFlag
    BY <2>1 DEF PutBegin, PutCopy, PutFlag
  <2>2. CASE PutSwap
    BY <2>2 DEF PutSwap
  <2>3. CASE PutStore
    BY <2>3 DEF PutStore
  <2>4. CASE GetFlag \/ GetCopy
    BY <2>4 DEF GetFlag, GetCopy
  <2>5. CASE GetSwap
    BY <2>5 DEF GetSwap
  <2>6. CASE GetStore
    BY <2>6 DEF GetStore
  <2>7. CASE UNCHANGED vars
    BY <2>7 DEF vars
  <2> QED
    BY <2>1, <2>2, <2>3, <2>4, <2>5, <2>6, <2>7 DEF Next, Put, Get, Done
<1> QED
  BY <1>1, <1>2, PTL DEF Spec

\* buffer.h copies a value in and a value out without a lock, and the two
\* copies are never of the same block.
THEOREM NoRace == Spec => []NoDataRace
<1>1. Exclusive => NoDataRace
  BY DEF Exclusive, NoDataRace, ProducerCell, ConsumerCell
<1> QED
  BY <1>1, Exclusivity, PTL

-----------------------------------------------------------------------------
\* Where the newest value is, between its copy into a block and its delivery.
Tracked ==
  LET reading == pcGet \in {"store", "copy"} /\ cells[ConsumerCell] = sent
  IN  /\ pcPut = "swap" => cells[back] = sent
      /\ pcPut \in {"store", "flag"} =>
           cells[middle] = sent \/ reading \/ sent \in delivered
      /\ pcPut = "idle" /\ sent > 0 =>
           \/ cells[middle] = sent /\ (queued \/ pcGet = "swap")
           \/ reading
           \/ sent \in delivered

\* The newest value is never lost: it is on its way or was delivered.
THEOREM NewestIsDelivered == Spec => []NewestDelivered
<1>1. Init => Tracked
  BY DEF Init, Tracked
<1>2. TypeOK /\ Exclusive /\ Tracked /\ [Next]_vars => Tracked'
  <2> SUFFICES ASSUME TypeOK, Exclusive, Tracked, [Next]_vars
               PROVE  Tracked'
    OBVIOUS
  <2> USE MaxPutsAssumption
      DEF TypeOK, Exclusive, Tracked, ProducerCell, ConsumerCell, Cell, Value,
          putVars, getVars
  <2>1. CASE PutBegin
    BY <2>1 DEF PutBegin
  <2>2. CASE PutCopy
    BY <2>2 DEF PutCopy
  <2>3. CASE PutSwap
    BY <2>3 DEF PutSwap
  <2>4. CASE PutStore
    BY <2>4 DEF PutStore
  <2>5. CASE PutFlag
    BY <2>5 DEF PutFlag
  <2>6. CASE GetFlag
    BY <2>6 DEF GetFlag
  <2>7. CASE GetSwap
    BY <2>7 DEF GetSwap
  <2>8. CASE GetStore
    BY <2>8 DEF GetStore
  <2>9. CASE GetCopy
    BY <2>9 DEF GetCopy
  <2>10. CASE UNCHANGED vars
    BY <2>10 DEF vars
  <2> QED
    BY <2>1, <2>2, <2>3, <2>4, <2>5, <2>6, <2>7, <2>8, <2>9, <2>10
    DEF Next, Put, Get, Done
<1>3. Tracked => NewestDelivered
  BY DEF Tracked, NewestDelivered, Drained
<1> QED
  BY <1>1, <1>2, <1>3, TypeCorrect, Exclusivity, PTL DEF Spec

-----------------------------------------------------------------------------
\* buffer.h implements the mailbox: every step of put() and get() is a step of
\* the mailbox or leaves its values alone.  Exclusive is what makes the copy
\* into the back block invisible.
THEOREM BufferImplementsMailbox == Spec => ImplementsMailbox
<1>1. Init => M!Init
  BY DEF Init, M!Init, ConsumerCell, Cell
<1>2. TypeOK /\ Exclusive /\ [Next]_vars => [M!Next]_M!vars
  <2> SUFFICES ASSUME TypeOK, Exclusive, [Next]_vars
               PROVE  [M!Next]_M!vars
    OBVIOUS
  <2> USE DEF TypeOK, Exclusive, ProducerCell, ConsumerCell, M!vars,
              putVars, getVars
  <2>1. CASE PutBegin
    BY <2>1 DEF PutBegin
  <2>2. CASE PutCopy
    BY <2>2 DEF PutCopy
  <2>3. CASE PutSwap
    <3>1. M!Publish(cells[back])
      BY <2>3 DEF PutSwap, M!Publish
    <3> QED
      BY <3>1 DEF M!Next
  <2>4. CASE PutStore
    BY <2>4 DEF PutStore
  <2>5. CASE PutFlag
    BY <2>5 DEF PutFlag, M!Next, M!Flag
  <2>6. CASE GetFlag
    BY <2>6 DEF GetFlag, M!Next, M!TakeFlag
  <2>7. CASE GetSwap
    BY <2>7 DEF GetSwap, M!Next, M!Swap
  <2>8. CASE GetStore
    BY <2>8 DEF GetStore
  <2>9. CASE GetCopy
    BY <2>9 DEF GetCopy
  <2>10. CASE UNCHANGED vars
    BY <2>10 DEF vars
  <2> QED
    BY <2>1, <2>2, <2>3, <2>4, <2>5, <2>6, <2>7, <2>8, <2>9, <2>10
    DEF Next, Put, Get, Done
<1> QED
  BY <1>1, <1>2, TypeCorrect, Exclusivity, PTL DEF Spec, M!Spec, ImplementsMailbox
=============================================================================
