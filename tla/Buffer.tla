------------------------------- MODULE Buffer -------------------------------
(***************************************************************************)
(* The lock-free triple buffer of src/utils/buffer.h.  Three heap blocks   *)
(* (Cell) are reached through the shared pointers back, middle and front.  *)
(* The producer (a uinput event thread) calls put(), the consumer (the     *)
(* rumble thread) calls get(); every atomic operation is one step, and a   *)
(* copy of a value into or out of a block lasts from one step to the next, *)
(* so that two overlapping copies of one block can be seen.                *)
(*                                                                         *)
(* The values put are 1, 2, 3, ... in this order; 0 is the content of a    *)
(* block `new T` has made and nobody has written.                          *)
(***************************************************************************)
EXTENDS Naturals

CONSTANT MaxPuts   \* bound: how many times put() is called

ASSUME MaxPutsAssumption == MaxPuts \in Nat

Cell  == 1 .. 3
Value == 0 .. MaxPuts
Junk  == 0

VARIABLES cells,     \* the content of each block
          back, middle, front,  \* the three shared pointers
          queued,    \* std::atomic<bool> queued
          pcPut,     \* where the producer is in put()
          sent,      \* how many values put() was called with: the newest one
          prevPut,   \* put()'s local `previous`
          pcGet,     \* where the consumer is in get()
          prevGet,   \* get()'s local `previous`
          got,       \* what the last get() that returned true delivered
          delivered  \* history: every value a get() delivered

putVars == <<pcPut, sent, prevPut>>
getVars == <<pcGet, prevGet, got, delivered>>
vars == <<cells, back, middle, front, queued, putVars, getVars>>

Init == /\ cells = [c \in Cell |-> Junk]
        /\ back = 1
        /\ middle = 2
        /\ front = 3
        /\ queued = FALSE
        /\ pcPut = "idle"
        /\ sent = 0
        /\ prevPut = 1
        /\ pcGet = "idle"
        /\ prevGet = 3
        /\ got = Junk
        /\ delivered = {}

-----------------------------------------------------------------------------
(* Mutated forms of the steps below, each a bug put() or get() could have: *)
(* the runs show that the properties notice them.                          *)

\* put() without atomic_store(&back, previous)
PutStoreForgotten ==
  /\ pcPut = "store"
  /\ pcPut' = "flag"
  /\ UNCHANGED <<cells, back, middle, front, queued, sent, prevPut, getVars>>

\* put() without queued = true
PutFlagForgotten ==
  /\ pcPut = "flag"
  /\ pcPut' = "idle"
  /\ UNCHANGED <<cells, back, middle, front, queued, sent, prevPut, getVars>>

\* get() without atomic_store(&front, previous)
GetStoreForgotten ==
  /\ pcGet = "store"
  /\ pcGet' = "copy"
  /\ UNCHANGED <<cells, back, middle, front, queued, putVars, prevGet, got, delivered>>

-----------------------------------------------------------------------------
(* put()                                                                   *)

\* The copy of the next value into *back begins ...
PutBegin == /\ pcPut = "idle"
            /\ sent < MaxPuts
            /\ sent' = sent + 1
            /\ pcPut' = "copy"
            /\ UNCHANGED <<cells, back, middle, front, queued, prevPut, getVars>>

\* ... and is complete.
PutCopy == /\ pcPut = "copy"
           /\ cells' = [cells EXCEPT ![back] = sent]
           /\ pcPut' = "swap"
           /\ UNCHANGED <<back, middle, front, queued, sent, prevPut, getVars>>

\* previous = atomic_exchange(&middle, back)
PutSwap == /\ pcPut = "swap"
           /\ prevPut' = middle
           /\ middle' = back
           /\ pcPut' = "store"
           /\ UNCHANGED <<cells, back, front, queued, sent, getVars>>

\* atomic_store(&back, previous)
PutStore == /\ pcPut = "store"
            /\ back' = prevPut
            /\ pcPut' = "flag"
            /\ UNCHANGED <<cells, middle, front, queued, sent, prevPut, getVars>>

\* queued = true
PutFlag == /\ pcPut = "flag"
           /\ queued' = TRUE
           /\ pcPut' = "idle"
           /\ UNCHANGED <<cells, back, middle, front, sent, prevPut, getVars>>

-----------------------------------------------------------------------------
(* get(); a call that finds the flag clear changes nothing                 *)

\* atomic_exchange(&queued, false) returned true
GetFlag == /\ pcGet = "idle"
           /\ queued
           /\ queued' = FALSE
           /\ pcGet' = "swap"
           /\ UNCHANGED <<cells, back, middle, front, putVars, prevGet, got, delivered>>

\* previous = atomic_exchange(&middle, front)
GetSwap == /\ pcGet = "swap"
           /\ prevGet' = middle
           /\ middle' = front
           /\ pcGet' = "store"
           /\ UNCHANGED <<cells, back, front, queued, putVars, got, delivered>>

\* atomic_store(&front, previous); the copy out of *front begins ...
GetStore == /\ pcGet = "store"
            /\ front' = prevGet
            /\ pcGet' = "copy"
            /\ UNCHANGED <<cells, back, middle, queued, putVars, prevGet, got, delivered>>

\* ... and is complete.
GetCopy == /\ pcGet = "copy"
           /\ got' = cells[front]
           /\ delivered' = delivered \cup {cells[front]}
           /\ pcGet' = "idle"
           /\ UNCHANGED <<cells, back, middle, front, queued, putVars, prevGet>>

-----------------------------------------------------------------------------
Put == PutBegin \/ PutCopy \/ PutSwap \/ PutStore \/ PutFlag
Get == GetFlag \/ GetSwap \/ GetStore \/ GetCopy

\* All values were put and taken and the consumer polls an empty buffer.
Drained == pcPut = "idle" /\ pcGet = "idle" /\ ~queued
Done == Drained /\ sent = MaxPuts /\ UNCHANGED vars

Next == Put \/ Get \/ Done

Spec == Init /\ [][Next]_vars

-----------------------------------------------------------------------------
(* Properties                                                              *)

\* The block a side owns: during its exchange it is the one it just got back.
ProducerCell == IF pcPut = "store" THEN prevPut ELSE back
ConsumerCell == IF pcGet = "store" THEN prevGet ELSE front

TypeOK == /\ cells \in [Cell -> Value]
          /\ back \in Cell /\ middle \in Cell /\ front \in Cell
          /\ queued \in BOOLEAN
          /\ pcPut \in {"idle", "copy", "swap", "store", "flag"}
          /\ sent \in Value
          /\ prevPut \in Cell
          /\ pcGet \in {"idle", "swap", "store", "copy"}
          /\ prevGet \in Cell
          /\ got \in Value
          /\ delivered \subseteq Value

\* No block is shared: the producer's, the middle and the consumer's block are
\* three different ones, however the exchanges of put() and get() interleave.
Exclusive == /\ ProducerCell # middle
             /\ ConsumerCell # middle
             /\ ProducerCell # ConsumerCell

\* put() never writes the block that get() is copying out of: the two copies
\* that buffer.h makes without a lock are never of the same block at once.
NoDataRace == pcPut = "copy" /\ pcGet = "copy" => back # front

\* The newest value is not lost: when the consumer has found the flag clear
\* and no put() is under way, the value put last has been delivered.
NewestDelivered == Drained /\ sent > 0 => sent \in delivered

\* What buffer.h promises, with the pointers and the copies abstracted away.
M == INSTANCE Mailbox WITH
       mid <- cells[middle],
       held <- cells[ConsumerCell],
       putting <- pcPut \in {"store", "flag"},
       taking <- pcGet = "swap"

\* The pointer exchanges of buffer.h implement the mailbox of values.
ImplementsMailbox == M!Spec

\* What a triple buffer of states is used for: the consumer never goes back
\* from a value to one that was put before it.  The code does NOT have this
\* property: get() can take a value between put()'s exchange and put()'s store
\* of the flag, which then makes the next get() swap an old block back in.
NeverGoesBack == [][got' >= got]_vars
=============================================================================
