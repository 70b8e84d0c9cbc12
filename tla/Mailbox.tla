------------------------------ MODULE Mailbox ------------------------------
(***************************************************************************)
(* What src/utils/buffer.h gives to its single producer and its single     *)
(* consumer, with the three memory blocks and the pointers to them left    *)
(* out: a value in the middle, a value held by the consumer, and a flag    *)
(* that is NOT changed together with the values.  put() is Publish then    *)
(* Flag, get() is TakeFlag then Swap, or Nothing when the flag is clear.   *)
(* Buffer.tla is shown to implement this module.                           *)
(***************************************************************************)
CONSTANTS Value,  \* what is passed through the mailbox
          Junk    \* the content of a block nobody has written yet

VARIABLES mid,      \* the value that the next Swap delivers
          held,     \* the value the consumer got last
          queued,   \* std::atomic<bool> queued
          putting,  \* put() has published but not set the flag yet
          taking    \* get() has cleared the flag but not swapped yet

vars == <<mid, held, queued, putting, taking>>

Init == /\ mid = Junk
        /\ held = Junk
        /\ queued = FALSE
        /\ putting = FALSE
        /\ taking = FALSE

\* put(): the exchange of back and middle makes v visible.
Publish(v) == /\ ~putting
              /\ mid' = v
              /\ putting' = TRUE
              /\ UNCHANGED <<held, queued, taking>>

\* put(): queued = true, a separate store.
Flag == /\ putting
        /\ queued' = TRUE
        /\ putting' = FALSE
        /\ UNCHANGED <<mid, held, taking>>

\* get(): the exchange of the flag with false found it set.
TakeFlag == /\ ~taking
            /\ queued
            /\ queued' = FALSE
            /\ taking' = TRUE
            /\ UNCHANGED <<mid, held, putting>>

\* get(): the exchange of front and middle; held is what get() returns.
Swap == /\ taking
        /\ mid' = held
        /\ held' = mid
        /\ taking' = FALSE
        /\ UNCHANGED <<queued, putting>>

Next == (\E v \in Value : Publish(v)) \/ Flag \/ TakeFlag \/ Swap

Spec == Init /\ [][Next]_vars
=============================================================================
