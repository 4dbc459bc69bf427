---------------------------- MODULE AsyncHandler ----------------------------
(***************************************************************************)
(* AsyncHandler of internal/logger: the goroutines that log send their     *)
(* lines over a channel to one worker, which writes them.  What a line     *)
(* says is left out; the channel is the number of lines in it.             *)
(***************************************************************************)
EXTENDS Naturals

CONSTANT Capacity    \* of the channel

ASSUME AsyncAssumption == Capacity \in Nat \ {0}

VARIABLES
    ch,        \* lines in the channel
    closed,    \* the channel is closed
    writer,    \* there is something to write to
    worker     \* the worker: "none", "receive", "write" with a line in hand, "done"

logger == <<ch, closed, writer, worker>>

NoHandler == ch = 0 /\ closed = FALSE /\ writer = FALSE /\ worker = "none"

\* The first log file may not come about, and then there is no writer.
rotateIfNeeded == writer' \in BOOLEAN

\* NewAsyncHandler does not look at the error.
NewAsyncHandler ==
    /\ ch' = 0 /\ closed' = FALSE
    /\ rotateIfNeeded
    /\ worker' = "receive"

\* Handle: a full channel lets nobody on, a closed one makes the sender panic.
Send ==
    /\ ~closed /\ ch < Capacity
    /\ ch' = ch + 1
    /\ UNCHANGED <<closed, writer, worker>>

\* startWorker: until the channel is closed and empty.  A failing Write is ignored.
Receive ==
    /\ worker = "receive" /\ ch > 0
    /\ ch' = ch - 1 /\ worker' = "write"
    /\ UNCHANGED <<closed, writer>>

Written ==
    /\ worker = "write" /\ writer
    /\ worker' = "receive"
    /\ UNCHANGED <<ch, closed, writer>>

Finish ==
    /\ worker = "receive" /\ ch = 0 /\ closed
    /\ worker' = "done"
    /\ UNCHANGED <<ch, closed, writer>>

\* Close, in two steps: close(h.ch), and h.wg.Wait().
Shut ==
    /\ ~closed /\ closed' = TRUE
    /\ UNCHANGED <<ch, writer, worker>>

\* Mutant: nobody waits for the worker.
DrainedAtOnce == closed

Drained == worker = "done"
=============================================================================
