--------------------------- MODULE LifecycleProps ---------------------------
(***************************************************************************)
(* What the start and the end of the broker leave behind.                  *)
(***************************************************************************)
EXTENDS Lifecycle

Labels ==
    DOMAIN Lines \cup DOMAIN DebugLines \cup DOMAIN Calls \cup InClean \cup Caught
    \cup {"off", "config", "logger", "cleaner", "connect", "ping", "dropIndexes",
          "indexSessions", "add", "grpc", "listen", "lock", "insert", "serves", "exit"}

\* The start of main, as long as there is no logger, and no watcher.
Early  == {"config", "logger"}
Unwatched == Early \cup {"hello", "cleaner"}

(***************************************************************************)
(* Types, and how far main must have come.  A clean-up is under way when   *)
(* the log is closed; the callback is registered before anybody connects,  *)
(* unless a clean-up was under way by then.                                *)
(***************************************************************************)
TypeOK ==
    /\ ch \in 0..Capacity /\ closed \in BOOLEAN /\ writer \in BOOLEAN
    /\ worker \in {"none", "receive", "write", "done"}
    /\ status \in {"up", "returned", "clean", "fatal", "panic", "killed"}
    /\ pc \in [Thread -> Labels]
    /\ cleaning \in BOOLEAN /\ cleaners \in BOOLEAN
    /\ conn \in {"none", "open", "closed", "failed"}
    /\ config \in {"absent", "empty", "valid"}
    /\ docs \in Nat /\ index \in BOOLEAN /\ unindexed \in BOOLEAN
    /\ spent \in [starts : 0..MaxStarts, signals : 0..MaxSignals, errors : 0..MaxErrors]
    /\ worker = "none" <=> pc["main"] \in Early
    /\ pc["watcher"] = "off" <=> pc["main"] \in Unwatched
    /\ closed => cleaning
    /\ \A h \in Handler : pc[h] # "off" => cleaners \/ cleaning

(***************************************************************************)
(* When Clean ends the process, every line that anybody was able to log    *)
(* has been written: none is left in the channel or in the hands of the    *)
(* worker, though handlers log until the channel is closed and a second    *)
(* Clean may run beside the first.                                         *)
(***************************************************************************)
NothingLost == status = "clean" => ch = 0 /\ worker = "done"

(***************************************************************************)
(* A process that Clean ends, or that a late line or a second close of the *)
(* log channel ends while Clean runs, has invoked the callback of the      *)
(* database if one was registered.  Only log.Fatalf, a second signal and a *)
(* logger without a file end it without.                                   *)
(***************************************************************************)
Released ==
    status = "clean" \/ (status = "panic" /\ writer) => (cleaners => conn # "open")

(***************************************************************************)
(* A client has at most one document in the sessions collection, whoever   *)
(* saves at the same time, unless some process went on without the unique  *)
(* index because nobody looked at the error.                               *)
(***************************************************************************)
OneDocument == docs > 1 => unindexed

(***************************************************************************)
(* A signal that Cleaner.Init caught ends the process, however much the    *)
(* handlers log, whatever main is doing and whether or not main runs Clean *)
(* itself.                                                                 *)
(***************************************************************************)
SignalEnds == At("watcher", "signalled") ~> status # "up"
=============================================================================
