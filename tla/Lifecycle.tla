------------------------------ MODULE Lifecycle ------------------------------
(***************************************************************************)
(* The life of the broker process: main, the start-up of the database      *)
(* (ConnectDatabase), the Cleaner that a signal or the end of main sets to *)
(* work, and the logger all of them use.  The configuration file and the   *)
(* database outlive the process.                                           *)
(*                                                                         *)
(* The threads are main, the goroutine that waits for a signal, the one    *)
(* that serves gRPC, and connection handlers, of which only two things     *)
(* count: they log, and they save a session, all of them of one client.    *)
(* Lines that a thread logs one after the other count as one.              *)
(***************************************************************************)
EXTENDS AsyncHandler, FiniteSets

CONSTANTS
    Handler,       \* connection handlers
    MaxStarts,     \* bound on the starts of the process after the first
    MaxSignals,    \* bound on the signals sent to it
    MaxErrors      \* bound on system and database calls that fail

ASSUME LifecycleAssumption ==
    /\ {"main", "watcher", "serve"} \cap Handler = {}
    /\ IsFiniteSet(Handler)
    /\ MaxStarts \in Nat /\ MaxSignals \in Nat /\ MaxErrors \in Nat

VARIABLES
    status,        \* "up", or how the process ended: "returned" without a
                   \* configuration, "clean" by Clean, "fatal" by log.Fatalf,
                   \* "panic", "killed" by a signal
    pc,            \* thread -> where it is
    cleaning,      \* Cleaner.cleaning
    cleaners,      \* the callback of the database is in Cleaner.cleaners
    conn,          \* database.Client: "none", "open", "closed", "failed" to close
    config,        \* config.json: "absent", "empty", "valid"
    docs,          \* documents of the client in the sessions collection
    index,         \* the collection has its unique index
    spent,         \* the bounds used up
    unindexed      \* history: a process went on without the index

memory == <<cleaning, cleaners, conn>>
disk   == <<config, docs, index, unindexed>>
vars   == <<logger, status, pc, memory, disk, spent>>

Cleans == {"main", "watcher"}
Thread == Cleans \cup {"serve"} \cup Handler

AtStart == [t \in Thread |-> IF t = "main" THEN "config" ELSE "off"]

Init ==
    /\ NoHandler
    /\ status = "up" /\ pc = AtStart
    /\ cleaning = FALSE /\ cleaners = FALSE /\ conn = "none"
    /\ config \in {"absent", "empty", "valid"}
    /\ docs = 0 /\ index = FALSE /\ unindexed = FALSE
    /\ spent = [starts |-> 0, signals |-> 0, errors |-> 0]

At(t, label) == status = "up" /\ pc[t] = label
Goto(t, label) == pc' = [pc EXCEPT ![t] = label]

Ends(how) == status' = how /\ UNCHANGED <<logger, pc, memory>>

Fault == spent.errors < MaxErrors /\ spent' = [spent EXCEPT !.errors = @ + 1]
-----------------------------------------------------------------------------
(***************************************************************************)
(* Logging, and its panic once the channel is closed.  A panic of main     *)
(* before Clean runs Clean, which main has deferred; any other panic ends  *)
(* the process.                                                            *)
(***************************************************************************)
InClean == {"closing", "disconnect", "finished", "close", "wait"}

Panic(t) ==
    \/ /\ t = "main" /\ pc[t] \notin InClean
       /\ Goto(t, "lock")
       /\ UNCHANGED <<logger, status>>
    \/ /\ t # "main" \/ pc[t] \in InClean
       /\ status' = "panic"
       /\ UNCHANGED <<logger, pc>>

Log(t, next) ==
    /\ \/ Send /\ Goto(t, next) /\ UNCHANGED status
       \/ closed /\ Panic(t)
    /\ UNCHANGED <<memory, disk, spent>>

\* Mutant: the signal is noticed and nothing is done about it.
LinesOnly == [hello |-> "cleaner", fatal |-> "lock", ready |-> "serving", received |-> "waiting",
              closing |-> "disconnect", finished |-> "close", failing |-> "exit"]

\* Where a thread logs, and where it goes on.
Lines == [hello |-> "cleaner", fatal |-> "lock", ready |-> "serving", received |-> "lock",
          closing |-> "disconnect", finished |-> "close", failing |-> "exit"]

Line(t) ==
    /\ status = "up" /\ pc[t] \in DOMAIN Lines
    /\ Log(t, Lines[pc[t]])

\* Lines that are logged in debug mode, or only now and then.
DebugLines == [connecting |-> "connect", refused |-> "grpc",
               serving |-> "serving", busy |-> "busy"]

DebugLine(t) ==
    /\ status = "up" /\ pc[t] \in DOMAIN DebugLines
    /\ \/ Log(t, DebugLines[pc[t]])
       \/ /\ pc[t] # DebugLines[pc[t]]
          /\ Goto(t, DebugLines[pc[t]])
          /\ UNCHANGED <<logger, status, memory, disk, spent>>

Receives == status = "up" /\ Receive /\ UNCHANGED <<status, pc, memory, disk, spent>>
Writes   == status = "up" /\ Written /\ UNCHANGED <<status, pc, memory, disk, spent>>
Finishes == status = "up" /\ Finish  /\ UNCHANGED <<status, pc, memory, disk, spent>>

\* The worker calls the Write of a writer that is nil.
NilWriter ==
    /\ status = "up" /\ worker = "write" /\ ~writer
    /\ Ends("panic")
    /\ UNCHANGED <<disk, spent>>

Worker == Receives \/ Writes \/ Finishes
-----------------------------------------------------------------------------
(***************************************************************************)
(* main: the configuration, the logger, the cleaner.  A file that is not   *)
(* there is created, but opened for reading only, so that it stays empty.  *)
(***************************************************************************)
ReadConfig ==
    /\ At("main", "config")
    /\ \/ config = "valid" /\ Goto("main", "logger") /\ UNCHANGED <<logger, status, memory, config>>
       \/ config = "absent" /\ config' \in {"absent", "empty"} /\ Ends("returned")
       \/ config = "empty" /\ Ends("returned") /\ UNCHANGED config
    /\ UNCHANGED <<docs, index, unindexed, spent>>

InitLogger ==
    /\ At("main", "logger")
    /\ NewAsyncHandler
    /\ Goto("main", "hello")
    /\ UNCHANGED <<status, memory, disk, spent>>

InitCleaner ==
    /\ At("main", "cleaner")
    /\ pc' = [pc EXCEPT !["main"] = "connecting", !["watcher"] = "waiting"]
    /\ UNCHANGED <<logger, status, memory, disk, spent>>

(***************************************************************************)
(* ConnectDatabase.  Its errors are fatal, all but one: that of the unique *)
(* index on the sessions is overwritten by the result of the next call.    *)
(***************************************************************************)
Connect ==
    /\ At("main", "connect")
    /\ \/ conn' = "open" /\ Goto("main", "ping") /\ UNCHANGED spent
       \/ Fault /\ Goto("main", "fatal") /\ UNCHANGED conn
    /\ UNCHANGED <<logger, status, cleaning, cleaners, disk>>

Ping ==
    /\ At("main", "ping")
    /\ \/ Goto("main", "list") /\ UNCHANGED <<conn, spent>>
       \/ Fault /\ conn' = "closed" /\ Goto("main", "fatal")
    /\ UNCHANGED <<logger, status, cleaning, cleaners, disk>>

\* The calls that leave nothing behind this module looks at.
Calls == [list |-> "create", create |-> "dropIndexes", dropSubscriptionIndexes |-> "indexSessions",
          indexSubscriptions |-> "add"]

Call ==
    /\ status = "up" /\ pc["main"] \in DOMAIN Calls
    /\ \/ Goto("main", Calls[pc["main"]]) /\ UNCHANGED spent
       \/ Fault /\ Goto("main", "fatal")
    /\ UNCHANGED <<logger, status, memory, disk>>

\* An error comes before the call was carried out or after.
DropIndexes ==
    /\ At("main", "dropIndexes")
    /\ \/ index' = FALSE /\ Goto("main", "dropSubscriptionIndexes") /\ UNCHANGED spent
       \/ Fault /\ index' \in {index, FALSE} /\ Goto("main", "fatal")
    /\ UNCHANGED <<logger, status, memory, config, docs, unindexed>>

\* Mutant: an index that is not unique.
IndexPlain ==
    /\ At("main", "indexSessions")
    /\ Goto("main", "indexSubscriptions")
    /\ UNCHANGED <<logger, status, memory, config, docs, index, unindexed, spent>>

\* Two documents of one client make it impossible.
IndexSessions ==
    /\ At("main", "indexSessions")
    /\ \/ docs <= 1 /\ index' = TRUE /\ UNCHANGED <<unindexed, spent>>
       \/ docs <= 1 /\ Fault /\ index' \in BOOLEAN /\ unindexed' = (unindexed \/ ~index')
       \/ docs > 1 /\ unindexed' = TRUE /\ UNCHANGED <<index, spent>>
    /\ Goto("main", "indexSubscriptions")
    /\ UNCHANGED <<logger, status, memory, config, docs>>

\* Mutant: a callback is taken on, cleaning or not.
AddAlways ==
    /\ At("main", "add")
    /\ cleaners' = TRUE /\ Goto("main", "grpc")
    /\ UNCHANGED <<logger, status, cleaning, conn, disk, spent>>

\* Cleaner.Add; refusing, it logs before it unlocks c.mu.
Add ==
    /\ At("main", "add")
    /\ \/ ~cleaning /\ cleaners' = TRUE /\ Goto("main", "grpc")
       \/ cleaning /\ Goto("main", "refused") /\ UNCHANGED cleaners
    /\ UNCHANGED <<logger, status, cleaning, conn, disk, spent>>

(***************************************************************************)
(* The two servers.  When the MQTT port cannot be opened, StartServer logs *)
(* that and goes on to dereference the listener it has not got: a panic,   *)
(* and Clean all the same.                                                 *)
(***************************************************************************)
GrpcListen ==
    /\ At("main", "grpc")
    /\ \/ pc' = [pc EXCEPT !["main"] = "listen", !["serve"] = "serves"] /\ UNCHANGED spent
       \/ Fault /\ Goto("main", "fatal")
    /\ UNCHANGED <<logger, status, memory, disk>>

Listen ==
    /\ At("main", "listen")
    /\ \/ Goto("main", "ready") /\ UNCHANGED spent
       \/ Fault /\ Goto("main", "fatal")
    /\ UNCHANGED <<logger, status, memory, disk>>

\* grpcServer.Serve fails; log.Fatalf logs, over the same channel, and exits.
ServeFails ==
    /\ At("serve", "serves") /\ Fault
    /\ Goto("serve", "failing")
    /\ UNCHANGED <<logger, status, memory, disk>>

Exit ==
    /\ At("serve", "exit")
    /\ Ends("fatal")
    /\ UNCHANGED <<disk, spent>>

Accept(h) ==
    /\ At("main", "serving") /\ pc[h] = "off"
    /\ Goto(h, "busy")
    /\ UNCHANGED <<logger, status, memory, disk, spent>>

\* ReplaceOne with upsert: the database looks for the document of the client and
\* inserts one if there is none.  Only the unique index keeps two apart.
Upsert(h) ==
    /\ At(h, "busy") /\ conn = "open" /\ docs = 0
    /\ Goto(h, "insert")
    /\ UNCHANGED <<logger, status, memory, disk, spent>>

Insert(h) ==
    /\ At(h, "insert")
    /\ docs' = IF index /\ docs > 0 THEN docs ELSE docs + 1
    /\ Goto(h, "busy")
    /\ UNCHANGED <<logger, status, memory, config, index, unindexed, spent>>
-----------------------------------------------------------------------------
(***************************************************************************)
(* Cleaner.Clean, in main or in the goroutine that got the signal.         *)
(***************************************************************************)
\* Mutant: nobody is told that a clean-up is under way.
LockUnmarked(t) ==
    /\ At(t, "lock") /\ pc["main"] # "refused"
    /\ Goto(t, IF cleaners THEN "closing" ELSE "finished")
    /\ UNCHANGED <<logger, status, memory, disk, spent>>

\* It waits for c.mu, and copies the callbacks, which are the same from then on.
Lock(t) ==
    /\ At(t, "lock") /\ pc["main"] # "refused"
    /\ cleaning' = TRUE
    /\ Goto(t, IF cleaners THEN "closing" ELSE "finished")
    /\ UNCHANGED <<logger, status, cleaners, conn, disk, spent>>

\* DBCloseCallback.Invoke, which gives up after OperationTimeout.
Disconnect(t) ==
    /\ At(t, "disconnect")
    /\ \/ conn = "open" /\ conn' = "closed" /\ UNCHANGED spent
       \/ conn = "open" /\ conn' = "failed" /\ Fault
       \/ conn # "open" /\ UNCHANGED <<conn, spent>>
    /\ Goto(t, "finished")
    /\ UNCHANGED <<logger, status, cleaning, cleaners, disk>>

\* Closing what is closed is a panic.
Close(t) ==
    /\ At(t, "close")
    /\ \/ Shut /\ Goto(t, "wait") /\ UNCHANGED status
       \/ closed /\ Panic(t)
    /\ UNCHANGED <<memory, disk, spent>>

Wait(t) ==
    /\ At(t, "wait") /\ Drained
    /\ Ends("clean")
    /\ UNCHANGED <<disk, spent>>

Clean(t) == Lock(t) \/ Disconnect(t) \/ Close(t) \/ Wait(t)
-----------------------------------------------------------------------------
(***************************************************************************)
(* The operator: signals, a configuration, another start.                  *)
(***************************************************************************)
\* Cleaner.Init asks for the signals; stop() leaves them to the runtime again.
Caught == {"waiting", "signalled"}

Signal ==
    /\ status = "up" /\ spent.signals < MaxSignals
    /\ spent' = [spent EXCEPT !.signals = @ + 1]
    /\ \/ /\ pc["watcher"] \in Caught
          /\ Goto("watcher", "signalled")
          /\ UNCHANGED <<logger, status, memory>>
       \/ pc["watcher"] \notin Caught /\ Ends("killed")
    /\ UNCHANGED disk

StopNotify ==
    /\ At("watcher", "signalled")
    /\ Goto("watcher", "received")
    /\ UNCHANGED <<logger, status, memory, disk, spent>>

Edit ==
    /\ status # "up" /\ config # "valid"
    /\ config' = "valid"
    /\ UNCHANGED <<logger, status, pc, memory, docs, index, unindexed, spent>>

Start ==
    /\ status # "up" /\ spent.starts < MaxStarts
    /\ spent' = [spent EXCEPT !.starts = @ + 1]
    /\ status' = "up" /\ pc' = AtStart
    /\ ch' = 0 /\ closed' = FALSE /\ writer' = FALSE /\ worker' = "none"
    /\ cleaning' = FALSE /\ cleaners' = FALSE /\ conn' = "none"
    /\ UNCHANGED disk

Rest == status # "up" /\ UNCHANGED vars
-----------------------------------------------------------------------------
Main ==
    \/ ReadConfig \/ InitLogger \/ InitCleaner \/ Connect \/ Ping \/ Call
    \/ DropIndexes \/ IndexSessions \/ Add \/ GrpcListen \/ Listen

Step(t) == Line(t) \/ DebugLine(t)

Next ==
    \/ Main \/ ServeFails \/ Exit
    \/ \E h \in Handler : Accept(h) \/ Upsert(h) \/ Insert(h)
    \/ \E t \in Thread : Step(t)
    \/ \E t \in Cleans : Clean(t)
    \/ Worker \/ NilWriter
    \/ Signal \/ StopNotify \/ Edit \/ Start \/ Rest

Spec == Init /\ [][Next]_vars

(***************************************************************************)
(* The worker writes; a goroutine that wants to send is served in turn (a  *)
(* channel queues its senders, whence strong fairness); whoever holds c.mu *)
(* lets it go; Disconnect has a deadline.  Nothing else has to happen: the *)
(* calls of ConnectDatabase may hang, the handlers may log for ever.       *)
(***************************************************************************)
Watches == StopNotify \/ Line("watcher") \/ Clean("watcher")
Refuses == pc["main"] = "refused" /\ DebugLine("main")

Fairness == WF_vars(Worker \/ NilWriter) /\ SF_vars(Watches) /\ SF_vars(Refuses)

FairSpec == Spec /\ Fairness
=============================================================================
