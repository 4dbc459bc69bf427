-------------------------- MODULE Lifecycle_proofs --------------------------
(***************************************************************************)
(* Proofs about the start and the end of the process, for any number of    *)
(* handlers, any capacity of the log channel and any bounds.               *)
(***************************************************************************)
EXTENDS LifecycleProps, TLAPS

(***************************************************************************)
(* Where each thread can be.                                               *)
(***************************************************************************)
Places ==
    /\ pc["main"] \in {"config", "logger", "hello", "cleaner", "connecting", "connect", "ping",
                       "list", "create", "dropIndexes", "dropSubscriptionIndexes",
                       "indexSessions", "indexSubscriptions", "add", "refused", "grpc",
                       "listen", "ready", "serving", "fatal", "lock"} \cup InClean
    /\ pc["watcher"] \in {"off", "received", "lock"} \cup Caught \cup InClean
    /\ pc["serve"] \in {"off", "serves", "failing", "exit"}
    /\ \A h \in Handler : pc[h] \in {"off", "busy", "insert"}

(***************************************************************************)
(* How far main has come when another thread runs, the callback is         *)
(* registered, or a clean-up is under way.                                 *)
(***************************************************************************)
Leaving == {"lock"} \cup InClean

Stages ==
    /\ pc["serve"] # "off" => pc["main"] \in {"listen", "ready", "serving", "fatal"} \cup Leaving
    /\ \A h \in Handler : pc[h] # "off" => pc["main"] \in {"serving"} \cup Leaving
    /\ cleaners => pc["main"] \in {"grpc", "listen", "ready", "serving", "fatal"} \cup Leaving
    /\ cleaning => pc["main"] \notin Unwatched
    /\ pc["main"] \in {"refused", "grpc", "listen", "ready", "serving"} => cleaners \/ cleaning

(***************************************************************************)
(* The logger: the worker comes and goes with the channel.                 *)
(***************************************************************************)
Logging ==
    /\ worker = "none" => ch = 0 /\ ~closed
    /\ worker = "done" => ch = 0 /\ closed
    /\ status = "clean" => worker = "done"
    /\ status = "panic" /\ writer => closed

(***************************************************************************)
(* The callback has been invoked before the log is closed.                 *)
(***************************************************************************)
Invoked == cleaners => conn # "open"

Releasing ==
    /\ closed => Invoked
    /\ \A t \in Cleans : /\ pc[t] \in InClean => cleaning
                         /\ pc[t] \in {"finished", "close", "wait"} => Invoked

(***************************************************************************)
(* Handlers run with the index, or after the error nobody looked at.       *)
(***************************************************************************)
Indexed == index \/ unindexed

Indexing ==
    /\ OneDocument
    /\ pc["main"] \in {"indexSubscriptions", "add", "refused", "grpc", "listen", "ready",
                       "serving"} => Indexed
    /\ \A h \in Handler : pc[h] # "off" => Indexed

IInv == TypeOK /\ Places /\ Stages /\ Logging /\ Releasing /\ Indexing
-----------------------------------------------------------------------------
LEMMA Threads ==
    /\ "main" \in Thread /\ "watcher" \in Thread /\ "serve" \in Thread
    /\ Handler \subseteq Thread /\ Cleans \subseteq Thread
    /\ \A h \in Handler : h \notin {"main", "watcher", "serve"}
BY LifecycleAssumption DEF Thread, Cleans

LEMMA LabelsAre ==
    Labels = {"hello", "fatal", "ready", "received", "closing", "finished", "failing",
              "connecting", "refused", "serving", "busy", "list", "create",
              "dropSubscriptionIndexes", "indexSubscriptions", "disconnect", "close", "wait",
              "waiting", "signalled", "off", "config", "logger", "cleaner", "connect", "ping",
              "dropIndexes", "indexSessions", "add", "grpc", "listen", "lock", "insert",
              "serves", "exit"}
BY DEF Labels, Lines, DebugLines, Calls, InClean, Caught

LEMMA Initially == Init => IInv
<1> SUFFICES ASSUME Init PROVE IInv
    OBVIOUS
<1> USE LifecycleAssumption, AsyncAssumption, Threads DEF Init, NoHandler, AtStart
<1>1. TypeOK
  <2>1. pc \in [Thread -> Labels]
        BY LabelsAre
  <2>2. /\ ch \in 0..Capacity /\ docs \in Nat
        /\ spent \in [starts : 0..MaxStarts, signals : 0..MaxSignals, errors : 0..MaxErrors]
        BY SMT
  <2>3. /\ worker = "none" <=> pc["main"] \in Early
        /\ pc["watcher"] = "off" <=> pc["main"] \in Unwatched
        BY DEF Early, Unwatched
  <2>4. \A h \in Handler : pc[h] = "off"
        BY SMT
  <2>5. /\ closed \in BOOLEAN /\ writer \in BOOLEAN /\ closed => cleaning
        /\ cleaning \in BOOLEAN /\ cleaners \in BOOLEAN
        /\ index \in BOOLEAN /\ unindexed \in BOOLEAN
        BY Zenon
  <2> QED
      BY <2>1, <2>2, <2>3, <2>4, <2>5 DEF TypeOK
<1>2. Places
      BY DEF Places
<1>3. Stages
      BY DEF Stages, Unwatched, Early
<1>4. Logging
      BY DEF Logging
<1>5. Releasing
      BY DEF Releasing, Invoked, InClean, Cleans
<1>6. Indexing
      BY DEF Indexing, OneDocument
<1> QED
    BY <1>1, <1>2, <1>3, <1>4, <1>5, <1>6 DEF IInv

(***************************************************************************)
(* TypeOK in three parts: the places, the values, and what goes with what. *)
(***************************************************************************)
Values ==
    /\ ch \in 0..Capacity /\ closed \in BOOLEAN /\ writer \in BOOLEAN
    /\ worker \in {"none", "receive", "write", "done"}
    /\ status \in {"up", "returned", "clean", "fatal", "panic", "killed"}
    /\ cleaning \in BOOLEAN /\ cleaners \in BOOLEAN
    /\ conn \in {"none", "open", "closed", "failed"}
    /\ config \in {"absent", "empty", "valid"}
    /\ docs \in Nat /\ index \in BOOLEAN /\ unindexed \in BOOLEAN
    /\ spent \in [starts : 0..MaxStarts, signals : 0..MaxSignals, errors : 0..MaxErrors]

Order ==
    /\ worker = "none" <=> pc["main"] \in Early
    /\ pc["watcher"] = "off" <=> pc["main"] \in Unwatched
    /\ closed => cleaning
    /\ \A h \in Handler : pc[h] # "off" => cleaners \/ cleaning

LEMMA TypeParts == TypeOK <=> pc \in [Thread -> Labels] /\ Values /\ Order
BY DEF TypeOK, Values, Order

LEMMA TypePartsNext == pc' \in [Thread -> Labels] /\ Values' /\ Order' => TypeOK'
BY DEF TypeOK, Values, Order

LEMMA FaultSpends ==
    ASSUME TypeOK, Fault \/ UNCHANGED spent
    PROVE  spent' \in [starts : 0..MaxStarts, signals : 0..MaxSignals, errors : 0..MaxErrors]
BY LifecycleAssumption DEF TypeOK, Fault
-----------------------------------------------------------------------------
\* main: the configuration, the logger, the cleaner.
LEMMA ReadConfigStep == ASSUME IInv, ReadConfig PROVE IInv'
<1> USE LifecycleAssumption, AsyncAssumption, Threads, TypeParts
    DEF IInv, ReadConfig, Ends, At, Goto, Indexed, memory, disk, logger,
        InClean, Cleans, Early, Unwatched, Leaving
<1>1. pc' \in [Thread -> Labels]
      BY LabelsAre
<1>2. Values'
      BY DEF Values
<1>3. Order'
      BY DEF Order, Stages, Logging, Places, Releasing
<1>4. Places' /\ Stages'
      BY DEF Order, Places, Stages, Caught
<1>5. Logging' /\ Releasing'
      BY DEF Order, Values, Logging, Releasing, Invoked, Stages, Places
<1>6. Indexing'
      BY DEF Order, Values, Indexing, OneDocument, Stages, Places
<1> QED
    BY <1>1, <1>2, <1>3, <1>4, <1>5, <1>6, TypePartsNext

LEMMA InitLoggerStep == ASSUME IInv, InitLogger PROVE IInv'
<1> USE LifecycleAssumption, AsyncAssumption, Threads, TypeParts
    DEF IInv, InitLogger, NewAsyncHandler, rotateIfNeeded, At, Goto, Indexed, memory, disk, logger,
        InClean, Cleans, Early, Unwatched, Leaving
<1>1. pc' \in [Thread -> Labels]
      BY LabelsAre
<1>2. Values'
  <2>1. closed' \in BOOLEAN /\ writer' \in BOOLEAN
        BY Zenon
  <2> QED
      BY <2>1 DEF Values
<1>3. Order'
      BY DEF Order, Stages, Logging, Places, Releasing
<1>4. Places' /\ Stages'
      BY DEF Order, Places, Stages, Caught
<1>5. Logging' /\ Releasing'
      BY DEF Order, Values, Logging, Releasing, Invoked, Stages, Places
<1>6. Indexing'
      BY DEF Order, Values, Indexing, OneDocument, Stages, Places
<1> QED
    BY <1>1, <1>2, <1>3, <1>4, <1>5, <1>6, TypePartsNext

LEMMA InitCleanerStep == ASSUME IInv, InitCleaner PROVE IInv'
<1> USE LifecycleAssumption, AsyncAssumption, Threads, TypeParts
    DEF IInv, InitCleaner, At, Goto, Indexed, memory, disk, logger,
        InClean, Cleans, Early, Unwatched, Leaving
<1>1. pc' \in [Thread -> Labels]
      BY LabelsAre
<1>2. Values'
      BY DEF Values
<1>3. Order'
      BY DEF Order, Stages, Logging, Places, Releasing
<1>4. Places' /\ Stages'
      BY DEF Order, Places, Stages, Caught
<1>5. Logging' /\ Releasing'
      BY DEF Order, Values, Logging, Releasing, Invoked, Stages, Places
<1>6. Indexing'
      BY DEF Order, Values, Indexing, OneDocument, Stages, Places
<1> QED
    BY <1>1, <1>2, <1>3, <1>4, <1>5, <1>6, TypePartsNext

-----------------------------------------------------------------------------
\* ConnectDatabase.
LEMMA ConnectStep == ASSUME IInv, Connect PROVE IInv'
<1> USE LifecycleAssumption, AsyncAssumption, Threads, TypeParts
    DEF IInv, Connect, Fault, At, Goto, Indexed, memory, disk, logger,
        InClean, Cleans, Early, Unwatched, Leaving
<1>1. pc' \in [Thread -> Labels]
      BY LabelsAre
<1>2. Values'
      BY DEF Values
<1>3. Order'
      BY DEF Order, Stages, Logging, Places, Releasing
<1>4. Places' /\ Stages'
      BY DEF Order, Places, Stages, Caught
<1>5. Logging' /\ Releasing'
      BY DEF Order, Values, Logging, Releasing, Invoked, Stages, Places
<1>6. Indexing'
      BY DEF Order, Values, Indexing, OneDocument, Stages, Places
<1> QED
    BY <1>1, <1>2, <1>3, <1>4, <1>5, <1>6, TypePartsNext

LEMMA PingStep == ASSUME IInv, Ping PROVE IInv'
<1> USE LifecycleAssumption, AsyncAssumption, Threads, TypeParts
    DEF IInv, Ping, Fault, At, Goto, Indexed, memory, disk, logger,
        InClean, Cleans, Early, Unwatched, Leaving
<1>1. pc' \in [Thread -> Labels]
      BY LabelsAre
<1>2. Values'
      BY DEF Values
<1>3. Order'
      BY DEF Order, Stages, Logging, Places, Releasing
<1>4. Places' /\ Stages'
      BY DEF Order, Places, Stages, Caught
<1>5. Logging' /\ Releasing'
      BY DEF Order, Values, Logging, Releasing, Invoked, Stages, Places
<1>6. Indexing'
      BY DEF Order, Values, Indexing, OneDocument, Stages, Places
<1> QED
    BY <1>1, <1>2, <1>3, <1>4, <1>5, <1>6, TypePartsNext

LEMMA CallStep == ASSUME IInv, Call PROVE IInv'
<1> USE LifecycleAssumption, AsyncAssumption, Threads, TypeParts
    DEF IInv, Call, Calls, Fault, At, Goto, Indexed, memory, disk, logger,
        InClean, Cleans, Early, Unwatched, Leaving
<1>1. pc' \in [Thread -> Labels]
      BY LabelsAre
<1>2. Values'
      BY DEF Values
<1>3. Order'
      BY DEF Order, Stages, Logging, Places, Releasing
<1>4. Places' /\ Stages'
      BY DEF Order, Places, Stages, Caught
<1>5. Logging' /\ Releasing'
      BY DEF Order, Values, Logging, Releasing, Invoked, Stages, Places
<1>6. Indexing'
      BY DEF Order, Values, Indexing, OneDocument, Stages, Places
<1> QED
    BY <1>1, <1>2, <1>3, <1>4, <1>5, <1>6, TypePartsNext

LEMMA DropIndexesStep == ASSUME IInv, DropIndexes PROVE IInv'
<1> USE LifecycleAssumption, AsyncAssumption, Threads, TypeParts
    DEF IInv, DropIndexes, At, Goto, Indexed, memory, disk, logger,
        InClean, Cleans, Early, Unwatched, Leaving
<1>1. pc' \in [Thread -> Labels]
      BY LabelsAre
<1>2. Values'
  <2>1. index' \in BOOLEAN /\ unindexed' \in BOOLEAN
        BY Zenon DEF Values
  <2>2. spent' \in [starts : 0..MaxStarts, signals : 0..MaxSignals, errors : 0..MaxErrors]
        BY FaultSpends, Zenon
  <2>3. UNCHANGED <<logger, status, memory, config, docs>>
        OBVIOUS
  <2> QED
      BY <2>1, <2>2, <2>3, Zenon DEF Values
<1>3. Order'
      BY DEF Order, Stages, Logging, Places, Releasing
<1>4. Places' /\ Stages'
      BY DEF Order, Places, Stages, Caught
<1>5. Logging' /\ Releasing'
      BY DEF Order, Values, Logging, Releasing, Invoked, Stages, Places
<1>6. Indexing'
      BY DEF Order, Values, Indexing, OneDocument, Stages, Places
<1> QED
    BY <1>1, <1>2, <1>3, <1>4, <1>5, <1>6, TypePartsNext

LEMMA IndexSessionsStep == ASSUME IInv, IndexSessions PROVE IInv'
<1> USE LifecycleAssumption, AsyncAssumption, Threads, TypeParts
    DEF IInv, IndexSessions, Fault, At, Goto, Indexed, memory, disk, logger,
        InClean, Cleans, Early, Unwatched, Leaving
<1>1. pc' \in [Thread -> Labels]
      BY LabelsAre
<1>2. Values'
  <2>1. index' \in BOOLEAN
        BY Zenon DEF Values
  <2>2. unindexed' \in BOOLEAN
        BY Zenon DEF Values
  <2> QED
      BY <2>1, <2>2 DEF Values
<1>3. Order'
      BY DEF Order, Stages, Logging, Places, Releasing
<1>4. Places' /\ Stages'
      BY DEF Order, Places, Stages, Caught
<1>5. Logging' /\ Releasing'
      BY DEF Order, Values, Logging, Releasing, Invoked, Stages, Places
<1>6. Indexing'
      BY DEF Order, Values, Indexing, OneDocument, Stages, Places
<1> QED
    BY <1>1, <1>2, <1>3, <1>4, <1>5, <1>6, TypePartsNext

LEMMA AddStep == ASSUME IInv, Add PROVE IInv'
<1> USE LifecycleAssumption, AsyncAssumption, Threads, TypeParts
    DEF IInv, Add, At, Goto, Indexed, memory, disk, logger,
        InClean, Cleans, Early, Unwatched, Leaving
<1>1. pc' \in [Thread -> Labels]
      BY LabelsAre
<1>2. Values'
      BY DEF Values
<1>3. Order'
      BY DEF Order, Stages, Logging, Places, Releasing
<1>4. Places' /\ Stages'
      BY DEF Order, Places, Stages, Caught
<1>5. Logging' /\ Releasing'
      BY DEF Order, Values, Logging, Releasing, Invoked, Stages, Places
<1>6. Indexing'
      BY DEF Order, Values, Indexing, OneDocument, Stages, Places
<1> QED
    BY <1>1, <1>2, <1>3, <1>4, <1>5, <1>6, TypePartsNext

-----------------------------------------------------------------------------
\* The two servers.
LEMMA GrpcListenStep == ASSUME IInv, GrpcListen PROVE IInv'
<1> USE LifecycleAssumption, AsyncAssumption, Threads, TypeParts
    DEF IInv, GrpcListen, Fault, At, Goto, Indexed, memory, disk, logger,
        InClean, Cleans, Early, Unwatched, Leaving
<1>1. pc' \in [Thread -> Labels]
      BY LabelsAre
<1>2. Values'
      BY DEF Values
<1>3. Order'
      BY DEF Order, Stages, Logging, Places, Releasing
<1>4. Places' /\ Stages'
      BY DEF Order, Places, Stages, Caught
<1>5. Logging' /\ Releasing'
      BY DEF Order, Values, Logging, Releasing, Invoked, Stages, Places
<1>6. Indexing'
      BY DEF Order, Values, Indexing, OneDocument, Stages, Places
<1> QED
    BY <1>1, <1>2, <1>3, <1>4, <1>5, <1>6, TypePartsNext

LEMMA ListenStep == ASSUME IInv, Listen PROVE IInv'
<1> USE LifecycleAssumption, AsyncAssumption, Threads, TypeParts
    DEF IInv, Listen, Fault, At, Goto, Indexed, memory, disk, logger,
        InClean, Cleans, Early, Unwatched, Leaving
<1>1. pc' \in [Thread -> Labels]
      BY LabelsAre
<1>2. Values'
      BY DEF Values
<1>3. Order'
      BY DEF Order, Stages, Logging, Places, Releasing
<1>4. Places' /\ Stages'
      BY DEF Order, Places, Stages, Caught
<1>5. Logging' /\ Releasing'
      BY DEF Order, Values, Logging, Releasing, Invoked, Stages, Places
<1>6. Indexing'
      BY DEF Order, Values, Indexing, OneDocument, Stages, Places
<1> QED
    BY <1>1, <1>2, <1>3, <1>4, <1>5, <1>6, TypePartsNext

LEMMA ServeFailsStep == ASSUME IInv, ServeFails PROVE IInv'
<1> USE LifecycleAssumption, AsyncAssumption, Threads, TypeParts
    DEF IInv, ServeFails, Fault, At, Goto, Indexed, memory, disk, logger,
        InClean, Cleans, Early, Unwatched, Leaving
<1>1. pc' \in [Thread -> Labels]
      BY LabelsAre
<1>2. Values'
      BY DEF Values
<1>3. Order'
      BY DEF Order, Stages, Logging, Places, Releasing
<1>4. Places' /\ Stages'
      BY DEF Order, Places, Stages, Caught
<1>5. Logging' /\ Releasing'
      BY DEF Order, Values, Logging, Releasing, Invoked, Stages, Places
<1>6. Indexing'
      BY DEF Order, Values, Indexing, OneDocument, Stages, Places
<1> QED
    BY <1>1, <1>2, <1>3, <1>4, <1>5, <1>6, TypePartsNext

LEMMA ExitStep == ASSUME IInv, Exit PROVE IInv'
<1> USE LifecycleAssumption, AsyncAssumption, Threads, TypeParts
    DEF IInv, Exit, Ends, At, Goto, Indexed, memory, disk, logger,
        InClean, Cleans, Early, Unwatched, Leaving
<1>1. pc' \in [Thread -> Labels]
      BY LabelsAre
<1>2. Values'
      BY DEF Values
<1>3. Order'
      BY DEF Order, Stages, Logging, Places, Releasing
<1>4. Places' /\ Stages'
      BY DEF Order, Places, Stages, Caught
<1>5. Logging' /\ Releasing'
      BY DEF Order, Values, Logging, Releasing, Invoked, Stages, Places
<1>6. Indexing'
      BY DEF Order, Values, Indexing, OneDocument, Stages, Places
<1> QED
    BY <1>1, <1>2, <1>3, <1>4, <1>5, <1>6, TypePartsNext

-----------------------------------------------------------------------------
\* Handlers.
LEMMA AcceptStep == ASSUME IInv, NEW h \in Handler, Accept(h) PROVE IInv'
<1> USE LifecycleAssumption, AsyncAssumption, Threads, TypeParts
    DEF IInv, Accept, At, Goto, Indexed, memory, disk, logger,
        InClean, Cleans, Early, Unwatched, Leaving
<1>1. pc' \in [Thread -> Labels]
      BY LabelsAre
<1>2. Values'
      BY DEF Values
<1>3. Order'
      BY DEF Order, Stages, Logging, Places, Releasing
<1>4. Places' /\ Stages'
      BY DEF Order, Places, Stages, Caught
<1>5. Logging' /\ Releasing'
      BY DEF Order, Values, Logging, Releasing, Invoked, Stages, Places
<1>6. Indexing'
      BY DEF Order, Values, Indexing, OneDocument, Stages, Places
<1> QED
    BY <1>1, <1>2, <1>3, <1>4, <1>5, <1>6, TypePartsNext

LEMMA UpsertStep == ASSUME IInv, NEW h \in Handler, Upsert(h) PROVE IInv'
<1> USE LifecycleAssumption, AsyncAssumption, Threads, TypeParts
    DEF IInv, Upsert, At, Goto, Indexed, memory, disk, logger,
        InClean, Cleans, Early, Unwatched, Leaving
<1>1. pc' \in [Thread -> Labels]
      BY LabelsAre
<1>2. Values'
      BY DEF Values
<1>3. Order'
      BY DEF Order, Stages, Logging, Places, Releasing
<1>4. Places' /\ Stages'
      BY DEF Order, Places, Stages, Caught
<1>5. Logging' /\ Releasing'
      BY DEF Order, Values, Logging, Releasing, Invoked, Stages, Places
<1>6. Indexing'
      BY DEF Order, Values, Indexing, OneDocument, Stages, Places
<1> QED
    BY <1>1, <1>2, <1>3, <1>4, <1>5, <1>6, TypePartsNext

LEMMA InsertStep == ASSUME IInv, NEW h \in Handler, Insert(h) PROVE IInv'
<1> USE LifecycleAssumption, AsyncAssumption, Threads, TypeParts
    DEF IInv, Insert, At, Goto, Indexed, memory, disk, logger,
        InClean, Cleans, Early, Unwatched, Leaving
<1>1. pc' \in [Thread -> Labels]
      BY LabelsAre
<1>2. Values'
      BY DEF Values
<1>3. Order'
      BY DEF Order, Stages, Logging, Places, Releasing
<1>4. Places' /\ Stages'
      BY DEF Order, Places, Stages, Caught
<1>5. Logging' /\ Releasing'
      BY DEF Order, Values, Logging, Releasing, Invoked, Stages, Places
<1>6. Indexing'
      BY DEF Order, Values, Indexing, OneDocument, Stages, Places
<1> QED
    BY <1>1, <1>2, <1>3, <1>4, <1>5, <1>6, TypePartsNext

-----------------------------------------------------------------------------
\* Lines: the sender is a thread that runs, so there is a worker.
LEMMA LineStep == ASSUME IInv, NEW t \in Thread, Line(t) PROVE IInv'
<1> USE LifecycleAssumption, AsyncAssumption, Threads, TypeParts
    DEF IInv, Line, Log, Lines, Panic, Send, At, Goto, Indexed, memory, disk, logger,
        InClean, Cleans, Early, Unwatched, Leaving
<1>1. pc' \in [Thread -> Labels]
      BY LabelsAre
<1>2. Values'
      BY DEF Values
<1>3. Order'
      BY DEF Order, Stages, Logging, Places, Releasing
<1>4. Places' /\ Stages'
      BY DEF Order, Places, Stages, Caught
<1>5. Logging' /\ Releasing'
  <2>1. worker # "none"
    <3>1. CASE t = "main"
          BY <3>1 DEF Order
    <3>2. CASE t = "watcher"
          BY <3>2 DEF Order
    <3>3. CASE t = "serve"
          BY <3>3 DEF Order, Stages
    <3>4. CASE t \in Handler
          BY <3>4 DEF Order, Stages, Places
    <3> QED
        BY <3>1, <3>2, <3>3, <3>4 DEF Thread
  <2>2. CASE Send
        BY <2>1, <2>2 DEF Order, Values, Logging, Releasing, Invoked, Stages, Places
  <2>3. CASE closed /\ Panic(t)
        BY <2>1, <2>3 DEF Order, Values, Logging, Releasing, Invoked, Stages, Places
  <2> QED
      BY <2>2, <2>3
<1>6. Indexing'
      BY DEF Order, Values, Indexing, OneDocument, Stages, Places
<1> QED
    BY <1>1, <1>2, <1>3, <1>4, <1>5, <1>6, TypePartsNext

LEMMA DebugLineStep == ASSUME IInv, NEW t \in Thread, DebugLine(t) PROVE IInv'
<1> USE LifecycleAssumption, AsyncAssumption, Threads, TypeParts
    DEF IInv, DebugLine, Log, DebugLines, Panic, Send, At, Goto, Indexed, memory, disk, logger,
        InClean, Cleans, Early, Unwatched, Leaving
<1>1. pc' \in [Thread -> Labels]
      BY LabelsAre
<1>2. Values'
      BY DEF Values
<1>3. Order'
      BY DEF Order, Stages, Logging, Places, Releasing
<1>4. Places' /\ Stages'
      BY DEF Order, Places, Stages, Caught
<1>5. Logging' /\ Releasing'
  <2>1. worker # "none"
    <3>1. CASE t = "main"
          BY <3>1 DEF Order
    <3>2. CASE t = "watcher"
          BY <3>2 DEF Order
    <3>3. CASE t = "serve"
          BY <3>3 DEF Order, Stages
    <3>4. CASE t \in Handler
          BY <3>4 DEF Order, Stages, Places
    <3> QED
        BY <3>1, <3>2, <3>3, <3>4 DEF Thread
  <2>2. CASE Send
        BY <2>1, <2>2 DEF Order, Values, Logging, Releasing, Invoked, Stages, Places
  <2>3. CASE closed /\ Panic(t)
    <3>1. UNCHANGED <<logger, memory>>
          BY <2>3
    <3>2. CASE t = "main" /\ pc[t] \notin InClean
          BY <2>1, <2>3, <3>1, <3>2 DEF Order, Values, Logging, Releasing, Invoked, Stages, Places
    <3>3. CASE t # "main" \/ pc[t] \in InClean
          BY <2>1, <2>3, <3>1, <3>3 DEF Order, Values, Logging, Releasing, Invoked, Stages, Places
    <3> QED
        BY <3>2, <3>3
  <2>4. CASE UNCHANGED <<logger, status, memory>> /\ Goto(t, DebugLines[pc[t]])
        BY <2>1, <2>4 DEF Order, Values, Logging, Releasing, Invoked, Stages, Places
  <2> QED
      BY <2>2, <2>3, <2>4
<1>6. Indexing'
      BY DEF Order, Values, Indexing, OneDocument, Stages, Places
<1> QED
    BY <1>1, <1>2, <1>3, <1>4, <1>5, <1>6, TypePartsNext

-----------------------------------------------------------------------------
\* Clean.
LEMMA LockStep == ASSUME IInv, NEW t \in Cleans, Lock(t) PROVE IInv'
<1> USE LifecycleAssumption, AsyncAssumption, Threads, TypeParts
    DEF IInv, Lock, At, Goto, Indexed, memory, disk, logger,
        InClean, Cleans, Early, Unwatched, Leaving
<1>1. pc' \in [Thread -> Labels]
      BY LabelsAre
<1>2. Values'
      BY DEF Values
<1>3. Order'
      BY DEF Order, Stages, Logging, Places, Releasing
<1>4. Places' /\ Stages'
      BY DEF Order, Places, Stages, Caught
<1>5. Logging' /\ Releasing'
      BY DEF Order, Values, Logging, Releasing, Invoked, Stages, Places
<1>6. Indexing'
      BY DEF Order, Values, Indexing, OneDocument, Stages, Places
<1> QED
    BY <1>1, <1>2, <1>3, <1>4, <1>5, <1>6, TypePartsNext

LEMMA DisconnectStep == ASSUME IInv, NEW t \in Cleans, Disconnect(t) PROVE IInv'
<1> USE LifecycleAssumption, AsyncAssumption, Threads, TypeParts
    DEF IInv, Disconnect, Fault, At, Goto, Indexed, memory, disk, logger,
        InClean, Cleans, Early, Unwatched, Leaving
<1>1. pc' \in [Thread -> Labels]
      BY LabelsAre
<1>2. Values'
      BY DEF Values
<1>3. Order'
      BY DEF Order, Stages, Logging, Places, Releasing
<1>4. Places' /\ Stages'
      BY DEF Order, Places, Stages, Caught
<1>5. Logging' /\ Releasing'
      BY DEF Order, Values, Logging, Releasing, Invoked, Stages, Places
<1>6. Indexing'
      BY DEF Order, Values, Indexing, OneDocument, Stages, Places
<1> QED
    BY <1>1, <1>2, <1>3, <1>4, <1>5, <1>6, TypePartsNext

LEMMA CloseStep == ASSUME IInv, NEW t \in Cleans, Close(t) PROVE IInv'
<1> USE LifecycleAssumption, AsyncAssumption, Threads, TypeParts
    DEF IInv, Close, Shut, Panic, At, Goto, Indexed, memory, disk, logger,
        InClean, Cleans, Early, Unwatched, Leaving
<1>1. pc' \in [Thread -> Labels]
      BY LabelsAre
<1>2. Values'
  <2>1. closed' \in BOOLEAN
        BY Zenon DEF Values
  <2> QED
      BY <2>1 DEF Values
<1>3. Order'
      BY DEF Order, Stages, Logging, Places, Releasing
<1>4. Places' /\ Stages'
      BY DEF Order, Places, Stages, Caught
<1>5. Logging' /\ Releasing'
      BY DEF Order, Values, Logging, Releasing, Invoked, Stages, Places
<1>6. Indexing'
      BY DEF Order, Values, Indexing, OneDocument, Stages, Places
<1> QED
    BY <1>1, <1>2, <1>3, <1>4, <1>5, <1>6, TypePartsNext

LEMMA WaitStep == ASSUME IInv, NEW t \in Cleans, Wait(t) PROVE IInv'
<1> USE LifecycleAssumption, AsyncAssumption, Threads, TypeParts
    DEF IInv, Wait, Drained, Ends, At, Goto, Indexed, memory, disk, logger,
        InClean, Cleans, Early, Unwatched, Leaving
<1>1. pc' \in [Thread -> Labels]
      BY LabelsAre
<1>2. Values'
      BY DEF Values
<1>3. Order'
      BY DEF Order, Stages, Logging, Places, Releasing
<1>4. Places' /\ Stages'
      BY DEF Order, Places, Stages, Caught
<1>5. Logging' /\ Releasing'
      BY DEF Order, Values, Logging, Releasing, Invoked, Stages, Places
<1>6. Indexing'
      BY DEF Order, Values, Indexing, OneDocument, Stages, Places
<1> QED
    BY <1>1, <1>2, <1>3, <1>4, <1>5, <1>6, TypePartsNext

-----------------------------------------------------------------------------
\* The worker.
LEMMA ReceivesStep == ASSUME IInv, Receives PROVE IInv'
<1> USE LifecycleAssumption, AsyncAssumption, Threads, TypeParts
    DEF IInv, Receives, Receive, At, Goto, Indexed, memory, disk, logger,
        InClean, Cleans, Early, Unwatched, Leaving
<1>1. pc' \in [Thread -> Labels]
      BY LabelsAre
<1>2. Values'
      BY DEF Values
<1>3. Order'
      BY DEF Order, Stages, Logging, Places, Releasing
<1>4. Places' /\ Stages'
      BY DEF Order, Places, Stages, Caught
<1>5. Logging' /\ Releasing'
      BY DEF Order, Values, Logging, Releasing, Invoked, Stages, Places
<1>6. Indexing'
      BY DEF Order, Values, Indexing, OneDocument, Stages, Places
<1> QED
    BY <1>1, <1>2, <1>3, <1>4, <1>5, <1>6, TypePartsNext

LEMMA WritesStep == ASSUME IInv, Writes PROVE IInv'
<1> USE LifecycleAssumption, AsyncAssumption, Threads, TypeParts
    DEF IInv, Writes, Written, At, Goto, Indexed, memory, disk, logger,
        InClean, Cleans, Early, Unwatched, Leaving
<1>1. pc' \in [Thread -> Labels]
      BY LabelsAre
<1>2. Values'
      BY DEF Values
<1>3. Order'
      BY DEF Order, Stages, Logging, Places, Releasing
<1>4. Places' /\ Stages'
      BY DEF Order, Places, Stages, Caught
<1>5. Logging' /\ Releasing'
      BY DEF Order, Values, Logging, Releasing, Invoked, Stages, Places
<1>6. Indexing'
      BY DEF Order, Values, Indexing, OneDocument, Stages, Places
<1> QED
    BY <1>1, <1>2, <1>3, <1>4, <1>5, <1>6, TypePartsNext

LEMMA FinishesStep == ASSUME IInv, Finishes PROVE IInv'
<1> USE LifecycleAssumption, AsyncAssumption, Threads, TypeParts
    DEF IInv, Finishes, Finish, At, Goto, Indexed, memory, disk, logger,
        InClean, Cleans, Early, Unwatched, Leaving
<1>1. pc' \in [Thread -> Labels]
      BY LabelsAre
<1>2. Values'
      BY DEF Values
<1>3. Order'
      BY DEF Order, Stages, Logging, Places, Releasing
<1>4. Places' /\ Stages'
      BY DEF Order, Places, Stages, Caught
<1>5. Logging' /\ Releasing'
      BY DEF Order, Values, Logging, Releasing, Invoked, Stages, Places
<1>6. Indexing'
      BY DEF Order, Values, Indexing, OneDocument, Stages, Places
<1> QED
    BY <1>1, <1>2, <1>3, <1>4, <1>5, <1>6, TypePartsNext

LEMMA NilWriterStep == ASSUME IInv, NilWriter PROVE IInv'
<1> USE LifecycleAssumption, AsyncAssumption, Threads, TypeParts
    DEF IInv, NilWriter, Ends, At, Goto, Indexed, memory, disk, logger,
        InClean, Cleans, Early, Unwatched, Leaving
<1>1. pc' \in [Thread -> Labels]
      BY LabelsAre
<1>2. Values'
      BY DEF Values
<1>3. Order'
      BY DEF Order, Stages, Logging, Places, Releasing
<1>4. Places' /\ Stages'
      BY DEF Order, Places, Stages, Caught
<1>5. Logging' /\ Releasing'
      BY DEF Order, Values, Logging, Releasing, Invoked, Stages, Places
<1>6. Indexing'
      BY DEF Order, Values, Indexing, OneDocument, Stages, Places
<1> QED
    BY <1>1, <1>2, <1>3, <1>4, <1>5, <1>6, TypePartsNext

-----------------------------------------------------------------------------
\* The operator.
LEMMA SignalStep == ASSUME IInv, Signal PROVE IInv'
<1> USE LifecycleAssumption, AsyncAssumption, Threads, TypeParts
    DEF IInv, Signal, Caught, Ends, At, Goto, Indexed, memory, disk, logger,
        InClean, Cleans, Early, Unwatched, Leaving
<1>1. pc' \in [Thread -> Labels]
      BY LabelsAre
<1>2. Values'
      BY DEF Values
<1>3. Order'
      BY DEF Order, Stages, Logging, Places, Releasing
<1>4. Places' /\ Stages'
      BY DEF Order, Places, Stages, Caught
<1>5. Logging' /\ Releasing'
      BY DEF Order, Values, Logging, Releasing, Invoked, Stages, Places
<1>6. Indexing'
      BY DEF Order, Values, Indexing, OneDocument, Stages, Places
<1> QED
    BY <1>1, <1>2, <1>3, <1>4, <1>5, <1>6, TypePartsNext

LEMMA StopNotifyStep == ASSUME IInv, StopNotify PROVE IInv'
<1> USE LifecycleAssumption, AsyncAssumption, Threads, TypeParts
    DEF IInv, StopNotify, At, Goto, Indexed, memory, disk, logger,
        InClean, Cleans, Early, Unwatched, Leaving
<1>1. pc' \in [Thread -> Labels]
      BY LabelsAre
<1>2. Values'
      BY DEF Values
<1>3. Order'
      BY DEF Order, Stages, Logging, Places, Releasing
<1>4. Places' /\ Stages'
      BY DEF Order, Places, Stages, Caught
<1>5. Logging' /\ Releasing'
      BY DEF Order, Values, Logging, Releasing, Invoked, Stages, Places
<1>6. Indexing'
      BY DEF Order, Values, Indexing, OneDocument, Stages, Places
<1> QED
    BY <1>1, <1>2, <1>3, <1>4, <1>5, <1>6, TypePartsNext

LEMMA EditStep == ASSUME IInv, Edit PROVE IInv'
<1> USE LifecycleAssumption, AsyncAssumption, Threads, TypeParts
    DEF IInv, Edit, At, Goto, Indexed, memory, disk, logger,
        InClean, Cleans, Early, Unwatched, Leaving
<1>1. pc' \in [Thread -> Labels]
      BY LabelsAre
<1>2. Values'
      BY DEF Values
<1>3. Order'
      BY DEF Order, Stages, Logging, Places, Releasing
<1>4. Places' /\ Stages'
      BY DEF Order, Places, Stages, Caught
<1>5. Logging' /\ Releasing'
      BY DEF Order, Values, Logging, Releasing, Invoked, Stages, Places
<1>6. Indexing'
      BY DEF Order, Values, Indexing, OneDocument, Stages, Places
<1> QED
    BY <1>1, <1>2, <1>3, <1>4, <1>5, <1>6, TypePartsNext

LEMMA StartStep == ASSUME IInv, Start PROVE IInv'
<1> USE LifecycleAssumption, AsyncAssumption, Threads, TypeParts
    DEF IInv, Start, AtStart, At, Goto, Indexed, memory, disk, logger,
        InClean, Cleans, Early, Unwatched, Leaving
<1>1. pc' \in [Thread -> Labels]
      BY LabelsAre
<1>2. Values'
  <2>1. /\ closed' \in BOOLEAN /\ writer' \in BOOLEAN
        /\ cleaning' \in BOOLEAN /\ cleaners' \in BOOLEAN
        BY Zenon
  <2> QED
      BY <2>1 DEF Values
<1>3. Order'
      BY DEF Order, Stages, Logging, Places, Releasing
<1>4. Places' /\ Stages'
      BY DEF Order, Places, Stages, Caught
<1>5. Logging' /\ Releasing'
      BY DEF Order, Values, Logging, Releasing, Invoked, Stages, Places
<1>6. Indexing'
      BY DEF Order, Values, Indexing, OneDocument, Stages, Places
<1> QED
    BY <1>1, <1>2, <1>3, <1>4, <1>5, <1>6, TypePartsNext

LEMMA RestStep == ASSUME IInv, Rest \/ UNCHANGED vars PROVE IInv'
<1> USE LifecycleAssumption, AsyncAssumption, Threads, TypeParts
    DEF IInv, Rest, vars, At, Goto, Indexed, memory, disk, logger,
        InClean, Cleans, Early, Unwatched, Leaving
<1>1. pc' \in [Thread -> Labels]
      BY LabelsAre
<1>2. Values'
      BY DEF Values
<1>3. Order'
      BY DEF Order, Stages, Logging, Places, Releasing
<1>4. Places' /\ Stages'
      BY DEF Order, Places, Stages, Caught
<1>5. Logging' /\ Releasing'
      BY DEF Order, Values, Logging, Releasing, Invoked, Stages, Places
<1>6. Indexing'
      BY DEF Order, Values, Indexing, OneDocument, Stages, Places
<1> QED
    BY <1>1, <1>2, <1>3, <1>4, <1>5, <1>6, TypePartsNext

-----------------------------------------------------------------------------
LEMMA Inductive == IInv /\ [Next]_vars => IInv'
<1> SUFFICES ASSUME IInv, [Next]_vars PROVE IInv'
    OBVIOUS
<1>1. CASE Main
      BY <1>1, ReadConfigStep, InitLoggerStep, InitCleanerStep, ConnectStep, PingStep, CallStep,
         DropIndexesStep, IndexSessionsStep, AddStep, GrpcListenStep, ListenStep DEF Main
<1>2. CASE ServeFails \/ Exit
      BY <1>2, ServeFailsStep, ExitStep
<1>3. CASE \E h \in Handler : Accept(h) \/ Upsert(h) \/ Insert(h)
      BY <1>3, AcceptStep, UpsertStep, InsertStep
<1>4. CASE \E t \in Thread : Step(t)
      BY <1>4, LineStep, DebugLineStep DEF Step
<1>5. CASE \E t \in Cleans : Clean(t)
      BY <1>5, LockStep, DisconnectStep, CloseStep, WaitStep DEF Clean
<1>6. CASE Worker \/ NilWriter
      BY <1>6, ReceivesStep, WritesStep, FinishesStep, NilWriterStep DEF Worker
<1>7. CASE Signal \/ StopNotify \/ Edit \/ Start
      BY <1>7, SignalStep, StopNotifyStep, EditStep, StartStep
<1>8. CASE Rest \/ UNCHANGED vars
      BY <1>8, RestStep
<1> QED
    BY <1>1, <1>2, <1>3, <1>4, <1>5, <1>6, <1>7, <1>8 DEF Next

LEMMA Invariance == Spec => []IInv
BY Initially, Inductive, PTL DEF Spec
-----------------------------------------------------------------------------
(***************************************************************************)
(* Types hold, and main has come as far as the other threads, the worker   *)
(* of the logger and the registered callback presuppose.                   *)
(***************************************************************************)
THEOREM TypeCorrect == Spec => []TypeOK
<1>1. IInv => TypeOK
      BY DEF IInv
<1> QED
    BY <1>1, Invariance, PTL

(***************************************************************************)
(* When Clean ends the process, every line that was logged is written,     *)
(* however many handlers log and whatever the size of the channel.         *)
(***************************************************************************)
THEOREM NothingLostHolds == Spec => []NothingLost
<1>1. IInv => NothingLost
      BY DEF IInv, Logging, NothingLost
<1> QED
    BY <1>1, Invariance, PTL

(***************************************************************************)
(* A process that ends by Clean, or by a panic at the closed log channel,  *)
(* has invoked the callback of the database if one was registered.         *)
(***************************************************************************)
THEOREM ReleasedHolds == Spec => []Released
<1>1. IInv => Released
      BY DEF IInv, Logging, Releasing, Invoked, Released
<1> QED
    BY <1>1, Invariance, PTL

(***************************************************************************)
(* Two documents of one client need a start that went on without the       *)
(* unique index, for any number of handlers that save at the same time.    *)
(***************************************************************************)
THEOREM OneDocumentHolds == Spec => []OneDocument
<1>1. IInv => OneDocument
      BY DEF IInv, Indexing
<1> QED
    BY <1>1, Invariance, PTL
=============================================================================
