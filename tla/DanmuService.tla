---------------------------- MODULE DanmuService ----------------------------
(***************************************************************************)
(* The session collection coordinator of rust-srec's danmu service         *)
(* (src/rust-srec/src/danmu/service.rs): the registry `collections`        *)
(* (session_id -> CollectionState), the reverse index                      *)
(* `sessions_by_streamer`, the task spawned by start_collection, the       *)
(* callers of start_collection and stop_collection, shutdown, and a       *)
(* holder of a CollectionHandle sending segment commands over the task's   *)
(* bounded command channel.                                                *)
(*                                                                         *)
(* Actors are <<kind, id>>: <<"c", i>> is the i-th call of                 *)
(* start_collection, <<"t", i>> the task it spawns, <<"s", k>> a call of   *)
(* stop_collection (k = 0 is the one shutdown makes), <<"h", 1>> the      *)
(* caller of get_handle and start_segment / end_segment.  Each DashMap call*)
(* is one atomic step.  With Parallel = FALSE (a current_thread runtime)   *)
(* an actor that starts a synchronous run of code keeps the thread, `cpu`, *)
(* until its next .await; with Parallel = TRUE (multi_thread) any actor    *)
(* may step between two DashMap calls of another.                          *)
(*                                                                         *)
(* A CollectionState is the instance i that registered it; statistics are *)
(* the instance whose runner produced them.                                *)
(***************************************************************************)
EXTENDS Naturals, FiniteSets

CONSTANTS
    Sessions,       \* session ids callers may use
    Streamers,      \* streamer ids
    MaxInst,        \* number of start_collection calls
    MaxStops,       \* number of user stop_collection callers
    Parallel,       \* TRUE: multi-threaded runtime
    ReuseSessions,  \* may a later start_collection reuse a session id?
    ChanCap,        \* capacity of the command channel (32 in the code)
    MaxCmds,        \* number of get_handle calls the handle caller makes
    None            \* model value: no session / no streamer / no thread

ASSUME MaxInst \in Nat \ {0} /\ MaxStops \in Nat /\ Parallel \in BOOLEAN
       /\ ReuseSessions \in BOOLEAN /\ ChanCap \in Nat \ {0}
       /\ MaxCmds \in Nat

Instances == 1..MaxInst
StopIds   == 0..MaxStops
HandleIds == IF MaxCmds > 0 THEN {1} ELSE {}
Actors    == ({"c", "t"} \X Instances) \cup ({"s"} \X StopIds)
             \cup ({"h"} \X HandleIds)
Outcome   == {"none", "ok", "err"}

VARIABLES
    collections,  \* session -> registered instance, 0 when absent
    byStreamer,   \* sessions_by_streamer: streamer -> session or None
    sessOf,       \* the session id of call i
    streamerOf,   \* the streamer id of call i (CollectionState.streamer_id)
    stopSess,     \* the session id stop_collection call k was given
    pc,           \* control point of every actor
    held,         \* the instance whose CollectionState the actor removed
    ready,        \* the ready oneshot of instance i
    done,         \* the done oneshot of instance i
    result,       \* what runner.run returned for instance i
    cancelled,    \* the child cancel token of instance i was cancelled
    globalCancel, \* the service's cancel token was cancelled
    started,      \* CollectionStarted was broadcast for instance i
    stopped,      \* CollectionStopped (with persist) carrying i's statistics
    drain,        \* sessions shutdown still has to stop
    cpu,          \* the actor holding the thread (current_thread only)
    chan,         \* commands buffered in instance i's command channel
    cmds          \* get_handle calls the handle caller has made

vars == <<collections, byStreamer, sessOf, streamerOf, stopSess, pc, held,
          ready, done, result, cancelled, globalCancel, started, stopped,
          drain, cpu, chan, cmds>>

regVars  == <<collections, byStreamer>>
idVars   == <<sessOf, streamerOf, stopSess>>
chanVars == <<ready, done, result>>
tokVars  == <<cancelled, globalCancel>>
evVars   == <<started, stopped>>
cmdVars  == <<chan, cmds>>

-----------------------------------------------------------------------------
(* Control points at which an actor is suspended in an .await, not yet     *)
(* started, or finished: there it gives up the thread.                     *)
Suspended == {"cIdle", "cWait", "cDone", "tNew", "tConnecting", "tRunning",
              "tPersist", "tExited", "sIdle", "sSendWait", "sWait",
              "sPersist", "hIdle", "hHeld", "hSendWait"}

Labels == Suspended \cup {"cInsert", "cIndex", "rm", "rget", "rdel",
                          "connDone", "runDone", "stopSend"}

CanRun(a) == cpu \in {None, a}

Sched(a, lbl) == IF Parallel \/ lbl \in Suspended THEN None ELSE a

Goto(a, lbl) == /\ pc' = [pc EXCEPT ![a] = lbl]
                /\ cpu' = Sched(a, lbl)

Sess(a) == IF a[1] = "s" THEN stopSess[a[2]] ELSE sessOf[a[2]]

\* Mutant: a token made with CancellationToken::new(), not child_token().
CancelledNoParent(i) == cancelled[i]

\* The child token of instance i, cancelled with it or with its parent.
Cancelled(i) == cancelled[i] \/ globalCancel

TaskLive(i) == pc[<<"t", i>>] \in {"tConnecting", "tRunning"}

(* The command channel of instance i, made before its state is inserted.  *)
(* Its receiver command_rx is moved into the spawned task, then into       *)
(* runner.run(command_rx, ..), and dropped when run returns or when the    *)
(* task returns on the connect error path; after that every send is Err.   *)

\* Mutant: the connect error path keeps the receiver alive.
RxAliveUntilRun(i) == result[i] = "none"

RxAlive(i) == pc[<<"t", i>>] # "tExited" /\ result[i] = "none"

\* Sender::send(..).await suspends: receiver alive and no free slot.
SendBlocks(i) == RxAlive(i) /\ chan[i] = ChanCap

\* A step that drops command_rx frees the commands still buffered.
DropRx(i) == chan' = [chan EXCEPT ![i] = IF RxAlive(i)' THEN @ ELSE 0]

\* The send completes: the command is buffered if the receiver is alive.
Enqueue(i) == chan' = [chan EXCEPT ![i] = IF RxAlive(i) THEN @ + 1 ELSE @]

\* Where an actor goes once its registry cleanup is over.
Cont(a) == CASE a[1] = "c" -> "cDone"
             [] a[1] = "t" -> IF result[a[2]] = "none" THEN "connDone"
                                                       ELSE "runDone"
             [] a[1] = "s" -> "stopSend"

-----------------------------------------------------------------------------
(* The registry cleanup every exit path repeats: collections.remove, then  *)
(* sessions_by_streamer.get on the removed state's streamer, then remove   *)
(* when it still names this session.                                       *)

\* Mutant: keeps the removed key instead of the removed CollectionState.
RemoveFromKey(a, s, absent) ==
    IF collections[s] # 0
    THEN /\ held' = [held EXCEPT ![a] = s]
         /\ collections' = [collections EXCEPT ![s] = 0]
         /\ Goto(a, "rget")
    ELSE /\ UNCHANGED <<collections, held>>
         /\ Goto(a, absent)

RemoveFrom(a, s, absent) ==
    IF collections[s] # 0
    THEN /\ held' = [held EXCEPT ![a] = collections[s]]
         /\ collections' = [collections EXCEPT ![s] = 0]
         /\ Goto(a, "rget")
    ELSE /\ UNCHANGED <<collections, held>>
         /\ Goto(a, absent)

CleanupRemove(a) ==
    /\ pc[a] = "rm" /\ CanRun(a)
    /\ RemoveFrom(a, Sess(a), Cont(a))
    /\ UNCHANGED <<cmdVars, byStreamer, idVars, chanVars, tokVars, evVars,
                   drain>>

\* Mutant: removes the reverse entry without the should_remove comparison.
CleanupGetAlways(a) ==
    /\ pc[a] = "rget" /\ CanRun(a)
    /\ Goto(a, "rdel")
    /\ UNCHANGED <<cmdVars, regVars, idVars, held, chanVars, tokVars, evVars,
                   drain>>

CleanupGet(a) ==
    /\ pc[a] = "rget" /\ CanRun(a)
    /\ Goto(a, IF byStreamer[streamerOf[held[a]]] = Sess(a) THEN "rdel"
                                                            ELSE Cont(a))
    /\ UNCHANGED <<cmdVars, regVars, idVars, held, chanVars, tokVars, evVars,
                   drain>>

CleanupDel(a) ==
    /\ pc[a] = "rdel" /\ CanRun(a)
    /\ byStreamer' = [byStreamer EXCEPT ![streamerOf[held[a]]] = None]
    /\ Goto(a, Cont(a))
    /\ UNCHANGED <<cmdVars, collections, idVars, held, chanVars, tokVars,
                   evVars, drain>>

-----------------------------------------------------------------------------
(* start_collection(session_id, streamer_id, ...), call i.                 *)

\* Mutant: no contains_key guard.
StartCheckNoGuard(i, s, x) ==
    LET c == <<"c", i>> IN
    /\ pc[c] = "cIdle" /\ CanRun(c)
    /\ ReuseSessions \/ \A j \in Instances : sessOf[j] # s
    /\ sessOf' = [sessOf EXCEPT ![i] = s]
    /\ streamerOf' = [streamerOf EXCEPT ![i] = x]
    /\ \/ Goto(c, "cInsert")
       \/ Goto(c, "cDone")
    /\ UNCHANGED <<cmdVars, regVars, stopSess, held, chanVars, tokVars,
                   evVars, drain>>

\* The duplicate-start guard, or the provider / room id lookup failing:
\* both return Err before anything is registered.
StartCheck(i, s, x) ==
    LET c == <<"c", i>> IN
    /\ pc[c] = "cIdle" /\ CanRun(c)
    /\ ReuseSessions \/ \A j \in Instances : sessOf[j] # s
    /\ sessOf' = [sessOf EXCEPT ![i] = s]
    /\ streamerOf' = [streamerOf EXCEPT ![i] = x]
    /\ \/ Goto(c, IF collections[s] # 0 THEN "cDone" ELSE "cInsert")
       \/ Goto(c, "cDone")
    /\ UNCHANGED <<cmdVars, regVars, stopSess, held, chanVars, tokVars,
                   evVars, drain>>

StartInsert(i) ==
    LET c == <<"c", i>> IN
    /\ pc[c] = "cInsert" /\ CanRun(c)
    /\ collections' = [collections EXCEPT ![sessOf[i]] = i]
    /\ Goto(c, "cIndex")
    /\ UNCHANGED <<cmdVars, byStreamer, idVars, held, chanVars, tokVars,
                   evVars, drain>>

\* Mutant: the reverse entry is not inserted.
StartIndexNoReverse(i) ==
    LET c == <<"c", i>> IN
    /\ pc[c] = "cIndex" /\ CanRun(c)
    /\ pc' = [pc EXCEPT ![c] = "cWait", ![<<"t", i>>] = "tConnecting"]
    /\ cpu' = None
    /\ UNCHANGED <<cmdVars, regVars, idVars, held, chanVars, tokVars, evVars,
                   drain>>

\* sessions_by_streamer.insert, then tokio::spawn of the collection task.
StartIndex(i) ==
    LET c == <<"c", i>> IN
    /\ pc[c] = "cIndex" /\ CanRun(c)
    /\ byStreamer' = [byStreamer EXCEPT ![streamerOf[i]] = sessOf[i]]
    /\ pc' = [pc EXCEPT ![c] = "cWait", ![<<"t", i>>] = "tConnecting"]
    /\ cpu' = None
    /\ UNCHANGED <<cmdVars, collections, idVars, held, chanVars, tokVars,
                   evVars, drain>>

\* The select! over ready_rx and cancel_token.cancelled(): either branch
\* that is ready may be taken.
StartReady(i) ==
    LET c == <<"c", i>> IN
    /\ pc[c] = "cWait" /\ CanRun(c)
    /\ ready[i] = "ok"
    /\ started' = [started EXCEPT ![i] = TRUE]
    /\ Goto(c, "cDone")
    /\ UNCHANGED <<cmdVars, regVars, idVars, held, chanVars, tokVars, stopped,
                   drain>>

StartFailed(i) ==
    LET c == <<"c", i>> IN
    /\ pc[c] = "cWait" /\ CanRun(c)
    /\ ready[i] = "err" \/ Cancelled(i)
    /\ Goto(c, "rm")
    /\ UNCHANGED <<cmdVars, regVars, idVars, held, chanVars, tokVars, evVars,
                   drain>>

-----------------------------------------------------------------------------
(* The spawned collection task of instance i.                              *)

\* CollectionRunner::new under the 30 s timeout resolves: Ok sends
\* ready Ok and awaits runner.run; Err or the timeout sends ready Err
\* (and an Error event) and cleans the registry up.  The token is not
\* given to CollectionRunner::new, so connecting ignores cancellation.
Connect(i) ==
    LET t == <<"t", i>> IN
    /\ pc[t] = "tConnecting" /\ CanRun(t)
    /\ \E r \in {"ok", "err"} :
         /\ ready' = [ready EXCEPT ![i] = r]
         /\ Goto(t, IF r = "ok" THEN "tRunning" ELSE "rm")
    /\ UNCHANGED <<cmdVars, regVars, idVars, held, done, result, tokVars,
                   evVars, drain>>

ConnDone(i) ==
    LET t == <<"t", i>> IN
    /\ pc[t] = "connDone" /\ CanRun(t)
    /\ done' = [done EXCEPT ![i] = "err"]
    /\ held' = [held EXCEPT ![t] = 0]
    /\ Goto(t, "tExited")
    /\ UNCHANGED <<cmds, regVars, idVars, ready, result, tokVars, evVars,
                   drain>>
    /\ DropRx(i)

\* runner.run(command_rx, cancel_token) returns.  The runner is outside
\* this repository: it may end on its own with Ok or Err at any time, and
\* it ends promptly once its token is cancelled (see Fairness).
RunnerExit(i) ==
    LET t == <<"t", i>> IN
    /\ pc[t] = "tRunning" /\ CanRun(t)
    /\ \E r \in {"ok", "err"} : result' = [result EXCEPT ![i] = r]
    /\ Goto(t, "rm")
    /\ DropRx(i)
    /\ UNCHANGED <<cmds, regVars, idVars, held, ready, done, tokVars,
                   evVars, drain>>

\* Mutant: persists and broadcasts whether or not it removed the entry.
RunDoneAlways(i) ==
    LET t == <<"t", i>> IN
    /\ pc[t] = "runDone" /\ CanRun(t)
    /\ IF result[i] = "ok"
       THEN /\ Goto(t, "tPersist")
            /\ UNCHANGED done
       ELSE /\ done' = [done EXCEPT ![i] = result[i]]
            /\ Goto(t, "tExited")
    /\ held' = [held EXCEPT ![t] = 0]
    /\ UNCHANGED <<cmdVars, regVars, idVars, ready, result, tokVars, evVars,
                   drain>>

\* After the cleanup: only the remover that found the entry persists and
\* broadcasts, and only for an Ok result; then done_tx.send.
RunDone(i) ==
    LET t == <<"t", i>> IN
    /\ pc[t] = "runDone" /\ CanRun(t)
    /\ IF held[t] # 0 /\ result[i] = "ok"
       THEN /\ Goto(t, "tPersist")
            /\ UNCHANGED done
       ELSE /\ done' = [done EXCEPT ![i] = result[i]]
            /\ Goto(t, "tExited")
    /\ held' = [held EXCEPT ![t] = 0]
    /\ UNCHANGED <<cmdVars, regVars, idVars, ready, result, tokVars, evVars,
                   drain>>

\* persist_statistics(...).await, CollectionStopped, done_tx.send(Ok).
TaskPersist(i) ==
    LET t == <<"t", i>> IN
    /\ pc[t] = "tPersist" /\ CanRun(t)
    /\ stopped' = [stopped EXCEPT ![i] = @ + 1]
    /\ done' = [done EXCEPT ![i] = "ok"]
    /\ Goto(t, "tExited")
    /\ UNCHANGED <<cmdVars, regVars, idVars, held, ready, result, tokVars,
                   started, drain>>

\* The runner's command loop takes the next command off command_rx.
RunnerRecv(i) ==
    LET t == <<"t", i>> IN
    /\ pc[t] = "tRunning" /\ CanRun(t) /\ chan[i] > 0
    /\ chan' = [chan EXCEPT ![i] = @ - 1]
    /\ UNCHANGED <<cmds, pc, cpu, regVars, idVars, held, chanVars, tokVars,
                   evVars, drain>>

-----------------------------------------------------------------------------
(* A holder of CollectionHandles: get_handle(session_id), then one         *)
(* start_segment or end_segment on the handle (both are one                *)
(* command_tx.send(..).await whose Err is "Collection task not running").  *)

\* collections.get(session_id).map(..): a clone of command_tx, or None.
HandleGet(s) ==
    LET h == <<"h", 1>> IN
    /\ cmds < MaxCmds /\ pc[h] = "hIdle" /\ CanRun(h)
    /\ cmds' = cmds + 1
    /\ IF collections[s] # 0
       THEN /\ held' = [held EXCEPT ![h] = collections[s]]
            /\ Goto(h, "hHeld")
       ELSE UNCHANGED <<held, pc, cpu>>
    /\ UNCHANGED <<chan, regVars, idVars, chanVars, tokVars, evVars, drain>>

\* start_segment / end_segment: suspends while the channel is full and its
\* receiver alive, then returns Ok (buffered) or Err (receiver dropped).
HandleSend ==
    LET h == <<"h", 1>>
        i == held[h] IN
    /\ h \in Actors /\ pc[h] \in {"hHeld", "hSendWait"} /\ CanRun(h)
    /\ IF SendBlocks(i)
       THEN /\ pc[h] = "hHeld"
            /\ Goto(h, "hSendWait")
            /\ UNCHANGED <<chan, held>>
       ELSE /\ Enqueue(i)
            /\ held' = [held EXCEPT ![h] = 0]
            /\ Goto(h, "hIdle")
    /\ UNCHANGED <<cmds, regVars, idVars, chanVars, tokVars, evVars, drain>>

-----------------------------------------------------------------------------
(* stop_collection(session_id), call k.                                    *)

\* collections.remove(session_id); Err when nothing is registered.
StopBegin(k, s) ==
    LET a == <<"s", k>> IN
    /\ stopSess' = [stopSess EXCEPT ![k] = s]
    /\ RemoveFrom(a, s, "sIdle")

StopCall(k, s) ==
    /\ k # 0 /\ pc[<<"s", k>>] = "sIdle" /\ CanRun(<<"s", k>>)
    /\ StopBegin(k, s)
    /\ UNCHANGED <<cmdVars, byStreamer, sessOf, streamerOf, chanVars, tokVars,
                   evVars, drain>>

\* Mutant: neither sends Stop nor cancels the token.
StopSendNothing(k) ==
    LET a == <<"s", k>> IN
    /\ pc[a] \in {"stopSend", "sSendWait"} /\ CanRun(a)
    /\ Goto(a, "sWait")
    /\ UNCHANGED <<cmdVars, regVars, idVars, held, chanVars, tokVars, evVars,
                   drain>>

\* command_tx.send(Stop).await, then cancel_token.cancel().  The send
\* suspends while the channel is full and its receiver alive; it returns
\* (Err ignored) once the receiver is gone.  Cancel follows the send
\* without an .await in between, so the two are one step.
StopSend(k) ==
    LET a == <<"s", k>>
        i == held[a] IN
    /\ pc[a] \in {"stopSend", "sSendWait"} /\ CanRun(a)
    /\ IF SendBlocks(i)
       THEN /\ pc[a] = "stopSend"
            /\ Goto(a, "sSendWait")
            /\ UNCHANGED <<chan, cancelled>>
       ELSE /\ Enqueue(i)
            /\ cancelled' = [cancelled EXCEPT ![i] = TRUE]
            /\ Goto(a, "sWait")
    /\ UNCHANGED <<cmds, regVars, idVars, held, chanVars, globalCancel,
                   evVars, drain>>

\* timeout(STOP_TIMEOUT, done_rx): Ok(stats) goes on to persist; a task
\* error or the timeout returns default statistics.  Timeout polls done_rx
\* first, so it only fires while nothing has been sent; every task exit
\* path sends on done_tx, so the closed case needs a panic.
StopWait(k) ==
    LET a == <<"s", k>>
        i == held[a] IN
    /\ pc[a] = "sWait" /\ CanRun(a)
    /\ \/ done[i] = "ok" /\ Goto(a, "sPersist") /\ UNCHANGED held
       \/ done[i] = "err" /\ Goto(a, "sIdle") /\ held' = [held EXCEPT ![a] = 0]
       \/ done[i] = "none" /\ Goto(a, "sIdle")
          /\ held' = [held EXCEPT ![a] = 0]
    /\ UNCHANGED <<cmdVars, regVars, idVars, chanVars, tokVars, evVars,
                   drain>>

\* persist_statistics(...).await, CollectionStopped, return the statistics.
StopPersist(k) ==
    LET a == <<"s", k>> IN
    /\ pc[a] = "sPersist" /\ CanRun(a)
    /\ stopped' = [stopped EXCEPT ![held[a]] = @ + 1]
    /\ held' = [held EXCEPT ![a] = 0]
    /\ Goto(a, "sIdle")
    /\ UNCHANGED <<cmdVars, regVars, idVars, chanVars, tokVars, started,
                   drain>>

-----------------------------------------------------------------------------
(* shutdown(): cancel the global token, snapshot the registered sessions,  *)
(* then stop_collection each of them in turn (stop call 0).                *)

ShutdownBegin ==
    /\ ~globalCancel /\ CanRun(<<"s", 0>>)
    /\ globalCancel' = TRUE
    /\ drain' = {s \in Sessions : collections[s] # 0}
    /\ UNCHANGED <<cmdVars, regVars, idVars, pc, held, chanVars, cancelled,
                   evVars, cpu>>

ShutdownNext ==
    /\ pc[<<"s", 0>>] = "sIdle" /\ CanRun(<<"s", 0>>)
    /\ \E s \in drain :
         /\ drain' = drain \ {s}
         /\ StopBegin(0, s)
    /\ UNCHANGED <<cmdVars, byStreamer, sessOf, streamerOf, chanVars, tokVars,
                   evVars>>

-----------------------------------------------------------------------------
Init ==
    /\ collections = [s \in Sessions |-> 0]
    /\ byStreamer = [x \in Streamers |-> None]
    /\ sessOf = [i \in Instances |-> None]
    /\ streamerOf = [i \in Instances |-> None]
    /\ stopSess = [k \in StopIds |-> None]
    /\ pc = [a \in Actors |-> CASE a[1] = "c" -> "cIdle"
                                [] a[1] = "t" -> "tNew"
                                [] a[1] = "s" -> "sIdle"
                                [] a[1] = "h" -> "hIdle"]
    /\ held = [a \in Actors |-> 0]
    /\ ready = [i \in Instances |-> "none"]
    /\ done = [i \in Instances |-> "none"]
    /\ result = [i \in Instances |-> "none"]
    /\ cancelled = [i \in Instances |-> FALSE]
    /\ globalCancel = FALSE
    /\ started = [i \in Instances |-> FALSE]
    /\ stopped = [i \in Instances |-> 0]
    /\ drain = {}
    /\ cpu = None
    /\ chan = [i \in Instances |-> 0]
    /\ cmds = 0

\* The steps an actor takes on its own once it has been called.
Progress(a) ==
    \/ CleanupRemove(a) \/ CleanupGet(a) \/ CleanupDel(a)
    \/ /\ a[1] = "c"
       /\ StartInsert(a[2]) \/ StartIndex(a[2]) \/ StartReady(a[2])
          \/ StartFailed(a[2])
    \/ /\ a[1] = "t"
       /\ Connect(a[2]) \/ ConnDone(a[2]) \/ RunDone(a[2]) \/ TaskPersist(a[2])
    \/ /\ a[1] = "s"
       /\ StopSend(a[2]) \/ StopWait(a[2]) \/ StopPersist(a[2])
    \/ a[1] = "h" /\ pc[a] = "hSendWait" /\ HandleSend

Next ==
    \/ \E a \in Actors : Progress(a)
    \/ \E i \in Instances : RunnerExit(i) \/ RunnerRecv(i)
    \/ \E s \in Sessions : HandleGet(s)
    \/ HandleSend
    \/ \E i \in Instances, s \in Sessions, x \in Streamers : StartCheck(i, s, x)
    \/ \E k \in StopIds, s \in Sessions : StopCall(k, s)
    \/ ShutdownBegin
    \/ ShutdownNext

(* Every called actor keeps going: tokio polls every woken task, the       *)
(* connect step ends within CONNECT_TIMEOUT and the stop wait within       *)
(* STOP_TIMEOUT.  A runner is only assumed to end once its token is        *)
(* cancelled, and its command loop to keep receiving while it runs.       *)
(* Callers (StartCheck, StopCall, ShutdownBegin, HandleGet and a first     *)
(* HandleSend) need not act.                                               *)
Fairness ==
    /\ \A a \in Actors : WF_vars(Progress(a))
    /\ \A i \in Instances : WF_vars(RunnerExit(i) /\ Cancelled(i))
    /\ \A i \in Instances : WF_vars(RunnerRecv(i))
    /\ WF_vars(ShutdownNext)

Spec == Init /\ [][Next]_vars /\ Fairness

-----------------------------------------------------------------------------
TypeOK ==
    /\ collections \in [Sessions -> Instances \cup {0}]
    /\ byStreamer \in [Streamers -> Sessions \cup {None}]
    /\ sessOf \in [Instances -> Sessions \cup {None}]
    /\ streamerOf \in [Instances -> Streamers \cup {None}]
    /\ stopSess \in [StopIds -> Sessions \cup {None}]
    /\ pc \in [Actors -> Labels]
    /\ held \in [Actors -> Instances \cup {0}]
    /\ ready \in [Instances -> Outcome]
    /\ done \in [Instances -> Outcome]
    /\ result \in [Instances -> Outcome]
    /\ cancelled \in [Instances -> BOOLEAN]
    /\ globalCancel \in BOOLEAN
    /\ started \in [Instances -> BOOLEAN]
    /\ stopped \in [Instances -> 0..2]
    /\ drain \subseteq Sessions
    /\ cpu \in Actors \cup {None}
    /\ chan \in [Instances -> 0..ChanCap]
    /\ cmds \in 0..MaxCmds

(* No orphaned task: a collection task that is connecting or running and   *)
(* whose token nobody cancelled is reachable through the registry under    *)
(* its own session id, or is held by a stop_collection about to cancel it. *)
(* Otherwise nothing (stop_collection, get_handle, shutdown's drain) can   *)
(* reach it any more and it runs until the process-wide token fires.       *)
NoOrphan ==
    \A i \in Instances :
        TaskLive(i) /\ ~Cancelled(i)
        => \/ collections[sessOf[i]] = i
           \/ \E k \in StopIds : held[<<"s", k>>] = i

(* Exactly-once terminal side effects: the statistics of one collection    *)
(* are persisted and broadcast as CollectionStopped at most once, by       *)
(* whichever of stop_collection and the task's own exit path removed the   *)
(* registry entry (service.rs:438 and 521).                                *)
AtMostOneStopped == \A i \in Instances : stopped[i] <= 1

(* The reverse index never names a session that is not registered for that *)
(* streamer, except while the remover of that session is between its       *)
(* collections.remove and its sessions_by_streamer.remove.                 *)
ReverseNoStale ==
    \A x \in Streamers : byStreamer[x] # None =>
        LET s == byStreamer[x] IN
        \/ collections[s] # 0 /\ streamerOf[collections[s]] = x
        \/ \E a \in Actors : /\ pc[a] \in {"rget", "rdel"}
                             /\ Sess(a) = s
                             /\ streamerOf[held[a]] = x

(* A streamer's reverse entry is only cleared by a remover of the session  *)
(* it names: the cleanup of an older session never clobbers the entry of a *)
(* newer session of the same streamer (the should_remove guard).           *)
ReverseNeverClobbered ==
    [][\A x \in Streamers :
         byStreamer[x] # None /\ byStreamer'[x] = None =>
             \E a \in Actors : pc[a] = "rdel" /\ Sess(a) = byStreamer[x]
      ]_vars

(* The duplicate-start guard: a registered CollectionState is only ever    *)
(* removed, never replaced by another start_collection's state.            *)
DuplicateStartRejected ==
    [][\A s \in Sessions :
         collections[s] # 0 /\ collections'[s] # collections[s] =>
             collections'[s] = 0
      ]_vars

(* After shutdown() every collection task ends and both maps drain: the    *)
(* registry and the reverse index end up empty for good.                   *)
Quiescence ==
    <>[](globalCancel => /\ \A i \in Instances : ~TaskLive(i)
                         /\ \A s \in Sessions : collections[s] = 0
                         /\ \A x \in Streamers : byStreamer[x] = None)

(* Every command_tx.send(..).await returns: a stop_collection sending     *)
(* Stop, or a start_segment / end_segment caller, suspended on a full      *)
(* channel resumes, because the runner drains the channel or the receiver  *)
(* is dropped (runner.run returned, or the task's connect error path       *)
(* returned); stop_collection's cancel() is never reached otherwise.  Each *)
(* caller sends a bounded number of times, so this is: eventually no send  *)
(* is suspended, for good.                                                 *)
SendsReturn ==
    <>[](\A a \in Actors : pc[a] \notin {"sSendWait", "hSendWait"})

-----------------------------------------------------------------------------
(* The registry as Registry sees it.  A start_collection between its two  *)
(* inserts has not registered yet; a remover between collections.remove   *)
(* and the end of its reverse-index reconcile still holds the entry.      *)
AbsEntry(s) ==
    LET removers == {a \in Actors : pc[a] \in {"rget", "rdel"} /\ Sess(a) = s}
        i == collections[s]
    IN  IF removers # {}
        THEN LET a == CHOOSE a \in removers : TRUE
             IN  [inst |-> held[a], streamer |-> streamerOf[held[a]]]
        ELSE IF i # 0 /\ pc[<<"c", i>>] # "cIndex"
             THEN [inst |-> i, streamer |-> streamerOf[i]]
             ELSE [inst |-> 0, streamer |-> None]

Reg == INSTANCE Registry
           WITH reg <- [s \in Sessions |-> AbsEntry(s)], rev <- byStreamer

(* The registry implements Registry: collections and sessions_by_streamer *)
(* change only by whole registrations (duplicate guard, both inserts) and *)
(* whole removals (remove-if-present, then the should_remove reconcile),  *)
(* as the spec requires of all shared-state mutation.  On a current_thread*)
(* runtime every such run of DashMap calls is one synchronous segment.     *)
RegistryAtomic == Reg!Spec

====
