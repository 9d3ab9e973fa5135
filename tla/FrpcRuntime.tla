----------------------------- MODULE FrpcRuntime -----------------------------
(***************************************************************************)
(* FrpcManager below the coordinator's view of it: start, stop, restart,   *)
(* status and wait_ready, and the readers of FRPC's output, as tasks that  *)
(* meet at the child mutex, the atomic generation and the RwLocks.         *)
(*                                                                         *)
(* A process is named by the generation it was started with.  One action   *)
(* is the code between two points where another task can come in between   *)
(* and see or change something.  What the tables of the user interface     *)
(* show (tunnel_states, logs) is left out: no step here reads it.          *)
(***************************************************************************)
EXTENDS Integers, FiniteSets

CONSTANTS
  Callers,   \* tasks that call the manager
  NoCaller,
  Proxies,   \* the proxies of the configuration, all of them expected
  Readers,   \* reader tasks that have a line in hand at the same time
  MaxGen     \* bound: no start or stop begins from this generation on

ASSUME RuntimeAssumption ==
  /\ NoCaller \notin Callers
  /\ MaxGen \in Nat

VARIABLES
  gen,          \* the generation counter
  lock,         \* who holds the child mutex over an await
  child,        \* the process in the mutex, or 0
  alive,        \* the processes that run
  killed,       \* the processes a stop has killed
  runtime,      \* FrpcRuntimeStatus
  started,      \* started_proxies
  nodeFault,    \* the generation of last_node_fault, or 0
  startFault,   \* the generation of last_startup_fault, or 0
  call,         \* what each caller is doing
  line,         \* the line each reader has in hand
  said          \* what each process has reported while it was current:
                \* a node fault, and the proxies that started

locks == <<lock, child>>
procs == <<alive, killed>>
seen  == <<started, nodeFault, startFault>>
vars  == <<gen, lock, child, alive, killed, runtime, started, nodeFault, startFault,
           call, line, said>>

(* The lines that change what the manager knows: a login, a server         *)
(* connection failure, a fault of the node that keeps the connection, an   *)
(* authentication or configuration error, and a proxy that started.        *)
Lines == {"login", "lost", "conflict", "refused"} \cup Proxies

NodeFaults == {"lost", "conflict"}

Spawned == DOMAIN said

NoCall == [op |-> "none", pc |-> "idle", own |-> 0, ready |-> FALSE, result |-> "none"]
NoLine == [of |-> 0, text |-> "none", pc |-> "idle"]

Init ==
  /\ gen = 0
  /\ lock = NoCaller /\ child = 0
  /\ alive = {} /\ killed = {}
  /\ runtime = [running |-> FALSE, connected |-> FALSE]
  /\ started = {} /\ nodeFault = 0 /\ startFault = 0
  /\ call = [c \in Callers |-> NoCall]
  /\ line = [s \in Readers |-> NoLine]
  /\ said = << >>

At(c, l)   == call[c].pc = l
Goto(c, l) == call' = [call EXCEPT ![c].pc = l]
Return(c)  == call' = [call EXCEPT ![c] = NoCall]
Down       == runtime' = [running |-> FALSE, connected |-> FALSE]

-----------------------------------------------------------------------------
(* Calls. *)

Lifecycle == {"start", "stop", "restart"}

Begin(c, operation, l) ==
  /\ At(c, "idle")
  /\ call' = [call EXCEPT ![c].op = operation, ![c].pc = l]
  /\ UNCHANGED <<gen, locks, procs, runtime, seen, line, said>>

BeginLifecycle(c) ==
  /\ gen < MaxGen
  /\ \/ Begin(c, "start", "start")
     \/ Begin(c, "stop", "stop")
     \/ Begin(c, "restart", "stop")

BeginStatus(c) == Begin(c, "status", "status")

BeginWait(c) == Begin(c, "wait_ready", "watch")

-----------------------------------------------------------------------------
(* start. *)

(* A mutant of StartLocks: the mutex is not waited for.                    *)
StartWithoutMutex(c) ==
  /\ At(c, "start")
  /\ IF child # 0 /\ child \in alive
     THEN Return(c) /\ UNCHANGED <<locks, runtime>>
     ELSE /\ Goto(c, "bump") /\ lock' = c /\ child' = 0
          /\ IF child # 0 THEN Down ELSE UNCHANGED runtime
  /\ UNCHANGED <<gen, procs, seen, line, said>>

(* A process that runs is left alone; one that has exited is reaped.       *)
StartLocks(c) ==
  /\ At(c, "start") /\ lock = NoCaller
  /\ IF child # 0 /\ child \in alive
     THEN Return(c) /\ UNCHANGED <<locks, runtime>>
     ELSE /\ Goto(c, "bump") /\ lock' = c /\ child' = 0
          /\ IF child # 0 THEN Down ELSE UNCHANGED runtime
  /\ UNCHANGED <<gen, procs, seen, line, said>>

(* A mutant of StartBumps: the counter is read, not moved.                 *)
StartReadsGeneration(c) ==
  /\ At(c, "bump")
  /\ call' = [call EXCEPT ![c].pc = "clear", ![c].own = gen]
  /\ UNCHANGED <<gen, locks, procs, runtime, seen, line, said>>

StartBumps(c) ==
  /\ At(c, "bump")
  /\ gen' = gen + 1
  /\ call' = [call EXCEPT ![c].pc = "clear", ![c].own = gen + 1]
  /\ UNCHANGED <<locks, procs, runtime, seen, line, said>>

StartClears(c) ==
  /\ At(c, "clear")
  /\ started' = {} /\ nodeFault' = 0 /\ startFault' = 0
  /\ Goto(c, "spawn")
  /\ UNCHANGED <<gen, locks, procs, runtime, line, said>>

StartSpawns(c) ==
  /\ At(c, "spawn")
  /\ alive' = alive \cup {call[c].own}
  /\ said' = [g \in Spawned \cup {call[c].own} |-> IF g \in Spawned THEN said[g] ELSE {}]
  /\ runtime' = [running |-> TRUE, connected |-> FALSE]
  /\ child' = call[c].own /\ lock' = NoCaller
  /\ Return(c)
  /\ UNCHANGED <<gen, killed, seen, line>>

(* A mutant of SpawnFails: the mutex is kept.                              *)
SpawnFailsLocked(c) ==
  /\ At(c, "spawn")
  /\ Return(c)
  /\ UNCHANGED <<gen, locks, procs, runtime, seen, line, said>>

SpawnFails(c) ==
  /\ At(c, "spawn")
  /\ lock' = NoCaller
  /\ Return(c)
  /\ UNCHANGED <<gen, child, procs, runtime, seen, line, said>>

-----------------------------------------------------------------------------
(* stop, which moves the generation before it has the mutex; restart goes  *)
(* on with start.                                                          *)

(* A mutant of StopBumps: the generation stays.                            *)
StopKeepsGeneration(c) ==
  /\ At(c, "stop")
  /\ Goto(c, "stop_lock")
  /\ UNCHANGED <<gen, locks, procs, runtime, seen, line, said>>

StopBumps(c) ==
  /\ At(c, "stop")
  /\ gen' = gen + 1
  /\ Goto(c, "stop_lock")
  /\ UNCHANGED <<locks, procs, runtime, seen, line, said>>

StopLocks(c) ==
  /\ At(c, "stop_lock") /\ lock = NoCaller
  /\ lock' = c /\ child' = 0
  /\ call' = [call EXCEPT ![c].pc = "kill", ![c].own = child]
  /\ UNCHANGED <<gen, procs, runtime, seen, line, said>>

StopKills(c) ==
  /\ At(c, "kill")
  /\ alive' = alive \ {call[c].own}
  /\ killed' = killed \cup ({call[c].own} \ {0})
  /\ Goto(c, "down")
  /\ UNCHANGED <<gen, locks, runtime, seen, line, said>>

(* A mutant of StopEnds: what is shown stays.                              *)
StopEndsUnshown(c) ==
  /\ At(c, "down")
  /\ lock' = NoCaller
  /\ IF call[c].op = "restart" THEN call' = [call EXCEPT ![c].pc = "start", ![c].own = 0]
     ELSE Return(c)
  /\ UNCHANGED <<gen, child, procs, runtime, seen, line, said>>

StopEnds(c) ==
  /\ At(c, "down")
  /\ Down
  /\ lock' = NoCaller
  /\ IF call[c].op = "restart" THEN call' = [call EXCEPT ![c].pc = "start", ![c].own = 0]
     ELSE Return(c)
  /\ UNCHANGED <<gen, child, procs, seen, line, said>>

-----------------------------------------------------------------------------
(* status: the mutex is released before the exit is written down. *)

StatusLocks(c) ==
  /\ At(c, "status") /\ lock = NoCaller
  /\ IF child # 0 /\ child \notin alive
     THEN child' = 0 /\ Goto(c, "exited")
     ELSE UNCHANGED child /\ Goto(c, "read")
  /\ UNCHANGED <<gen, lock, procs, runtime, seen, line, said>>

StatusWrites(c) ==
  /\ At(c, "exited")
  /\ Down
  /\ Goto(c, "read")
  /\ UNCHANGED <<gen, locks, procs, seen, line, said>>

(* status returns; inside wait_ready the three records are looked at next. *)
StatusReads(c) ==
  /\ At(c, "read")
  /\ IF call[c].op = "status" THEN Return(c)
     ELSE \/ ~runtime.running /\ call' = [call EXCEPT ![c].pc = "faults", ![c].result = "exited"]
          \/ runtime.running /\ call' = [call EXCEPT ![c].pc = "faults", ![c].ready = runtime.connected]
  /\ UNCHANGED <<gen, locks, procs, runtime, seen, line, said>>

-----------------------------------------------------------------------------
(* wait_ready. *)

WaitWatches(c) ==
  /\ At(c, "watch")
  /\ call' = [call EXCEPT ![c].pc = "turn", ![c].own = gen]
  /\ UNCHANGED <<gen, locks, procs, runtime, seen, line, said>>

Answer(c, r) == call' = [call EXCEPT ![c].pc = "answer", ![c].result = r]

WaitTurns(c) ==
  /\ At(c, "turn")
  /\ IF gen # call[c].own THEN Answer(c, "changed") ELSE Goto(c, "status")
  /\ UNCHANGED <<gen, locks, procs, runtime, seen, line, said>>

(* A fault of the watched generation comes before the exit, and the exit   *)
(* before readiness.                                                       *)
WaitReadsFaults(c) ==
  /\ At(c, "faults")
  /\ CASE nodeFault # 0 /\ nodeFault = call[c].own   -> Answer(c, "node")
       [] ~(nodeFault # 0 /\ nodeFault = call[c].own) /\ startFault # 0 /\ startFault = call[c].own
                                                      -> Answer(c, "refused")
       [] OTHER -> IF call[c].result = "exited" THEN Answer(c, "exited") ELSE Goto(c, "proxies")
  /\ UNCHANGED <<gen, locks, procs, runtime, seen, line, said>>

(* Not ready: sleep and look again, until the time has run out.            *)
WaitReadsProxies(c) ==
  /\ At(c, "proxies")
  /\ IF call[c].ready /\ Proxies \subseteq started THEN Answer(c, "ready")
     ELSE Answer(c, "timeout") \/ call' = [call EXCEPT ![c].pc = "turn", ![c].ready = FALSE]
  /\ UNCHANGED <<gen, locks, procs, runtime, seen, line, said>>

WaitEnds(c) ==
  /\ At(c, "answer")
  /\ Return(c)
  /\ UNCHANGED <<gen, locks, procs, runtime, seen, line, said>>

-----------------------------------------------------------------------------
(* accept_line, in a reader task.  Lines that are still in the pipe are    *)
(* read after the process has ended.  A line of another generation than    *)
(* the current one is dropped at once; the check is not repeated later.    *)

ReadLine(s, text) ==
  /\ line[s] = NoLine
  /\ gen \in Spawned
  /\ line' = [line EXCEPT ![s] = [of |-> gen, text |-> text, pc |-> "runtime"]]
  /\ said' = [said EXCEPT ![gen] = @ \cup IF text \in NodeFaults THEN {"fault"} ELSE {text} \cap Proxies]
  /\ UNCHANGED <<gen, locks, procs, runtime, seen, call>>

LineWritesRuntime(s) ==
  /\ line[s].pc = "runtime"
  /\ runtime' = CASE line[s].text = "login" -> [runtime EXCEPT !.connected = TRUE]
                  [] line[s].text = "lost"  -> [runtime EXCEPT !.connected = FALSE]
                  [] OTHER                  -> runtime
  /\ line' = [line EXCEPT ![s].pc = "record"]
  /\ UNCHANGED <<gen, locks, procs, seen, call, said>>

(* A mutant of LineIsRecorded: the event gets the generation of the moment. *)
LineIsStampedLate(s) ==
  /\ line[s].pc = "record"
  /\ LET l == line[s] IN
     /\ started'    = IF l.text \in Proxies THEN started \cup {l.text} ELSE started
     /\ nodeFault'  = IF l.text \in NodeFaults THEN gen ELSE nodeFault
     /\ startFault' = IF l.text = "refused" THEN gen ELSE startFault
  /\ line' = [line EXCEPT ![s] = NoLine]
  /\ UNCHANGED <<gen, locks, procs, runtime, call, said>>

LineIsRecorded(s) ==
  /\ line[s].pc = "record"
  /\ LET l == line[s] IN
     /\ started'    = IF l.text \in Proxies THEN started \cup {l.text} ELSE started
     /\ nodeFault'  = IF l.text \in NodeFaults THEN l.of ELSE nodeFault
     /\ startFault' = IF l.text = "refused" THEN l.of ELSE startFault
  /\ line' = [line EXCEPT ![s] = NoLine]
  /\ UNCHANGED <<gen, locks, procs, runtime, call, said>>

ProcessExits ==
  /\ \E g \in alive : alive' = alive \ {g}
  /\ UNCHANGED <<gen, locks, killed, runtime, seen, call, line, said>>

-----------------------------------------------------------------------------
StartStep(c) == StartLocks(c) \/ StartBumps(c) \/ StartClears(c) \/ StartSpawns(c) \/ SpawnFails(c)
StopStep(c)  == StopBumps(c) \/ StopLocks(c) \/ StopKills(c) \/ StopEnds(c)
StatusStep(c) == StatusLocks(c) \/ StatusWrites(c) \/ StatusReads(c)
WaitStep(c)  == WaitWatches(c) \/ WaitTurns(c) \/ WaitReadsFaults(c) \/ WaitReadsProxies(c) \/ WaitEnds(c)

Step(c) == StartStep(c) \/ StopStep(c) \/ StatusStep(c) \/ WaitStep(c)

ReaderStep ==
  \E s \in Readers :
    \/ \E text \in Lines : ReadLine(s, text)
    \/ LineWritesRuntime(s) \/ LineIsRecorded(s)

(* The coordinator starts, stops, restarts and waits under its lock: one   *)
(* such call at a time, while status is asked for freely.                  *)
BeginUnderLock(c) ==
  \/ /\ BeginLifecycle(c) \/ BeginWait(c)
     /\ \A d \in Callers : call[d].op \in {"none", "status"}
  \/ BeginStatus(c)

Next == (\E c \in Callers : BeginUnderLock(c) \/ Step(c)) \/ ReaderStep \/ ProcessExits

(* The FRPC buttons of the API take no lock; only the coordinator waits.   *)
NextButtons ==
  \/ \E c \in Callers :
       \/ BeginLifecycle(c) \/ BeginStatus(c) \/ Step(c)
       \/ BeginWait(c) /\ \A d \in Callers : call[d].op # "wait_ready"
  \/ ReaderStep
  \/ ProcessExits

Spec        == Init /\ [][Next]_vars
SpecButtons == Init /\ [][NextButtons]_vars

(* Every task is scheduled, and tokio's mutex serves its waiters in order. *)
SpecLive == SpecButtons /\ \A c \in Callers : SF_vars(StartStep(c)) /\ SF_vars(StopStep(c))

-----------------------------------------------------------------------------
(* What the manager promises. *)

(* Every variable has its type.                                            *)
TypeOK ==
  /\ gen \in Nat
  /\ lock \in Callers \cup {NoCaller}
  /\ Spawned \subseteq 1..gen
  /\ child \in Spawned \cup {0}
  /\ alive \subseteq Spawned /\ killed \subseteq Spawned
  /\ runtime \in [running : BOOLEAN, connected : BOOLEAN]
  /\ started \subseteq Proxies
  /\ nodeFault \in Spawned \cup {0} /\ startFault \in Spawned \cup {0}
  /\ \A c \in Callers : call[c].own \in 0..gen
  /\ \A s \in Readers : line[s].of \in Spawned \cup {0}
  /\ \A g \in Spawned : said[g] \subseteq Proxies \cup {"fault"}

(* FRPC never runs twice, and none is lost sight of: a process that runs   *)
(* is the one in the mutex or is being killed by the task that took it.    *)
OneProcess ==
  /\ Cardinality(alive) <= 1
  /\ \A g \in alive : g = child \/ \E c \in Callers : At(c, "kill") /\ call[c].own = g

(* No two processes have the same generation, whatever starts and stops    *)
(* come together: a fault names its process.                               *)
OwnGeneration == [][\A g \in alive' \ alive : g \notin Spawned]_vars

(* wait_ready blames the node only when the process it watches has         *)
(* reported a node fault, never for a line of an earlier process.          *)
NodeVerdictIsOwn ==
  \A c \in Callers :
    At(c, "answer") /\ call[c].result = "node" =>
      call[c].own \in Spawned /\ "fault" \in said[call[c].own]

(* With nothing under way, what is shown as running is a process that the  *)
(* manager holds: an exit may be unnoticed, never a stop.                  *)
ShownIsHeld == (\A c \in Callers : At(c, "idle")) /\ runtime.running => child # 0

(* Lines of a process that was stopped do not count: the generation has    *)
(* moved on by the time it is killed.                                      *)
StoppedIsSilent == gen \notin killed

(* To the coordinator all this is the process of module FrpcProcess.       *)
ProcessOf(g) ==
  IF g \in alive THEN "running"
  ELSE IF g \in killed THEN "killed"
  ELSE IF g \in Spawned THEN "exited" ELSE "none"

HasFault(g) == g \in Spawned /\ "fault" \in said[g]

Blaming(c) == At(c, "answer") /\ call[c].result = "node"

Process == INSTANCE FrpcProcess WITH
  gen <- gen, proc <- ProcessOf(gen), fault <- HasFault(gen),
  blamed <- (\E c \in Callers : Blaming(c))

(* Under the coordinator's lock, with status requests beside it, the tasks *)
(* of the manager behave as one process at a time with its own generation: *)
(* a stop is a single step, however its halves, the mutex and late lines   *)
(* interleave.                                                             *)
ImplementsProcess == Process!Spec

(* wait_ready succeeds only when the process it watches has reported every *)
(* expected proxy as started.                                              *)
ReadyMeansStarted ==
  \A c \in Callers :
    At(c, "answer") /\ call[c].result = "ready" =>
      call[c].own \in Spawned /\ Proxies \subseteq said[call[c].own]

(* wait_ready says that FRPC exited only when it did: status writes the    *)
(* exit of an earlier process down after it has released the mutex, so     *)
(* over the start that comes in between (lib.rs:102).                      *)
ExitedMeansExited ==
  \A c \in Callers :
    At(c, "answer") /\ call[c].result = "exited" => call[c].own \notin alive

(* No start, stop or restart waits for ever, whatever else is called.      *)
CallsReturn == \A c \in Callers : call[c].op \in Lifecycle ~> At(c, "idle")
=============================================================================
