---------------------------- MODULE RuntimeProofs ----------------------------
(***************************************************************************)
(* What FrpcRuntime promises for any number of tasks, readers, proxies and *)
(* generations.  RuntimeInv is the inductive invariant: the task that      *)
(* works on the process is the one that holds the mutex, it alone knows    *)
(* the process, and every fault on record was reported by its process.     *)
(* It holds whatever is called when (SpecButtons), so also under the       *)
(* coordinator's lock (Spec).                                              *)
(***************************************************************************)
EXTENDS FrpcRuntime, FiniteSetTheorems, TLAPS

Pcs == {"idle", "start", "bump", "clear", "spawn", "stop", "stop_lock", "kill", "down",
        "status", "exited", "read", "watch", "turn", "faults", "proxies", "answer"}

Calls == [op : {"none", "start", "stop", "restart", "status", "wait_ready"}, pc : Pcs, own : Nat,
          ready : BOOLEAN,
          result : {"none", "exited", "changed", "node", "refused", "ready", "timeout"}]

Hands == [of : Nat, text : Lines \cup {"none"}, pc : {"idle", "runtime", "record"}]

(* Every variable has its type, the records of the tasks included.         *)
Typed ==
  /\ gen \in Nat
  /\ lock \in Callers \cup {NoCaller}
  /\ Spawned \subseteq 1..gen
  /\ child \in Spawned \cup {0}
  /\ alive \subseteq Spawned /\ killed \subseteq Spawned
  /\ runtime \in [running : BOOLEAN, connected : BOOLEAN]
  /\ started \subseteq Proxies
  /\ nodeFault \in Spawned \cup {0} /\ startFault \in Spawned \cup {0}
  /\ call \in [Callers -> Calls] /\ \A c \in Callers : call[c].own <= gen
  /\ line \in [Readers -> Hands] /\ \A s \in Readers : line[s].of \in Spawned \cup {0}
  /\ said \in [Spawned -> SUBSET (Proxies \cup {"fault"})]

(* Where a task holds the mutex over an await.                             *)
Held == {"bump", "clear", "spawn", "kill", "down"}

LockInv ==
  /\ \A c \in Callers : call[c].pc \in Held <=> lock = c
  /\ lock # NoCaller => child = 0

(* The generation a start is about to use is new; a stop has one process.  *)
OwnInv ==
  \A c \in Callers :
    /\ call[c].pc \in {"clear", "spawn"} => call[c].own # 0 /\ call[c].own \notin Spawned
    /\ call[c].pc = "kill" => call[c].own \in Spawned \cup {0}

(* The process that may run: the one in the mutex, or the one being killed. *)
Current == IF lock # NoCaller /\ At(lock, "kill") THEN call[lock].own ELSE child

AliveInv == alive \subseteq {Current}

Reported(g) == g \in Spawned /\ "fault" \in said[g]

FaultInv ==
  /\ nodeFault # 0 => Reported(nodeFault)
  /\ \A s \in Readers : line[s].pc # "idle" =>
       line[s].of \in Spawned /\ (line[s].text \in NodeFaults => Reported(line[s].of))
  /\ \A c \in Callers : At(c, "answer") /\ call[c].result = "node" => Reported(call[c].own)

RuntimeInv == Typed /\ LockInv /\ OwnInv /\ AliveInv /\ FaultInv

-----------------------------------------------------------------------------
(* The initial state satisfies the invariant.                              *)
LEMMA RuntimeInit == Init => RuntimeInv
<1> SUFFICES ASSUME Init PROVE RuntimeInv
  OBVIOUS
<1>1. NoCall \in Calls /\ NoLine \in Hands
  BY DEF NoCall, NoLine, Calls, Hands, Pcs
<1>2. Spawned = {}
  BY DEF Init, Spawned
<1>3. /\ \A c \in Callers : call[c].pc = "idle" /\ call[c].own = 0
      /\ \A s \in Readers : line[s].pc = "idle" /\ line[s].of = 0
  BY DEF Init, NoCall, NoLine
<1>4. said \in [Spawned -> SUBSET (Proxies \cup {"fault"})]
  BY <1>2 DEF Init, Spawned
<1>5. Typed
  BY <1>1, <1>2, <1>3, <1>4 DEF Init, Typed
<1>6. LockInv /\ OwnInv
  BY <1>3, RuntimeAssumption DEF Init, LockInv, OwnInv, Held
<1>7. AliveInv /\ FaultInv
  BY <1>3 DEF Init, AliveInv, FaultInv, At
<1> QED BY <1>5, <1>6, <1>7 DEF RuntimeInv

(* A record of a call has the fields of one.                               *)
LEMMA CallFields ==
  ASSUME Typed, NEW c \in Callers
  PROVE  /\ call[c] \in Calls /\ call[c].pc \in Pcs /\ call[c].own \in Nat
         /\ call[c].own <= gen /\ gen \in Nat
  BY DEF Typed, Calls

(* A task that moves on keeps the rest of its record.                      *)
LEMMA GotoFacts ==
  ASSUME Typed, NEW c \in Callers, NEW l \in Pcs, Goto(c, l)
  PROVE  /\ call' \in [Callers -> Calls]
         /\ call'[c].pc = l /\ call'[c].own = call[c].own /\ call'[c].op = call[c].op
         /\ call'[c].result = call[c].result
         /\ \A d \in Callers \ {c} : call'[d] = call[d]
  BY DEF Typed, Goto, Calls

(* A task that returns has no call.                                        *)
LEMMA ReturnFacts ==
  ASSUME Typed, NEW c \in Callers, Return(c)
  PROVE  /\ call' \in [Callers -> Calls]
         /\ call'[c].pc = "idle" /\ call'[c].own = 0 /\ call'[c].op = "none"
         /\ \A d \in Callers \ {c} : call'[d] = call[d]
<1>1. NoCall \in Calls
  BY DEF NoCall, Calls, Pcs
<1>2. call' \in [Callers -> Calls]
  BY <1>1 DEF Typed, Return
<1> QED BY <1>2 DEF Typed, Return, NoCall

(* A step of one task that has nothing to do with the mutex and changes    *)
(* its own record only.                                                    *)
LEMMA QuietStep ==
  ASSUME RuntimeInv, NEW c \in Callers,
         UNCHANGED <<gen, locks, procs, runtime, seen, line, said>>,
         call' \in [Callers -> Calls], \A d \in Callers \ {c} : call'[d] = call[d],
         call[c].pc \notin Held, call'[c].pc \notin Held, call'[c].own <= gen,
         call'[c].pc = "answer" /\ call'[c].result = "node" => Reported(call'[c].own)
  PROVE  RuntimeInv'
<1>1. /\ gen' = gen /\ lock' = lock /\ child' = child /\ alive' = alive /\ killed' = killed
      /\ nodeFault' = nodeFault /\ line' = line /\ said' = said
  BY DEF locks, procs, seen
<1>2. Typed'
  BY <1>1 DEF RuntimeInv, Typed, locks, procs, seen, Spawned
<1>3. LockInv'
  BY <1>1 DEF RuntimeInv, LockInv
<1>4. OwnInv'
  BY <1>1 DEF RuntimeInv, OwnInv, Held, Spawned
<1>5. AliveInv'
  <2>1. lock # NoCaller => lock # c
    BY DEF RuntimeInv, LockInv
  <2>2. lock # NoCaller => call'[lock] = call[lock]
    BY <2>1 DEF RuntimeInv, Typed
  <2>3. Current' = Current
    BY <1>1, <2>2 DEF Current, At
  <2> QED BY <1>1, <2>3 DEF RuntimeInv, AliveInv
<1>6. FaultInv'
  BY <1>1 DEF RuntimeInv, FaultInv, Reported, Spawned, At
<1> QED BY <1>2, <1>3, <1>4, <1>5, <1>6 DEF RuntimeInv

-----------------------------------------------------------------------------
(* A call begins.                                                          *)
LEMMA BeginStep ==
  ASSUME RuntimeInv, NEW c \in Callers, BeginLifecycle(c) \/ BeginStatus(c) \/ BeginWait(c)
  PROVE  RuntimeInv'
<1>1. PICK o \in {"start", "stop", "restart", "status", "wait_ready"},
           l \in {"start", "stop", "status", "watch"} : Begin(c, o, l)
  BY DEF BeginLifecycle, BeginStatus, BeginWait
<1>2. call[c] \in Calls /\ call[c].own <= gen /\ call[c].pc = "idle"
  BY <1>1, CallFields DEF RuntimeInv, Begin, At
<1>3. call'[c] = [call[c] EXCEPT !.op = o, !.pc = l] /\ \A d \in Callers \ {c} : call'[d] = call[d]
  BY <1>1 DEF Begin, RuntimeInv, Typed
<1>4. call'[c] \in Calls /\ call'[c].pc = l /\ call'[c].own = call[c].own
  BY <1>2, <1>3 DEF Calls, Pcs
<1>5. call' \in [Callers -> Calls]
  BY <1>1, <1>3, <1>4 DEF Begin, RuntimeInv, Typed
<1>6. UNCHANGED <<gen, locks, procs, runtime, seen, line, said>>
  BY <1>1 DEF Begin
<1> QED BY <1>2, <1>3, <1>4, <1>5, <1>6, QuietStep DEF Held

(* wait_ready, and the end of status, change the task's record only.       *)
LEMMA WaitStepInv ==
  ASSUME RuntimeInv, NEW c \in Callers, WaitStep(c) \/ StatusReads(c)
  PROVE  RuntimeInv'
<1>1. call[c] \in Calls /\ call[c].own <= gen /\ gen \in Nat
  BY CallFields DEF RuntimeInv
<1>2. UNCHANGED <<gen, locks, procs, runtime, seen, line, said>>
  BY DEF WaitStep, WaitWatches, WaitTurns, WaitReadsFaults, WaitReadsProxies, WaitEnds, StatusReads
<1>3. call[c].pc \notin Held
  BY DEF WaitStep, WaitWatches, WaitTurns, WaitReadsFaults, WaitReadsProxies, WaitEnds, StatusReads,
         At, Held
<1> DEFINE Moved ==
      /\ call' \in [Callers -> Calls] /\ \A d \in Callers \ {c} : call'[d] = call[d]
      /\ call'[c].pc \notin Held /\ call'[c].own <= gen
      /\ call'[c].pc = "answer" /\ call'[c].result = "node" => Reported(call'[c].own)
<1>4. Moved
  <2>1. CASE WaitWatches(c)
    <3>1. [call[c] EXCEPT !.pc = "turn", !.own = gen] \in Calls
      BY <1>1 DEF Calls, Pcs
    <3> QED BY <1>1, <2>1, <3>1 DEF WaitWatches, RuntimeInv, Typed, Calls, Held
  <2>2. ASSUME NEW r \in {"changed", "node", "refused", "exited", "ready", "timeout"}, Answer(c, r),
               r = "node" => Reported(call[c].own)
        PROVE  Moved
    <3>1. [call[c] EXCEPT !.pc = "answer", !.result = r] \in Calls
      BY <1>1 DEF Calls, Pcs
    <3> QED BY <1>1, <2>2, <3>1 DEF Answer, RuntimeInv, Typed, Calls, Held
  <2>3. ASSUME NEW l \in {"status", "proxies"}, Goto(c, l) PROVE Moved
    BY <1>1, <2>3, GotoFacts DEF RuntimeInv, Pcs, Held
  <2>4. ASSUME Return(c) PROVE Moved
    BY <1>1, <2>4, ReturnFacts DEF RuntimeInv, Held
  <2>5. CASE WaitTurns(c)
    BY <2>2, <2>3, <2>5 DEF WaitTurns
  <2>6. CASE WaitReadsFaults(c)
    <3>1. nodeFault # 0 /\ nodeFault = call[c].own => Reported(call[c].own)
      BY DEF RuntimeInv, FaultInv
    <3>2. \/ nodeFault # 0 /\ nodeFault = call[c].own /\ Answer(c, "node")
          \/ Answer(c, "refused") \/ Answer(c, "exited") \/ Goto(c, "proxies")
      BY <2>6 DEF WaitReadsFaults
    <3> QED BY <2>2, <2>3, <3>1, <3>2
  <2>7. CASE WaitReadsProxies(c)
    <3>1. CASE call' = [call EXCEPT ![c].pc = "turn", ![c].ready = FALSE]
      <4>1. [call[c] EXCEPT !.pc = "turn", !.ready = FALSE] \in Calls
        BY <1>1 DEF Calls, Pcs
      <4> QED BY <1>1, <3>1, <4>1 DEF RuntimeInv, Typed, Calls, Held
    <3> QED BY <2>2, <2>7, <3>1 DEF WaitReadsProxies
  <2>8. CASE WaitEnds(c)
    BY <2>4, <2>8 DEF WaitEnds
  <2>9. CASE StatusReads(c)
    <3>1. CASE call' = [call EXCEPT ![c].pc = "faults", ![c].result = "exited"]
      <4>1. [call[c] EXCEPT !.pc = "faults", !.result = "exited"] \in Calls
        BY <1>1 DEF Calls, Pcs
      <4> QED BY <1>1, <3>1, <4>1 DEF RuntimeInv, Typed, Calls, Held
    <3>2. CASE call' = [call EXCEPT ![c].pc = "faults", ![c].ready = runtime.connected]
      <4>1. [call[c] EXCEPT !.pc = "faults", !.ready = runtime.connected] \in Calls
        BY <1>1 DEF Calls, Pcs, RuntimeInv, Typed
      <4> QED BY <1>1, <3>2, <4>1 DEF RuntimeInv, Typed, Calls, Held
    <3> QED BY <2>4, <2>9, <3>1, <3>2 DEF StatusReads
  <2> QED BY <2>1, <2>5, <2>6, <2>7, <2>8, <2>9 DEF WaitStep
<1> QED BY <1>1, <1>2, <1>3, <1>4, QuietStep

-----------------------------------------------------------------------------
(* What holds of the task that is about to take the mutex, and of the one  *)
(* that has it.                                                            *)
LEMMA Holder ==
  ASSUME RuntimeInv, NEW c \in Callers
  PROVE  /\ call[c].pc \in Held => lock = c /\ child = 0
         /\ lock = NoCaller => alive \subseteq {child} /\ \A d \in Callers : call[d].pc \notin Held
         /\ lock = c => \A d \in Callers \ {c} : call[d].pc \notin Held
         /\ c # NoCaller /\ 0 \notin Spawned /\ 0 \notin alive
  BY RuntimeAssumption DEF RuntimeInv, Typed, LockInv, AliveInv, Current

(* A step of the task that has the mutex, or takes it: what is left to     *)
(* show is about that task.                                                *)
LEMMA HolderStep ==
  ASSUME RuntimeInv, NEW c \in Callers, Typed',
         UNCHANGED <<nodeFault, line>>, said' = said \/ Spawned \subseteq Spawned',
         \A g \in Spawned : g \in Spawned' /\ said'[g] = said[g],
         \A d \in Callers \ {c} : call'[d] = call[d] /\ call[d].pc \notin Held,
         call'[c].pc # "answer",
         call'[c].pc \in Held <=> lock' = c, lock' \in {c, NoCaller},
         lock' # NoCaller => child' = 0,
         call'[c].pc \in {"clear", "spawn"} => call'[c].own # 0 /\ call'[c].own \notin Spawned',
         call'[c].pc = "kill" => call'[c].own \in Spawned' \cup {0},
         alive' \subseteq {IF call'[c].pc = "kill" THEN call'[c].own ELSE child'}
  PROVE  RuntimeInv'
<1>1. LockInv'
  BY RuntimeAssumption DEF LockInv
<1>2. OwnInv'
  BY DEF OwnInv, Held
<1>3. AliveInv'
  BY RuntimeAssumption DEF AliveInv, Current, At, Held
<1>4. FaultInv'
  BY DEF RuntimeInv, FaultInv, Reported, At
<1> QED BY <1>1, <1>2, <1>3, <1>4 DEF RuntimeInv

(* start takes the mutex, or finds a process that runs.                    *)
LEMMA StartLocksInv == ASSUME RuntimeInv, NEW c \in Callers, StartLocks(c) PROVE RuntimeInv'
<1>1. call[c].pc = "start" /\ lock = NoCaller /\ call[c].own <= gen /\ gen \in Nat
  BY CallFields DEF StartLocks, At, RuntimeInv
<1>2. CASE child # 0 /\ child \in alive
  <2>1. Return(c) /\ UNCHANGED <<gen, locks, procs, runtime, seen, line, said>>
    BY <1>2 DEF StartLocks
  <2> QED BY <1>1, <2>1, ReturnFacts, QuietStep DEF RuntimeInv, Held
<1>3. CASE ~(child # 0 /\ child \in alive)
  <2>1. /\ Goto(c, "bump") /\ lock' = c /\ child' = 0
        /\ UNCHANGED <<gen, procs, seen, line, said>>
        /\ runtime' \in [running : BOOLEAN, connected : BOOLEAN]
    <3>1. Goto(c, "bump") /\ lock' = c /\ child' = 0 /\ UNCHANGED <<gen, procs, seen, line, said>>
      BY <1>3 DEF StartLocks
    <3>2. Down \/ UNCHANGED runtime
      BY <1>3 DEF StartLocks
    <3>3. runtime' \in [running : BOOLEAN, connected : BOOLEAN]
      <4>1. CASE Down
        BY <4>1 DEF Down
      <4>2. CASE UNCHANGED runtime
        BY <4>2 DEF RuntimeInv, Typed
      <4> QED BY <3>2, <4>1, <4>2
    <3> QED BY <3>1, <3>3
  <2>2. /\ call' \in [Callers -> Calls] /\ call'[c].pc = "bump" /\ call'[c].own = call[c].own
        /\ \A d \in Callers \ {c} : call'[d] = call[d]
    BY <2>1, GotoFacts DEF RuntimeInv, Pcs
  <2>3. alive = {}
    BY <1>1, <1>3, Holder
  <2>4. Typed'
    BY <1>1, <2>1, <2>2 DEF RuntimeInv, Typed, procs, seen, Spawned
  <2>5. \A d \in Callers \ {c} : call'[d] = call[d] /\ call[d].pc \notin Held
    BY <1>1, <2>2, Holder
  <2> QED BY <2>1, <2>2, <2>3, <2>4, <2>5, HolderStep DEF procs, seen, Held, Spawned
<1> QED BY <1>2, <1>3

(* start takes a new generation, and clears what was known.                *)
LEMMA StartBumpsInv ==
  ASSUME RuntimeInv, NEW c \in Callers, StartBumps(c) \/ StartClears(c)
  PROVE  RuntimeInv'
<1>1. /\ call[c].pc \in {"bump", "clear"} /\ call[c] \in Calls
      /\ call[c].own <= gen /\ gen \in Nat
  BY CallFields DEF StartBumps, StartClears, At, RuntimeInv
<1>2. /\ lock = c /\ child = 0 /\ lock' = lock /\ child' = child /\ alive' = alive
      /\ killed' = killed /\ runtime' = runtime /\ line' = line /\ said' = said
      /\ 0 \notin Spawned /\ 0 \notin alive
  BY <1>1, Holder DEF StartBumps, StartClears, locks, procs, Held
<1>3. alive = {}
  BY <1>1, <1>2 DEF RuntimeInv, AliveInv, Current, At
<1>4. /\ call' \in [Callers -> Calls] /\ \A d \in Callers \ {c} : call'[d] = call[d]
      /\ call'[c].pc \in {"clear", "spawn"} /\ call'[c].own <= gen'
      /\ call'[c].own # 0 /\ call'[c].own \notin Spawned
      /\ gen' \in {gen, gen + 1}
  <2>1. CASE StartBumps(c)
    <3>1. [call[c] EXCEPT !.pc = "clear", !.own = gen + 1] \in Calls
      <4>1. gen + 1 \in Nat
        BY <1>1
      <4> QED BY <1>1, <4>1 DEF Calls, Pcs
    <3>2. gen + 1 \notin Spawned
      BY <1>1 DEF RuntimeInv, Typed
    <3> QED BY <1>1, <2>1, <3>1, <3>2 DEF StartBumps, RuntimeInv, Typed, Calls
  <2>2. CASE StartClears(c)
    BY <1>1, <2>2, GotoFacts DEF StartClears, RuntimeInv, Pcs, OwnInv, At
  <2> QED BY <2>1, <2>2
<1>5. CASE StartBumps(c)
  <2>1. Typed'
    <3>1. gen' = gen + 1 /\ UNCHANGED seen
      BY <1>5 DEF StartBumps
    <3>2. Spawned' = Spawned /\ Spawned \subseteq 1..(gen + 1)
      BY <1>1, <1>2 DEF RuntimeInv, Typed, Spawned
    <3>3. \A d \in Callers : call'[d].own <= gen + 1
      BY <1>1, <1>4, <3>1, CallFields DEF RuntimeInv
    <3> QED BY <1>1, <1>2, <1>4, <3>1, <3>2, <3>3 DEF RuntimeInv, Typed, seen
  <2>2. \A d \in Callers \ {c} : call'[d] = call[d] /\ call[d].pc \notin Held
    BY <1>2, <1>4, Holder
  <2> QED BY <1>2, <1>3, <1>4, <1>5, <2>1, <2>2, HolderStep DEF StartBumps, seen, Held, Spawned
<1>6. CASE StartClears(c)
  <2>1. gen' = gen /\ started' = {} /\ nodeFault' = 0 /\ startFault' = 0
    BY <1>6 DEF StartClears
  <2>2. Typed'
    BY <1>1, <1>2, <1>4, <2>1 DEF RuntimeInv, Typed, Spawned
  <2>3. \A d \in Callers \ {c} : call'[d] = call[d] /\ call[d].pc \notin Held
    BY <1>2, <1>4, Holder
  <2>4. LockInv' /\ OwnInv'
    BY <1>2, <1>4, <2>3, RuntimeAssumption DEF LockInv, OwnInv, Held, Spawned
  <2>5. AliveInv'
    BY <1>2, <1>3 DEF AliveInv
  <2>6. FaultInv'
    BY <1>2, <1>4, <2>1 DEF RuntimeInv, FaultInv, Reported, Spawned, At
  <2> QED BY <2>2, <2>4, <2>5, <2>6 DEF RuntimeInv
<1> QED BY <1>5, <1>6

(* start spawns a process, or cannot.                                      *)
LEMMA StartSpawnsInv ==
  ASSUME RuntimeInv, NEW c \in Callers, StartSpawns(c) \/ SpawnFails(c)
  PROVE  RuntimeInv'
<1>1. /\ call[c].pc = "spawn" /\ call[c].own \in Nat /\ call[c].own <= gen /\ gen \in Nat
      /\ Return(c)
  BY CallFields DEF StartSpawns, SpawnFails, At, RuntimeInv
<1>2. lock = c /\ child = 0 /\ 0 \notin alive /\ c # NoCaller
  BY <1>1, Holder DEF Held
<1>3. alive = {}
  BY <1>1, <1>2 DEF RuntimeInv, AliveInv, Current, At
<1>4. /\ call' \in [Callers -> Calls] /\ call'[c].pc = "idle" /\ call'[c].own = 0
      /\ \A d \in Callers \ {c} : call'[d] = call[d] /\ call[d].pc \notin Held
  BY <1>1, <1>2, ReturnFacts, Holder DEF RuntimeInv
<1>5. call[c].own # 0 /\ call[c].own \notin Spawned
  BY <1>1 DEF RuntimeInv, OwnInv
<1>6. CASE StartSpawns(c)
  <2>1. /\ Spawned' = Spawned \cup {call[c].own}
        /\ \A g \in Spawned : said'[g] = said[g]
        /\ said' \in [Spawned' -> SUBSET (Proxies \cup {"fault"})]
    BY <1>5, <1>6 DEF StartSpawns, RuntimeInv, Typed, Spawned
  <2>2. /\ gen' = gen /\ lock' = NoCaller /\ child' = call[c].own /\ alive' = {call[c].own}
        /\ killed' = killed /\ started' = started /\ nodeFault' = nodeFault
        /\ startFault' = startFault /\ line' = line
        /\ runtime' \in [running : BOOLEAN, connected : BOOLEAN]
    BY <1>3, <1>6 DEF StartSpawns, seen
  <2>3. Typed'
    <3>1. Spawned' \subseteq 1..gen
      <4>1. call[c].own \in 1..gen
        BY <1>1, <1>5
      <4>2. Spawned \subseteq 1..gen
        BY DEF RuntimeInv, Typed
      <4> QED BY <2>1, <4>1, <4>2
    <3>2. \A d \in Callers : call'[d].own <= gen
      BY <1>1, <1>4, CallFields DEF RuntimeInv
    <3> QED BY <1>1, <1>4, <2>1, <2>2, <3>1, <3>2 DEF RuntimeInv, Typed
  <2> QED BY <1>2, <1>4, <2>1, <2>2, <2>3, HolderStep DEF Held
<1>7. CASE SpawnFails(c)
  <2>1. lock' = NoCaller /\ UNCHANGED <<gen, child, procs, runtime, seen, line, said>>
    BY <1>7 DEF SpawnFails
  <2>2. Typed'
    BY <1>1, <1>4, <2>1 DEF RuntimeInv, Typed, procs, seen, Spawned
  <2> QED BY <1>2, <1>3, <1>4, <2>1, <2>2, HolderStep DEF Held, procs, seen, Spawned
<1> QED BY <1>6, <1>7

(* stop moves the generation before it asks for the mutex.                 *)
LEMMA StopBumpsInv == ASSUME RuntimeInv, NEW c \in Callers, StopBumps(c) PROVE RuntimeInv'
<1>1. call[c].pc = "stop" /\ call[c].own <= gen /\ gen \in Nat
  BY CallFields DEF StopBumps, At, RuntimeInv
<1>2. /\ call' \in [Callers -> Calls] /\ call'[c].pc = "stop_lock" /\ call'[c].own = call[c].own
      /\ \A d \in Callers \ {c} : call'[d] = call[d]
  BY GotoFacts DEF StopBumps, RuntimeInv, Pcs
<1>3. gen' = gen + 1 /\ UNCHANGED <<locks, procs, runtime, seen, line, said>>
  BY DEF StopBumps
<1>4. Typed'
  <2>1. Spawned' = Spawned /\ Spawned \subseteq 1..(gen + 1)
    BY <1>1, <1>3 DEF RuntimeInv, Typed, Spawned
  <2>2. \A d \in Callers : call'[d].own <= gen + 1
    BY <1>1, <1>2, CallFields DEF RuntimeInv
  <2> QED BY <1>1, <1>2, <1>3, <2>1, <2>2 DEF RuntimeInv, Typed, locks, procs, seen
<1>5. LockInv' /\ OwnInv'
  BY <1>1, <1>2, <1>3 DEF RuntimeInv, LockInv, OwnInv, Held, locks, Spawned
<1>6. AliveInv'
  <2>1. lock # NoCaller => lock # c
    BY <1>1 DEF RuntimeInv, LockInv, Held
  <2>2. lock # NoCaller => call'[lock] = call[lock]
    BY <1>2, <2>1 DEF RuntimeInv, Typed
  <2> QED BY <1>3, <2>2 DEF RuntimeInv, AliveInv, Current, At, locks, procs
<1>7. FaultInv'
  BY <1>2, <1>3 DEF RuntimeInv, FaultInv, Reported, Spawned, At, seen
<1> QED BY <1>4, <1>5, <1>6, <1>7 DEF RuntimeInv

(* stop takes the process out of the mutex.                                *)
LEMMA StopLocksInv == ASSUME RuntimeInv, NEW c \in Callers, StopLocks(c) PROVE RuntimeInv'
<1>1. /\ call[c].pc = "stop_lock" /\ lock = NoCaller /\ call[c] \in Calls
      /\ call[c].own <= gen /\ gen \in Nat
  BY CallFields DEF StopLocks, At, RuntimeInv
<1>2. child \in Nat /\ child <= gen
  BY <1>1 DEF RuntimeInv, Typed
<1>3. /\ call' \in [Callers -> Calls] /\ call'[c].pc = "kill" /\ call'[c].own = child
      /\ \A d \in Callers \ {c} : call'[d] = call[d] /\ call[d].pc \notin Held
  <2>1. [call[c] EXCEPT !.pc = "kill", !.own = child] \in Calls
    BY <1>1, <1>2 DEF Calls, Pcs
  <2>2. \A d \in Callers : call[d].pc \notin Held
    BY <1>1, Holder
  <2> QED BY <2>1, <2>2, <1>1 DEF StopLocks, RuntimeInv, Typed, Calls
<1>4. lock' = c /\ child' = 0 /\ UNCHANGED <<gen, procs, runtime, seen, line, said>>
  BY DEF StopLocks
<1>5. Typed'
  BY <1>1, <1>2, <1>3, <1>4 DEF RuntimeInv, Typed, procs, seen, Spawned
<1>6. alive \subseteq {child} /\ child \in Spawned \cup {0}
  BY <1>1, Holder DEF RuntimeInv, Typed
<1> QED BY <1>3, <1>4, <1>5, <1>6, HolderStep DEF Held, procs, seen, Spawned

(* stop kills it.                                                          *)
LEMMA StopKillsInv == ASSUME RuntimeInv, NEW c \in Callers, StopKills(c) PROVE RuntimeInv'
<1>1. call[c].pc = "kill" /\ call[c].own \in Nat /\ call[c].own <= gen
  BY CallFields DEF StopKills, At, RuntimeInv
<1>2. lock = c /\ child = 0 /\ c # NoCaller
  BY <1>1, Holder DEF Held
<1>3. /\ call' \in [Callers -> Calls] /\ call'[c].pc = "down" /\ call'[c].own = call[c].own
      /\ \A d \in Callers \ {c} : call'[d] = call[d] /\ call[d].pc \notin Held
  BY <1>2, GotoFacts, Holder DEF StopKills, RuntimeInv, Pcs
<1>4. alive \subseteq {call[c].own} /\ call[c].own \in Spawned \cup {0}
  BY <1>1, <1>2 DEF RuntimeInv, AliveInv, Current, At, OwnInv
<1>5. /\ alive' = {} /\ killed' \subseteq Spawned
      /\ UNCHANGED <<gen, locks, runtime, seen, line, said>>
  BY <1>4 DEF StopKills, RuntimeInv, Typed
<1>6. Typed'
  BY <1>1, <1>3, <1>5 DEF RuntimeInv, Typed, locks, seen, Spawned
<1> QED BY <1>2, <1>3, <1>5, <1>6, HolderStep DEF Held, locks, seen, Spawned

(* stop shows the process as ended, and a restart goes on.                 *)
LEMMA StopEndsInv == ASSUME RuntimeInv, NEW c \in Callers, StopEnds(c) PROVE RuntimeInv'
<1>1. call[c].pc = "down" /\ call[c] \in Calls /\ gen \in Nat
  BY CallFields DEF StopEnds, At, RuntimeInv
<1>2. lock = c /\ child = 0 /\ c # NoCaller /\ 0 \notin alive
  BY <1>1, Holder DEF Held
<1>3. alive = {}
  BY <1>1, <1>2 DEF RuntimeInv, AliveInv, Current, At
<1>4. \A d \in Callers \ {c} : call[d].pc \notin Held
  BY <1>2, Holder
<1>5. /\ call' \in [Callers -> Calls] /\ call'[c].pc \in {"start", "idle"} /\ call'[c].own = 0
      /\ \A d \in Callers \ {c} : call'[d] = call[d]
  <2>1. CASE call' = [call EXCEPT ![c].pc = "start", ![c].own = 0]
    <3>1. [call[c] EXCEPT !.pc = "start", !.own = 0] \in Calls
      BY <1>1 DEF Calls, Pcs
    <3> QED BY <1>1, <2>1, <3>1 DEF RuntimeInv, Typed, Calls
  <2>2. CASE Return(c)
    BY <2>2, ReturnFacts DEF RuntimeInv
  <2> QED BY <2>1, <2>2 DEF StopEnds
<1>6. /\ lock' = NoCaller /\ UNCHANGED <<gen, child, procs, seen, line, said>>
      /\ runtime' \in [running : BOOLEAN, connected : BOOLEAN]
  BY DEF StopEnds, Down
<1>7. Typed'
  BY <1>1, <1>5, <1>6 DEF RuntimeInv, Typed, procs, seen, Spawned
<1> QED BY <1>2, <1>3, <1>4, <1>5, <1>6, <1>7, HolderStep DEF Held, procs, seen, Spawned

(* status finds an exit, and writes it down.                               *)
LEMMA StatusInv ==
  ASSUME RuntimeInv, NEW c \in Callers, StatusLocks(c) \/ StatusWrites(c)
  PROVE  RuntimeInv'
<1>1. call[c].own <= gen /\ gen \in Nat
  BY CallFields DEF RuntimeInv
<1>2. CASE StatusLocks(c)
  <2>1. call[c].pc = "status" /\ lock = NoCaller
    BY <1>2 DEF StatusLocks, At
  <2>2. PICK l \in {"exited", "read"} : Goto(c, l)
    BY <1>2 DEF StatusLocks
  <2>3. /\ call' \in [Callers -> Calls] /\ call'[c].pc = l /\ call'[c].own = call[c].own
        /\ \A d \in Callers \ {c} : call'[d] = call[d]
    BY <2>2, GotoFacts DEF RuntimeInv, Pcs
  <2>4. /\ child' \in {child, 0} /\ alive \subseteq {child'}
        /\ UNCHANGED <<gen, lock, procs, runtime, seen, line, said>>
    BY <1>2, <2>1, Holder DEF StatusLocks
  <2>5. \A d \in Callers : call[d].pc \notin Held
    BY <2>1, Holder
  <2>6. Typed'
    BY <1>1, <2>3, <2>4 DEF RuntimeInv, Typed, procs, seen, Spawned
  <2>7. lock' = NoCaller /\ c # NoCaller
    BY <2>1, <2>4, Holder
  <2> QED BY <2>3, <2>4, <2>5, <2>6, <2>7, HolderStep DEF Held, procs, seen, Spawned
<1>3. CASE StatusWrites(c)
  <2>1. call[c].pc = "exited" /\ Goto(c, "read")
    BY <1>3 DEF StatusWrites, At
  <2>2. /\ call' \in [Callers -> Calls] /\ call'[c].pc = "read" /\ call'[c].own = call[c].own
        /\ \A d \in Callers \ {c} : call'[d] = call[d]
    BY <2>1, GotoFacts DEF RuntimeInv, Pcs
  <2>3. /\ UNCHANGED <<gen, locks, procs, seen, line, said>>
        /\ runtime' \in [running : BOOLEAN, connected : BOOLEAN]
    BY <1>3 DEF StatusWrites, Down
  <2>4. Typed'
    BY <1>1, <2>2, <2>3 DEF RuntimeInv, Typed, locks, procs, seen, Spawned
  <2>5. LockInv' /\ OwnInv'
    BY <2>1, <2>2, <2>3 DEF RuntimeInv, LockInv, OwnInv, Held, locks, Spawned
  <2>6. AliveInv'
    <3>1. lock # NoCaller => lock # c
      BY <2>1 DEF RuntimeInv, LockInv, Held
    <3>2. lock # NoCaller => call'[lock] = call[lock]
      BY <2>2, <3>1 DEF RuntimeInv, Typed
    <3> QED BY <2>3, <3>2 DEF RuntimeInv, AliveInv, Current, At, locks, procs
  <2>7. FaultInv'
    BY <2>2, <2>3 DEF RuntimeInv, FaultInv, Reported, Spawned, At, seen
  <2> QED BY <2>4, <2>5, <2>6, <2>7 DEF RuntimeInv
<1> QED BY <1>2, <1>3

-----------------------------------------------------------------------------
(* A reader takes a line, which the process has reported.                  *)
LEMMA ReadLineInv ==
  ASSUME RuntimeInv, NEW s \in Readers, NEW text \in Lines, ReadLine(s, text)
  PROVE  RuntimeInv'
<1>1. /\ gen \in Spawned /\ gen \in Nat
      /\ UNCHANGED <<gen, locks, procs, runtime, seen, call>>
  BY DEF ReadLine, RuntimeInv, Typed
<1>2. [of |-> gen, text |-> text, pc |-> "runtime"] \in Hands
  BY <1>1 DEF Hands
<1>3. /\ line' \in [Readers -> Hands] /\ line'[s] = [of |-> gen, text |-> text, pc |-> "runtime"]
      /\ \A r \in Readers \ {s} : line'[r] = line[r]
  BY <1>2 DEF ReadLine, RuntimeInv, Typed
<1> DEFINE What == IF text \in NodeFaults THEN {"fault"} ELSE {text} \cap Proxies
<1>4. /\ said' = [said EXCEPT ![gen] = said[gen] \cup What]
      /\ What \subseteq Proxies \cup {"fault"}
  BY DEF ReadLine
<1>5. /\ Spawned' = Spawned /\ said' \in [Spawned -> SUBSET (Proxies \cup {"fault"})]
      /\ \A g \in Spawned : said[g] \subseteq said'[g]
      /\ text \in NodeFaults => "fault" \in said'[gen]
  BY <1>1, <1>4 DEF RuntimeInv, Typed, Spawned
<1>6. Typed'
  BY <1>1, <1>3, <1>5 DEF RuntimeInv, Typed, locks, procs, seen
<1>7. LockInv' /\ OwnInv' /\ AliveInv'
  BY <1>1, <1>5 DEF RuntimeInv, LockInv, OwnInv, AliveInv, Current, At, locks, procs
<1>8. FaultInv'
  <2>1. \A g : Reported(g) => Reported(g)'
    BY <1>5 DEF Reported
  <2>2. nodeFault' # 0 => Reported(nodeFault)'
    BY <1>1, <2>1 DEF RuntimeInv, FaultInv, seen, Reported
  <2>3. ASSUME NEW r \in Readers, line'[r].pc # "idle"
        PROVE  line'[r].of \in Spawned' /\ (line'[r].text \in NodeFaults => Reported(line[r].of)')
    <3>1. CASE r = s
      BY <1>1, <1>3, <1>5, <3>1 DEF Reported
    <3>2. CASE r # s
      BY <1>1, <1>3, <1>5, <2>1, <2>3, <3>2 DEF RuntimeInv, FaultInv, Reported
    <3> QED BY <3>1, <3>2
  <2>4. \A c \in Callers : call'[c].pc = "answer" /\ call'[c].result = "node" =>
          call'[c].own \in Spawned' /\ "fault" \in said'[call'[c].own]
    BY <1>1, <1>5 DEF RuntimeInv, FaultInv, Reported, At
  <2> QED BY <2>2, <2>3, <2>4 DEF FaultInv, Reported, At
<1> QED BY <1>6, <1>7, <1>8 DEF RuntimeInv

(* A reader writes what its line says.                                     *)
LEMMA LineInv ==
  ASSUME RuntimeInv, NEW s \in Readers, LineWritesRuntime(s) \/ LineIsRecorded(s)
  PROVE  RuntimeInv'
<1>1. /\ UNCHANGED <<gen, locks, procs, call, said>>
      /\ line[s].pc \in {"runtime", "record"} /\ line[s] \in Hands
  BY DEF LineWritesRuntime, LineIsRecorded, RuntimeInv, Typed
<1>2. line[s].of \in Spawned /\ (line[s].text \in NodeFaults => Reported(line[s].of))
  BY <1>1 DEF RuntimeInv, FaultInv
<1>3. LockInv' /\ OwnInv' /\ AliveInv'
  BY <1>1 DEF RuntimeInv, LockInv, OwnInv, AliveInv, Current, At, locks, procs, Spawned
<1>4. CASE LineWritesRuntime(s)
  <2>1. [line[s] EXCEPT !.pc = "record"] \in Hands
    BY <1>1 DEF Hands
  <2>2. /\ line' \in [Readers -> Hands] /\ line'[s].of = line[s].of /\ line'[s].text = line[s].text
        /\ \A r \in Readers \ {s} : line'[r] = line[r]
    BY <1>1, <1>4, <2>1 DEF LineWritesRuntime, RuntimeInv, Typed, Hands
  <2>3. runtime' \in [running : BOOLEAN, connected : BOOLEAN]
    <3>1. \/ runtime' = [runtime EXCEPT !.connected = TRUE]
          \/ runtime' = [runtime EXCEPT !.connected = FALSE]
          \/ runtime' = runtime
      BY <1>4 DEF LineWritesRuntime
    <3> QED BY <3>1 DEF RuntimeInv, Typed
  <2>4. UNCHANGED seen
    BY <1>4 DEF LineWritesRuntime
  <2>5. Typed'
    BY <1>1, <2>2, <2>3, <2>4 DEF RuntimeInv, Typed, locks, procs, seen, Spawned
  <2>6. FaultInv'
    BY <1>1, <1>2, <2>2, <2>4 DEF RuntimeInv, FaultInv, Reported, Spawned, At, seen
  <2> QED BY <1>3, <2>5, <2>6 DEF RuntimeInv
<1>5. CASE LineIsRecorded(s)
  <2>1. NoLine \in Hands /\ NoLine.of = 0 /\ NoLine.pc = "idle"
    BY DEF NoLine, Hands
  <2>2. /\ line' \in [Readers -> Hands] /\ line'[s] = NoLine
        /\ \A r \in Readers \ {s} : line'[r] = line[r]
    BY <1>5, <2>1 DEF LineIsRecorded, RuntimeInv, Typed
  <2>3. /\ runtime' = runtime /\ started' \subseteq Proxies
        /\ startFault' \in {startFault, line[s].of}
    BY <1>5 DEF LineIsRecorded, RuntimeInv, Typed
  <2>4. nodeFault' = nodeFault \/ (nodeFault' = line[s].of /\ line[s].text \in NodeFaults)
    BY <1>5 DEF LineIsRecorded
  <2>5. Typed'
    BY <1>1, <1>2, <2>1, <2>2, <2>3, <2>4 DEF RuntimeInv, Typed, locks, procs, Spawned
  <2>6. FaultInv'
    BY <1>1, <1>2, <2>1, <2>2, <2>4 DEF RuntimeInv, FaultInv, Reported, Spawned, At
  <2> QED BY <1>3, <2>5, <2>6 DEF RuntimeInv
<1> QED BY <1>4, <1>5

(* A process exits by itself.                                              *)
LEMMA ExitInv == ASSUME RuntimeInv, ProcessExits PROVE RuntimeInv'
<1>1. /\ alive' \subseteq alive
      /\ UNCHANGED <<gen, locks, killed, runtime, seen, call, line, said>>
  BY DEF ProcessExits
<1>2. Typed'
  BY <1>1 DEF RuntimeInv, Typed, locks, seen, Spawned
<1>3. LockInv' /\ OwnInv' /\ AliveInv'
  BY <1>1 DEF RuntimeInv, LockInv, OwnInv, AliveInv, Current, At, locks, Spawned
<1>4. FaultInv'
  BY <1>1 DEF RuntimeInv, FaultInv, Reported, Spawned, At, seen
<1> QED BY <1>2, <1>3, <1>4 DEF RuntimeInv

(* Every step keeps the invariant, whatever is called when.                *)
LEMMA RuntimeStep == RuntimeInv /\ [NextButtons]_vars => RuntimeInv'
<1> SUFFICES ASSUME RuntimeInv, [NextButtons]_vars PROVE RuntimeInv'
  OBVIOUS
<1>1. CASE UNCHANGED vars
  BY <1>1
  DEF vars, RuntimeInv, Typed, LockInv, OwnInv, AliveInv, FaultInv, Reported, Current, At, Spawned
<1>2. ASSUME NEW c \in Callers, Step(c) PROVE RuntimeInv'
  <2>1. CASE StartStep(c)
    BY <2>1, StartLocksInv, StartBumpsInv, StartSpawnsInv DEF StartStep
  <2>2. CASE StopStep(c)
    BY <2>2, StopBumpsInv, StopLocksInv, StopKillsInv, StopEndsInv DEF StopStep
  <2>3. CASE StatusStep(c) \/ WaitStep(c)
    BY <2>3, StatusInv, WaitStepInv DEF StatusStep
  <2> QED BY <1>2, <2>1, <2>2, <2>3 DEF Step
<1>3. CASE NextButtons
  BY <1>2, <1>3, BeginStep, ReadLineInv, LineInv, ExitInv DEF NextButtons, ReaderStep
<1> QED BY <1>1, <1>3

(* Under the coordinator's lock nothing happens that the buttons could not *)
(* make happen too.                                                        *)
LEMMA UnderLockIsButtons == Next => NextButtons
  BY DEF Next, NextButtons, BeginUnderLock

-----------------------------------------------------------------------------
(* The invariant holds in every reachable state, with the buttons of the   *)
(* API, and so under the coordinator's lock.                               *)
THEOREM RuntimeInvariant == SpecButtons => []RuntimeInv
  BY RuntimeInit, RuntimeStep, PTL DEF SpecButtons

THEOREM UnderLockInvariant == Spec => []RuntimeInv
<1>1. [Next]_vars => [NextButtons]_vars
  BY UnderLockIsButtons
<1> QED BY <1>1, RuntimeInit, RuntimeStep, PTL DEF Spec

(* Every variable keeps its type.                                          *)
THEOREM RuntimeTyped == Spec => []TypeOK
<1>1. RuntimeInv => TypeOK
  <2> SUFFICES ASSUME RuntimeInv PROVE TypeOK
    OBVIOUS
  <2>1. \A c \in Callers : call[c].own \in 0..gen
    BY CallFields DEF RuntimeInv
  <2> QED BY <2>1 DEF RuntimeInv, Typed, TypeOK
<1> QED BY <1>1, UnderLockInvariant, PTL

(* A subset of a singleton has at most one element.                        *)
LEMMA OneAtMost == ASSUME NEW x, NEW S, S \subseteq {x} PROVE Cardinality(S) <= 1
<1>1. CASE S = {}
  BY <1>1, FS_EmptySet
<1>2. CASE S = {x}
  BY <1>2, FS_Singleton
<1> QED BY <1>1, <1>2

(* FRPC never runs twice and no process is lost sight of, whatever starts, *)
(* stops and restarts come together.                                       *)
THEOREM NeverTwo == SpecButtons => []OneProcess
<1>1. RuntimeInv => OneProcess
  <2> SUFFICES ASSUME RuntimeInv PROVE OneProcess
    OBVIOUS
  <2>1. alive \subseteq {Current}
    BY DEF RuntimeInv, AliveInv
  <2>2. Cardinality(alive) <= 1
    BY <2>1, OneAtMost
  <2>3. ASSUME NEW g \in alive
        PROVE  g = child \/ \E c \in Callers : At(c, "kill") /\ call[c].own = g
    <3>1. lock # NoCaller => lock \in Callers
      BY DEF RuntimeInv, Typed
    <3> QED BY <2>1, <3>1 DEF Current
  <2> QED BY <2>2, <2>3 DEF OneProcess
<1> QED BY <1>1, RuntimeInvariant, PTL

(* A process never has the generation of another: start counts inside the  *)
(* mutex.                                                                  *)
THEOREM NewGeneration == SpecButtons => OwnGeneration
<1>1. ASSUME RuntimeInv, [NextButtons]_vars, NEW g \in alive' \ alive PROVE g \notin Spawned
  <2>1. CASE \E c \in Callers : StartSpawns(c)
    <3>1. PICK c \in Callers : StartSpawns(c)
      BY <2>1
    <3> QED BY <1>1, <3>1 DEF StartSpawns, RuntimeInv, OwnInv, At
  <2>2. CASE alive' \subseteq alive
    BY <1>1, <2>2
  <2>3. alive' \subseteq alive \/ \E c \in Callers : StartSpawns(c)
    BY <1>1
    DEF NextButtons, vars, Step, StartStep, StopStep, StatusStep, WaitStep, ReaderStep, procs,
        BeginLifecycle, BeginStatus, BeginWait, Begin, StartLocks, StartBumps, StartClears,
        SpawnFails, StopBumps, StopLocks, StopKills, StopEnds, StatusLocks, StatusWrites,
        StatusReads, WaitWatches, WaitTurns, WaitReadsFaults, WaitReadsProxies, WaitEnds,
        ReadLine, LineWritesRuntime, LineIsRecorded, ProcessExits
  <2> QED BY <2>1, <2>2, <2>3
<1>2. RuntimeInv /\ [NextButtons]_vars => [\A g \in alive' \ alive : g \notin Spawned]_vars
  BY <1>1
<1> QED BY <1>2, RuntimeInvariant, PTL DEF SpecButtons, OwnGeneration

(* While something is shown as running, the manager holds a process, or a  *)
(* task is on its way to write down that there is none.                    *)
ShownInv ==
  runtime.running => \/ child # 0
                     \/ \E c \in Callers : At(c, "exited")
                     \/ lock # NoCaller /\ call[lock].pc \in {"kill", "down"}

LEMMA ShownStep == RuntimeInv /\ ShownInv /\ [NextButtons]_vars => ShownInv'
<1> SUFFICES ASSUME RuntimeInv, ShownInv, [NextButtons]_vars PROVE ShownInv'
  OBVIOUS
<1>0. /\ Typed /\ LockInv /\ call \in [Callers -> Calls]
      /\ runtime \in [running : BOOLEAN, connected : BOOLEAN]
  BY DEF RuntimeInv, Typed
<1>1. CASE ~runtime'.running \/ child' # 0
  BY <1>1 DEF ShownInv
<1>2. ASSUME UNCHANGED locks, runtime'.running = runtime.running,
             \A d \in Callers : call[d].pc \in {"exited", "kill", "down"} => call'[d].pc = call[d].pc
      PROVE  ShownInv'
  <2>1. lock # NoCaller => lock \in Callers
    BY <1>0 DEF Typed
  <2> QED BY <1>2, <2>1 DEF ShownInv, locks, At
<1>3. ASSUME NEW c \in Callers, BeginLifecycle(c) \/ BeginStatus(c) \/ BeginWait(c)
      PROVE  ShownInv'
  <2>1. PICK o \in {"start", "stop", "restart", "status", "wait_ready"},
             l \in {"start", "stop", "status", "watch"} : Begin(c, o, l)
    BY <1>3 DEF BeginLifecycle, BeginStatus, BeginWait
  <2>2. call[c].pc = "idle" /\ \A d \in Callers \ {c} : call'[d] = call[d]
    BY <1>0, <2>1 DEF Begin, At
  <2> QED BY <1>2, <2>1, <2>2 DEF Begin
<1>4. ASSUME NEW c \in Callers, Step(c) PROVE ShownInv'
  <2>1. /\ \A d \in Callers \ {c} : call'[d] = call[d]
    BY <1>0, <1>4
       DEF Step, StartStep, StartLocks, StartBumps, StartClears, StartSpawns, SpawnFails,
           StopStep, StopBumps, StopLocks, StopKills, StopEnds,
           StatusStep, StatusLocks, StatusWrites, StatusReads,
           WaitStep, WaitWatches, WaitTurns, WaitReadsFaults, WaitReadsProxies, WaitEnds,
           Goto, Return, Answer
  <2>2. ASSUME UNCHANGED <<locks, runtime>>, call[c].pc \notin {"exited", "kill", "down"}
        PROVE  ShownInv'
    BY <1>2, <2>1, <2>2
  (* The mutex is taken, or left, by a task that had nothing to write.     *)
  <2>3. ASSUME UNCHANGED <<child, runtime>>, lock = NoCaller \/ call[lock].pc \notin {"kill", "down"},
               call[c].pc # "exited"
        PROVE  ShownInv'
    BY <2>1, <2>3 DEF ShownInv, At
  <2>4. CASE StartLocks(c)
    <3>1. CASE child # 0 /\ child \in alive
      BY <1>1, <2>4, <3>1 DEF StartLocks, locks
    <3>2. CASE child # 0 /\ child \notin alive
      BY <1>1, <2>4, <3>2 DEF StartLocks, Down
    <3>3. CASE child = 0
      BY <2>3, <2>4, <3>3 DEF StartLocks, At
    <3> QED BY <3>1, <3>2, <3>3
  <2>5. CASE StartBumps(c) \/ StartClears(c)
    BY <2>2, <2>5 DEF StartBumps, StartClears, At
  <2>6. CASE StartSpawns(c)
    <3>1. call[c].own # 0
      BY <2>6 DEF StartSpawns, At, RuntimeInv, OwnInv
    <3> QED BY <1>1, <2>6, <3>1 DEF StartSpawns
  <2>7. CASE SpawnFails(c)
    <3>1. lock = c
      BY <2>7, Holder DEF SpawnFails, At, Held
    <3> QED BY <2>3, <2>7, <3>1 DEF SpawnFails, At
  <2>8. CASE StopBumps(c)
    BY <2>2, <2>8 DEF StopBumps, At
  <2>9. CASE StopLocks(c)
    <3>1. lock' = c /\ call'[c].pc = "kill"
      BY <1>0, <2>9 DEF StopLocks, Calls
    <3> QED BY <3>1, RuntimeAssumption DEF ShownInv
  <2>10. CASE StopKills(c)
    <3>1. lock' = c /\ call'[c].pc = "down"
      BY <1>0, <2>10, Holder DEF StopKills, At, Goto, locks, Held, Calls
    <3> QED BY <3>1, RuntimeAssumption DEF ShownInv
  <2>11. CASE StopEnds(c) \/ StatusWrites(c)
    BY <1>1, <2>11 DEF StopEnds, StatusWrites, Down
  <2>12. CASE StatusLocks(c)
    <3>1. CASE child # 0 /\ child \notin alive
      <4>1. call'[c].pc = "exited"
        BY <1>0, <2>12, <3>1 DEF StatusLocks, Goto, Calls
      <4> QED BY <4>1 DEF ShownInv, At
    <3>2. CASE ~(child # 0 /\ child \notin alive)
      BY <2>2, <2>12, <3>2 DEF StatusLocks, At, locks
    <3> QED BY <3>1, <3>2
  <2>13. CASE StatusReads(c) \/ WaitStep(c)
    BY <2>2, <2>13
       DEF StatusReads, WaitStep, WaitWatches, WaitTurns, WaitReadsFaults, WaitReadsProxies, WaitEnds, At
  <2> QED BY <1>4, <2>4, <2>5, <2>6, <2>7, <2>8, <2>9, <2>10, <2>11, <2>12, <2>13
          DEF Step, StartStep, StopStep, StatusStep
<1>5. CASE ReaderStep \/ ProcessExits
  <2>1. UNCHANGED locks /\ call' = call
    BY <1>5 DEF ReaderStep, ReadLine, LineWritesRuntime, LineIsRecorded, ProcessExits
  <2>2. runtime'.running = runtime.running
    BY <1>0, <1>5 DEF ReaderStep, ReadLine, LineWritesRuntime, LineIsRecorded, ProcessExits
  <2> QED BY <1>2, <2>1, <2>2
<1>6. CASE UNCHANGED vars
  <2>1. /\ child' = child /\ lock' = lock /\ call' = call /\ runtime' = runtime
    BY <1>6 DEF vars, locks
  <2> QED BY <2>1 DEF ShownInv, At
<1> QED BY <1>3, <1>4, <1>5, <1>6 DEF NextButtons

(* start, stop, restart and status beside each other: when all have        *)
(* returned, nothing is shown as running that the manager has lost.        *)
THEOREM ShownHeld == SpecButtons => []ShownIsHeld
<1>1. Init => ShownInv
  BY DEF Init, ShownInv
<1>2. RuntimeInv /\ ShownInv => ShownIsHeld
  <2> SUFFICES ASSUME RuntimeInv, ShownInv, \A c \in Callers : At(c, "idle"), runtime.running
               PROVE  child # 0
    BY DEF ShownIsHeld
  <2>1. lock # NoCaller => lock \in Callers
    BY DEF RuntimeInv, Typed
  <2> QED BY <2>1 DEF ShownInv, At
<1> QED BY <1>1, <1>2, ShownStep, RuntimeInvariant, PTL DEF SpecButtons

(* wait_ready blames a node only for what the process it watches has said. *)
THEOREM VerdictIsOwn == Spec => []NodeVerdictIsOwn
<1>1. RuntimeInv => NodeVerdictIsOwn
  BY DEF RuntimeInv, FaultInv, NodeVerdictIsOwn, Reported
<1> QED BY <1>1, UnderLockInvariant, PTL

-----------------------------------------------------------------------------
(* Under the coordinator's lock: at most one task is in anything but       *)
(* status, and while that one stops FRPC no process has the generation.    *)
Free == {"none", "status"}

SoleInv ==
  /\ \A c \in Callers : /\ call[c].op = "none" => call[c].pc = "idle"
                        /\ call[c].op = "status" => call[c].pc \in {"status", "exited", "read"}
  /\ \A c, d \in Callers : c # d => call[c].op \in Free \/ call[d].op \in Free

SilentInv ==
  /\ \A c \in Callers : call[c].pc \in {"stop_lock", "kill"} => gen \notin Spawned
  /\ gen \notin killed

(* A task's step leaves the others alone, and its own call what it is.     *)
LEMMA OwnCall ==
  ASSUME RuntimeInv, SoleInv, NEW c \in Callers, Step(c)
  PROVE  /\ \A d \in Callers \ {c} : call'[d] = call[d]
         /\ \/ call'[c].op = call[c].op /\ call[c].op # "none"
            \/ call'[c].op = "none" /\ call'[c].pc = "idle"
         /\ call[c].op = "status" /\ call'[c].op = "status" => call'[c].pc \in {"status", "exited", "read"}
<1>1. call \in [Callers -> Calls] /\ call[c] \in Calls
  BY CallFields DEF RuntimeInv, Typed
<1>2. call[c].op # "none"
  BY DEF SoleInv, Step, StartStep, StopStep, StatusStep, WaitStep, StartLocks, StartBumps, StartClears,
         StartSpawns, SpawnFails, StopBumps, StopLocks, StopKills, StopEnds, StatusLocks, StatusWrites,
         StatusReads, WaitWatches, WaitTurns, WaitReadsFaults, WaitReadsProxies, WaitEnds, At
<1>3. ASSUME NEW l, Goto(c, l) PROVE /\ call'[c].op = call[c].op /\ call'[c].pc = l
                                     /\ \A d \in Callers \ {c} : call'[d] = call[d]
  BY <1>1, <1>3 DEF Goto, Calls
<1>4. ASSUME Return(c) PROVE /\ call'[c].op = "none" /\ call'[c].pc = "idle"
                             /\ \A d \in Callers \ {c} : call'[d] = call[d]
  BY <1>4, ReturnFacts DEF RuntimeInv
<1>5. CASE StartStep(c) \/ StopStep(c)
  <2>1. call[c].op # "status"
    BY <1>5
    DEF SoleInv, StartStep, StopStep, StartLocks, StartBumps, StartClears, StartSpawns, SpawnFails,
        StopBumps, StopLocks, StopKills, StopEnds, At
  <2>2. CASE StartBumps(c)
    BY <1>1, <1>2, <2>1, <2>2 DEF StartBumps, Calls
  <2>3. CASE StopLocks(c)
    BY <1>1, <1>2, <2>1, <2>3 DEF StopLocks, Calls
  <2>4. CASE StopEnds(c)
    <3>1. CASE call' = [call EXCEPT ![c].pc = "start", ![c].own = 0]
      BY <1>1, <1>2, <2>1, <3>1 DEF Calls
    <3> QED BY <1>4, <2>4, <3>1 DEF StopEnds
  <2>5. CASE Return(c) \/ \E l : Goto(c, l)
    BY <1>2, <1>3, <1>4, <2>1, <2>5
  <2> QED
    BY <1>5, <2>2, <2>3, <2>4, <2>5
    DEF StartStep, StopStep, StartLocks, StartClears, StartSpawns, SpawnFails, StopBumps, StopKills
<1>6. CASE StatusStep(c)
  <2>1. CASE StatusLocks(c)
    BY <1>2, <1>3, <2>1 DEF StatusLocks
  <2>2. CASE StatusWrites(c)
    BY <1>2, <1>3, <2>2 DEF StatusWrites
  <2>3. CASE StatusReads(c)
    <3>1. CASE call[c].op = "status"
      BY <1>4, <2>3, <3>1 DEF StatusReads
    <3>2. CASE call[c].op # "status"
      BY <1>1, <1>2, <2>3, <3>2 DEF StatusReads, Calls
    <3> QED BY <3>1, <3>2
  <2> QED BY <1>6, <2>1, <2>2, <2>3 DEF StatusStep
<1>7. CASE WaitStep(c)
  <2>1. call[c].op # "status"
    BY <1>7
    DEF SoleInv, WaitStep, WaitWatches, WaitTurns, WaitReadsFaults, WaitReadsProxies, WaitEnds, At
  <2>2. ASSUME NEW r, Answer(c, r) PROVE /\ call'[c].op = call[c].op
                                         /\ \A d \in Callers \ {c} : call'[d] = call[d]
    BY <1>1, <2>2 DEF Answer, Calls
  <2>3. CASE WaitWatches(c)
    BY <1>1, <1>2, <2>1, <2>3 DEF WaitWatches, Calls
  <2>4. CASE call' = [call EXCEPT ![c].pc = "turn", ![c].ready = FALSE]
    BY <1>1, <1>2, <2>1, <2>4 DEF Calls
  <2>5. CASE Return(c) \/ \E l : Goto(c, l) \/ Answer(c, l)
    BY <1>2, <1>3, <1>4, <2>1, <2>2, <2>5
  <2>6. CASE WaitReadsFaults(c)
    <3>1. \/ Answer(c, "node") \/ Answer(c, "refused") \/ Answer(c, "exited") \/ Goto(c, "proxies")
      BY <2>6 DEF WaitReadsFaults
    <3> QED BY <2>5, <3>1
  <2> QED
    BY <1>7, <2>3, <2>4, <2>5, <2>6
    DEF WaitStep, WaitTurns, WaitReadsProxies, WaitEnds
<1> QED BY <1>5, <1>6, <1>7 DEF Step

(* One task at a time: a call other than status begins when the others are *)
(* idle or ask for the status.                                             *)
LEMMA SoleStep == RuntimeInv /\ SoleInv /\ [Next]_vars => SoleInv'
<1> SUFFICES ASSUME RuntimeInv, SoleInv, [Next]_vars PROVE SoleInv'
  OBVIOUS
<1>1. CASE UNCHANGED call
  BY <1>1 DEF SoleInv
<1>2. ASSUME NEW c \in Callers, Step(c) PROVE SoleInv'
  BY <1>2, OwnCall DEF SoleInv, Free
<1>3. ASSUME NEW c \in Callers, BeginUnderLock(c) PROVE SoleInv'
  <2>1. PICK o \in {"start", "stop", "restart", "status", "wait_ready"},
             l \in {"start", "stop", "status", "watch"} :
          /\ Begin(c, o, l) /\ (o = "status" => l = "status")
          /\ o # "status" => \A d \in Callers : call[d].op \in Free
    BY <1>3 DEF BeginUnderLock, BeginLifecycle, BeginWait, BeginStatus, Free
  <2>2. call'[c].op = o /\ call'[c].pc = l /\ \A d \in Callers \ {c} : call'[d] = call[d]
    BY <2>1, CallFields DEF Begin, RuntimeInv, Typed, Calls
  <2> QED BY <2>1, <2>2 DEF SoleInv, Free
<1>4. CASE ReaderStep \/ ProcessExits
  BY <1>1, <1>4 DEF ReaderStep, ReadLine, LineWritesRuntime, LineIsRecorded, ProcessExits
<1> QED BY <1>1, <1>2, <1>3, <1>4 DEF Next, vars

(* The generation has moved on before a process is killed, and no task     *)
(* brings it back.                                                         *)
LEMMA SilentStep == RuntimeInv /\ SoleInv /\ SilentInv /\ [Next]_vars => SilentInv'
<1> SUFFICES ASSUME RuntimeInv, SoleInv, SilentInv, [Next]_vars PROVE SilentInv'
  OBVIOUS
<1>0. /\ gen \in Nat /\ gen + 1 \notin Spawned /\ gen + 1 \notin killed
      /\ call \in [Callers -> Calls] /\ killed \subseteq Spawned /\ 0 \notin Spawned
  BY DEF RuntimeInv, Typed
<1>1. CASE UNCHANGED <<gen, killed, call>> /\ Spawned' = Spawned
  BY <1>1 DEF SilentInv
<1>2. ASSUME NEW c \in Callers, Step(c) PROVE SilentInv'
  <2>1. \A d \in Callers \ {c} : call'[d] = call[d]
    BY <1>2, OwnCall
  <2>2. CASE call'[c].pc \notin {"stop_lock", "kill"} /\ UNCHANGED <<gen, said, killed>>
    BY <2>1, <2>2 DEF SilentInv, Spawned
  <2>3. CASE StartBumps(c) \/ StopBumps(c)
    BY <1>0, <2>3 DEF StartBumps, StopBumps, SilentInv, Spawned, procs
  <2>4. CASE StartSpawns(c)
    <3>1. \A d \in Callers : call'[d].pc \notin {"stop_lock", "kill"}
      <4>1. call[c].op \notin Free
        BY <2>4 DEF StartSpawns, At, SoleInv, Free
      <4>2. \A d \in Callers \ {c} : call[d].pc \notin {"stop_lock", "kill"}
        BY <4>1 DEF SoleInv, Free
      <4>3. call'[c].pc = "idle"
        BY <2>4, ReturnFacts DEF StartSpawns, RuntimeInv
      <4> QED BY <2>1, <4>2, <4>3
    <3> QED BY <2>4, <3>1 DEF StartSpawns, SilentInv
  <2>5. CASE StopLocks(c)
    <3>1. gen \notin Spawned
      BY <2>5 DEF StopLocks, SilentInv, At
    <3> QED BY <2>5, <3>1 DEF StopLocks, SilentInv, procs, Spawned
  <2>6. CASE StopKills(c)
    <3>1. gen \notin Spawned /\ call[c].own \in Spawned \cup {0}
      BY <2>6 DEF StopKills, SilentInv, At, RuntimeInv, OwnInv
    <3> QED BY <2>6, <3>1 DEF StopKills, SilentInv, locks, Spawned
  <2>7. ASSUME NEW l \in Pcs \ {"stop_lock", "kill"}, Goto(c, l)
        PROVE  call'[c].pc \notin {"stop_lock", "kill"}
    BY <2>7, GotoFacts DEF RuntimeInv
  <2>8. ASSUME Return(c) PROVE call'[c].pc \notin {"stop_lock", "kill"}
    BY <2>8, ReturnFacts DEF RuntimeInv
  <2>9. ASSUME NEW r, Answer(c, r) PROVE call'[c].pc \notin {"stop_lock", "kill"}
    BY <1>0, <2>9 DEF Answer, Calls
  <2>10. CASE StartLocks(c) \/ StartClears(c) \/ SpawnFails(c)
    BY <2>2, <2>7, <2>8, <2>10 DEF StartLocks, StartClears, SpawnFails, procs, Pcs
  <2>11. CASE StopEnds(c)
    <3>1. CASE call' = [call EXCEPT ![c].pc = "start", ![c].own = 0]
      BY <1>0, <2>2, <2>11, <3>1 DEF StopEnds, procs, Calls
    <3> QED BY <2>2, <2>8, <2>11, <3>1 DEF StopEnds, procs
  <2>12. CASE StatusStep(c)
    <3>1. UNCHANGED <<gen, said, killed>>
      BY <2>12 DEF StatusStep, StatusLocks, StatusWrites, StatusReads, procs
    <3>2. call'[c].pc \notin {"stop_lock", "kill"}
      BY <1>0, <2>7, <2>8, <2>12 DEF StatusStep, StatusLocks, StatusWrites, StatusReads, Pcs, Calls
    <3> QED BY <2>2, <3>1, <3>2
  <2>13. CASE WaitStep(c)
    <3>1. UNCHANGED <<gen, said, killed>>
      BY <2>13
      DEF WaitStep, WaitWatches, WaitTurns, WaitReadsFaults, WaitReadsProxies, WaitEnds, procs
    <3>2. CASE WaitReadsFaults(c)
      <4>1. Answer(c, "node") \/ Answer(c, "refused") \/ Answer(c, "exited") \/ Goto(c, "proxies")
        BY <3>2 DEF WaitReadsFaults
      <4> QED BY <2>2, <2>7, <2>9, <3>1, <4>1 DEF Pcs
    <3>3. CASE WaitWatches(c) \/ WaitTurns(c) \/ WaitReadsProxies(c) \/ WaitEnds(c)
      <4>1. call'[c].pc \notin {"stop_lock", "kill"}
        BY <1>0, <2>7, <2>8, <2>9, <3>3
        DEF WaitWatches, WaitTurns, WaitReadsProxies, WaitEnds, Pcs, Calls
      <4> QED BY <2>2, <3>1, <4>1
    <3> QED BY <2>13, <3>2, <3>3 DEF WaitStep
  <2> QED
    BY <1>2, <2>3, <2>4, <2>5, <2>6, <2>10, <2>11, <2>12, <2>13 DEF Step, StartStep, StopStep
<1>3. ASSUME NEW c \in Callers, BeginUnderLock(c) PROVE SilentInv'
  <2>1. PICK o \in {"start", "stop", "restart", "status", "wait_ready"},
             l \in {"start", "stop", "status", "watch"} : Begin(c, o, l)
    BY <1>3 DEF BeginUnderLock, BeginLifecycle, BeginWait, BeginStatus
  <2>2. call'[c].pc = l /\ \A d \in Callers \ {c} : call'[d] = call[d]
    BY <1>0, <2>1 DEF Begin, Calls
  <2> QED BY <2>1, <2>2 DEF Begin, SilentInv, procs, Spawned
<1>4. CASE ReaderStep \/ ProcessExits
  <2>1. ASSUME NEW s \in Readers, NEW text \in Lines, ReadLine(s, text) PROVE Spawned' = Spawned
    BY <2>1 DEF ReadLine, RuntimeInv, Typed, Spawned
  <2>2. UNCHANGED <<gen, killed, call>>
    BY <1>4 DEF ReaderStep, ReadLine, LineWritesRuntime, LineIsRecorded, ProcessExits, procs
  <2>3. Spawned' = Spawned
    BY <1>4, <2>1 DEF ReaderStep, LineWritesRuntime, LineIsRecorded, ProcessExits, Spawned
  <2> QED BY <1>1, <2>2, <2>3
<1> QED BY <1>1, <1>2, <1>3, <1>4 DEF Next, vars, Spawned

(* The lines of a process that was stopped do not count, when stops and    *)
(* starts come one at a time.                                              *)
THEOREM Silent == Spec => []StoppedIsSilent
<1>1. Init => SoleInv /\ SilentInv
  BY DEF Init, NoCall, SoleInv, SilentInv, Free
<1>2. SilentInv => StoppedIsSilent
  BY DEF SilentInv, StoppedIsSilent
<1> QED BY <1>1, <1>2, UnderLockInvariant, SoleStep, SilentStep, PTL DEF Spec
=============================================================================
